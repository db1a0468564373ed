------------------------------ MODULE Servlets ------------------------------
(***************************************************************************)
(* ServletDispatch of src/src/http/servlet.cpp: which servlet gets a       *)
(* request.  A table of paths is asked first, then a list of patterns, the *)
(* first that matches wins; each is asked under a read lock of its own,    *)
(* while modules that are loaded and unloaded on other threads add and     *)
(* delete entries under the write lock.                                    *)
(***************************************************************************)
EXTENDS Integers, SequencesExt

CONSTANTS
    Lookups,    \* requests that are handled at the same time
    Uris,       \* paths
    Globs,      \* patterns
    GlobMatches,\* which paths each of them matches, as by fnmatch
    Servlets_,
    m_default   \* answers 404

ASSUME ServletAssumption == Uris # {} /\ GlobMatches \in [Globs -> SUBSET Uris] /\ m_default \notin Servlets_

VARIABLES
    servlet_datas,    \* the servlet of each path, or m_default for none
    m_globs,    \* sequence of <<pattern, servlet>>
    lookup_at,      \* where each request is
    path_,      \* its path
    servlet,    \* what has been found
    covered,    \* which of the two has had an entry for it all the time
    choices     \* the servlets that were right at some moment

dispatchVars == <<servlet_datas, m_globs>>
lookupVars == <<lookup_at, path_, servlet>>
servletVars == <<dispatchVars, lookupVars, covered, choices>>

ServletInit ==
    /\ servlet_datas = [u \in Uris |-> m_default]
    /\ m_globs = <<>>
    /\ lookup_at = [r \in Lookups |-> "out"]
    /\ path_ = [r \in Lookups |-> CHOOSE u \in Uris : TRUE]
    /\ servlet = [r \in Lookups |-> m_default]
    /\ covered = [r \in Lookups |-> {}]
    /\ choices = [r \in Lookups |-> {}]

(* What the tables say of a path: which of them know it, and the answer.   *)
FirstGlob(globs, u) == SelectInSeq(globs, LAMBDA g : u \in GlobMatches[g[1]])
Covers(datas, globs, u) ==
    {k \in {"path", "glob"} : IF k = "path" THEN datas[u] # m_default ELSE FirstGlob(globs, u) # 0}
getServlet(datas, u) == datas[u]
getGlobServlet(globs, u) == IF FirstGlob(globs, u) = 0 THEN m_default ELSE globs[FirstGlob(globs, u)][2]
Wins(datas, globs, u) ==
    IF datas[u] # m_default THEN getServlet(datas, u) ELSE getGlobServlet(globs, u)

-----------------------------------------------------------------------------
(***************************************************************************)
(* Modules                                                                 *)
(***************************************************************************)
TablesChanged ==
    /\ covered' = [r \in Lookups |-> covered[r] \cap Covers(servlet_datas', m_globs', path_[r])]
    /\ choices' = [r \in Lookups |->
                      IF lookup_at[r] = "out" THEN {} ELSE choices[r] \cup {Wins(servlet_datas', m_globs', path_[r])}]
    /\ UNCHANGED lookupVars

addServlet(u, s) == servlet_datas' = [servlet_datas EXCEPT ![u] = s] /\ UNCHANGED m_globs /\ TablesChanged
delServlet(u) == servlet_datas' = [servlet_datas EXCEPT ![u] = m_default] /\ UNCHANGED m_globs /\ TablesChanged

(* A pattern that is added again goes to the end.                          *)
GlobsWithout(g) == RemoveFirstMatch(m_globs, LAMBDA e : e[1] = g)
addGlobServlet(g, s) == m_globs' = Append(GlobsWithout(g), <<g, s>>) /\ UNCHANGED servlet_datas /\ TablesChanged
delGlobServlet(g) == m_globs' = GlobsWithout(g) /\ UNCHANGED servlet_datas /\ TablesChanged

-----------------------------------------------------------------------------
(***************************************************************************)
(* getMatchedServlet, for handle() and for the messages of a WebSocket     *)
(***************************************************************************)
Asked(r, u) ==
    /\ lookup_at[r] = "out"
    /\ lookup_at' = [lookup_at EXCEPT ![r] = "path"]
    /\ path_' = [path_ EXCEPT ![r] = u]
    /\ servlet' = [servlet EXCEPT ![r] = m_default]
    /\ covered' = [covered EXCEPT ![r] = Covers(servlet_datas, m_globs, u)]
    /\ choices' = [choices EXCEPT ![r] = {Wins(servlet_datas, m_globs, u)}]
    /\ UNCHANGED dispatchVars

(* Mutant: the patterns are asked first.                                   *)
ByPathLast(r) ==
    /\ lookup_at[r] = "path"
    /\ servlet' = [servlet EXCEPT ![r] = getGlobServlet(m_globs, path_[r])]
    /\ lookup_at' = [lookup_at EXCEPT ![r] = IF servlet'[r] # m_default THEN "found" ELSE "glob"]
    /\ UNCHANGED <<dispatchVars, path_, covered, choices>>

ByPath(r) ==
    /\ lookup_at[r] = "path"
    /\ servlet' = [servlet EXCEPT ![r] = getServlet(servlet_datas, path_[r])]
    /\ lookup_at' = [lookup_at EXCEPT ![r] = IF servlet'[r] # m_default THEN "found" ELSE "glob"]
    /\ UNCHANGED <<dispatchVars, path_, covered, choices>>

ByGlob(r) ==
    /\ lookup_at[r] = "glob"
    /\ servlet' = [servlet EXCEPT ![r] = getGlobServlet(m_globs, path_[r])]
    /\ lookup_at' = [lookup_at EXCEPT ![r] = "found"]
    /\ UNCHANGED <<dispatchVars, path_, covered, choices>>

(* handle() of the servlet, after which the request is forgotten.          *)
handle(r) ==
    /\ lookup_at[r] = "found"
    /\ lookup_at' = [lookup_at EXCEPT ![r] = "out"]
    /\ covered' = [covered EXCEPT ![r] = {}] /\ choices' = [choices EXCEPT ![r] = {}]
    /\ UNCHANGED <<dispatchVars, path_, servlet>>

ServletNext ==
    \/ \E u \in Uris, s \in Servlets_ : addServlet(u, s) \/ delServlet(u)
    \/ \E g \in Globs, s \in Servlets_ : addGlobServlet(g, s) \/ delGlobServlet(g)
    \/ \E r \in Lookups : (\E u \in Uris : Asked(r, u)) \/ ByPath(r) \/ ByGlob(r) \/ handle(r)

ServletSpec == ServletInit /\ [][ServletNext]_servletVars

-----------------------------------------------------------------------------
(* A request whose path has an entry in the table all the time, or matches *)
(* some pattern all the time, is not answered by 404, whatever is added,   *)
(* deleted or added again meanwhile.                                       *)
NeverLost == \A r \in Lookups : lookup_at[r] = "found" /\ servlet[r] = m_default => covered[r] = {}

(* A path that has an entry in the table all the time gets a servlet it    *)
(* had at some moment, never that of a pattern.                            *)
ServletRight ==
    \A r \in Lookups : lookup_at[r] = "found" /\ "path" \in covered[r] => servlet[r] \in choices[r]
DispatchRight == NeverLost /\ ServletRight

(* The default servlet is "used when no path has matched" (servlet.h:205): *)
(* it answers only if at some moment neither table had another.            *)
DefaultIfNoneMatched ==
    \A r \in Lookups : lookup_at[r] = "found" /\ servlet[r] = m_default => m_default \in choices[r]
=============================================================================
