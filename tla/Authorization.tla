---------------------------- MODULE Authorization ----------------------------
(***************************************************************************)
(* Who may use a servlet: Authorization and AuthorizationManager of        *)
(* src/src/authorization.cpp.  A servlet is guarded by a file of names and *)
(* passwords, which is looked at again at each request: when its time has  *)
(* changed it is read again, under the manager's mutex, on top of what was *)
(* read before.  The file is rewritten meanwhile; its time has a           *)
(* resolution of a second.                                                 *)
(***************************************************************************)
EXTENDS Integers

CONSTANTS
    Askers,     \* requests that are handled at the same time
    People,     \* names
    Passwords,
    MaxMtime    \* bound: how often the time of the file changes

ASSUME AuthAssumption == MaxMtime \in Nat /\ 0 \notin Passwords

VARIABLES
    there,      \* the file exists
    wrote,      \* its password of each person, or 0
    st_mtime,   \* its time
    unseen,     \* it has been rewritten without changing its time
    listed_,    \* m_authorizations has an entry for the servlet
    m_mtime, m_passwds,     \* its Authorization
    auth_at,       \* where each request is
    who, password_, \* the name it gives, and the password
    lst         \* the time its __lstat has seen

passwdVars == <<there, wrote, st_mtime, unseen>>
entryVars == <<listed_, m_mtime, m_passwds>>
askVars == <<auth_at, who, password_, lst>>
authVars == <<passwdVars, entryVars, askVars>>

NoNames == [p \in People |-> 0]

(* add(): the servlet is entered when its file can be read.                *)
AuthInit ==
    /\ there = TRUE /\ unseen = FALSE /\ st_mtime = 1
    /\ wrote \in [People -> Passwords \cup {0}] \ {NoNames}
    /\ listed_ = TRUE /\ m_mtime = 1 /\ m_passwds = wrote
    /\ auth_at = [r \in Askers |-> "out"]
    /\ who = [r \in Askers |-> CHOOSE p \in People : TRUE]
    /\ password_ = [r \in Askers |-> CHOOSE p \in Passwords : TRUE]
    /\ lst = [r \in Askers |-> 0]

-----------------------------------------------------------------------------
(* The file is rewritten, in the same second or later, or removed.         *)
RewriteFile ==
    /\ wrote' \in [People -> Passwords \cup {0}]
    /\ there' = TRUE
    /\ \/ unseen' = TRUE /\ UNCHANGED st_mtime
       \/ st_mtime < MaxMtime /\ st_mtime' = st_mtime + 1 /\ unseen' = FALSE
    /\ UNCHANGED <<entryVars, askVars>>
RemoveFile ==
    /\ there /\ there' = FALSE
    /\ UNCHANGED <<wrote, st_mtime, unseen, entryVars, askVars>>

-----------------------------------------------------------------------------
(***************************************************************************)
(* get() and its init(): the mutex is held from the __lstat to the end of  *)
(* the reading                                                             *)
(***************************************************************************)
Goes_(r, place) == auth_at' = [auth_at EXCEPT ![r] = place]
NoLock == \A r \in Askers : auth_at[r] # "read"

get(r) ==
    /\ auth_at[r] = "out" /\ NoLock
    /\ \E p \in People, w \in Passwords : who' = [who EXCEPT ![r] = p] /\ password_' = [password_ EXCEPT ![r] = w]
    /\ lst' = [lst EXCEPT ![r] = st_mtime]
    /\ CASE ~ listed_ -> Goes_(r, "unguarded") /\ UNCHANGED listed_
         [] listed_ /\ ~ there -> Goes_(r, "unguarded") /\ listed_' = FALSE
         [] listed_ /\ there /\ m_mtime = st_mtime -> Goes_(r, "check") /\ UNCHANGED listed_
         [] OTHER -> Goes_(r, "read") /\ UNCHANGED listed_
    /\ UNCHANGED <<passwdVars, m_mtime, m_passwds>>

(* Mutant: a name that is known keeps its password.                        *)
FirstRead(p) == IF there /\ wrote[p] # 0 /\ m_passwds[p] = 0 THEN wrote[p] ELSE m_passwds[p]

(* The lines of the file; the entries they do not name stay.  Meanwhile it *)
(* may have been rewritten, or removed: then there are none.               *)
ReadOver(p) == IF there /\ wrote[p] # 0 THEN wrote[p] ELSE m_passwds[p]

(* The time that is kept is the one that was seen before the reading.      *)
init(r) ==
    /\ auth_at[r] = "read"
    /\ m_passwds' = [p \in People |-> ReadOver(p)]
    /\ m_mtime' = lst[r]
    /\ Goes_(r, "check")
    /\ UNCHANGED <<passwdVars, listed_, who, password_, lst>>

(* check(), of what m_passwds has by then.                                 *)
check(r) ==
    /\ auth_at[r] = "check"
    /\ Goes_(r, IF m_passwds[who[r]] = password_[r] THEN "granted" ELSE "refused")
    /\ UNCHANGED <<passwdVars, entryVars, who, password_, lst>>

Finish(r) ==
    /\ auth_at[r] \in {"granted", "refused", "unguarded"}
    /\ Goes_(r, "out")
    /\ UNCHANGED <<passwdVars, entryVars, who, password_, lst>>

AuthNext ==
    \/ RewriteFile \/ RemoveFile
    \/ \E r \in Askers : get(r) \/ init(r) \/ check(r) \/ Finish(r)

AuthSpec == AuthInit /\ [][AuthNext]_authVars

-----------------------------------------------------------------------------
(* When the file's time is the one that was read, every password in it is  *)
(* the one that is compared, unless two versions have the same time: no    *)
(* change is taken for read that was made while the file was being read.   *)
(* A name that was taken out of the file keeps its password.               *)
FileKnown ==
    listed_ /\ there /\ m_mtime = st_mtime /\ ~ unseen =>
        \A p \in People : wrote[p] # 0 => m_passwds[p] = wrote[p]
=============================================================================
