----------------------------- MODULE ConfigVar -----------------------------
(***************************************************************************)
(* Config and ConfigManager (config.h, config.cpp): parameters are made    *)
(* on the first get() of their name, and setValue() tells the listeners of *)
(* a change before it stores the value.                                    *)
(*                                                                         *)
(* A parameter is the number of its Config object; it is kept under its    *)
(* name in lower case, but looked for under the name as it is asked for.   *)
(* A listener keeps the value it was told, as hook.cpp and http_parse.cpp  *)
(* do.  Each thread is in one call at a time; a value is the default that  *)
(* the caller of get() gives, or one that is set.                          *)
(***************************************************************************)
EXTENDS Integers, SequencesExt

CONSTANTS
    Setters,    \* threads
    Keys,       \* names of parameters, in lower case
    Settings,   \* values of parameters
    Listeners,  \* callbacks
    MaxObjects  \* bound: Config objects made

(* A parameter is made with a default.                                     *)
ASSUME ConfigAssumption == Settings # {}

VARIABLES
    m_datas,    \* the object under each name; 0: none
    m_val,      \* the value of each object
    m_cbs,      \* the callbacks of each object, in order
    last,       \* the value each listener keeps, for each object
    told,       \* history: the values it was told, or has read
    op,         \* each thread's place: free, notify, store
    target,     \* the object it sets,
    v,          \* to this value,
    i,          \* and the callback it has come to
    given,      \* history: the objects handed out for each name, however written,
    cased,      \* and the names that have been written with capitals
    missed,     \* history: listeners added between a change's callbacks and its end
    mixed       \* history: objects two threads were setting at a time

configVars == <<m_datas, m_val, m_cbs, last, told, op, target, v, i, given, cased, missed, mixed>>

Objects == DOMAIN m_val
Reading(o) == \E t \in Setters : op[t] = "notify" /\ target[t] = o
Busy(o)    == \E t \in Setters : op[t] # "free" /\ target[t] = o

(* What a thread that is in no call keeps in v, without a meaning.         *)
AnyValue == CHOOSE x \in Settings : TRUE

ConfigInit ==
    /\ m_datas = [k \in Keys |-> 0]
    /\ m_val = <<>> /\ m_cbs = <<>> /\ last = <<>> /\ told = <<>>
    /\ op = [t \in Setters |-> "free"]
    /\ target = [t \in Setters |-> 0]
    /\ v = [t \in Setters |-> AnyValue]
    /\ i = [t \in Setters |-> 0]
    /\ given = [k \in Keys |-> {}] /\ cased = {}
    /\ missed = {} /\ mixed = {}

-----------------------------------------------------------------------------
(* get(name, default), under the manager's write lock.  A name with        *)
(* capitals is never found, and what is made for it takes the place of     *)
(* what was there under the same name in lower case.                       *)
Known(k) == m_datas[k] # 0

Get(k, capitals, default) ==
    /\ IF ~ capitals /\ Known(k)
       THEN /\ UNCHANGED <<m_datas, m_val, m_cbs, last, told>>
            /\ given' = [given EXCEPT ![k] = @ \cup {m_datas[k]}]
       ELSE /\ Len(m_val) < MaxObjects
            /\ m_val' = Append(m_val, default)
            /\ m_cbs' = Append(m_cbs, <<>>)
            /\ last' = Append(last, [l \in Listeners |-> default])
            /\ told' = Append(told, [l \in Listeners |-> {}])
            /\ m_datas' = [m_datas EXCEPT ![k] = Len(m_val')]
            /\ given' = [given EXCEPT ![k] = @ \cup {Len(m_val')}]
    /\ cased' = IF capitals THEN cased \cup {k} ELSE cased
    /\ UNCHANGED <<op, target, v, i, missed, mixed>>

(* addCallback() by one who has read the value before.                     *)
AddCallback(o, l) ==
    /\ l \notin ToSet(m_cbs[o]) /\ ~ Reading(o)
    /\ m_cbs' = [m_cbs EXCEPT ![o] = Append(@, l)]
    /\ last' = [last EXCEPT ![o][l] = m_val[o]]
    /\ told' = [told EXCEPT ![o][l] = {m_val[o]}]
    /\ missed' = IF Busy(o) THEN missed \cup {<<o, l>>} ELSE missed
    /\ UNCHANGED <<m_datas, m_val, op, target, v, i, given, cased, mixed>>

ClearCallback(o) ==
    /\ m_cbs[o] # <<>> /\ ~ Reading(o)
    /\ m_cbs' = [m_cbs EXCEPT ![o] = <<>>]
    /\ UNCHANGED <<m_datas, m_val, last, told, op, target, v, i, given, cased, missed, mixed>>

-----------------------------------------------------------------------------
(* setValue(), on a parameter the caller was given, or, from load(), on    *)
(* the one under a name.                                                   *)
SetValue(t, o, new) ==
    /\ op[t] = "free" /\ new # m_val[o]
    /\ op' = [op EXCEPT ![t] = "notify"]
    /\ target' = [target EXCEPT ![t] = o]
    /\ v' = [v EXCEPT ![t] = new]
    /\ i' = [i EXCEPT ![t] = 1]
    /\ mixed' = IF Busy(o) THEN mixed \cup {o} ELSE mixed
    /\ UNCHANGED <<m_datas, m_val, m_cbs, last, told, given, cased, missed>>

(* One callback, under the read lock.                                      *)
Tell(t) ==
    LET o == target[t]
        l == m_cbs[o][i[t]] IN
    /\ op[t] = "notify" /\ i[t] <= Len(m_cbs[o])
    /\ last' = [last EXCEPT ![o][l] = v[t]]
    /\ told' = [told EXCEPT ![o][l] = @ \cup {v[t]}]
    /\ i' = [i EXCEPT ![t] = @ + 1]
    /\ UNCHANGED <<m_datas, m_val, m_cbs, op, target, v, given, cased, missed, mixed>>

(* Mutant: the first callback is enough.                                   *)
FirstTold(t) == i[t] > 1 \/ m_cbs[target[t]] = <<>>

(* The read lock is released.                                              *)
AllTold(t) == i[t] > Len(m_cbs[target[t]])

Release(t) ==
    /\ op[t] = "notify" /\ AllTold(t)
    /\ op' = [op EXCEPT ![t] = "store"]
    /\ UNCHANGED <<m_datas, m_val, m_cbs, last, told, target, v, i, given, cased, missed, mixed>>

(* The value is stored, and the call with its target, v and i is over.     *)
StoreValue(t) ==
    /\ op[t] = "store" /\ ~ Reading(target[t])
    /\ m_val' = [m_val EXCEPT ![target[t]] = v[t]]
    /\ op' = [op EXCEPT ![t] = "free"]
    /\ target' = [target EXCEPT ![t] = 0]
    /\ v' = [v EXCEPT ![t] = AnyValue] /\ i' = [i EXCEPT ![t] = 0]
    /\ UNCHANGED <<m_datas, m_cbs, last, told, given, cased, missed, mixed>>

ConfigNext ==
    \/ \E k \in Keys, capitals \in BOOLEAN, default \in Settings : Get(k, capitals, default)
    \/ \E o \in Objects : \/ \E l \in Listeners : AddCallback(o, l)
                          \/ ClearCallback(o)
                          \/ \E t \in Setters, new \in Settings : SetValue(t, o, new)
    \/ \E t \in Setters : Tell(t) \/ Release(t) \/ StoreValue(t)

ConfigSpec == ConfigInit /\ [][ConfigNext]_configVars

-----------------------------------------------------------------------------
(* What a parameter holds was told to each of its listeners, before it was *)
(* stored, and is the last they were told once all changes are over: unless *)
(* a listener came between a change's callbacks and its end, or, for the   *)
(* second, two threads changed the parameter at a time.  All who ask for a *)
(* name are given the parameter that load() sets, if all write it in lower *)
(* case.                                                                   *)
Told(o, l) == l \in ToSet(m_cbs[o]) /\ <<o, l>> \notin missed
ListenersAgree ==
    /\ \A o \in Objects, l \in Listeners : Told(o, l) =>
          /\ m_val[o] \in told[o][l]
          /\ ~ Busy(o) /\ o \notin mixed => last[o][l] = m_val[o]
    /\ \A k \in Keys \ cased : given[k] \subseteq {m_datas[k]}

(* "If the value has changed, the callbacks are notified" (config.h:987):  *)
(* the same without the exceptions, when no change is under way.  First if *)
(* only one thread changes the parameter, then if nobody adds a callback   *)
(* during a change.                                                        *)
LateListenersToldToo ==
    \A o \in Objects \ mixed : ~ Busy(o) =>
        \A l \in ToSet(m_cbs[o]) : last[o][l] = m_val[o]
LastToldIsStored ==
    \A o \in Objects : ~ Busy(o) =>
        \A l \in Listeners : Told(o, l) => last[o][l] = m_val[o]

(* "Names do not depend on the case of their letters" (config.h:863): all  *)
(* who ask for a name are given one parameter, and load() sets it.         *)
NamesIgnoreCase == \A k \in Keys : given[k] \subseteq {m_datas[k]}
=============================================================================
