------------------------------- MODULE Daemon -------------------------------
(***************************************************************************)
(* The daemon and the process it keeps running (server.cpp, process.cpp,   *)
(* bifang.cpp).  The file of system.pid_file names the last process that   *)
(* came to main(); invocations with -s and -r send signals to it.          *)
(*                                                                         *)
(* An invocation has a number, a process that runs main() has another,     *)
(* which is not used twice.  Signals have a signal's usual effect: ended   *)
(* by it, unless a handler is set.                                         *)
(***************************************************************************)
EXTENDS Integers, FiniteSets

CONSTANTS
    Invocations, \* of the program without -s and -r
    MaxForks,    \* bound: processes that run main()
    MaxSignals,  \* bound: invocations with -s or -r that send a signal
    MaxCrashes   \* bound: processes that end by themselves with an error

ASSUME DaemonAssumption == MaxForks \in Nat /\ MaxSignals \in Nat /\ MaxCrashes \in Nat

Pids == 1 .. MaxForks
NoPid == 0

VARIABLES
    has_d,     \* each invocation: with -d?
    at,        \* where each is: not begun, refused, forking, waiting, sleeping, ended
    child,     \* the process each waits for, or is
    place,     \* where each process is
    exited,    \* the status waitpid() will give, or gave
    pidfile,   \* the file's content, NoPid: it is not there
    port,      \* the process that has bound the servers' address
    signals, crashes, \* how many there have been
    raced,     \* history: two invocations have both found no process running
    stopped    \* history: the processes that a -s has stopped

daemonVars == <<has_d, at, child, place, exited, pidfile, port, signals, crashes, raced, stopped>>

Active   == {i \in Invocations : at[i] \in {"forking", "waiting", "sleeping"}}
Living   == {p \in Pids : place[p] \in {"forked", "named", "ready", "serving"}}
(* kill(pid, 0) finds a process that has not been waited for.              *)
Found(p) == p \in {q \in Pids : q \in Living \/ place[q] = "zombie"}

DaemonInit ==
    /\ at = [i \in Invocations |-> "none"]
    /\ child = [i \in Invocations |-> NoPid]
    /\ place = [p \in Pids |-> "unused"]
    /\ exited = [p \in Pids |-> "0"]
    /\ pidfile = NoPid /\ port = NoPid
    /\ signals = 0 /\ crashes = 0
    /\ raced = FALSE /\ stopped = {}

-----------------------------------------------------------------------------
(* init(): the invocation ends here if CheckPidfile finds a process.       *)
Invoke(i) ==
    /\ at[i] = "none"
    /\ at' = [at EXCEPT ![i] = IF Found(pidfile) THEN "refused" ELSE "forking"]
    /\ raced' = (raced \/ (~ Found(pidfile) /\ (Active # {} \/ Living # {})))
    /\ UNCHANGED <<has_d, child, place, exited, pidfile, port, signals, crashes, stopped>>

(* fork(), or the call of main() by an invocation without -d.              *)
Fork(i) ==
    /\ at[i] = "forking"
    /\ \E p \in Pids :
          /\ place[p] = "unused" /\ \A q \in 1 .. p - 1 : place[q] # "unused"
          /\ place' = [place EXCEPT ![p] = "forked"]
          /\ child' = [child EXCEPT ![i] = p]
    /\ at' = [at EXCEPT ![i] = "waiting"]
    /\ UNCHANGED <<has_d, exited, pidfile, port, signals, crashes, raced, stopped>>

ForkFails(i) ==
    /\ at[i] = "forking" /\ has_d[i]
    /\ at' = [at EXCEPT ![i] = "ended"]
    /\ UNCHANGED <<has_d, child, place, exited, pidfile, port, signals, crashes, raced, stopped>>

(* Mutant: a stop is taken for a crash.                                    *)
EndsIfFinished(status) == status = "0"

(* waitpid() and what daemonStart does with the status; without -d, the    *)
(* shell waits and nothing is removed.                                     *)
Ends(status) == status \in {"0", "SIGUSR2"}

WaitChild(i) ==
    LET p == child[i] IN
    /\ at[i] = "waiting" /\ place[p] = "zombie"
    /\ place' = [place EXCEPT ![p] = "gone"]
    /\ at' = [at EXCEPT ![i] = IF Ends(exited[p]) \/ ~ has_d[i] THEN "ended" ELSE "sleeping"]
    /\ pidfile' = IF Ends(exited[p]) /\ has_d[i] THEN NoPid ELSE pidfile
    /\ UNCHANGED <<has_d, child, exited, port, signals, crashes, raced, stopped>>

(* sleep(restart_interval) is over.                                        *)
Restart(i) ==
    /\ at[i] = "sleeping"
    /\ at' = [at EXCEPT ![i] = "forking"]
    /\ UNCHANGED <<has_d, child, place, exited, pidfile, port, signals, crashes, raced, stopped>>

-----------------------------------------------------------------------------
Exit(p, status) ==
    /\ place' = [place EXCEPT ![p] = "zombie"]
    /\ exited' = [exited EXCEPT ![p] = status]
    /\ port' = IF port = p THEN NoPid ELSE port

(* Mutant: a file that is there is left as it is.                          *)
NamesOnce(p) == IF pidfile = NoPid THEN p ELSE pidfile

(* main(): the file is opened for writing, whatever it holds.              *)
Names(p) == p

WritePid(p) ==
    /\ place[p] = "forked"
    /\ place' = [place EXCEPT ![p] = "named"]
    /\ pidfile' = Names(p)
    /\ UNCHANGED <<has_d, at, child, exited, port, signals, crashes, raced, stopped>>

(* The file cannot be opened: main() returns false.                        *)
WritePidFails(p) ==
    /\ place[p] = "forked"
    /\ Exit(p, "0")
    /\ UNCHANGED <<has_d, at, child, pidfile, signals, crashes, raced, stopped>>

(* sigaction(SIGUSR1).                                                     *)
SetHandler(p) ==
    /\ place[p] = "named"
    /\ place' = [place EXCEPT ![p] = "ready"]
    /\ UNCHANGED <<has_d, at, child, exited, pidfile, port, signals, crashes, raced, stopped>>

(* main_fiber(): the modules are loaded and the addresses bound.           *)
Bind(p) ==
    /\ place[p] = "ready" /\ port = NoPid
    /\ place' = [place EXCEPT ![p] = "serving"]
    /\ port' = p
    /\ UNCHANGED <<has_d, at, child, exited, pidfile, signals, crashes, raced, stopped>>

(* An onLoad() fails, the configuration is wrong, the address is in use:   *)
(* _exit(0).                                                               *)
MainFails(p) ==
    /\ place[p] = "ready"
    /\ Exit(p, "0")
    /\ UNCHANGED <<has_d, at, child, pidfile, signals, crashes, raced, stopped>>

Crash(p) ==
    /\ p \in Living /\ crashes < MaxCrashes
    /\ crashes' = crashes + 1
    /\ Exit(p, "error")
    /\ UNCHANGED <<has_d, at, child, pidfile, signals, raced, stopped>>

-----------------------------------------------------------------------------
(* -s: an invocation that finds the process sends SIGUSR2.                 *)
SendStop ==
    /\ Found(pidfile) /\ signals < MaxSignals
    /\ signals' = signals + 1
    /\ IF pidfile \in Living
       THEN Exit(pidfile, "SIGUSR2") /\ stopped' = stopped \cup {pidfile}
       ELSE UNCHANGED <<place, exited, port, stopped>>
    /\ UNCHANGED <<has_d, at, child, pidfile, crashes, raced>>

(* -r: SIGUSR1, which ends a process that has set no handler yet.          *)
SendReopen ==
    /\ Found(pidfile) /\ signals < MaxSignals
    /\ signals' = signals + 1
    /\ IF pidfile \in Living /\ place[pidfile] \in {"forked", "named"}
       THEN Exit(pidfile, "SIGUSR1")
       ELSE UNCHANGED <<place, exited, port>>
    /\ UNCHANGED <<has_d, at, child, pidfile, crashes, raced, stopped>>

DaemonStep(i) == Fork(i) \/ ForkFails(i) \/ WaitChild(i) \/ Restart(i)
DaemonNext ==
    \/ \E i \in Invocations : Invoke(i) \/ DaemonStep(i)
    \/ \E p \in Pids : \/ WritePid(p) \/ WritePidFails(p) \/ SetHandler(p)
                       \/ Bind(p) \/ MainFails(p) \/ Crash(p)
    \/ SendStop \/ SendReopen

DaemonSpec == DaemonInit /\ has_d \in [Invocations -> BOOLEAN] /\ [][DaemonNext]_daemonVars

-----------------------------------------------------------------------------
(* Unless a second invocation began before the first one's process had     *)
(* written its number, or while no process was there to be found (between  *)
(* a crash and the restart), -s and -r reach the server: it is the one     *)
(* process, its number is in the file from main() on, and its parent waits *)
(* for it.                                                                 *)
Reachable ==
    raced \/ \A p \in Living :
        /\ \E i \in Invocations : child[i] = p /\ at[i] = "waiting"
        /\ Living = {p}
        /\ place[p] # "forked" => pidfile = p
        /\ port \in {NoPid, p}

(* A process that ends has a successor unless its daemon ends too, and the *)
(* stop of a process is the end of its daemon, whatever other invocations  *)
(* do.                                                                     *)
Left(i) == at[i] = "waiting" /\ child[i] \notin Living
Supervised ==
    \A i \in Invocations :
        /\ Left(i) ~> at[i] = "ended" \/ (at[i] = "waiting" /\ child[i] \in Living)
        /\ child[i] \in stopped ~> at[i] = "ended" /\ child[i] \in stopped
=============================================================================
