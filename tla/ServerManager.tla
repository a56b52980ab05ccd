---------------------------- MODULE ServerManager ---------------------------
(***************************************************************************)
(* The manager of a local OpenAI-compatible server                         *)
(* (local_data_plane/server_manager.py).                                   *)
(*                                                                         *)
(* start returns the recorded server when it is the one asked for and      *)
(* healthy; otherwise it stops the recorded one, starts a child, waits     *)
(* until it is healthy and then records it in connection.json.  stop       *)
(* sends SIGTERM to the recorded pid and removes the record; only a child  *)
(* of its own is waited for, and killed when it does not end.  A manager   *)
(* lives in a process of its own and may die at any step; a server may die *)
(* by itself or ignore SIGTERM, and the operating system gives the pid of  *)
(* a process that has ended and been waited for to another one.            *)
(***************************************************************************)
EXTENDS Naturals, FiniteSets

CONSTANTS Managers,   \* processes that hold a ServerManager
          Pids,       \* process ids
          Specs,      \* what a server is started for: model, backend, quantization
          NoPid       \* no server recorded

VARIABLES connection,  \* connection.json: [pid, spec]; NoPid when there is none
          proc,        \* what runs under each pid
          manager,     \* what each manager is doing
          children,    \* _processes: the children of each not yet waited for
          abandoned    \* servers left running without a record, see LeftRunning

mgrVars == <<connection, proc, manager, children, abandoned>>

\* NoPid stands for what is missing.
ASSUME ServerManagerAssumption == NoPid \notin Pids \cup Specs

NoServer == [pid |-> NoPid, spec |-> NoPid]
\* free: no process; booting, ready: a server; ending: a server that was sent
\* SIGTERM; foreign: a process that is not a server.
ProcStates == {"free", "booting", "ready", "ending", "foreign"}
Servers == {p \in Pids : proc[p] \in {"booting", "ready"}}
MgrIdle == [at |-> "idle", spec |-> NoPid, pid |-> NoPid, again |-> FALSE, raced |-> FALSE]

MgrTypeOK ==
    /\ connection \in [pid : Pids \cup {NoPid}, spec : Specs \cup {NoPid}]
    /\ proc \in [Pids -> ProcStates]
    /\ manager \in [Managers -> [at : {"idle", "stop", "spawn", "poll", "record", "signal", "unlink"},
                                 spec : Specs \cup {NoPid}, pid : Pids \cup {NoPid},
                                 again : BOOLEAN, raced : BOOLEAN]]
    /\ children \in [Managers -> SUBSET Pids]
    /\ abandoned \subseteq Pids

MgrInit ==
    /\ connection = NoServer
    /\ proc = [p \in Pids |-> "free"]
    /\ manager = [m \in Managers |-> MgrIdle]
    /\ children = [m \in Managers |-> {}]
    /\ abandoned = {}

MgrAt(m, a) == manager[m].at = a
MgrGo(m, a) == manager' = [manager EXCEPT ![m].at = a]
MgrEnd(m) == manager' = [manager EXCEPT ![m] = MgrIdle]

\* A manager begins; it and those at work race.
MgrBegin(m, op) ==
    LET others == {k \in Managers \ {m} : ~MgrAt(k, "idle")}
    IN /\ MgrAt(m, "idle")
       /\ manager' = [k \in Managers |->
              CASE k = m -> [op EXCEPT !.raced = others # {}]
                [] k \in others -> [manager[k] EXCEPT !.raced = TRUE]
                [] OTHER -> manager[k]]

\* These pids' servers go on with nobody to record or to stop them.
LeftRunning(pids) == abandoned' = abandoned \cup (pids \cap Servers)

\* The server that is recorded by now, if a race makes the manager lose it.
LostInRace(m, but) == IF manager[m].raced THEN {connection.pid} \ but ELSE {}

\* No process has this pid, a dead child that was not waited for included.
FreePid(p) == proc[p] = "free" /\ \A m \in Managers : p \notin children[m]

Healthy(c) == c.pid # NoPid /\ proc[c.pid] = "ready"

\* Mutant: a recorded server is left running when another one is asked for.
StartWithoutStop(m, s) ==
    /\ ~(connection.spec = s /\ Healthy(connection))
    /\ MgrBegin(m, [MgrIdle EXCEPT !.at = "spawn", !.spec = s])
    /\ UNCHANGED <<connection, proc, children, abandoned>>

\* start, unless the recorded server is returned.
StartServer(m, s) ==
    /\ ~(connection.spec = s /\ Healthy(connection))
    /\ MgrBegin(m, [MgrIdle EXCEPT !.at = IF connection = NoServer THEN "spawn" ELSE "stop",
                                   !.spec = s, !.again = TRUE])
    /\ UNCHANGED <<connection, proc, children, abandoned>>

\* stop, called by start: it reads the record again.
StopFirst(m) ==
    /\ MgrAt(m, "stop")
    /\ manager' = [manager EXCEPT ![m].at = IF connection = NoServer THEN "spawn" ELSE "signal",
                                  ![m].pid = connection.pid]
    /\ UNCHANGED <<connection, proc, children, abandoned>>

\* stop, on its own.
StopServer(m) ==
    /\ connection # NoServer
    /\ MgrBegin(m, [MgrIdle EXCEPT !.at = "signal", !.pid = connection.pid])
    /\ UNCHANGED <<connection, proc, children, abandoned>>

\* Popen
SpawnServer(m, p) ==
    /\ MgrAt(m, "spawn") /\ FreePid(p)
    /\ proc' = [proc EXCEPT ![p] = "booting"]
    /\ manager' = [manager EXCEPT ![m].at = "poll", ![m].pid = p]
    /\ children' = [children EXCEPT ![m] = @ \cup {p}]
    /\ UNCHANGED <<connection, abandoned>>

\* poll() finds that the child has ended before it was ready.
ExitedEarly(m) ==
    /\ MgrAt(m, "poll") /\ proc[manager[m].pid] = "free"
    /\ MgrEnd(m)
    /\ children' = [children EXCEPT ![m] = @ \ {manager[m].pid}]
    /\ UNCHANGED <<connection, proc, abandoned>>

SeenReady(m) ==
    /\ MgrAt(m, "poll") /\ proc[manager[m].pid] = "ready"
    /\ MgrGo(m, "record")
    /\ UNCHANGED <<connection, proc, children, abandoned>>

\* The deadline: SIGTERM, which the child may ignore, and nobody waits for it.
StartTimesOut(m) ==
    /\ MgrAt(m, "poll")
    /\ \/ /\ proc' = [proc EXCEPT ![manager[m].pid] = IF @ = "free" THEN @ ELSE "ending"]
          /\ UNCHANGED abandoned
       \/ LeftRunning({manager[m].pid}) /\ UNCHANGED proc
    /\ MgrEnd(m)
    /\ UNCHANGED <<connection, children>>

\* _write_metadata.  A server another manager has recorded meanwhile is lost.
RecordServer(m) ==
    /\ MgrAt(m, "record")
    /\ connection' = [pid |-> manager[m].pid, spec |-> manager[m].spec]
    /\ LeftRunning(LostInRace(m, {manager[m].pid}))
    /\ MgrEnd(m)
    /\ UNCHANGED <<proc, children>>

\* _write_metadata raises (no space, no permission): so does start.
RecordFails(m) ==
    /\ MgrAt(m, "record")
    /\ LeftRunning({manager[m].pid})
    /\ MgrEnd(m)
    /\ UNCHANGED <<connection, proc, children>>

\* os.kill(pid, SIGTERM), whatever has that pid now.  A server that ignores it
\* is killed later if it is a child, and left running if it is not.
SignalPid(m) ==
    LET p == manager[m].pid
    IN /\ MgrAt(m, "signal")
       /\ \/ /\ proc' = [proc EXCEPT ![p] = IF @ = "free" THEN @ ELSE "ending"]
             /\ UNCHANGED abandoned
          \/ LeftRunning({p} \ children[m]) /\ UNCHANGED proc
       /\ MgrGo(m, "unlink")
       /\ UNCHANGED <<connection, children>>

\* PermissionError: the pid is another user's process by now.  stop raises, and
\* so does the start that called it; the record stays.
SignalRefused(m) ==
    /\ MgrAt(m, "signal") /\ proc[manager[m].pid] = "foreign"
    /\ MgrEnd(m)
    /\ UNCHANGED <<connection, proc, children, abandoned>>

\* A child has been waited for, or killed after five seconds and waited for.
\* connection.json is removed, whichever server it names by now.
UnlinkConnection(m) ==
    LET ended == {manager[m].pid} \cap children[m]
    IN /\ MgrAt(m, "unlink")
       /\ connection' = NoServer
       /\ proc' = [p \in Pids |-> IF p \in ended THEN "free" ELSE proc[p]]
       /\ children' = [children EXCEPT ![m] = @ \ ended]
       /\ abandoned' = (abandoned \cup (LostInRace(m, ended) \cap Servers)) \ ended
       /\ IF manager[m].again THEN MgrGo(m, "spawn") ELSE MgrEnd(m)

\* The manager's process ends, in the middle of a call or between two.
ManagerDies(m) ==
    /\ ~MgrAt(m, "idle") \/ children[m] # {}
    /\ LeftRunning(IF manager[m].at \in {"poll", "record"} THEN {manager[m].pid} ELSE {})
    /\ MgrEnd(m)
    /\ children' = [children EXCEPT ![m] = {}]
    /\ UNCHANGED <<connection, proc>>

ServerReady(p) ==
    /\ proc[p] = "booting"
    /\ proc' = [proc EXCEPT ![p] = "ready"]
    /\ UNCHANGED <<connection, manager, children, abandoned>>

\* A process ends by itself, or after SIGTERM.
ProcessEnds(p) ==
    /\ proc[p] # "free"
    /\ proc' = [proc EXCEPT ![p] = "free"]
    /\ abandoned' = abandoned \ {p}
    /\ UNCHANGED <<connection, manager, children>>

PidReused(p) ==
    /\ FreePid(p)
    /\ proc' = [proc EXCEPT ![p] = "foreign"]
    /\ UNCHANGED <<connection, manager, children, abandoned>>

MgrNext ==
    \/ \E m \in Managers :
        \/ \E s \in Specs : StartServer(m, s)
        \/ \E p \in Pids : SpawnServer(m, p)
        \/ ExitedEarly(m) \/ SeenReady(m) \/ StartTimesOut(m)
        \/ RecordServer(m) \/ RecordFails(m)
        \/ StopFirst(m) \/ StopServer(m) \/ SignalPid(m) \/ SignalRefused(m)
        \/ UnlinkConnection(m)
        \/ ManagerDies(m)
    \/ \E p \in Pids : ServerReady(p) \/ ProcessEnds(p) \/ PidReused(p)

MgrSpec == MgrInit /\ [][MgrNext]_mgrVars

-----------------------------------------------------------------------------
\* A server that runs is the recorded one, or a live manager is waiting for it
\* to be ready and to record it: it can be found and stopped.  The exceptions,
\* which LeftRunning collects, are the servers whose manager died in that wait
\* (ManagerDies), whose record could not be written (RecordFails), which ignored
\* SIGTERM when the wait ended (StartTimesOut) or when a manager stopped them
\* that was not their parent (SignalPid), and those whose record was replaced or
\* removed by a manager that had read another one (RecordServer,
\* UnlinkConnection).
RunningServersAreKnown ==
    \A p \in Servers :
        \/ connection.pid = p
        \/ \E m \in Managers : manager[m].pid = p /\ manager[m].at \in {"poll", "record"}
        \/ p \in abandoned
=============================================================================
