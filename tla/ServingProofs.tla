---------------------------- MODULE ServingProofs ---------------------------
(* Proofs about what serves and admits around the engines: the server      *)
(* manager, the OpenAI facade, leases and sessions, and one request of the *)
(* gateway from its checks to the end of its answer.                       *)
EXTENDS ServerManager, Facade, Admission, Completion, Minima, SequenceTheorems, TLAPS

(***************************************************************************)
(* The server manager.                                                     *)
(***************************************************************************)
MgrType == [at : {"idle", "stop", "spawn", "poll", "record", "signal", "unlink"},
            spec : Specs \cup {NoPid}, pid : Pids \cup {NoPid}, again : BOOLEAN, raced : BOOLEAN]

\* What is recorded, signalled or waited for is a process.
PidsAreReal ==
    /\ connection = NoServer \/ connection.pid \in Pids
    /\ \A m \in Managers :
        /\ manager[m].at = "idle" => manager[m] = MgrIdle
        /\ manager[m].at \in {"poll", "record", "signal", "unlink"} => manager[m].pid \in Pids

\* Managers at work at once know of it.
MgrRacesAreTold == \A m, k \in Managers :
    m # k /\ manager[m].at # "idle" /\ manager[k].at # "idle" => manager[m].raced

\* A manager alone at work: until the record is removed it names the server
\* being stopped, and nothing after that; by the time it removes the record, that
\* server has been signalled, or is a child of its own, or runs on unrecorded.
AloneKnows == \A m \in Managers : ~ manager[m].raced =>
    /\ manager[m].at \in {"spawn", "poll", "record"} => connection = NoServer
    /\ manager[m].at \in {"signal", "unlink"} => connection.pid = manager[m].pid
    /\ manager[m].at = "unlink" => \/ proc[manager[m].pid] \notin {"booting", "ready"}
                                   \/ manager[m].pid \in children[m] \cup abandoned

\* RunningServersAreKnown, with the only managers that answer for a server.
ServersAreHeld == \A p \in Pids : proc[p] \in {"booting", "ready"} =>
    \/ connection.pid = p
    \/ \E m \in Managers : manager[m].pid = p /\ manager[m].at \in {"poll", "record"}
    \/ p \in abandoned

MgrIInv == MgrTypeOK /\ PidsAreReal /\ MgrRacesAreTold /\ AloneKnows /\ ServersAreHeld

LEMMA ManagerType == ASSUME MgrIInv PROVE manager \in [Managers -> MgrType]
BY DEF MgrIInv, MgrTypeOK, MgrType

LEMMA BeginIInv ==
    ASSUME MgrIInv, NEW m \in Managers, NEW op \in MgrType, MgrBegin(m, op),
           op.at \in {"stop", "spawn", "signal"}, op.at = "signal" => op.pid = connection.pid,
           op.at = "spawn" => connection = NoServer, op.at = "signal" => connection # NoServer,
           UNCHANGED <<connection, proc, children, abandoned>>
    PROVE  MgrIInv'
<1> DEFINE others == {k \in Managers \ {m} : ~MgrAt(k, "idle")}
<1>1. manager[m].at = "idle"
  BY DEF MgrBegin, MgrAt
<1>2. /\ manager' \in [Managers -> MgrType]
      /\ manager'[m].at = op.at /\ manager'[m].pid = op.pid
      /\ others # {} => manager'[m].raced = TRUE
      /\ \A k \in Managers : k # m =>
             /\ manager'[k].at = manager[k].at /\ manager'[k].pid = manager[k].pid
             /\ k \in others => manager'[k].raced = TRUE
             /\ k \notin others => manager'[k] = manager[k]
  <2>1. manager' = [k \in Managers |->
              CASE k = m -> [op EXCEPT !.raced = others # {}]
                [] k \in others -> [manager[k] EXCEPT !.raced = TRUE]
                [] OTHER -> manager[k]]
    BY DEF MgrBegin
  <2>2. /\ \A k \in Managers : manager[k] \in MgrType
        /\ m \notin others /\ (others # {}) \in BOOLEAN
    BY ManagerType
  <2> HIDE DEF others
  <2> QED
    BY <2>1, <2>2 DEF MgrType
<1>3. \A k \in Managers : k \in others <=> k # m /\ manager[k].at # "idle"
  BY DEF MgrAt
<1> HIDE DEF others
<1>4. MgrTypeOK'
  BY <1>1, <1>2, <1>3 DEF MgrIInv, MgrTypeOK, MgrType
<1>5. PidsAreReal'
  BY <1>1, <1>2, <1>3 DEF MgrIInv, PidsAreReal, MgrIdle, NoServer
<1>6. MgrRacesAreTold'
  BY <1>1, <1>2, <1>3 DEF MgrIInv, MgrRacesAreTold, MgrIdle
<1>7. AloneKnows'
  BY <1>1, <1>2, <1>3 DEF MgrIInv, AloneKnows, MgrIdle, NoServer, MgrRacesAreTold
<1>8. ServersAreHeld'
  BY <1>1, <1>2, <1>3 DEF MgrIInv, ServersAreHeld, MgrIdle
<1> QED
  BY <1>4, <1>5, <1>6, <1>7, <1>8 DEF MgrIInv

LEMMA SpawnServerIInv ==
    ASSUME MgrIInv, NEW m \in Managers, NEW p \in Pids, SpawnServer(m, p)
    PROVE  MgrIInv'
<1> USE ServerManagerAssumption
<1>1. /\ manager[m].at = "spawn" /\ proc[p] = "free" /\ UNCHANGED <<connection, abandoned>>
      /\ children' \in [Managers -> SUBSET Pids]
      /\ \A k \in Managers : k # m => children'[k] = children[k]
      /\ proc' \in [Pids -> ProcStates] /\ proc'[p] = "booting"
      /\ \A q \in Pids : q # p => proc'[q] = proc[q]
  BY DEF SpawnServer, FreePid, MgrAt, MgrIInv, MgrTypeOK, ProcStates
<1>2. /\ manager' \in [Managers -> MgrType]
      /\ manager'[m].at = "poll" /\ manager'[m].pid = p
      /\ manager'[m].raced = manager[m].raced
      /\ \A k \in Managers : k # m => manager'[k] = manager[k]
  <2>1. manager \in [Managers -> MgrType] /\ manager[m] \in MgrType
    BY ManagerType
  <2>2. manager' = [manager EXCEPT ![m] = [manager[m] EXCEPT !.at = "poll", !.pid = p]]
    BY <2>1 DEF SpawnServer
  <2>3. /\ [manager[m] EXCEPT !.at = "poll", !.pid = p] \in MgrType
        /\ [manager[m] EXCEPT !.at = "poll", !.pid = p].at = "poll"
        /\ [manager[m] EXCEPT !.at = "poll", !.pid = p].pid = p
        /\ [manager[m] EXCEPT !.at = "poll", !.pid = p].raced = manager[m].raced
    BY <2>1 DEF MgrType
  <2> QED
    BY <2>1, <2>2, <2>3
<1>3. MgrTypeOK'
  BY <1>1, <1>2 DEF MgrIInv, MgrTypeOK, MgrType
<1>4. PidsAreReal'
  BY <1>1, <1>2 DEF MgrIInv, PidsAreReal, MgrIdle
<1>5. MgrRacesAreTold'
  BY <1>1, <1>2 DEF MgrIInv, MgrRacesAreTold, MgrIdle
<1>6. AloneKnows'
  BY <1>1, <1>2 DEF MgrIInv, AloneKnows, MgrIdle, MgrRacesAreTold, PidsAreReal
<1>7. ServersAreHeld'
  BY <1>1, <1>2 DEF MgrIInv, ServersAreHeld, MgrIdle
<1> QED
  BY <1>3, <1>4, <1>5, <1>6, <1>7 DEF MgrIInv

LEMMA ExitedEarlyIInv ==
    ASSUME MgrIInv, NEW m \in Managers, ExitedEarly(m)
    PROVE  MgrIInv'
<1> USE ServerManagerAssumption
<1>1. /\ manager[m].at = "poll" /\ UNCHANGED <<connection, proc, abandoned>>
      /\ children' \in [Managers -> SUBSET Pids]
      /\ \A k \in Managers : k # m => children'[k] = children[k]
      /\ proc[manager[m].pid] = "free"
  BY DEF ExitedEarly, MgrAt, MgrIInv, MgrTypeOK
<1>2. /\ manager' \in [Managers -> MgrType] /\ manager'[m] = MgrIdle
      /\ \A k \in Managers : k # m => manager'[k] = manager[k]
  BY ManagerType DEF ExitedEarly, MgrEnd, MgrIdle, MgrType
<1>3. MgrTypeOK'
  BY <1>1, <1>2 DEF MgrIInv, MgrTypeOK, MgrType
<1>4. PidsAreReal'
  BY <1>1, <1>2 DEF MgrIInv, PidsAreReal, MgrIdle
<1>5. MgrRacesAreTold'
  BY <1>1, <1>2 DEF MgrIInv, MgrRacesAreTold, MgrIdle
<1>6. AloneKnows'
  BY <1>1, <1>2 DEF MgrIInv, AloneKnows, MgrIdle
<1>7. ServersAreHeld'
  BY <1>1, <1>2 DEF MgrIInv, ServersAreHeld, MgrIdle
<1> QED
  BY <1>3, <1>4, <1>5, <1>6, <1>7 DEF MgrIInv

LEMMA SeenReadyIInv ==
    ASSUME MgrIInv, NEW m \in Managers, SeenReady(m)
    PROVE  MgrIInv'
<1> USE ServerManagerAssumption
<1>1. manager[m].at = "poll" /\ UNCHANGED <<connection, proc, children, abandoned>>
  BY DEF SeenReady, MgrAt
<1>2. /\ manager' \in [Managers -> MgrType]
      /\ manager'[m].at = "record" /\ manager'[m].pid = manager[m].pid
      /\ manager'[m].raced = manager[m].raced
      /\ \A k \in Managers : k # m => manager'[k] = manager[k]
  BY ManagerType DEF SeenReady, MgrGo, MgrType
<1>3. MgrTypeOK'
  BY <1>1, <1>2 DEF MgrIInv, MgrTypeOK, MgrType
<1>4. PidsAreReal'
  BY <1>1, <1>2 DEF MgrIInv, PidsAreReal, MgrIdle
<1>5. MgrRacesAreTold'
  BY <1>1, <1>2 DEF MgrIInv, MgrRacesAreTold, MgrIdle
<1>6. AloneKnows'
  BY <1>1, <1>2 DEF MgrIInv, AloneKnows, MgrIdle
<1>7. ServersAreHeld'
  BY <1>1, <1>2 DEF MgrIInv, ServersAreHeld, MgrIdle
<1> QED
  BY <1>3, <1>4, <1>5, <1>6, <1>7 DEF MgrIInv

LEMMA RecordServerIInv ==
    ASSUME MgrIInv, NEW m \in Managers, RecordServer(m)
    PROVE  MgrIInv'
<1> USE ServerManagerAssumption
<1>1. /\ manager[m].at = "record" /\ UNCHANGED <<proc, children>>
      /\ connection' = [pid |-> manager[m].pid, spec |-> manager[m].spec]
      /\ /\ manager[m].raced /\ connection.pid \in Servers \ {manager[m].pid} => connection.pid \in abandoned'
      /\ abandoned \subseteq abandoned' /\ abandoned' \subseteq Pids
  BY DEF RecordServer, MgrAt, LostInRace, LeftRunning, Servers, MgrIInv, MgrTypeOK
<1>2. /\ manager' \in [Managers -> MgrType] /\ manager'[m] = MgrIdle
      /\ \A k \in Managers : k # m => manager'[k] = manager[k]
  BY ManagerType DEF RecordServer, MgrEnd, MgrIdle, MgrType
<1>3. ~ manager[m].raced => connection = NoServer
  BY <1>1 DEF MgrIInv, AloneKnows
<1>4. manager[m].pid \in Pids /\ manager[m].spec \in Specs \cup {NoPid}
  BY <1>1, ManagerType DEF MgrIInv, PidsAreReal, MgrType
<1>5. \A k \in Managers : k # m /\ manager[k].at # "idle" => manager[k].raced
  BY <1>1 DEF MgrIInv, MgrRacesAreTold
<1>6. MgrTypeOK'
  BY <1>1, <1>2, <1>3, <1>4, <1>5 DEF MgrIInv, MgrTypeOK, MgrType
<1>7. PidsAreReal'
  BY <1>1, <1>2, <1>3, <1>4, <1>5 DEF MgrIInv, PidsAreReal, MgrIdle
<1>8. MgrRacesAreTold'
  BY <1>1, <1>2, <1>3, <1>4, <1>5 DEF MgrIInv, MgrRacesAreTold, MgrIdle
<1>9. AloneKnows'
  BY <1>1, <1>2, <1>3, <1>4, <1>5 DEF MgrIInv, AloneKnows, MgrIdle
<1>10. ServersAreHeld'
  BY <1>1, <1>2, <1>3, <1>4, <1>5 DEF MgrIInv, ServersAreHeld, MgrIdle, NoServer, Servers
<1> QED
  BY <1>6, <1>7, <1>8, <1>9, <1>10 DEF MgrIInv

LEMMA StartTimesOutIInv ==
    ASSUME MgrIInv, NEW m \in Managers, StartTimesOut(m)
    PROVE  MgrIInv'
<1> USE ServerManagerAssumption
<1>1. manager[m].at = "poll" /\ UNCHANGED <<connection, children>> /\ manager[m].pid \in Pids
  BY DEF StartTimesOut, MgrAt, MgrIInv, PidsAreReal
<1>2. /\ manager' \in [Managers -> MgrType] /\ manager'[m] = MgrIdle
      /\ \A k \in Managers : k # m => manager'[k] = manager[k]
  BY ManagerType DEF StartTimesOut, MgrEnd, MgrIdle, MgrType
<1>3. /\ proc' \in [Pids -> ProcStates]
      /\ proc'[manager[m].pid] \notin {"booting", "ready"} \/ manager[m].pid \in abandoned'
      /\ \A q \in Pids : q # manager[m].pid => proc'[q] = proc[q]
      /\ \A q \in Pids : proc'[q] \in {"booting", "ready"} => proc[q] \in {"booting", "ready"}
      /\ abandoned \subseteq abandoned' /\ abandoned' \subseteq Pids
  BY <1>1 DEF StartTimesOut, LeftRunning, Servers, MgrIInv, MgrTypeOK, ProcStates
<1>4. MgrTypeOK'
  BY <1>1, <1>2, <1>3 DEF MgrIInv, MgrTypeOK, MgrType
<1>5. PidsAreReal'
  BY <1>1, <1>2, <1>3 DEF MgrIInv, PidsAreReal, MgrIdle
<1>6. MgrRacesAreTold'
  BY <1>1, <1>2, <1>3 DEF MgrIInv, MgrRacesAreTold, MgrIdle
<1>7. AloneKnows'
  BY <1>1, <1>2, <1>3 DEF MgrIInv, AloneKnows, MgrIdle, PidsAreReal
<1>8. ServersAreHeld'
  BY <1>1, <1>2, <1>3 DEF MgrIInv, ServersAreHeld, MgrIdle
<1> QED
  BY <1>4, <1>5, <1>6, <1>7, <1>8 DEF MgrIInv

LEMMA SignalPidIInv ==
    ASSUME MgrIInv, NEW m \in Managers, SignalPid(m)
    PROVE  MgrIInv'
<1> USE ServerManagerAssumption
<1>1. manager[m].at = "signal" /\ UNCHANGED <<connection, children>> /\ manager[m].pid \in Pids
  BY DEF SignalPid, MgrAt, MgrIInv, PidsAreReal
<1>2. /\ manager' \in [Managers -> MgrType]
      /\ manager'[m].at = "unlink" /\ manager'[m].pid = manager[m].pid
      /\ manager'[m].raced = manager[m].raced
      /\ \A k \in Managers : k # m => manager'[k] = manager[k]
  BY ManagerType DEF SignalPid, MgrGo, MgrType
<1>3. /\ proc' \in [Pids -> ProcStates]
      /\ \/ proc'[manager[m].pid] \notin {"booting", "ready"}
         \/ manager[m].pid \in children[m] \cup abandoned'
      /\ \A q \in Pids : q # manager[m].pid => proc'[q] = proc[q]
      /\ \A q \in Pids : proc'[q] \in {"booting", "ready"} => proc[q] \in {"booting", "ready"}
      /\ abandoned \subseteq abandoned' /\ abandoned' \subseteq Pids
  BY <1>1 DEF SignalPid, LeftRunning, Servers, MgrIInv, MgrTypeOK, ProcStates
<1>4. MgrTypeOK'
  BY <1>1, <1>2, <1>3 DEF MgrIInv, MgrTypeOK, MgrType
<1>5. PidsAreReal'
  BY <1>1, <1>2, <1>3 DEF MgrIInv, PidsAreReal, MgrIdle
<1>6. MgrRacesAreTold'
  BY <1>1, <1>2, <1>3 DEF MgrIInv, MgrRacesAreTold, MgrIdle
<1>7. AloneKnows'
  BY <1>1, <1>2, <1>3 DEF MgrIInv, AloneKnows, MgrIdle, PidsAreReal
<1>8. ServersAreHeld'
  BY <1>1, <1>2, <1>3 DEF MgrIInv, ServersAreHeld, MgrIdle
<1> QED
  BY <1>4, <1>5, <1>6, <1>7, <1>8 DEF MgrIInv

LEMMA StopFirstIInv ==
    ASSUME MgrIInv, NEW m \in Managers, StopFirst(m)
    PROVE  MgrIInv'
<1> USE ServerManagerAssumption
<1>1. manager[m].at = "stop" /\ UNCHANGED <<connection, proc, children, abandoned>>
  BY DEF StopFirst, MgrAt
<1>2. /\ manager' \in [Managers -> MgrType]
      /\ manager'[m].at = IF connection = NoServer THEN "spawn" ELSE "signal"
      /\ manager'[m].pid = connection.pid /\ manager'[m].raced = manager[m].raced
      /\ \A k \in Managers : k # m => manager'[k] = manager[k]
  <2> DEFINE next == IF connection = NoServer THEN "spawn" ELSE "signal"
  <2>1. manager \in [Managers -> MgrType] /\ manager[m] \in MgrType
    BY ManagerType
  <2>2. manager' = [manager EXCEPT ![m] = [manager[m] EXCEPT !.at = next, !.pid = connection.pid]]
    BY <2>1 DEF StopFirst
  <2>3. connection.pid \in Pids \cup {NoPid}
    BY DEF MgrIInv, MgrTypeOK
  <2>4. /\ [manager[m] EXCEPT !.at = next, !.pid = connection.pid] \in MgrType
        /\ [manager[m] EXCEPT !.at = next, !.pid = connection.pid].at = next
        /\ [manager[m] EXCEPT !.at = next, !.pid = connection.pid].pid = connection.pid
        /\ [manager[m] EXCEPT !.at = next, !.pid = connection.pid].raced = manager[m].raced
    BY <2>1, <2>3 DEF MgrType
  <2> HIDE DEF next
  <2>5. /\ manager' \in [Managers -> MgrType]
        /\ manager'[m].at = next
        /\ manager'[m].pid = connection.pid /\ manager'[m].raced = manager[m].raced
        /\ \A k \in Managers : k # m => manager'[k] = manager[k]
    BY <2>1, <2>2, <2>4
  <2> QED
    BY <2>5 DEF next
<1>3. MgrTypeOK'
  BY <1>1, <1>2 DEF MgrIInv, MgrTypeOK, MgrType
<1>4. PidsAreReal'
  BY <1>1, <1>2 DEF MgrIInv, PidsAreReal, MgrIdle
<1>5. MgrRacesAreTold'
  BY <1>1, <1>2 DEF MgrIInv, MgrRacesAreTold, MgrIdle
<1>6. AloneKnows'
  BY <1>1, <1>2 DEF MgrIInv, AloneKnows, MgrIdle
<1>7. ServersAreHeld'
  BY <1>1, <1>2 DEF MgrIInv, ServersAreHeld, MgrIdle
<1> QED
  BY <1>3, <1>4, <1>5, <1>6, <1>7 DEF MgrIInv

LEMMA RecordFailsIInv ==
    ASSUME MgrIInv, NEW m \in Managers, RecordFails(m)
    PROVE  MgrIInv'
<1> USE ServerManagerAssumption
<1>1. /\ manager[m].at = "record" /\ UNCHANGED <<connection, proc, children>>
      /\ manager[m].pid \in Servers => manager[m].pid \in abandoned'
      /\ abandoned \subseteq abandoned' /\ abandoned' \subseteq Pids
  BY DEF RecordFails, MgrAt, LeftRunning, Servers, MgrIInv, MgrTypeOK
<1>2. /\ manager' \in [Managers -> MgrType] /\ manager'[m] = MgrIdle
      /\ \A k \in Managers : k # m => manager'[k] = manager[k]
  BY ManagerType DEF RecordFails, MgrEnd, MgrIdle, MgrType
<1>3. MgrTypeOK'
  BY <1>1, <1>2 DEF MgrIInv, MgrTypeOK, MgrType
<1>4. PidsAreReal'
  BY <1>1, <1>2 DEF MgrIInv, PidsAreReal, MgrIdle
<1>5. MgrRacesAreTold'
  BY <1>1, <1>2 DEF MgrIInv, MgrRacesAreTold, MgrIdle
<1>6. AloneKnows'
  BY <1>1, <1>2 DEF MgrIInv, AloneKnows, MgrIdle
<1>7. ServersAreHeld'
  BY <1>1, <1>2 DEF MgrIInv, ServersAreHeld, MgrIdle, Servers
<1> QED
  BY <1>3, <1>4, <1>5, <1>6, <1>7 DEF MgrIInv

LEMMA SignalRefusedIInv ==
    ASSUME MgrIInv, NEW m \in Managers, SignalRefused(m)
    PROVE  MgrIInv'
<1> USE ServerManagerAssumption
<1>1. manager[m].at = "signal" /\ UNCHANGED <<connection, proc, children, abandoned>>
  BY DEF SignalRefused, MgrAt
<1>2. /\ manager' \in [Managers -> MgrType] /\ manager'[m] = MgrIdle
      /\ \A k \in Managers : k # m => manager'[k] = manager[k]
  BY ManagerType DEF SignalRefused, MgrEnd, MgrIdle, MgrType
<1>3. MgrTypeOK'
  BY <1>1, <1>2 DEF MgrIInv, MgrTypeOK, MgrType
<1>4. PidsAreReal'
  BY <1>1, <1>2 DEF MgrIInv, PidsAreReal, MgrIdle
<1>5. MgrRacesAreTold'
  BY <1>1, <1>2 DEF MgrIInv, MgrRacesAreTold, MgrIdle
<1>6. AloneKnows'
  BY <1>1, <1>2 DEF MgrIInv, AloneKnows, MgrIdle
<1>7. ServersAreHeld'
  BY <1>1, <1>2 DEF MgrIInv, ServersAreHeld, MgrIdle
<1> QED
  BY <1>3, <1>4, <1>5, <1>6, <1>7 DEF MgrIInv

LEMMA UnlinkConnectionIInv ==
    ASSUME MgrIInv, NEW m \in Managers, UnlinkConnection(m)
    PROVE  MgrIInv'
<1> USE ServerManagerAssumption
<1> DEFINE ended == {manager[m].pid} \cap children[m]
<1>1. /\ manager[m].at = "unlink" /\ connection' = NoServer
      /\ manager[m].raced /\ connection.pid \in Servers \ ended => connection.pid \in abandoned'
      /\ abandoned \ ended \subseteq abandoned' /\ abandoned' \subseteq Pids
      /\ proc' \in [Pids -> ProcStates]
      /\ \A q \in Pids : proc'[q] = IF q \in ended THEN "free" ELSE proc[q]
      /\ children' \in [Managers -> SUBSET Pids]
      /\ \A k \in Managers : k # m => children'[k] = children[k]
  BY DEF UnlinkConnection, MgrAt, LostInRace, Servers, MgrIInv, MgrTypeOK, ProcStates
<1>2. /\ manager' \in [Managers -> MgrType]
      /\ \/ manager'[m] = MgrIdle
         \/ manager'[m].at = "spawn" /\ manager'[m].raced = manager[m].raced
      /\ \A k \in Managers : k # m => manager'[k] = manager[k]
  <2>1. MgrGo(m, "spawn") \/ MgrEnd(m)
    BY DEF UnlinkConnection
  <2>2. CASE MgrGo(m, "spawn")
    BY <2>2, ManagerType DEF MgrGo, MgrType
  <2>3. CASE MgrEnd(m)
    BY <2>3, ManagerType DEF MgrEnd, MgrIdle, MgrType
  <2> QED
    BY <2>1, <2>2, <2>3
<1>3. \A k \in Managers : k # m /\ manager[k].at # "idle" => manager[k].raced
  BY <1>1 DEF MgrIInv, MgrRacesAreTold
<1>4. ~ manager[m].raced => /\ connection.pid = manager[m].pid
                            /\ \/ proc[manager[m].pid] \notin {"booting", "ready"}
                               \/ manager[m].pid \in ended \cup abandoned
  BY <1>1 DEF MgrIInv, AloneKnows
<1>5. MgrTypeOK'
  BY <1>1, <1>2, <1>3, <1>4 DEF MgrIInv, MgrTypeOK, MgrType, NoServer
<1>6. PidsAreReal'
  BY <1>1, <1>2, <1>3, <1>4 DEF MgrIInv, PidsAreReal, MgrIdle
<1>7. MgrRacesAreTold'
  BY <1>1, <1>2, <1>3, <1>4 DEF MgrIInv, MgrRacesAreTold, MgrIdle
<1>8. AloneKnows'
  BY <1>1, <1>2, <1>3, <1>4 DEF MgrIInv, AloneKnows, MgrIdle
<1>9. ServersAreHeld'
  <2> SUFFICES ASSUME NEW p \in Pids, proc'[p] \in {"booting", "ready"}
               PROVE  ServersAreHeld!(p)'
    BY DEF ServersAreHeld
  <2>1. p \notin ended /\ proc[p] \in {"booting", "ready"}
    BY <1>1
  <2> QED
    BY <1>1, <1>2, <1>4, <2>1 DEF MgrIInv, ServersAreHeld, MgrIdle, Servers
<1> QED
  BY <1>5, <1>6, <1>7, <1>8, <1>9 DEF MgrIInv

LEMMA ManagerDiesIInv ==
    ASSUME MgrIInv, NEW m \in Managers, ManagerDies(m)
    PROVE  MgrIInv'
<1> USE ServerManagerAssumption
<1>1. /\ UNCHANGED <<connection, proc>>
      /\ children' \in [Managers -> SUBSET Pids]
      /\ \A k \in Managers : k # m => children'[k] = children[k]
      /\ manager[m].at \in {"poll", "record"} /\ manager[m].pid \in Servers => manager[m].pid \in abandoned'
      /\ abandoned \subseteq abandoned' /\ abandoned' \subseteq Pids
  BY DEF ManagerDies, MgrAt, LeftRunning, Servers, MgrIInv, MgrTypeOK, PidsAreReal
<1>2. /\ manager' \in [Managers -> MgrType] /\ manager'[m] = MgrIdle
      /\ \A k \in Managers : k # m => manager'[k] = manager[k]
  BY ManagerType DEF ManagerDies, MgrEnd, MgrIdle, MgrType
<1>3. MgrTypeOK'
  BY <1>1, <1>2 DEF MgrIInv, MgrTypeOK, MgrType
<1>4. PidsAreReal'
  BY <1>1, <1>2 DEF MgrIInv, PidsAreReal, MgrIdle
<1>5. MgrRacesAreTold'
  BY <1>1, <1>2 DEF MgrIInv, MgrRacesAreTold, MgrIdle
<1>6. AloneKnows'
  BY <1>1, <1>2 DEF MgrIInv, AloneKnows, MgrIdle
<1>7. ServersAreHeld'
  BY <1>1, <1>2 DEF MgrIInv, ServersAreHeld, MgrIdle, Servers
<1> QED
  BY <1>3, <1>4, <1>5, <1>6, <1>7 DEF MgrIInv

LEMMA ServerReadyIInv ==
    ASSUME MgrIInv, NEW p \in Pids, ServerReady(p)
    PROVE  MgrIInv'
<1>1. /\ UNCHANGED <<connection, manager, children>> /\ proc' \in [Pids -> ProcStates]
      /\ \A q \in Pids : q # p => proc'[q] = proc[q]
      /\ proc[p] = "booting" /\ proc'[p] = "ready" /\ UNCHANGED abandoned
  BY DEF ServerReady, MgrIInv, MgrTypeOK, ProcStates
<1>2. MgrTypeOK'
  BY <1>1 DEF MgrIInv, MgrTypeOK, MgrType
<1>3. PidsAreReal'
  BY <1>1 DEF MgrIInv, PidsAreReal, MgrIdle
<1>4. MgrRacesAreTold'
  BY <1>1 DEF MgrIInv, MgrRacesAreTold, MgrIdle
<1>5. AloneKnows'
  BY <1>1 DEF MgrIInv, AloneKnows, MgrIdle, PidsAreReal
<1>6. ServersAreHeld'
  BY <1>1 DEF MgrIInv, ServersAreHeld, MgrIdle
<1> QED
  BY <1>2, <1>3, <1>4, <1>5, <1>6 DEF MgrIInv

LEMMA ProcessEndsIInv ==
    ASSUME MgrIInv, NEW p \in Pids, ProcessEnds(p)
    PROVE  MgrIInv'
<1>1. /\ UNCHANGED <<connection, manager, children>> /\ proc' \in [Pids -> ProcStates]
      /\ \A q \in Pids : q # p => proc'[q] = proc[q]
      /\ proc'[p] = "free" /\ abandoned' = abandoned \ {p}
  BY DEF ProcessEnds, MgrIInv, MgrTypeOK, ProcStates
<1>2. MgrTypeOK'
  BY <1>1 DEF MgrIInv, MgrTypeOK, MgrType
<1>3. PidsAreReal'
  BY <1>1 DEF MgrIInv, PidsAreReal, MgrIdle
<1>4. MgrRacesAreTold'
  BY <1>1 DEF MgrIInv, MgrRacesAreTold, MgrIdle
<1>5. AloneKnows'
  BY <1>1 DEF MgrIInv, AloneKnows, MgrIdle, PidsAreReal
<1>6. ServersAreHeld'
  BY <1>1 DEF MgrIInv, ServersAreHeld, MgrIdle
<1> QED
  BY <1>2, <1>3, <1>4, <1>5, <1>6 DEF MgrIInv

LEMMA PidReusedIInv ==
    ASSUME MgrIInv, NEW p \in Pids, PidReused(p)
    PROVE  MgrIInv'
<1>1. /\ UNCHANGED <<connection, manager, children>> /\ proc' \in [Pids -> ProcStates]
      /\ \A q \in Pids : q # p => proc'[q] = proc[q]
      /\ proc'[p] = "foreign" /\ UNCHANGED abandoned
  BY DEF PidReused, MgrIInv, MgrTypeOK, ProcStates
<1>2. MgrTypeOK'
  BY <1>1 DEF MgrIInv, MgrTypeOK, MgrType
<1>3. PidsAreReal'
  BY <1>1 DEF MgrIInv, PidsAreReal, MgrIdle
<1>4. MgrRacesAreTold'
  BY <1>1 DEF MgrIInv, MgrRacesAreTold, MgrIdle
<1>5. AloneKnows'
  BY <1>1 DEF MgrIInv, AloneKnows, MgrIdle, PidsAreReal
<1>6. ServersAreHeld'
  BY <1>1 DEF MgrIInv, ServersAreHeld, MgrIdle
<1> QED
  BY <1>2, <1>3, <1>4, <1>5, <1>6 DEF MgrIInv

LEMMA MgrInitIInv == ASSUME MgrInit PROVE MgrIInv
<1>1. MgrTypeOK
  BY DEF MgrInit, MgrTypeOK, MgrIdle, NoServer, ProcStates
<1>2. /\ \A m \in Managers : manager[m] = MgrIdle /\ manager[m].at = "idle"
      /\ \A p \in Pids : proc[p] = "free"
      /\ connection = NoServer
  BY DEF MgrInit, MgrIdle
<1>3. PidsAreReal
  BY <1>2 DEF PidsAreReal
<1>4. MgrRacesAreTold
  BY <1>2 DEF MgrRacesAreTold
<1>5. AloneKnows
  BY <1>2 DEF AloneKnows
<1>6. ServersAreHeld
  BY <1>2 DEF ServersAreHeld
<1> QED
  BY <1>1, <1>3, <1>4, <1>5, <1>6 DEF MgrIInv

LEMMA MgrStutterIInv == ASSUME MgrIInv, UNCHANGED mgrVars PROVE MgrIInv'
BY DEF mgrVars, MgrIInv, MgrTypeOK, PidsAreReal, MgrRacesAreTold, AloneKnows, ServersAreHeld

LEMMA MgrInvariant == MgrSpec => []MgrIInv
<1>1. MgrInit => MgrIInv
  BY MgrInitIInv
<1>2. MgrIInv /\ [MgrNext]_mgrVars => MgrIInv'
  <2>1. ASSUME MgrIInv, NEW m \in Managers, NEW s \in Specs, StartServer(m, s) PROVE MgrIInv'
    <3> DEFINE op == [MgrIdle EXCEPT !.at = IF connection = NoServer THEN "spawn" ELSE "stop",
                                     !.spec = s, !.again = TRUE]
    <3>1. op \in MgrType /\ op.at \in {"stop", "spawn"} /\ (op.at = "spawn" => connection = NoServer)
      BY DEF MgrIdle, MgrType
    <3>2. MgrBegin(m, op) /\ UNCHANGED <<connection, proc, children, abandoned>>
      BY <2>1 DEF StartServer
    <3> HIDE DEF op
    <3> QED
      BY <2>1, <3>1, <3>2, BeginIInv
  <2>2. ASSUME MgrIInv, NEW m \in Managers, StopServer(m) PROVE MgrIInv'
    <3> DEFINE op == [MgrIdle EXCEPT !.at = "signal", !.pid = connection.pid]
    <3>1. op \in MgrType /\ op.at = "signal" /\ op.pid = connection.pid
      BY <2>2 DEF MgrIInv, MgrTypeOK, MgrIdle, MgrType
    <3>2. /\ MgrBegin(m, op) /\ connection # NoServer
          /\ UNCHANGED <<connection, proc, children, abandoned>>
      BY <2>2 DEF StopServer
    <3> HIDE DEF op
    <3> QED
      BY <2>2, <3>1, <3>2, BeginIInv
  <2> QED
    BY <2>1, <2>2, SpawnServerIInv, ExitedEarlyIInv, SeenReadyIInv, RecordServerIInv,
       RecordFailsIInv, StartTimesOutIInv, StopFirstIInv, SignalPidIInv, SignalRefusedIInv,
       UnlinkConnectionIInv, ManagerDiesIInv, ServerReadyIInv, ProcessEndsIInv, PidReusedIInv,
       MgrStutterIInv DEF MgrNext
<1> QED
  BY <1>1, <1>2, PTL DEF MgrSpec

\* A server that runs is the recorded one or one that a live manager is about to
\* record, except those that LeftRunning collects: their manager died waiting
\* for them or could not write the record, they ignored SIGTERM, or a manager
\* that had read another record replaced or removed theirs.  For any number of
\* managers, processes and specifications (start and stop of ServerManager).
THEOREM ServersStayKnown == MgrSpec => []RunningServersAreKnown
<1>1. MgrIInv => RunningServersAreKnown
  BY DEF MgrIInv, ServersAreHeld, RunningServersAreKnown, Servers
<1> QED
  BY <1>1, MgrInvariant, PTL
(***************************************************************************)
(* The OpenAI facade.                                                      *)
(***************************************************************************)
FacadeType == [phase : {"off", "starting", "waiting", "serving", "closing", "ended"},
               backend : Backends, embed : BOOLEAN, ready : BOOLEAN]
ClientType == [at : {"new", "proxy", "lock", "load", "embed", "sent"},
               status : {0, 200, 400, 404, 413, 500, 502, 503}]
EmbedderType == [lock : Clients \cup {NoClient}, loads : Nat, loaded : BOOLEAN]

\* The thread that loads is the one that holds the lock, nothing is loaded
\* while it does, and it makes the only copy.
OneLoader ==
    /\ \A c \in Clients : client[c].at = "load" <=> embedder.lock = c
    /\ embedder.lock # NoClient => embedder.loaded = FALSE
    /\ embedder.loads = IF embedder.loaded = TRUE \/ embedder.lock # NoClient THEN 1 ELSE 0

\* The child is started after the facade has been admitted, and is over when
\* the facade has ended by itself.
UpstreamEnds ==
    /\ upstream = [state |-> upstream.state, args |-> upstream.args]
    /\ facade.phase \in {"off", "starting"} => upstream = Down
    /\ facade.phase = "ended" /\ facade.backend = "mlx" /\ ~killedEarly
           => upstream.state \in {"none", "dead"}

FacadeIInv == FacadeTypeOK /\ OneLoader /\ UpstreamEnds

\* The part of it that the main thread can disturb.
MainKeeps == /\ facade \in FacadeType /\ upstream.state \in {"none", "booting", "up", "dead"}
             /\ killedEarly \in BOOLEAN /\ UpstreamEnds

LEMMA FacadeTypes ==
    ASSUME FacadeIInv
    PROVE  facade \in FacadeType /\ client \in [Clients -> ClientType] /\ embedder \in EmbedderType
BY DEF FacadeIInv, FacadeTypeOK, FacadeType, ClientType, EmbedderType

\* A step that leaves the main thread and the child alone, and where thread
\* c neither takes nor gives up the lock.
LEMMA AwayFromTheLock ==
    ASSUME FacadeIInv, NEW c \in Clients, UNCHANGED <<facade, upstream, embedder, killedEarly>>,
           client' \in [Clients -> ClientType], client[c].at # "load", client'[c].at # "load",
           \A d \in Clients : d # c => client'[d] = client[d]
    PROVE  FacadeIInv'
<1>1. FacadeTypeOK'
  BY DEF FacadeIInv, FacadeTypeOK, ClientType
<1>2. OneLoader'
  BY DEF FacadeIInv, OneLoader
<1>3. UpstreamEnds'
  BY DEF FacadeIInv, UpstreamEnds
<1> QED
  BY <1>1, <1>2, <1>3 DEF FacadeIInv

LEMMA SendEffect ==
    ASSUME FacadeIInv, NEW c \in Clients, NEW code \in {200, 400, 404, 413, 500, 502, 503},
           Send(c, code)
    PROVE  /\ client' \in [Clients -> ClientType] /\ client'[c].at = "sent"
           /\ \A d \in Clients : d # c => client'[d] = client[d]
BY FacadeTypes DEF Send, ClientType

LEMMA StepEffect ==
    ASSUME FacadeIInv, NEW c \in Clients, NEW a \in {"proxy", "lock", "load", "embed"}, Step(c, a)
    PROVE  /\ client' \in [Clients -> ClientType] /\ client'[c].at = a
           /\ \A d \in Clients : d # c => client'[d] = client[d]
BY FacadeTypes DEF Step, ClientType

LEMMA QuietClientIInv ==
    ASSUME FacadeIInv, NEW c \in Clients,
           \/ GetHealth(c)
           \/ \E code \in {200, 400, 404, 413} : Answered(c, code)
           \/ PostChat(c)
           \/ \E code \in {200, 500} : Relay(c, code)
           \/ PostEmbeddings(c)
           \/ \E code \in {200, 500} : Embed(c, code)
           \/ NextRequest(c)
    PROVE  FacadeIInv'
<1>1. /\ client[c].at # "load"
      /\ UNCHANGED <<facade, upstream, embedder, killedEarly>>
  BY DEF GetHealth, Answered, PostChat, Relay, PostEmbeddings, Embed, NextRequest, ClientAt
<1>2. \/ \E code \in {200, 400, 404, 413, 500, 502, 503} : Send(c, code)
      \/ \E a \in {"proxy", "lock"} : Step(c, a)
      \/ client' = [client EXCEPT ![c] = FreshClient]
  <2>1. CASE GetHealth(c) BY <2>1 DEF GetHealth
  <2>2. CASE \E code \in {200, 400, 404, 413} : Answered(c, code) BY <2>2 DEF Answered
  <2>3. CASE PostChat(c) BY <2>3 DEF PostChat
  <2>4. CASE \E code \in {200, 500} : Relay(c, code) BY <2>4 DEF Relay
  <2>5. CASE PostEmbeddings(c) BY <2>5 DEF PostEmbeddings
  <2>6. CASE \E code \in {200, 500} : Embed(c, code) BY <2>6 DEF Embed
  <2>7. CASE NextRequest(c) BY <2>7 DEF NextRequest
  <2> QED
    BY <2>1, <2>2, <2>3, <2>4, <2>5, <2>6, <2>7
<1>3. /\ client' \in [Clients -> ClientType] /\ client'[c].at # "load"
      /\ \A d \in Clients : d # c => client'[d] = client[d]
  <2>1. CASE \E code \in {200, 400, 404, 413, 500, 502, 503} : Send(c, code)
    BY <2>1, SendEffect
  <2>2. CASE \E a \in {"proxy", "lock"} : Step(c, a)
    BY <2>2, StepEffect
  <2>3. CASE client' = [client EXCEPT ![c] = FreshClient]
    BY <2>3, FacadeTypes DEF FreshClient, ClientType
  <2> QED
    BY <1>2, <2>1, <2>2, <2>3
<1> QED
  BY <1>1, <1>3, AwayFromTheLock

LEMMA EnsureLoadedIInv ==
    ASSUME FacadeIInv, NEW c \in Clients, EnsureLoaded(c)
    PROVE  FacadeIInv'
<1> USE FacadeAssumption
<1>1. /\ client[c].at = "lock" /\ embedder.lock = NoClient /\ UNCHANGED <<facade, upstream, killedEarly>>
  BY DEF EnsureLoaded, ClientAt
<1>2. CASE embedder.loaded = TRUE
  <2>1. Step(c, "embed") /\ UNCHANGED embedder
    BY <1>2 DEF EnsureLoaded
  <2> QED
    BY <1>1, <2>1, StepEffect, AwayFromTheLock
<1>3. CASE embedder.loaded = FALSE
  <2>1. Step(c, "load") /\ embedder' = [lock |-> c, loaded |-> FALSE, loads |-> embedder.loads + 1]
    BY <1>3 DEF EnsureLoaded
  <2>2. /\ client' \in [Clients -> ClientType] /\ client'[c].at = "load"
        /\ \A d \in Clients : d # c => client'[d] = client[d]
    BY <2>1, StepEffect
  <2>3. embedder.loads = 0
    BY <1>1, <1>3 DEF FacadeIInv, OneLoader
  <2>4. /\ embedder' \in EmbedderType /\ embedder'.lock = c /\ embedder'.loads = 1
        /\ embedder'.loaded = FALSE
    BY <1>3, <2>1, <2>3, FacadeTypes DEF EmbedderType
  <2>5. FacadeTypeOK'
    BY <1>1, <2>2, <2>4 DEF FacadeIInv, FacadeTypeOK, ClientType, EmbedderType
  <2>6. OneLoader'
    BY <1>1, <2>2, <2>4 DEF FacadeIInv, OneLoader
  <2>7. UpstreamEnds'
    BY <1>1 DEF FacadeIInv, UpstreamEnds
  <2> QED
    BY <2>5, <2>6, <2>7 DEF FacadeIInv
<1> QED
  BY <1>2, <1>3, FacadeTypes DEF EmbedderType

LEMMA EndLoadIInv ==
    ASSUME FacadeIInv, NEW c \in Clients, NEW ok \in BOOLEAN, EndLoad(c, ok)
    PROVE  FacadeIInv'
<1> USE FacadeAssumption
<1>1. client[c].at = "load" /\ UNCHANGED <<facade, upstream, killedEarly>>
  BY DEF EndLoad, ClientAt
<1>2. /\ client' \in [Clients -> ClientType] /\ client'[c].at # "load"
      /\ \A d \in Clients : d # c => client'[d] = client[d]
  <2>1. Step(c, "embed") \/ Send(c, 500)
    BY DEF EndLoad
  <2> QED
    BY <2>1, StepEffect, SendEffect
<1>3. embedder.lock = c /\ embedder.loads = 1
  BY <1>1 DEF FacadeIInv, OneLoader
<1>4. /\ embedder' \in EmbedderType /\ embedder'.lock = NoClient
      /\ embedder'.loads = IF embedder'.loaded = TRUE THEN 1 ELSE 0
  <2>1. CASE ok = TRUE
    BY <1>3, <2>1 DEF EndLoad, EmbedderType
  <2>2. CASE ok = FALSE
    BY <1>3, <2>2 DEF EndLoad, EmbedderType
  <2> QED
    BY <2>1, <2>2
<1>5. FacadeTypeOK'
  BY <1>1, <1>2, <1>4 DEF FacadeIInv, FacadeTypeOK, ClientType, EmbedderType
<1>6. OneLoader'
  BY <1>1, <1>2, <1>3, <1>4 DEF FacadeIInv, OneLoader
<1>7. UpstreamEnds'
  BY <1>1 DEF FacadeIInv, UpstreamEnds
<1> QED
  BY <1>5, <1>6, <1>7 DEF FacadeIInv

LEMMA FacadeMainIInv ==
    ASSUME FacadeIInv, FacadeMain
    PROVE  FacadeIInv'
<1>1. UNCHANGED <<embedder, client>>
  BY DEF FacadeMain, Main, SpawnUpstream, NoMlx, Serve, Shutdown, LeaveServe, FailToServe, Killed,
         UpstreamBoots, UpstreamDies
<1>2. MainKeeps
  BY FacadeTypes DEF FacadeIInv, FacadeTypeOK, MainKeeps
<1>3. \A p : Enter(p) => /\ facade'.phase = p /\ facade'.backend = facade.backend
                         /\ p \in {"starting", "waiting", "closing", "ended"} => facade' \in FacadeType
  BY <1>2 DEF Enter, FacadeType, MainKeeps
<1>4. EndUpstream =>
          /\ upstream' = [state |-> upstream'.state, args |-> upstream'.args]
          /\ upstream'.state \in {"none", "booting", "up", "dead"}
          /\ facade.backend = "mlx" => upstream'.state \in {"none", "dead"}
  <2>1. CASE facade.backend = "mlx" /\ upstream.state \in {"booting", "up"}
    <3>1. ASSUME EndUpstream PROVE upstream' = [state |-> "dead", args |-> upstream.args]
      BY <1>2, <2>1, <3>1 DEF EndUpstream, MainKeeps, UpstreamEnds
    <3> QED
      BY <3>1
  <2>2. CASE ~ (facade.backend = "mlx" /\ upstream.state \in {"booting", "up"})
    <3>1. EndUpstream => upstream' = upstream
      BY <2>2 DEF EndUpstream
    <3> QED
      BY <1>2, <2>2, <3>1 DEF MainKeeps, UpstreamEnds
  <2> QED
    BY <2>1, <2>2
<1>5. MainKeeps'
  <2>1. ASSUME NEW x \in BOOLEAN, NEW y \in BOOLEAN, Main(x, y) PROVE MainKeeps'
    BY <1>2, <1>3, <2>1 DEF Main, Phase, MainKeeps, UpstreamEnds, Down
  <2>2. ASSUME NEW extra \in ExtraArgs, NEW running \in BOOLEAN, SpawnUpstream(extra, running)
        PROVE  MainKeeps'
    <3>1. \E args : \E st \in {"none", "booting", "up", "dead"} : upstream' = [state |-> st, args |-> args]
      BY <2>2 DEF SpawnUpstream, Down
    <3>2. upstream' = [state |-> upstream'.state, args |-> upstream'.args] /\ upstream'.state \in {"none", "booting", "up", "dead"}
      BY <3>1
    <3> QED
      BY <1>2, <1>3, <2>2, <3>2 DEF SpawnUpstream, MainKeeps, UpstreamEnds
  <2>3. ASSUME NoMlx PROVE MainKeeps'
    BY <1>2, <1>3, <2>3 DEF NoMlx, Phase, MainKeeps, UpstreamEnds, Down
  <2>4. ASSUME NEW late \in BOOLEAN, Serve(late) PROVE MainKeeps'
    <3>1. facade' \in FacadeType /\ facade'.phase = "serving"
      BY <1>2, <2>4 DEF Serve, FacadeType, MainKeeps
    <3> QED
      BY <1>2, <2>4, <3>1 DEF Serve, MainKeeps, UpstreamEnds
  <2>5. ASSUME Shutdown PROVE MainKeeps'
    BY <1>2, <1>3, <1>4, <2>5 DEF Shutdown, MainKeeps, UpstreamEnds
  <2>6. ASSUME LeaveServe PROVE MainKeeps'
    BY <1>2, <1>3, <1>4, <2>6 DEF LeaveServe, MainKeeps, UpstreamEnds
  <2>7. ASSUME FailToServe PROVE MainKeeps'
    BY <1>2, <1>3, <1>4, <2>7 DEF FailToServe, MainKeeps, UpstreamEnds
  <2>8. ASSUME Killed PROVE MainKeeps'
    BY <1>2, <1>3, <2>8 DEF Killed, MainKeeps, UpstreamEnds
  <2>9. ASSUME UpstreamBoots PROVE MainKeeps'
    <3>1. upstream' = [state |-> "up", args |-> upstream.args]
      BY <1>2, <2>9 DEF UpstreamBoots, MainKeeps, UpstreamEnds
    <3> QED
      BY <1>2, <2>9, <3>1 DEF UpstreamBoots, MainKeeps, UpstreamEnds, Down
  <2>10. ASSUME UpstreamDies PROVE MainKeeps'
    <3>1. upstream' = [state |-> "dead", args |-> upstream.args]
      BY <1>2, <2>10 DEF UpstreamDies, MainKeeps, UpstreamEnds
    <3> QED
      BY <1>2, <2>10, <3>1 DEF UpstreamDies, MainKeeps, UpstreamEnds, Down
  <2> QED
    BY <2>1, <2>2, <2>3, <2>4, <2>5, <2>6, <2>7, <2>8, <2>9, <2>10 DEF FacadeMain
<1>6. FacadeTypeOK'
  BY <1>1, <1>5 DEF FacadeIInv, FacadeTypeOK, FacadeType, MainKeeps
<1>7. OneLoader'
  BY <1>1 DEF FacadeIInv, OneLoader
<1> QED
  BY <1>5, <1>6, <1>7 DEF FacadeIInv, MainKeeps

LEMMA FacadeInitIInv == ASSUME FacadeInit PROVE FacadeIInv
<1> USE FacadeAssumption
<1>1. FacadeTypeOK
  <2>1. facade \in [phase : {"off", "starting", "waiting", "serving", "closing", "ended"},
                    backend : Backends, embed : BOOLEAN, ready : BOOLEAN]
    BY DEF FacadeInit
  <2>2. upstream.state \in {"none", "booting", "up", "dead"}
    BY DEF FacadeInit, Down
  <2>3. embedder \in [lock : Clients \cup {NoClient}, loads : Nat, loaded : BOOLEAN]
    BY DEF FacadeInit
  <2>4. client \in [Clients -> [at : {"new", "proxy", "lock", "load", "embed", "sent"},
                                status : {0, 200, 400, 404, 413, 500, 502, 503}]]
    BY DEF FacadeInit, FreshClient
  <2>5. killedEarly \in BOOLEAN
    BY DEF FacadeInit
  <2> QED
    BY <2>1, <2>2, <2>3, <2>4, <2>5 DEF FacadeTypeOK
<1>2. OneLoader
  BY DEF FacadeInit, OneLoader, FreshClient
<1>3. UpstreamEnds
  BY DEF FacadeInit, UpstreamEnds, Down
<1> QED
  BY <1>1, <1>2, <1>3 DEF FacadeIInv

LEMMA FacadeStepIInv == FacadeIInv /\ [FacadeNext]_facadeVars => FacadeIInv'
<1>1. ASSUME FacadeIInv, UNCHANGED facadeVars PROVE FacadeIInv'
  BY <1>1 DEF facadeVars, FacadeIInv, FacadeTypeOK, OneLoader, UpstreamEnds
<1>2. ASSUME FacadeIInv, NEW c \in Clients, FacadeClient(c) PROVE FacadeIInv'
  BY <1>2, QuietClientIInv, EnsureLoadedIInv, EndLoadIInv DEF FacadeClient
<1> QED
  BY <1>1, <1>2, FacadeMainIInv DEF FacadeNext

LEMMA FacadeInvariant == FacadeSpec => []FacadeIInv
BY FacadeInitIInv, FacadeStepIInv, PTL DEF FacadeSpec

\* Whatever the threads of the server do, one copy of the embedding model at
\* most is loaded or being loaded, and a failed load gives its lock back
\* (ensure_loaded), for any number of threads.
THEOREM EmbeddingModelIsLoadedOnce == FacadeSpec => []OneEmbeddingModel
<1>1. FacadeIInv => OneEmbeddingModel
  <2> SUFFICES ASSUME FacadeIInv PROVE OneEmbeddingModel
    OBVIOUS
  <2>1. embedder.loads <= 1
    BY DEF FacadeIInv, OneLoader
  <2>2. (\A c \in Clients : client[c].at # "load") => embedder.lock = NoClient
    BY FacadeTypes DEF FacadeIInv, OneLoader, EmbedderType
  <2> QED
    BY <2>1, <2>2 DEF OneEmbeddingModel
<1> QED
  BY <1>1, FacadeInvariant, PTL

(***************************************************************************)
(* The filter of _spawn_upstream: the function that SafeArgs chooses       *)
(* exists, and no prefix of the arguments lets a blocked token through.    *)
(***************************************************************************)
Filtering(extra, f, n) ==
    f = [i \in 0..n |-> IF i = 0 THEN <<>>
                        ELSE IF PassedOn(extra, i) THEN Append(f[i - 1], extra[i]) ELSE f[i - 1]]

LEMMA SafeArgsIsFiltering ==
    ASSUME NEW extra
    PROVE  SafeArgs(extra) = (CHOOSE f : Filtering(extra, f, Len(extra)))[Len(extra)]
BY DEF SafeArgs, Filtering

LEMMA FilteringExists == ASSUME NEW extra, NEW n \in Nat PROVE \E f : Filtering(extra, f, n)
<1> DEFINE Bad == {m \in Nat : ~ \E f : Filtering(extra, f, m)}
<1> SUFFICES ASSUME Bad # {} PROVE FALSE
  OBVIOUS
<1>1. PICK m \in Bad : \A k \in Bad : m <= k
  BY LeastNat
<1>2. m \in Nat /\ ~ \E f : Filtering(extra, f, m)
  OBVIOUS
<1>3. CASE m = 0
  <2>1. Filtering(extra, [i \in 0..0 |-> <<>>], 0)
    BY DEF Filtering
  <2> QED
    BY <1>2, <1>3, <2>1
<1>4. CASE m # 0
  <2>1. m - 1 \in Nat /\ m - 1 \notin Bad
    BY <1>1, <1>2, <1>4
  <2>2. PICK f : Filtering(extra, f, m - 1)
    BY <2>1
  <2> DEFINE g == [i \in 0..m |-> IF i = 0 THEN <<>>
                                  ELSE IF PassedOn(extra, i) THEN Append(f[i - 1], extra[i])
                                  ELSE f[i - 1]]
  <2>3. ASSUME NEW i \in 0..(m - 1) PROVE g[i] = f[i]
    <3>1. i \in 0..m
      BY <1>2
    <3> QED
      BY <2>2, <3>1 DEF Filtering
  <2>4. ASSUME NEW i \in 0..m, i # 0 PROVE g[i - 1] = f[i - 1]
    <3>1. i - 1 \in 0..(m - 1)
      BY <1>2, <2>4
    <3> QED
      BY <2>3, <3>1
  <2>5. g = [i \in 0..m |-> IF i = 0 THEN <<>>
                            ELSE IF PassedOn(extra, i) THEN Append(g[i - 1], extra[i]) ELSE g[i - 1]]
    BY <2>4
  <2> HIDE DEF g
  <2>6. Filtering(extra, g, m)
    BY <2>5 DEF Filtering
  <2> QED
    BY <1>2, <2>6
<1> QED
  BY <1>3, <1>4

\* What is passed on is neither a blocked flag nor the value of one.
LEMMA FilterIsSafe == ASSUME NEW extra \in ExtraArgs PROVE SafeArgs(extra) \in Seq({"flag", "value"})
<1> DEFINE n == Len(extra)
<1>1. extra \in Seq(ArgTokens) /\ n \in Nat
  BY FacadeAssumption
<1>2. PICK f : f = CHOOSE g : Filtering(extra, g, n)
  OBVIOUS
<1>3. Filtering(extra, f, n)
  BY <1>1, <1>2, FilteringExists
<1>4. /\ f[0] = <<>>
      /\ \A i \in 1..n : f[i] = IF PassedOn(extra, i) THEN Append(f[i - 1], extra[i]) ELSE f[i - 1]
  <2> HIDE DEF n
  <2>1. ASSUME NEW i \in 0..n
        PROVE  f[i] = IF i = 0 THEN <<>>
                      ELSE IF PassedOn(extra, i) THEN Append(f[i - 1], extra[i]) ELSE f[i - 1]
    BY <1>3 DEF Filtering
  <2>2. 0 \in 0..n /\ \A i \in 1..n : i \in 0..n /\ i # 0
    BY <1>1
  <2> QED
    BY <2>1, <2>2
<1>5. ASSUME NEW i \in 1..n, PassedOn(extra, i) PROVE extra[i] \in {"flag", "value"}
  <2>1. extra[i] \in ArgTokens
    BY <1>1
  <2>2. extra[i] # "address"
    BY <1>5, FacadeAssumption DEF PassedOn, Dashed
  <2> QED
    BY <1>5, <2>1, <2>2 DEF ArgTokens, PassedOn, Blocked
<1> DEFINE Bad == {i \in 0..n : f[i] \notin Seq({"flag", "value"})}
<1>6. Bad = {}
  <2> SUFFICES ASSUME Bad # {} PROVE FALSE
    OBVIOUS
  <2>1. Bad \subseteq Nat
    OBVIOUS
  <2>2. PICK i \in Bad : \A k \in Bad : i <= k
    BY <2>1, LeastNat
  <2>3. i \in 0..n /\ f[i] \notin Seq({"flag", "value"})
    OBVIOUS
  <2>4. i # 0
    <3>1. <<>> \in Seq({"flag", "value"})
      OBVIOUS
    <3> QED
      BY <1>4, <2>3, <3>1
  <2>5. i \in 1..n /\ i - 1 \in 0..n /\ ~ (i <= i - 1)
    BY <1>1, <2>3, <2>4
  <2>6. f[i - 1] \in Seq({"flag", "value"})
    BY <2>2, <2>5
  <2>7. f[i] = f[i - 1] \/ (f[i] = Append(f[i - 1], extra[i]) /\ extra[i] \in {"flag", "value"})
    BY <1>4, <1>5, <2>5
  <2>8. \A s \in Seq({"flag", "value"}), x \in {"flag", "value"} : Append(s, x) \in Seq({"flag", "value"})
    OBVIOUS
  <2> QED
    BY <2>3, <2>6, <2>7, <2>8
<1>7. f[n] \in Seq({"flag", "value"})
  BY <1>1, <1>6
<1> QED
  BY <1>2, <1>7, SafeArgsIsFiltering

ArgsAreSafe == \A i \in DOMAIN upstream.args : upstream.args[i] \in {"flag", "value"}

\* The chat backend ends with the facade however main leaves, except when a
\* signal kills it outright (EndUpstream on each way out), and is never started
\* with a blocked flag or the value of one, whatever the extra arguments are
\* (_spawn_upstream).
THEOREM UpstreamDoesNotOutliveTheFacade == FacadeSpec => []NoOrphanUpstream
<1>1. FacadeInit => FacadeIInv /\ ArgsAreSafe
  <2>1. FacadeInit => upstream.args = <<>>
    BY DEF FacadeInit, Down
  <2>2. upstream.args = <<>> => ArgsAreSafe
    BY DEF ArgsAreSafe
  <2> QED
    BY <2>1, <2>2, FacadeInitIInv
<1>2. FacadeIInv /\ ArgsAreSafe /\ [FacadeNext]_facadeVars => ArgsAreSafe'
  <2> SUFFICES ASSUME FacadeIInv, ArgsAreSafe, [FacadeNext]_facadeVars PROVE ArgsAreSafe'
    OBVIOUS
  <2>1. \/ upstream'.args = upstream.args
        \/ \E extra \in ExtraArgs : upstream'.args = SafeArgs(extra)
        \/ upstream'.args = <<>>
    <3>1. ASSUME NEW c \in Clients, FacadeClient(c) PROVE upstream' = upstream
      BY <3>1 DEF FacadeClient, GetHealth, Answered, PostChat, Relay, PostEmbeddings, EnsureLoaded,
                  EndLoad, Embed, NextRequest
    <3>2. ASSUME NEW extra \in ExtraArgs, NEW running \in BOOLEAN, SpawnUpstream(extra, running)
          PROVE  upstream'.args = SafeArgs(extra) \/ upstream'.args = <<>>
      BY <3>2 DEF SpawnUpstream, Down
    <3>3. \A st : [upstream EXCEPT !.state = st].args = upstream.args
      BY DEF FacadeIInv, UpstreamEnds
    <3>4. ASSUME FacadeMain, ~ \E extra \in ExtraArgs, running \in BOOLEAN : SpawnUpstream(extra, running)
          PROVE  upstream' = upstream \/ \E st : upstream' = [upstream EXCEPT !.state = st]
      BY <3>4 DEF FacadeMain, Main, NoMlx, Serve, Shutdown, LeaveServe, FailToServe, Killed,
                  EndUpstream, UpstreamBoots, UpstreamDies
    <3> QED
      BY <3>1, <3>2, <3>3, <3>4 DEF FacadeNext, facadeVars
  <2>2. CASE upstream'.args = upstream.args
    BY <2>2 DEF ArgsAreSafe
  <2>3. CASE \E extra \in ExtraArgs : upstream'.args = SafeArgs(extra)
    BY <2>3, FilterIsSafe DEF ArgsAreSafe
  <2>4. CASE upstream'.args = <<>>
    BY <2>4 DEF ArgsAreSafe
  <2> QED
    BY <2>1, <2>2, <2>3, <2>4
<1>3. FacadeIInv /\ ArgsAreSafe => NoOrphanUpstream
  BY DEF FacadeIInv, UpstreamEnds, ArgsAreSafe, NoOrphanUpstream, Phase
<1> QED
  BY <1>1, <1>2, <1>3, FacadeStepIInv, PTL DEF FacadeSpec

(***************************************************************************)
(* Leases and sessions.                                                    *)
(***************************************************************************)
LeaseType == [holder : Holders, key : LeaseKeys, state : States]

\* The registry has the newest lease of each key, and an older one that is
\* live has been revived.
NewestIsRegistered ==
    /\ \A f \in DOMAIN leases : f <= registry[leases[f].key]
    /\ \A f \in DOMAIN leases : f # registry[leases[f].key] /\ Live(f) => f \in revived

LeasesIInv == /\ leases \in Seq(LeaseType)
              /\ registry \in [LeaseKeys -> 0..Len(leases)]
              /\ revived \subseteq DOMAIN leases
              /\ NewestIsRegistered

SessionsIInv == /\ IsFiniteSet(DOMAIN admitted)
                /\ DOMAIN admitted \subseteq SessionIds
                /\ \A s \in DOMAIN admitted : admitted[s] \in KvSizes
                /\ SessionsFitBudgets

LEMMA LeaseStates == \A a \in States : Transitions[a] \subseteq States
BY DEF States, Transitions

LEMMA AcquireIInv ==
    ASSUME LeasesIInv, NEW h \in Holders, NEW k \in LeaseKeys, Acquire(h, k)
    PROVE  LeasesIInv'
<1> DEFINE new == [holder |-> h, key |-> k, state |-> "cold"]
<1>1. new \in LeaseType /\ new.key = k
  BY DEF LeaseType, States
<1>2. /\ leases \in Seq(LeaseType) /\ Len(leases) \in Nat /\ DOMAIN leases = 1..Len(leases)
      /\ \A f \in DOMAIN leases : leases[f] \in LeaseType
      /\ registry \in [LeaseKeys -> 0..Len(leases)]
  BY DEF LeasesIInv
<1>3. /\ leases' = Append(leases, new) /\ UNCHANGED revived
      /\ registry' = [registry EXCEPT ![k] = Len(leases) + 1]
      /\ registry[k] # 0 => ~ Live(registry[k])
  BY DEF Acquire
<1> HIDE DEF new
<1>4. /\ leases' \in Seq(LeaseType) /\ Len(leases') = Len(leases) + 1
      /\ DOMAIN leases' = 1..(Len(leases) + 1)
      /\ \A f \in DOMAIN leases : leases'[f] = leases[f]
      /\ leases'[Len(leases) + 1] = new
  BY <1>1, <1>2, <1>3
<1>5. /\ registry' \in [LeaseKeys -> 0..Len(leases')]
      /\ registry'[k] = Len(leases) + 1 /\ \A j \in LeaseKeys : j # k => registry'[j] = registry[j]
  BY <1>2, <1>3, <1>4
<1>6. revived' \subseteq DOMAIN leases'
  BY <1>2, <1>3, <1>4 DEF LeasesIInv
<1>7. ASSUME NEW f \in DOMAIN leases'
      PROVE  /\ f <= registry'[leases'[f].key]
             /\ f # registry'[leases'[f].key] /\ Live(f)' => f \in revived'
  <2>1. CASE f = Len(leases) + 1
    BY <1>1, <1>4, <1>5, <2>1
  <2>2. CASE f \in DOMAIN leases
    <3>1. /\ leases'[f] = leases[f] /\ leases[f].key \in LeaseKeys /\ f <= registry[leases[f].key]
          /\ f # registry[leases[f].key] /\ Live(f) => f \in revived
          /\ f <= Len(leases) /\ f # 0
      BY <1>2, <1>4, <2>2 DEF LeasesIInv, NewestIsRegistered, LeaseType
    <3> QED
      BY <1>2, <1>3, <1>5, <3>1 DEF Live
  <2> QED
    BY <1>2, <1>4, <1>7, <2>1, <2>2
<1> QED
  BY <1>4, <1>5, <1>6, <1>7 DEF LeasesIInv, NewestIsRegistered

\* A lease keeps its key and its place whatever becomes of its state.
LEMMA StateChangeIInv ==
    ASSUME LeasesIInv, NEW f \in DOMAIN leases, NEW target \in States,
           leases' = [leases EXCEPT ![f].state = target], UNCHANGED registry,
           revived \subseteq revived', revived' \subseteq DOMAIN leases,
           target \notin Over /\ f # registry[leases[f].key] => f \in revived'
    PROVE  LeasesIInv'
<1>1. /\ leases \in Seq(LeaseType) /\ Len(leases) \in Nat /\ DOMAIN leases = 1..Len(leases)
      /\ \A g \in DOMAIN leases : leases[g] \in LeaseType
  BY DEF LeasesIInv
<1>2. /\ leases' \in Seq(LeaseType) /\ Len(leases') = Len(leases) /\ DOMAIN leases' = DOMAIN leases
      /\ leases'[f].key = leases[f].key /\ leases'[f].state = target
      /\ \A g \in DOMAIN leases : g # f => leases'[g] = leases[g]
  <2>1. leases' = [leases EXCEPT ![f] = [leases[f] EXCEPT !.state = target]]
    OBVIOUS
  <2>2. /\ [leases[f] EXCEPT !.state = target] \in LeaseType
        /\ [leases[f] EXCEPT !.state = target].key = leases[f].key
        /\ [leases[f] EXCEPT !.state = target].state = target
    BY <1>1 DEF LeaseType
  <2> DEFINE l == [leases[f] EXCEPT !.state = target]
  <2> HIDE DEF l
  <2>3. leases' = [leases EXCEPT ![f] = l]
    BY <2>1 DEF l
  <2>4. l \in LeaseType /\ l.key = leases[f].key /\ l.state = target
    BY <2>2 DEF l
  <2> QED
    BY <1>1, <2>3, <2>4
<1>3. \A g \in DOMAIN leases : leases'[g].key = leases[g].key
  BY <1>2
<1>4. ASSUME NEW g \in DOMAIN leases'
      PROVE  /\ g <= registry'[leases'[g].key]
             /\ g # registry'[leases'[g].key] /\ Live(g)' => g \in revived'
  <2>1. /\ g <= registry[leases[g].key]
        /\ g # registry[leases[g].key] /\ Live(g) => g \in revived
    BY <1>2, <1>4 DEF LeasesIInv, NewestIsRegistered
  <2>2. CASE g = f
    BY <1>2, <1>3, <2>1, <2>2 DEF Live
  <2>3. CASE g # f
    BY <1>2, <1>3, <1>4, <2>1, <2>3 DEF Live
  <2> QED
    BY <2>2, <2>3
<1> QED
  BY <1>2, <1>4 DEF LeasesIInv, NewestIsRegistered

LEMMA TransitionIInv ==
    ASSUME LeasesIInv, NEW f \in DOMAIN leases, NEW target \in States, Transition(f, target)
    PROVE  LeasesIInv'
<1>1. f # registry[leases[f].key] /\ Live(f) => f \in revived
  BY DEF LeasesIInv, NewestIsRegistered
<1>2. /\ revived \subseteq revived' /\ revived' \subseteq DOMAIN leases
      /\ target \notin Over /\ f # registry[leases[f].key] => f \in revived'
  BY <1>1 DEF Transition, LeasesIInv
<1> QED
  BY <1>2, StateChangeIInv DEF Transition

LEMMA ReleaseIInv ==
    ASSUME LeasesIInv, NEW f \in DOMAIN leases, Release(f)
    PROVE  LeasesIInv'
<1>1. "stopped" \in States /\ "stopped" \in Over
  BY DEF States, Over
<1> QED
  BY <1>1, StateChangeIInv DEF Release, LeasesIInv

LEMMA KvUsedIs == KvUsed = SumOf(admitted, DOMAIN admitted)
BY SumIsSumOf DEF KvUsed

LEMMA AdmitSessionIInv ==
    ASSUME SessionsIInv, NEW s \in SessionIds, NEW kv \in KvSizes, AdmitSession(s, kv)
    PROVE  SessionsIInv'
<1> USE AdmissionAssumption
<1> DEFINE D == DOMAIN admitted
<1>1. /\ s \notin D /\ Cardinality(D) < MaxSessions
      /\ KvUsed + kv <= KvBudget /\ KvUsed + kv <= MemoryBudget
      /\ admitted' = [x \in D \cup {s} |-> IF x = s THEN kv ELSE admitted[x]]
  BY DEF AdmitSession
<1>2. /\ DOMAIN admitted' = D \cup {s} /\ admitted'[s] = kv
      /\ \A x \in D : admitted'[x] = admitted[x]
  BY <1>1
<1>3. /\ IsFiniteSet(D) /\ \A x \in D : admitted[x] \in Nat
  BY DEF SessionsIInv
<1>4. /\ IsFiniteSet(D \cup {s}) /\ Cardinality(D \cup {s}) = Cardinality(D) + 1
      /\ Cardinality(D) \in Nat
  BY <1>1, <1>3, FS_AddElement, FS_CardinalityType
<1>5. SumOf(admitted', D \cup {s}) = kv + SumOf(admitted, D) /\ SumOf(admitted, D) \in Nat
  <2>1. kv \in Nat
    OBVIOUS
  <2> HIDE DEF D
  <2> QED
    BY <1>1, <1>2, <1>3, <2>1, SumOfOneMore
<1>6. KvUsed = SumOf(admitted, D)
  BY KvUsedIs
<1>7. KvUsed' = SumOf(admitted', D \cup {s})
  <2>1. KvUsed' = SumOf(admitted', DOMAIN admitted')
    BY DEF KvUsed, MapThenSumSet, MapThenFoldSet, Pick, SumOf, SumsOf
  <2> QED
    BY <1>2, <2>1
<1>8. SessionsFitBudgets'
  <2>1. KvUsed' <= KvBudget /\ KvUsed' <= MemoryBudget
    BY <1>1, <1>5, <1>6, <1>7
  <2>2. Cardinality(DOMAIN admitted') <= MaxSessions
    BY <1>1, <1>2, <1>4
  <2> QED
    BY <2>1, <2>2 DEF SessionsFitBudgets
<1>9. \A x \in DOMAIN admitted' : x \in SessionIds /\ admitted'[x] \in KvSizes
  BY <1>2 DEF SessionsIInv
<1> QED
  BY <1>2, <1>4, <1>8, <1>9 DEF SessionsIInv

LEMMA CancelSessionIInv ==
    ASSUME SessionsIInv, NEW s \in SessionIds, CancelSession(s)
    PROVE  SessionsIInv'
<1> USE AdmissionAssumption
<1> DEFINE D == DOMAIN admitted
           E == D \ {s}
<1>1. s \in D /\ admitted' = [x \in E |-> admitted[x]]
  BY DEF CancelSession
<1>2. DOMAIN admitted' = E /\ \A x \in E : admitted'[x] = admitted[x]
  BY <1>1
<1>3. IsFiniteSet(D) /\ \A x \in D : admitted[x] \in Nat
  BY DEF SessionsIInv
<1>4. /\ IsFiniteSet(E) /\ Cardinality(E) = Cardinality(D) - 1
      /\ Cardinality(D) \in Nat
  BY <1>1, <1>3, FS_RemoveElement, FS_CardinalityType
<1>5. /\ D = E \cup {s} /\ s \notin E /\ \A x \in E : admitted'[x] \in Nat /\ admitted[x] = admitted'[x]
      /\ admitted[s] \in Nat
  BY <1>1, <1>2, <1>3
<1> HIDE DEF D, E
<1>6. SumOf(admitted, E \cup {s}) = admitted[s] + SumOf(admitted', E) /\ SumOf(admitted', E) \in Nat
  BY <1>4, <1>5, SumOfOneMore
<1>7. KvUsed = SumOf(admitted, D)
  BY KvUsedIs DEF D
<1>8. KvUsed' = SumOf(admitted', E)
  <2>1. KvUsed' = SumOf(admitted', DOMAIN admitted')
    BY DEF KvUsed, MapThenSumSet, MapThenFoldSet, Pick, SumOf, SumsOf
  <2> QED
    BY <1>2, <2>1
<1>9. KvUsed' <= KvUsed /\ KvUsed' \in Nat /\ KvUsed \in Nat
  BY <1>5, <1>6, <1>7, <1>8
<1>10. SessionsFitBudgets'
  <2>1. KvUsed <= KvBudget /\ KvUsed <= MemoryBudget /\ Cardinality(D) <= MaxSessions
    BY DEF SessionsIInv, SessionsFitBudgets, D
  <2> QED
    BY <1>2, <1>4, <1>9, <2>1 DEF SessionsFitBudgets
<1>11. \A x \in DOMAIN admitted' : x \in SessionIds /\ admitted'[x] \in KvSizes
  BY <1>1, <1>2 DEF SessionsIInv, D, E
<1> QED
  BY <1>2, <1>4, <1>10, <1>11 DEF SessionsIInv

LEMMA AdmissionInvariant == AdmissionSpec => [](LeasesIInv /\ SessionsIInv)
<1>1. AdmissionInit => LeasesIInv /\ SessionsIInv
  <2> SUFFICES ASSUME AdmissionInit PROVE LeasesIInv /\ SessionsIInv
    OBVIOUS
  <2>1. /\ leases = <<>> /\ registry = [k \in LeaseKeys |-> 0] /\ revived = {}
        /\ admitted = <<>>
    BY DEF AdmissionInit
  <2>2. DOMAIN leases = {} /\ Len(leases) = 0 /\ leases \in Seq(LeaseType) /\ DOMAIN admitted = {}
    BY <2>1
  <2>3. LeasesIInv
    BY <2>1, <2>2 DEF LeasesIInv, NewestIsRegistered
  <2>4. KvUsed = 0
    BY <2>2, KvUsedIs, SumOfNone
  <2>5. IsFiniteSet(DOMAIN admitted) /\ Cardinality(DOMAIN admitted) = 0
    BY <2>2, FS_EmptySet
  <2>6. SessionsIInv
    BY <2>2, <2>4, <2>5, AdmissionAssumption DEF SessionsIInv, SessionsFitBudgets
  <2> QED
    BY <2>3, <2>6
<1>2. LeasesIInv /\ SessionsIInv /\ [AdmissionNext]_admissionVars => LeasesIInv' /\ SessionsIInv'
  <2> SUFFICES ASSUME LeasesIInv, SessionsIInv, [AdmissionNext]_admissionVars
               PROVE  LeasesIInv' /\ SessionsIInv'
    OBVIOUS
  <2>1. ASSUME UNCHANGED admitted PROVE SessionsIInv'
    <3>1. KvUsed' = KvUsed
      BY <2>1 DEF KvUsed, MapThenSumSet, MapThenFoldSet
    <3> QED
      BY <2>1, <3>1 DEF SessionsIInv, SessionsFitBudgets
  <2>2. UNCHANGED <<leases, registry, revived>> => LeasesIInv'
    BY DEF LeasesIInv, NewestIsRegistered, Live
  <2>3. ASSUME NEW h \in Holders, NEW k \in LeaseKeys, Acquire(h, k) PROVE LeasesIInv' /\ SessionsIInv'
    BY <2>1, <2>3, AcquireIInv DEF Acquire
  <2>4. ASSUME NEW f \in DOMAIN leases, NEW target \in States, Transition(f, target)
        PROVE  LeasesIInv' /\ SessionsIInv'
    BY <2>1, <2>4, TransitionIInv DEF Transition
  <2>5. ASSUME NEW f \in DOMAIN leases, Release(f) PROVE LeasesIInv' /\ SessionsIInv'
    BY <2>1, <2>5, ReleaseIInv DEF Release
  <2>6. ASSUME NEW s \in SessionIds, NEW kv \in KvSizes, AdmitSession(s, kv)
        PROVE  LeasesIInv' /\ SessionsIInv'
    BY <2>2, <2>6, AdmitSessionIInv DEF AdmitSession
  <2>7. ASSUME NEW s \in SessionIds, CancelSession(s) PROVE LeasesIInv' /\ SessionsIInv'
    BY <2>2, <2>7, CancelSessionIInv DEF CancelSession
  <2> QED
    BY <2>1, <2>2, <2>3, <2>4, <2>5, <2>6, <2>7 DEF AdmissionNext, admissionVars
<1> QED
  BY <1>1, <1>2, PTL DEF AdmissionSpec

\* Two live leases on one model and profile occur only through a holder that
\* revives one, and admitted sessions stay within both budgets and their
\* number, for any holders, keys, sizes and limits (LeaseRegistry, Lease,
\* MultiSessionScheduler).
THEOREM AdmissionStaysSound == AdmissionSpec => []AdmissionIsSound
<1>1. LeasesIInv => OnlyRevivedLeasesOverlap
  <2> SUFFICES ASSUME LeasesIInv, NEW f \in DOMAIN leases, NEW g \in DOMAIN leases, f < g,
                      leases[f].key = leases[g].key, Live(f), Live(g)
               PROVE  {f, g} \cap revived # {} /\ registry[leases[f].key] # f
    BY DEF OnlyRevivedLeasesOverlap
  <2>1. DOMAIN leases = 1..Len(leases) /\ Len(leases) \in Nat
    BY DEF LeasesIInv
  <2>2. leases[f].key \in LeaseKeys /\ registry[leases[f].key] \in 0..Len(leases)
    <3>1. leases[f] \in LeaseType
      BY DEF LeasesIInv
    <3>2. leases[f].key \in LeaseKeys
      BY <3>1 DEF LeaseType
    <3> QED
      BY <3>2 DEF LeasesIInv
  <2>3. g <= registry[leases[f].key]
    BY DEF LeasesIInv, NewestIsRegistered
  <2>4. f # registry[leases[f].key]
    BY <2>1, <2>2, <2>3
  <2> QED
    BY <2>4 DEF LeasesIInv, NewestIsRegistered
<1>2. SessionsIInv => SessionsFitBudgets
  BY DEF SessionsIInv
<1> QED
  BY <1>1, <1>2, AdmissionInvariant, PTL DEF AdmissionIsSound

(***************************************************************************)
(* One request of the gateway: prefixes and suffixes, what StopFilter has  *)
(* done of a text, the decoder, the bytes held back for the END mark.      *)
(***************************************************************************)
LEMMA PrefixIs ==
    ASSUME NEW C, NEW s \in Seq(C), NEW t \in Seq(C)
    PROVE  IsPrefix(s, t) <=> Len(s) <= Len(t) /\ \A i \in 1..Len(s) : s[i] = t[i]
<1>1. CASE Len(s) <= Len(t)
  <2>1. /\ SubSeq(s, 1, Len(s)) \in Seq(C) /\ SubSeq(t, 1, Len(s)) \in Seq(C)
        /\ Len(SubSeq(s, 1, Len(s))) = Len(s) /\ Len(SubSeq(t, 1, Len(s))) = Len(s)
        /\ \A i \in 1..Len(s) : SubSeq(s, 1, Len(s))[i] = s[i] /\ SubSeq(t, 1, Len(s))[i] = t[i]
    BY <1>1
  <2>2. SubSeq(s, 1, Len(s)) = SubSeq(t, 1, Len(s)) <=> \A i \in 1..Len(s) : s[i] = t[i]
    BY <2>1, SeqEqual
  <2> QED
    BY <1>1, <2>2 DEF IsPrefix
<1>2. CASE ~ (Len(s) <= Len(t))
  BY <1>2 DEF IsPrefix
<1> QED
  BY <1>1, <1>2

LEMMA SuffixIs ==
    ASSUME NEW C, NEW s \in Seq(C), NEW t \in Seq(C)
    PROVE  IsSuffix(s, t) <=> Len(s) <= Len(t) /\ \A i \in 1..Len(s) : s[i] = t[Len(t) - Len(s) + i]
<1>1. \A u \in Seq(C) : /\ Reverse(u) \in Seq(C) /\ Len(Reverse(u)) = Len(u)
                        /\ \A i \in 1..Len(u) : Reverse(u)[i] = u[Len(u) - i + 1]
  BY DEF Reverse
<1>2. IsSuffix(s, t) <=> Len(s) <= Len(t) /\ \A i \in 1..Len(s) : s[Len(s) - i + 1] = t[Len(t) - i + 1]
  <2>1. IsSuffix(s, t) <=> Len(s) <= Len(t) /\ \A i \in 1..Len(s) : Reverse(s)[i] = Reverse(t)[i]
    <3>1. Reverse(s) \in Seq(C) /\ Reverse(t) \in Seq(C) /\ Len(Reverse(s)) = Len(s) /\ Len(Reverse(t)) = Len(t)
      BY <1>1
    <3>2. IsPrefix(Reverse(s), Reverse(t)) <=>
            /\ Len(Reverse(s)) <= Len(Reverse(t))
            /\ \A i \in 1..Len(Reverse(s)) : Reverse(s)[i] = Reverse(t)[i]
      BY ONLY <3>1, PrefixIs
    <3> QED
      BY <3>1, <3>2 DEF IsSuffix
  <2>2. Len(s) <= Len(t) => \A i \in 1..Len(s) : /\ Reverse(s)[i] = s[Len(s) - i + 1]
                                                 /\ Reverse(t)[i] = t[Len(t) - i + 1]
    BY <1>1
  <2> QED
    BY <2>1, <2>2
<1>3. ASSUME Len(s) <= Len(t)
      PROVE  (\A i \in 1..Len(s) : s[Len(s) - i + 1] = t[Len(t) - i + 1])
               <=> \A i \in 1..Len(s) : s[i] = t[Len(t) - Len(s) + i]
  <2>1. \A i \in 1..Len(s) : /\ Len(s) - i + 1 \in 1..Len(s)
                             /\ Len(s) - (Len(s) - i + 1) + 1 = i
                             /\ Len(t) - (Len(s) - i + 1) + 1 = Len(t) - Len(s) + i
                             /\ Len(t) - Len(s) + (Len(s) - i + 1) = Len(t) - i + 1
    OBVIOUS
  <2>2. ASSUME \A i \in 1..Len(s) : s[Len(s) - i + 1] = t[Len(t) - i + 1], NEW i \in 1..Len(s)
        PROVE  s[i] = t[Len(t) - Len(s) + i]
    BY <2>1, <2>2
  <2>3. ASSUME \A i \in 1..Len(s) : s[i] = t[Len(t) - Len(s) + i], NEW i \in 1..Len(s)
        PROVE  s[Len(s) - i + 1] = t[Len(t) - i + 1]
    BY <2>1, <2>3
  <2> QED
    BY <2>2, <2>3
<1> QED
  BY <1>2, <1>3

-----------------------------------------------------------------------------
StopsAt(S, W, i) == {s \in S : IsSuffix(s, SubSeq(W, 1, i))}
Longest(Z) == Max({Len(s) : s \in Z})
ShownOf(S, W) ==
    LET complete == {i \in DOMAIN W : StopsAt(S, W, i) # {}}
        first == Min(complete)
    IN  IF complete = {} THEN W
        ELSE SubSeq(W, 1, first - Longest(StopsAt(S, W, first)))
KeepOf(S) == IF S = {} THEN 0 ELSE Longest(S) - 1

StopSet(S) == S \subseteq Seq(Character) /\ \E b \in Nat : \A s \in S : Len(s) \in 1..b

LEMMA MinIs == ASSUME NEW T, T \subseteq Nat, T # {} PROVE Min(T) \in T /\ \A n \in T : Min(T) <= n
<1>1. \E n \in T : \A k \in T : n <= k
  BY LeastNat
<1> QED
  BY <1>1 DEF Min

LEMMA LongestIs ==
    ASSUME NEW S, StopSet(S), NEW Z, Z \subseteq S, Z # {}
    PROVE  /\ Longest(Z) \in Nat \ {0}
           /\ \E s \in Z : Len(s) = Longest(Z)
           /\ \A s \in Z : Len(s) <= Longest(Z)
<1>1. PICK b \in Nat : \A s \in S : Len(s) \in 1..b
  BY DEF StopSet
<1> DEFINE T == {b - Len(s) : s \in Z}
<1>2. T \subseteq Nat /\ T # {}
  BY <1>1
<1>3. PICK n \in T : \A k \in T : n <= k
  BY <1>2, LeastNat
<1>4. PICK s \in Z : n = b - Len(s)
  BY <1>3
<1>5. Len(s) \in Nat \ {0}
  BY <1>1
<1>6. \A u \in Z : Len(u) \in Nat /\ Len(u) <= Len(s)
  <2> TAKE u \in Z
  <2>1. Len(u) \in Nat /\ b - Len(u) \in T
    BY <1>1
  <2>2. n <= b - Len(u)
    BY <1>3, <2>1
  <2> QED
    BY <1>1, <1>4, <1>5, <2>1, <2>2
<1>7. Longest(Z) = Len(s)
  <2> DEFINE L == {Len(u) : u \in Z}
  <2>1. Len(s) \in L /\ \A y \in L : Len(s) >= y
    BY <1>5, <1>6
  <2>2. \A x \in L : (\A y \in L : x >= y) => x = Len(s)
    BY <1>5, <1>6, <2>1
  <2>3. Max(L) = Len(s)
    BY <2>1, <2>2 DEF Max
  <2> QED
    BY <2>3 DEF Longest
<1> QED
  BY <1>5, <1>6, <1>7

LEMMA KeepIs ==
    ASSUME NEW S, StopSet(S)
    PROVE  KeepOf(S) \in Nat /\ \A s \in S : Len(s) \in 1..(KeepOf(S) + 1)
<1>1. CASE S = {}
  BY <1>1 DEF KeepOf
<1>2. CASE S # {}
  <2>1. Longest(S) \in Nat \ {0} /\ \A s \in S : Len(s) <= Longest(S)
    BY <1>2, LongestIs
  <2>2. \A s \in S : Len(s) \in Nat \ {0}
    BY DEF StopSet
  <2>3. KeepOf(S) = Longest(S) - 1
    BY <1>2 DEF KeepOf
  <2> QED
    BY <2>1, <2>2, <2>3
<1> QED
  BY <1>1, <1>2

LEMMA StopsAtIs ==
    ASSUME NEW S, StopSet(S), NEW W \in Seq(Character), NEW i \in 0..Len(W), NEW s \in S
    PROVE  s \in StopsAt(S, W, i) <=> Len(s) <= i /\ \A k \in 1..Len(s) : s[k] = W[i - Len(s) + k]
<1> DEFINE t == SubSeq(W, 1, i)
<1>1. t \in Seq(Character) /\ Len(t) = i /\ \A k \in 1..i : t[k] = W[k]
  OBVIOUS
<1>2. s \in Seq(Character) /\ Len(s) \in Nat
  BY DEF StopSet
<1> HIDE DEF t
<1>3. IsSuffix(s, t) <=> Len(s) <= Len(t) /\ \A k \in 1..Len(s) : s[k] = t[Len(t) - Len(s) + k]
  BY <1>1, <1>2, SuffixIs
<1>4. Len(s) <= i => \A k \in 1..Len(s) : t[i - Len(s) + k] = W[i - Len(s) + k]
  BY <1>1, <1>2
<1> QED
  BY <1>1, <1>3, <1>4 DEF StopsAt, t

LEMMA StopsAgree ==
    ASSUME NEW S, StopSet(S), NEW V \in Seq(Character), NEW W \in Seq(Character),
           NEW i \in 0..Len(V), i <= Len(W), \A k \in 1..i : V[k] = W[k]
    PROVE  StopsAt(S, V, i) = StopsAt(S, W, i)
<1>1. SubSeq(V, 1, i) = SubSeq(W, 1, i)
  <2>1. /\ SubSeq(V, 1, i) \in Seq(Character) /\ SubSeq(W, 1, i) \in Seq(Character)
        /\ Len(SubSeq(V, 1, i)) = i /\ Len(SubSeq(W, 1, i)) = i
        /\ \A k \in 1..i : SubSeq(V, 1, i)[k] = V[k] /\ SubSeq(W, 1, i)[k] = W[k]
    OBVIOUS
  <2> QED
    BY <2>1, SeqEqual
<1> QED
  BY <1>1 DEF StopsAt

-----------------------------------------------------------------------------
Clean(S, D) == \A i \in 1..Len(D) : StopsAt(S, D, i) = {}
FirstStop(S, D, i) == /\ i \in 1..Len(D) /\ StopsAt(S, D, i) # {}
                      /\ \A j \in 1..(i - 1) : StopsAt(S, D, j) = {}
Cut(S, D) == IF Len(D) > KeepOf(S) THEN Len(D) - KeepOf(S) ELSE 0

\* What StopFilter has done of the characters D.
Filtered(S, D, f) ==
    IF f.matched
    THEN f.pending = <<>> /\ \E i \in 1..Len(D) :
           FirstStop(S, D, i) /\ f.out = SubSeq(D, 1, i - Longest(StopsAt(S, D, i)))
    ELSE /\ Clean(S, D)
         /\ f.out = SubSeq(D, 1, Cut(S, D)) /\ f.pending = SubSeq(D, Cut(S, D) + 1, Len(D))

Extends(D, W) == D \in Seq(Character) /\ W \in Seq(Character) /\ Len(D) <= Len(W)
                 /\ \A k \in 1..Len(D) : D[k] = W[k]

LEMMA FirstStopType ==
    ASSUME NEW S, StopSet(S), NEW D \in Seq(Character), NEW i, FirstStop(S, D, i)
    PROVE  /\ Longest(StopsAt(S, D, i)) \in 1..i
           /\ i - Longest(StopsAt(S, D, i)) \in 0..(Len(D) - 1)
<1>1. StopsAt(S, D, i) \subseteq S /\ StopsAt(S, D, i) # {} /\ i \in 1..Len(D)
  BY DEF FirstStop, StopsAt
<1>2. PICK s \in StopsAt(S, D, i) : Len(s) = Longest(StopsAt(S, D, i))
  BY <1>1, LongestIs
<1>3. Longest(StopsAt(S, D, i)) \in Nat \ {0}
  BY <1>1, LongestIs
<1>4. Len(s) <= i
  BY <1>1, StopsAtIs
<1> QED
  BY <1>1, <1>2, <1>3, <1>4

LEMMA FirstStopExtends ==
    ASSUME NEW S, StopSet(S), NEW D, NEW W, Extends(D, W), NEW i, FirstStop(S, D, i)
    PROVE  /\ FirstStop(S, W, i)
           /\ \A n \in 0..i : SubSeq(W, 1, n) = SubSeq(D, 1, n)
           /\ StopsAt(S, W, i) = StopsAt(S, D, i)
<1>1. \A j \in 0..i : StopsAt(S, W, j) = StopsAt(S, D, j)
  <2> TAKE j \in 0..i
  <2>1. j \in 0..Len(D) /\ j <= Len(W) /\ \A k \in 1..j : D[k] = W[k]
    BY DEF Extends, FirstStop
  <2> QED
    BY <2>1, StopsAgree DEF Extends
<1>2. i \in 1..Len(W) /\ i \in 1..Len(D)
  BY DEF Extends, FirstStop
<1>3. ASSUME NEW n \in 0..i PROVE SubSeq(W, 1, n) = SubSeq(D, 1, n)
  <2>1. /\ SubSeq(D, 1, n) \in Seq(Character) /\ SubSeq(W, 1, n) \in Seq(Character)
        /\ Len(SubSeq(D, 1, n)) = n /\ Len(SubSeq(W, 1, n)) = n
        /\ \A k \in 1..n : SubSeq(D, 1, n)[k] = D[k] /\ SubSeq(W, 1, n)[k] = W[k]
    BY <1>2 DEF Extends
  <2>2. \A k \in 1..n : D[k] = W[k]
    BY <1>2 DEF Extends
  <2> QED
    BY <2>1, <2>2, SeqEqual
<1> QED
  BY <1>1, <1>2, <1>3 DEF FirstStop

LEMMA ShownAtFirst ==
    ASSUME NEW S, StopSet(S), NEW W \in Seq(Character), NEW i, FirstStop(S, W, i)
    PROVE  ShownOf(S, W) = SubSeq(W, 1, i - Longest(StopsAt(S, W, i)))
<1> DEFINE C == {j \in DOMAIN W : StopsAt(S, W, j) # {}}
<1>1. C \subseteq Nat /\ i \in C /\ \A j \in C : i <= j
  BY DEF FirstStop
<1>2. Min(C) = i
  <2>1. Min(C) \in C /\ \A n \in C : Min(C) <= n
    BY <1>1, MinIs
  <2> HIDE DEF C
  <2>2. i <= Min(C) /\ Min(C) <= i /\ i \in Nat /\ Min(C) \in Nat
    BY <1>1, <2>1
  <2> QED
    BY <2>2
<1> QED
  BY <1>1, <1>2 DEF ShownOf

LEMMA ShownOfClean ==
    ASSUME NEW S, NEW W \in Seq(Character), Clean(S, W)
    PROVE  ShownOf(S, W) = W
BY DEF ShownOf, Clean

LEMMA FirstStopExists ==
    ASSUME NEW S, NEW W \in Seq(Character), ~ Clean(S, W)
    PROVE  \E i : FirstStop(S, W, i)
<1> DEFINE C == {j \in 1..Len(W) : StopsAt(S, W, j) # {}}
<1>1. C \subseteq Nat /\ C # {}
  BY DEF Clean
<1>2. PICK i \in C : \A j \in C : i <= j
  BY <1>1, LeastNat
<1>3. FirstStop(S, W, i)
  BY <1>2 DEF FirstStop
<1> QED
  BY <1>3

\* What was passed on is shown of every text that goes on from there.
LEMMA FilteredIsShown ==
    ASSUME NEW S, StopSet(S), NEW D, NEW W, Extends(D, W), NEW f, Filtered(S, D, f)
    PROVE  /\ f.out \in Seq(Character) /\ f.pending \in Seq(Character) /\ Len(f.pending) <= KeepOf(S)
           /\ IsPrefix(f.out, ShownOf(S, W)) /\ ShownOf(S, W) \in Seq(Character)
           /\ f.matched => f.out = ShownOf(S, W) /\ ShownOf(S, W) # W
           /\ ~ f.matched /\ D = W => f.out \o f.pending = W /\ ShownOf(S, W) = W
<1>1. D \in Seq(Character) /\ W \in Seq(Character) /\ Len(D) <= Len(W) /\ KeepOf(S) \in Nat
  BY KeepIs DEF Extends
<1>2. CASE f.matched
  <2>1. PICK i \in 1..Len(D) :
          FirstStop(S, D, i) /\ f.out = SubSeq(D, 1, i - Longest(StopsAt(S, D, i)))
    BY <1>2 DEF Filtered
  <2> DEFINE n == i - Longest(StopsAt(S, D, i))
  <2>2. n \in 0..(Len(D) - 1) /\ n \in 0..i
    BY <1>1, <2>1, FirstStopType
  <2>3. FirstStop(S, W, i) /\ SubSeq(W, 1, n) = SubSeq(D, 1, n) /\ StopsAt(S, W, i) = StopsAt(S, D, i)
    BY <2>1, <2>2, FirstStopExtends
  <2>4. ShownOf(S, W) = f.out
    BY <1>1, <2>1, <2>3, ShownAtFirst
  <2> HIDE DEF n
  <2>5. f.out \in Seq(Character) /\ Len(f.out) = n
    BY <1>1, <2>1, <2>2 DEF n
  <2>6. f.out # W /\ IsPrefix(f.out, f.out)
    BY <1>1, <2>2, <2>5, PrefixIs
  <2>7. f.pending = <<>>
    BY <1>2 DEF Filtered
  <2> QED
    BY <1>1, <1>2, <2>4, <2>5, <2>6, <2>7
<1>3. CASE ~ f.matched
  <2> DEFINE c == Cut(S, D)
  <2>1. Clean(S, D) /\ f.out = SubSeq(D, 1, c) /\ f.pending = SubSeq(D, c + 1, Len(D))
    BY <1>3 DEF Filtered
  <2>2. c \in 0..Len(D) /\ Len(D) - c <= KeepOf(S)
    BY <1>1 DEF Cut
  <2> HIDE DEF c
  <2>3. /\ f.out \in Seq(Character) /\ Len(f.out) = c /\ \A k \in 1..c : f.out[k] = D[k]
        /\ f.pending \in Seq(Character) /\ Len(f.pending) = Len(D) - c
    BY <1>1, <2>1, <2>2
  <2>4. ShownOf(S, W) \in Seq(Character) /\ c <= Len(ShownOf(S, W))
        /\ \A k \in 1..c : ShownOf(S, W)[k] = W[k]
    <3>1. CASE Clean(S, W)
      BY <1>1, <2>2, <3>1, ShownOfClean
    <3>2. CASE ~ Clean(S, W)
      <4>1. PICK i : FirstStop(S, W, i)
        BY <1>1, <3>2, FirstStopExists
      <4> DEFINE l == Longest(StopsAt(S, W, i))
      <4>2. l \in 1..i /\ i - l \in 0..(Len(W) - 1) /\ i \in 1..Len(W)
        BY <1>1, <4>1, FirstStopType DEF FirstStop
      <4>3. l <= KeepOf(S) + 1
        <5>1. StopsAt(S, W, i) \subseteq S /\ StopsAt(S, W, i) # {}
          BY <4>1 DEF FirstStop, StopsAt
        <5>2. PICK s \in StopsAt(S, W, i) : Len(s) = l
          BY <5>1, LongestIs
        <5> QED
          BY <5>1, <5>2, KeepIs
      <4>4. i > Len(D)
        <5> SUFFICES ASSUME i <= Len(D) PROVE FALSE
          BY <1>1, <4>2
        <5>1. StopsAt(S, D, i) = StopsAt(S, W, i)
          BY <4>2, StopsAgree DEF Extends
        <5> QED
          BY <2>1, <4>1, <4>2, <5>1 DEF Clean, FirstStop
      <4>5. ShownOf(S, W) = SubSeq(W, 1, i - l)
        BY <1>1, <4>1, ShownAtFirst
      <4> HIDE DEF l
      <4>6. c <= i - l
        BY <1>1, <2>2, <4>2, <4>3, <4>4 DEF c, Cut
      <4> QED
        BY <1>1, <2>2, <4>2, <4>5, <4>6
    <3> QED
      BY <3>1, <3>2
  <2>5. IsPrefix(f.out, ShownOf(S, W))
    <3>1. \A k \in 1..Len(f.out) : f.out[k] = ShownOf(S, W)[k]
      <4> TAKE k \in 1..Len(f.out)
      <4>1. k \in 1..c /\ k \in 1..Len(D)
        BY <1>1, <2>2, <2>3
      <4>2. D[k] = W[k]
        BY <4>1 DEF Extends
      <4> QED
        BY <2>3, <2>4, <4>1, <4>2
    <3> QED
      BY <2>3, <2>4, <3>1, PrefixIs
  <2>6. ASSUME D = W PROVE f.out \o f.pending = W /\ ShownOf(S, W) = W
    <3>1. SubSeq(D, 1, c) \o SubSeq(D, c + 1, Len(D)) = SubSeq(D, 1, Len(D))
      <4>1. 1 \in 1..(Len(D) + 1) /\ c \in (1 - 1)..Len(D) /\ Len(D) \in c..Len(D)
        BY <1>1, <2>2
      <4> QED
        BY <1>1, <4>1, ConcatAdjacentSubSeq
    <3>2. SubSeq(D, 1, Len(D)) = D
      BY <1>1, SubSeqFull
    <3> QED
      BY <1>1, <2>1, <2>6, <3>1, <3>2, ShownOfClean
  <2> QED
    BY <1>3, <2>2, <2>3, <2>4, <2>5, <2>6
<1> QED
  BY <1>2, <1>3

\* feed of one more character keeps StopFilter as it should be.
FedBy(S, f, c) ==
    LET all == f.pending \o <<c>>
        found == {i \in 0..Len(all) : \E s \in S : IsPrefix(s, SubSeq(all, i + 1, Len(all)))}
        safe == Len(all) - KeepOf(S)
    IN  IF f.matched THEN f
        ELSE IF found # {}
        THEN [pending |-> <<>>, matched |-> TRUE, out |-> f.out \o SubSeq(all, 1, Min(found))]
        ELSE IF safe > 0
        THEN [pending |-> SubSeq(all, safe + 1, Len(all)), matched |-> FALSE, out |-> f.out \o SubSeq(all, 1, safe)]
        ELSE [pending |-> all, matched |-> FALSE, out |-> f.out \o <<>>]

LEMMA AppendExtends ==
    ASSUME NEW D \in Seq(Character), NEW c \in Character
    PROVE  /\ Extends(D, Append(D, c)) /\ Append(D, c) \in Seq(Character)
           /\ Len(Append(D, c)) = Len(D) + 1 /\ Append(D, c)[Len(D) + 1] = c
BY DEF Extends

\* The characters held back and the new one are the end of the text.
LEMMA HeldIsTheEnd ==
    ASSUME NEW D \in Seq(Character), NEW c \in Character, NEW n \in 0..Len(D)
    PROVE  LET E == Append(D, c)
               all == SubSeq(D, n + 1, Len(D)) \o <<c>>
           IN  /\ all \in Seq(Character) /\ Len(all) = Len(E) - n
               /\ \A k \in 1..Len(all) : all[k] = E[n + k]
               /\ \A m \in 0..Len(all) : /\ SubSeq(D, 1, n) \o SubSeq(all, 1, m) = SubSeq(E, 1, n + m)
                                         /\ SubSeq(all, m + 1, Len(all)) = SubSeq(E, n + m + 1, Len(E))
<1> DEFINE E == Append(D, c)
           p == SubSeq(D, n + 1, Len(D))
           all == p \o <<c>>
<1>1. p \in Seq(Character) /\ Len(p) = Len(D) - n /\ \A k \in 1..Len(p) : p[k] = D[n + k]
  OBVIOUS
<1>2. <<c>> \in Seq(Character) /\ Len(<<c>>) = 1 /\ <<c>>[1] = c
  OBVIOUS
<1>3. E \in Seq(Character) /\ Len(E) = Len(D) + 1 /\ E[Len(D) + 1] = c /\ \A k \in 1..Len(D) : E[k] = D[k]
  OBVIOUS
<1> HIDE DEF p, E
<1>4. all \in Seq(Character) /\ Len(all) = Len(E) - n
      /\ \A k \in 1..Len(all) : all[k] = IF k <= Len(p) THEN p[k] ELSE <<c>>[k - Len(p)]
  BY <1>1, <1>2, <1>3, ConcatProperties
<1> HIDE DEF all
<1>5. \A k \in 1..Len(all) : all[k] = E[n + k]
  <2> TAKE k \in 1..Len(all)
  <2>1. CASE k <= Len(p)
    BY <1>1, <1>3, <1>4, <2>1
  <2>2. CASE ~ (k <= Len(p))
    BY <1>1, <1>2, <1>3, <1>4, <2>2
  <2> QED
    BY <2>1, <2>2
<1>6. ASSUME NEW m \in 0..Len(all)
      PROVE  /\ SubSeq(D, 1, n) \o SubSeq(all, 1, m) = SubSeq(E, 1, n + m)
             /\ SubSeq(all, m + 1, Len(all)) = SubSeq(E, n + m + 1, Len(E))
  <2>1. /\ SubSeq(all, m + 1, Len(all)) \in Seq(Character)
        /\ Len(SubSeq(all, m + 1, Len(all))) = Len(all) - m
        /\ \A k \in 1..(Len(all) - m) : SubSeq(all, m + 1, Len(all))[k] = all[m + k]
    BY <1>4
  <2>2. /\ SubSeq(E, n + m + 1, Len(E)) \in Seq(Character)
        /\ Len(SubSeq(E, n + m + 1, Len(E))) = Len(all) - m
        /\ \A k \in 1..(Len(all) - m) : SubSeq(E, n + m + 1, Len(E))[k] = E[n + m + k]
    BY <1>3, <1>4
  <2>3. SubSeq(all, m + 1, Len(all)) = SubSeq(E, n + m + 1, Len(E))
    <3>1. \A k \in 1..(Len(all) - m) : m + k \in 1..Len(all) /\ n + (m + k) = n + m + k
      BY <1>4
    <3> DEFINE x == SubSeq(all, m + 1, Len(all))
               y == SubSeq(E, n + m + 1, Len(E))
    <3>2. x \in Seq(Character) /\ y \in Seq(Character) /\ Len(x) = Len(all) - m /\ Len(y) = Len(all) - m
      BY <2>1, <2>2
    <3>3. ASSUME NEW k \in 1..(Len(all) - m) PROVE x[k] = y[k]
      <4>1. x[k] = all[m + k] /\ y[k] = E[n + m + k]
        BY <2>1, <2>2
      <4>2. all[m + k] = E[n + (m + k)]
        BY <1>5, <3>1
      <4> QED
        BY <3>1, <4>1, <4>2
    <3> HIDE DEF x, y
    <3>4. x = y
      BY <3>2, <3>3, SeqEqual
    <3> QED
      BY <3>4 DEF x, y
  <2> DEFINE u == SubSeq(D, 1, n)
             v == SubSeq(all, 1, m)
             w == SubSeq(E, 1, n + m)
  <2>4. u \in Seq(Character) /\ Len(u) = n /\ \A k \in 1..n : u[k] = D[k]
    OBVIOUS
  <2>5. v \in Seq(Character) /\ Len(v) = m /\ \A k \in 1..m : v[k] = all[k]
    BY <1>4
  <2>6. w \in Seq(Character) /\ Len(w) = n + m /\ \A k \in 1..(n + m) : w[k] = E[k]
    BY <1>3, <1>4
  <2> HIDE DEF u, v, w
  <2>7. /\ u \o v \in Seq(Character) /\ Len(u \o v) = n + m
        /\ \A k \in 1..(n + m) : (u \o v)[k] = IF k <= n THEN u[k] ELSE v[k - n]
    <3>1. u \in Seq(Character) /\ v \in Seq(Character) /\ Len(u) = n /\ Len(v) = m
      BY <2>4, <2>5
    <3> QED
      BY ONLY <3>1, ConcatProperties
  <2>8. \A k \in 1..(n + m) : (u \o v)[k] = w[k]
    <3> TAKE k \in 1..(n + m)
    <3>1. CASE k <= n
      <4>1. k \in 1..n /\ k \in 1..Len(D)
        BY <3>1
      <4> QED
        BY <1>3, <2>4, <2>6, <2>7, <3>1, <4>1
    <3>2. CASE ~ (k <= n)
      <4>1. k - n \in 1..m /\ k - n \in 1..Len(all) /\ n + (k - n) = k
        BY <1>4, <3>2
      <4> QED
        BY <1>5, <2>5, <2>6, <2>7, <3>2, <4>1
    <3> QED
      BY <3>1, <3>2
  <2>9. u \o v = w
    BY <2>6, <2>7, <2>8, SeqEqual
  <2> QED
    BY <2>3, <2>9 DEF u, v, w
<1> QED
  BY <1>4, <1>5, <1>6 DEF E, all, p

\* In a text that is clean so far, what StopFilter finds in the characters
\* it holds are the stops that end with the new one.
LEMMA FoundAreAtTheEnd ==
    ASSUME NEW S, StopSet(S), NEW D \in Seq(Character), NEW c \in Character, Clean(S, D)
    PROVE  LET E == Append(D, c)
               n == Cut(S, D)
               all == SubSeq(D, n + 1, Len(D)) \o <<c>>
           IN  /\ \A i \in 0..Len(all) : (\E s \in S : IsPrefix(s, SubSeq(all, i + 1, Len(all))))
                      <=> \E s \in StopsAt(S, E, Len(E)) : Len(s) = Len(all) - i
               /\ \A s \in StopsAt(S, E, Len(E)) : Len(s) \in 1..Len(all)
<1> DEFINE E == Append(D, c)
           n == Cut(S, D)
           all == SubSeq(D, n + 1, Len(D)) \o <<c>>
           L == Len(D) + 1
<1>1. KeepOf(S) \in Nat /\ (\A s \in S : Len(s) \in 1..(KeepOf(S) + 1)) /\ S \subseteq Seq(Character)
  BY KeepIs DEF StopSet
<1>2. n \in 0..Len(D) /\ (n > 0 => L - n = KeepOf(S) + 1)
  BY <1>1 DEF Cut
<1> HIDE DEF n
<1>3. /\ all \in Seq(Character) /\ Len(all) = L - n /\ E \in Seq(Character) /\ Len(E) = L
      /\ \A k \in 1..Len(all) : all[k] = E[n + k]
      /\ \A m \in 0..Len(all) : SubSeq(all, m + 1, Len(all)) = SubSeq(E, n + m + 1, L)
  <2>1. E \in Seq(Character) /\ Len(E) = L
    OBVIOUS
  <2> QED
    BY <1>2, <2>1, HeldIsTheEnd
<1>0. L \in Nat /\ Len(D) \in Nat /\ L = Len(D) + 1
  OBVIOUS
<1> HIDE DEF all, E, L
<1>4. ASSUME NEW s \in StopsAt(S, E, L) PROVE s \in S /\ Len(s) \in 1..Len(all)
  <2>1. s \in S /\ Len(s) <= L
    <3>1. s \in S
      BY DEF StopsAt
    <3>2. StopSet(S) /\ E \in Seq(Character) /\ L \in 0..Len(E) /\ s \in StopsAt(S, E, L)
      BY <1>0, <1>3
    <3> QED
      BY ONLY <3>1, <3>2, StopsAtIs
  <2>2. Len(s) \in 1..(KeepOf(S) + 1)
    BY <1>1, <2>1
  <2> QED
    BY <1>0, <1>2, <1>3, <2>1, <2>2
<1>5. ASSUME NEW i \in 0..Len(all), NEW s \in S
      PROVE  IsPrefix(s, SubSeq(all, i + 1, Len(all))) <=>
                 Len(s) <= Len(all) - i /\ \A k \in 1..Len(s) : s[k] = E[n + i + k]
  <2> DEFINE t == SubSeq(E, n + i + 1, L)
  <2>1. t \in Seq(Character) /\ Len(t) = Len(all) - i /\ \A k \in 1..Len(t) : t[k] = E[n + i + k]
    BY <1>0, <1>2, <1>3
  <2>2. SubSeq(all, i + 1, Len(all)) = t
    BY <1>3
  <2> HIDE DEF t
  <2>3. s \in Seq(Character) /\ Len(s) \in Nat
    BY <1>1
  <2>4. IsPrefix(s, t) <=> Len(s) <= Len(t) /\ \A k \in 1..Len(s) : s[k] = t[k]
    BY <2>1, <2>3, PrefixIs
  <2>5. Len(s) <= Len(t) => \A k \in 1..Len(s) : t[k] = E[n + i + k]
    BY <2>1, <2>3
  <2> QED
    BY <2>1, <2>2, <2>4, <2>5
<1>6. ASSUME NEW i \in 0..Len(all), NEW s \in S, IsPrefix(s, SubSeq(all, i + 1, Len(all)))
      PROVE  s \in StopsAt(S, E, L) /\ Len(s) = Len(all) - i
  <2> DEFINE e == n + i + Len(s)
  <2>1. Len(s) \in Nat \ {0} /\ Len(s) <= Len(all) - i /\ \A k \in 1..Len(s) : s[k] = E[n + i + k]
    BY <1>1, <1>5, <1>6
  <2>2. e \in 1..L /\ e - Len(s) = n + i
    BY <1>0, <1>2, <1>3, <2>1
  <2> HIDE DEF e
  <2>3. s \in StopsAt(S, E, e)
    <3>1. e \in 0..Len(E) /\ Len(s) <= e /\ \A k \in 1..Len(s) : s[k] = E[e - Len(s) + k]
      BY <1>0, <1>2, <1>3, <2>1, <2>2
    <3> QED
      BY <1>0, <1>3, <3>1, StopsAtIs
  <2>4. e = L
    <3> SUFFICES ASSUME e # L PROVE FALSE
      OBVIOUS
    <3>1. e \in 1..Len(D) /\ e \in 0..Len(D) /\ e <= Len(E) /\ \A k \in 1..e : D[k] = E[k]
      BY <1>0, <1>3, <2>2 DEF E
    <3>2. StopsAt(S, D, e) = StopsAt(S, E, e)
      BY <1>3, <3>1, StopsAgree
    <3> QED
      BY <2>3, <3>1, <3>2 DEF Clean
  <2> QED
    BY <1>0, <1>2, <1>3, <2>1, <2>3, <2>4 DEF e
<1>7. ASSUME NEW i \in 0..Len(all), NEW s \in StopsAt(S, E, L), Len(s) = Len(all) - i
      PROVE  IsPrefix(s, SubSeq(all, i + 1, Len(all)))
  <2>1. s \in S /\ Len(s) \in Nat
    BY <1>4
  <2>2. L \in 0..Len(E)
    BY <1>3
  <2>3. \A k \in 1..Len(s) : s[k] = E[L - Len(s) + k]
    <3>1. s \in StopsAt(S, E, L) <=> Len(s) <= L /\ \A k \in 1..Len(s) : s[k] = E[L - Len(s) + k]
      <4>1. StopSet(S) /\ E \in Seq(Character) /\ L \in 0..Len(E) /\ s \in S
        BY <1>3, <2>1, <2>2
      <4> QED
        BY ONLY <4>1, StopsAtIs
    <3> QED
      BY <2>1, <3>1
  <2>4. L - Len(s) = n + i
    BY <1>0, <1>2, <1>3, <1>7
  <2>5. \A k \in 1..Len(s) : s[k] = E[n + i + k]
    BY <2>3, <2>4
  <2> QED
    BY <1>5, <1>7, <2>1, <2>5
<1>8. \A i \in 0..Len(all) : (\E s \in S : IsPrefix(s, SubSeq(all, i + 1, Len(all))))
                      <=> \E s \in StopsAt(S, E, L) : Len(s) = Len(all) - i
  BY <1>4, <1>6, <1>7
<1> QED
  BY <1>3, <1>4, <1>8 DEF E, all, n, L

LEMMA FilteredMatched ==
    ASSUME NEW S, NEW D, NEW i \in 1..Len(D), FirstStop(S, D, i)
    PROVE  Filtered(S, D, [pending |-> <<>>, matched |-> TRUE,
                           out |-> SubSeq(D, 1, i - Longest(StopsAt(S, D, i)))])
BY DEF Filtered

LEMMA FilteredUnmatched ==
    ASSUME NEW S, NEW D, Clean(S, D)
    PROVE  Filtered(S, D, [pending |-> SubSeq(D, Cut(S, D) + 1, Len(D)), matched |-> FALSE,
                           out |-> SubSeq(D, 1, Cut(S, D))])
BY DEF Filtered

LEMMA FedKeeps ==
    ASSUME NEW S, StopSet(S), NEW D \in Seq(Character), NEW c \in Character,
           NEW f, Filtered(S, D, f)
    PROVE  Filtered(S, Append(D, c), FedBy(S, f, c))
<1> DEFINE E == Append(D, c)
<1>1. Extends(D, E) /\ E \in Seq(Character) /\ Len(E) = Len(D) + 1
  BY AppendExtends
<1> HIDE DEF E
<1>2. CASE f.matched
  <2>1. PICK i \in 1..Len(D) :
          FirstStop(S, D, i) /\ f.out = SubSeq(D, 1, i - Longest(StopsAt(S, D, i)))
    BY <1>2 DEF Filtered
  <2>2. i - Longest(StopsAt(S, D, i)) \in 0..i /\ i \in 1..Len(E)
    BY <1>1, <2>1, FirstStopType
  <2>3. FirstStop(S, E, i) /\ f.out = SubSeq(E, 1, i - Longest(StopsAt(S, E, i)))
    BY <1>1, <2>1, <2>2, FirstStopExtends
  <2>4. FedBy(S, f, c) = f /\ f.pending = <<>>
    BY <1>2 DEF FedBy, Filtered
  <2> QED
    BY <1>2, <2>2, <2>3, <2>4 DEF Filtered, E
<1>3. CASE ~ f.matched
  <2> DEFINE n == Cut(S, D)
             all == SubSeq(D, n + 1, Len(D)) \o <<c>>
             found == {i \in 0..Len(all) : \E s \in S : IsPrefix(s, SubSeq(all, i + 1, Len(all)))}
             last == StopsAt(S, E, Len(E))
             safe == Len(all) - KeepOf(S)
  <2>1. Clean(S, D) /\ f.out = SubSeq(D, 1, n) /\ f.pending = SubSeq(D, n + 1, Len(D))
    BY <1>3 DEF Filtered
  <2>2. KeepOf(S) \in Nat /\ n \in 0..Len(D)
    BY KeepIs DEF Cut
  <2>3. /\ all \in Seq(Character) /\ Len(all) = Len(E) - n
        /\ \A m \in 0..Len(all) : /\ SubSeq(D, 1, n) \o SubSeq(all, 1, m) = SubSeq(E, 1, n + m)
                                  /\ SubSeq(all, m + 1, Len(all)) = SubSeq(E, n + m + 1, Len(E))
    BY <2>2, HeldIsTheEnd DEF E
  <2>4. /\ \A i \in 0..Len(all) : (\E s \in S : IsPrefix(s, SubSeq(all, i + 1, Len(all))))
                      <=> \E s \in last : Len(s) = Len(all) - i
        /\ \A s \in last : Len(s) \in 1..Len(all)
    BY <2>1, FoundAreAtTheEnd DEF E
  <2>5. FedBy(S, f, c) =
          IF found # {}
          THEN [pending |-> <<>>, matched |-> TRUE, out |-> f.out \o SubSeq(all, 1, Min(found))]
          ELSE IF safe > 0
          THEN [pending |-> SubSeq(all, safe + 1, Len(all)), matched |-> FALSE, out |-> f.out \o SubSeq(all, 1, safe)]
          ELSE [pending |-> all, matched |-> FALSE, out |-> f.out \o <<>>]
    BY <1>3, <2>1 DEF FedBy
  <2>6. found = {i \in 0..Len(all) : \E s \in last : Len(s) = Len(all) - i}
    BY <2>4
  <2>7. \A i \in 1..Len(D) : StopsAt(S, E, i) = {}
    <3> TAKE i \in 1..Len(D)
    <3>1. i \in 0..Len(D) /\ i <= Len(E) /\ \A k \in 1..i : D[k] = E[k]
      BY <1>1 DEF Extends
    <3>2. StopsAt(S, D, i) = StopsAt(S, E, i)
      BY <1>1, <3>1, StopsAgree
    <3> QED
      BY <2>1, <3>2 DEF Clean
  <2> HIDE DEF n, all, found, last
  <2>8. CASE found # {}
    <3> DEFINE l == Longest(last)
    <3>1. last \subseteq S /\ last # {}
      BY <2>6, <2>8 DEF last, StopsAt
    <3>2. FirstStop(S, E, Len(E))
      BY <1>1, <2>7, <3>1 DEF FirstStop, last
    <3>3. l \in Nat /\ (\E s \in last : Len(s) = l) /\ \A s \in last : Len(s) <= l
      BY <3>1, LongestIs
    <3>4. l \in 1..Len(all)
      BY <2>4, <3>3
    <3> HIDE DEF l
    <3>5. Min(found) = Len(all) - l
      <4>1. Len(all) - l \in found /\ found \subseteq Nat
        <5>1. Len(all) - l \in 0..Len(all) /\ Len(all) - (Len(all) - l) = l
          BY <2>3, <3>4
        <5>2. \E s \in last : Len(s) = Len(all) - (Len(all) - l)
          BY <3>3, <5>1
        <5>3. 0..Len(all) \subseteq Nat
          OBVIOUS
        <5> QED
          BY <2>6, <5>1, <5>2, <5>3, Zenon
      <4>2. \A i \in found : Len(all) - l <= i
        <5> SUFFICES ASSUME NEW i \in found PROVE Len(all) - l <= i
          OBVIOUS
        <5>1. PICK s \in last : Len(s) = Len(all) - i
          BY <2>6
        <5>2. i \in Nat /\ Len(all) \in Nat /\ l \in Nat /\ Len(all) - i <= l
          BY <2>3, <2>6, <3>3, <5>1
        <5> QED
          BY ONLY <5>2
      <4>3. Min(found) \in found /\ \A i \in found : Min(found) <= i
        BY <2>8, <4>1, MinIs
      <4>4. Len(all) - l <= Min(found) /\ Min(found) <= Len(all) - l /\ Min(found) \in Nat
        BY <4>1, <4>2, <4>3
      <4> QED
        BY <2>3, <3>4, <4>4
    <3>6. f.out \o SubSeq(all, 1, Len(all) - l) = SubSeq(E, 1, Len(E) - l)
      <4>1. Len(all) - l \in 0..Len(all) /\ n + (Len(all) - l) = Len(E) - l
        BY <1>1, <2>2, <2>3, <3>4
      <4> QED
        BY <2>1, <2>3, <4>1
    <3>7. FedBy(S, f, c) = [pending |-> <<>>, matched |-> TRUE, out |-> SubSeq(E, 1, Len(E) - l)]
      BY <2>5, <2>8, <3>5, <3>6
    <3>8. Len(E) \in 1..Len(E)
      BY <1>1
    <3>9. Filtered(S, E, FedBy(S, f, c))
      <4>1. l = Longest(StopsAt(S, E, Len(E)))
        BY DEF l, last
      <4> QED
        BY <3>2, <3>7, <3>8, <4>1, FilteredMatched
    <3> QED
      BY <3>9 DEF E
  <2>9. CASE found = {}
    <3>1. last = {}
      <4> SUFFICES ASSUME NEW s \in last PROVE FALSE
        OBVIOUS
      <4>1. Len(s) \in 1..Len(all) /\ Len(all) - Len(s) \in 0..Len(all)
            /\ Len(s) = Len(all) - (Len(all) - Len(s))
        BY <2>3, <2>4
      <4> QED
        BY <2>6, <2>9, <4>1
    <3>2. Clean(S, E)
      <4> SUFFICES ASSUME NEW i \in 1..Len(E) PROVE StopsAt(S, E, i) = {}
        BY DEF Clean
      <4>1. CASE i = Len(E)
        BY <3>1, <4>1 DEF last
      <4>2. CASE i # Len(E)
        BY <1>1, <2>7, <4>2
      <4> QED
        BY <4>1, <4>2
    <3>3. CASE safe > 0
      <4>1. safe \in 0..Len(all) /\ Cut(S, E) = n + safe
        <5>1. Cut(S, D) = IF Len(D) > KeepOf(S) THEN Len(D) - KeepOf(S) ELSE 0
          BY DEF Cut
        <5>2. Len(D) \in Nat
          OBVIOUS
        <5> QED
          <6>1. n = IF Len(D) > KeepOf(S) THEN Len(D) - KeepOf(S) ELSE 0
            BY <5>1 DEF n
          <6>2. Cut(S, E) = IF Len(E) > KeepOf(S) THEN Len(E) - KeepOf(S) ELSE 0
            BY DEF Cut
          <6>3. safe = Len(E) - n - KeepOf(S) /\ safe > 0 /\ Len(E) = Len(D) + 1
            BY <1>1, <2>2, <2>3, <3>3, <5>2
          <6> HIDE DEF safe
          <6>4. Len(all) = Len(E) - n /\ KeepOf(S) \in Nat /\ n \in 0..Len(D)
            BY <2>2, <2>3
          <6>5. Len(D) \in Nat /\ n \in Nat /\ Len(E) \in Nat /\ safe \in Nat
                /\ safe = Len(E) - n - KeepOf(S) /\ safe + n = Len(E) - KeepOf(S) /\ Len(E) > KeepOf(S)
            BY ONLY <5>2, <6>3, <6>4
          <6>6. Cut(S, E) = n + safe
            BY ONLY <6>2, <6>4, <6>5
          <6>7. safe <= Len(all)
            BY ONLY <6>3, <6>4, <6>5
          <6> QED
            BY ONLY <6>4, <6>5, <6>6, <6>7
      <4>2. /\ f.out \o SubSeq(all, 1, safe) = SubSeq(E, 1, Cut(S, E))
            /\ SubSeq(all, safe + 1, Len(all)) = SubSeq(E, Cut(S, E) + 1, Len(E))
        BY <2>1, <2>3, <4>1
      <4>3. FedBy(S, f, c) = [pending |-> SubSeq(E, Cut(S, E) + 1, Len(E)), matched |-> FALSE,
                              out |-> SubSeq(E, 1, Cut(S, E))]
        BY <2>5, <2>9, <3>3, <4>2
      <4>4. Filtered(S, E, FedBy(S, f, c))
        BY <3>2, <4>3, FilteredUnmatched
      <4> QED
        BY <4>4 DEF E
    <3>4. CASE ~ (safe > 0)
      <4>1. n = 0 /\ Cut(S, E) = 0
        <5>1. Cut(S, D) = IF Len(D) > KeepOf(S) THEN Len(D) - KeepOf(S) ELSE 0
          BY DEF Cut
        <5>2. Len(D) \in Nat
          OBVIOUS
        <5> QED
          BY <1>1, <2>2, <2>3, <3>4, <5>1, <5>2 DEF Cut, n
      <4>2. SubSeq(all, 1, Len(all)) = all /\ all = SubSeq(E, 1, Len(E))
        <5>1. 0 \in 0..Len(all) /\ n + 0 + 1 = 1 /\ 0 + 1 = 1
          BY <2>3, <4>1
        <5>2. SubSeq(all, 0 + 1, Len(all)) = SubSeq(E, n + 0 + 1, Len(E))
          BY <2>3, <5>1
        <5>3. SubSeq(all, 1, Len(all)) = all
          BY <2>3, SubSeqFull
        <5> QED
          BY <5>1, <5>2, <5>3
      <4>3. f.out \o <<>> = SubSeq(E, 1, 0)
        <5>1. f.out = <<>> /\ SubSeq(E, 1, 0) = <<>>
          BY <1>1, <2>1, <4>1
        <5> QED
          BY <5>1
      <4>4. FedBy(S, f, c) = [pending |-> SubSeq(E, 1, Len(E)), matched |-> FALSE, out |-> SubSeq(E, 1, 0)]
        BY <2>5, <2>9, <3>4, <4>2, <4>3
      <4> QED
        BY <3>2, <4>1, <4>4 DEF Filtered, E
    <3> QED
      BY <3>3, <3>4
  <2> QED
    BY <2>8, <2>9
<1> QED
  BY <1>2, <1>3
-----------------------------------------------------------------------------
(***************************************************************************)
(* Characters, as the function that it chooses.                            *)
(***************************************************************************)

CharOf(byte) == IF byte = "lead" THEN "wide" ELSE byte
CharsUpTo(f, T, k) ==
    f = [n \in 0..k |-> IF n = 0 THEN <<>>
                        ELSE IF T[n] = "trail" THEN f[n - 1]
                        ELSE Append(f[n - 1], CharOf(T[n]))]
CharsFcn(T) == CHOOSE f : CharsUpTo(f, T, Len(T))

LEMMA CharactersAreFcn == ASSUME NEW T PROVE Characters(T) = CharsFcn(T)[Len(T)]
BY DEF Characters, CharsFcn, CharsUpTo, CharOf

LEMMA CharsExist ==
    ASSUME NEW T
    PROVE  \A k \in Nat : \E f : CharsUpTo(f, T, k)
<1> DEFINE Bad == {k \in Nat : ~ \E f : CharsUpTo(f, T, k)}
<1> SUFFICES ASSUME Bad # {} PROVE FALSE
  OBVIOUS
<1>1. Bad \subseteq Nat
  OBVIOUS
<1>2. PICK k \in Bad : \A j \in Bad : k <= j
  BY <1>1, LeastNat
<1>3. CASE k = 0
  <2> DEFINE f == [n \in 0..0 |-> <<>>]
  <2>1. f = [n \in 0..0 |-> IF n = 0 THEN <<>>
                            ELSE IF T[n] = "trail" THEN f[n - 1]
                            ELSE Append(f[n - 1], CharOf(T[n]))]
    OBVIOUS
  <2>2. CharsUpTo(f, T, 0)
    BY <2>1, Zenon DEF CharsUpTo
  <2> QED
    BY <1>2, <1>3, <2>2
<1>4. CASE k # 0
  <2>1. k \in Nat /\ k - 1 \in Nat
    BY <1>1, <1>2, <1>4
  <2>2. k - 1 \notin Bad
    <3> HIDE DEF Bad
    <3> QED
      BY <1>2, <2>1
  <2>3. PICK g : CharsUpTo(g, T, k - 1)
    BY <2>1, <2>2
  <2> DEFINE G(n) == IF n = 0 THEN <<>>
                     ELSE IF T[n] = "trail" THEN g[n - 1]
                     ELSE Append(g[n - 1], CharOf(T[n]))
             f == [n \in 0..k |-> G(n)]
  <2>4. g = [n \in 0..(k - 1) |-> G(n)]
    BY <2>3 DEF CharsUpTo
  <2> HIDE DEF G
  <2>5. \A n \in 0..(k - 1) : f[n] = g[n]
    <3> TAKE n \in 0..(k - 1)
    <3>1. n \in 0..k
      BY <2>1
    <3>2. f[n] = G(n)
      BY <3>1
    <3>3. g[n] = G(n)
      BY <2>4
    <3> QED
      BY <3>2, <3>3
  <2>6. \A n \in 0..k : n # 0 => f[n - 1] = g[n - 1]
    <3> HIDE DEF f
    <3> TAKE n \in 0..k
    <3>1. n # 0 => n - 1 \in 0..(k - 1)
      BY <2>1
    <3> QED
      BY <2>5, <3>1
  <2>7. f = [n \in 0..k |-> IF n = 0 THEN <<>>
                            ELSE IF T[n] = "trail" THEN f[n - 1]
                            ELSE Append(f[n - 1], CharOf(T[n]))]
    <3> DEFINE h == [n \in 0..k |-> IF n = 0 THEN <<>>
                            ELSE IF T[n] = "trail" THEN f[n - 1]
                            ELSE Append(f[n - 1], CharOf(T[n]))]
    <3>1. \A n \in 0..k : f[n] = h[n]
      BY <2>6 DEF G
    <3>2. f = [n \in 0..k |-> f[n]] /\ h = [n \in 0..k |-> h[n]]
      OBVIOUS
    <3> HIDE DEF f, h
    <3>3. f = h
      BY <3>1, <3>2
    <3> QED
      BY <3>3 DEF h
  <2>8. CharsUpTo(f, T, k)
    <3> HIDE DEF f
    <3> QED
      BY <2>7 DEF CharsUpTo
  <2> QED
    BY <1>2, <2>8
<1> QED
  BY <1>3, <1>4

LEMMA CharsFcnIs ==
    ASSUME NEW T \in Seq(TextBytes)
    PROVE  /\ CharsFcn(T)[0] = <<>>
           /\ \A n \in 1..Len(T) : CharsFcn(T)[n] =
                 IF T[n] = "trail" THEN CharsFcn(T)[n - 1] ELSE Append(CharsFcn(T)[n - 1], CharOf(T[n]))
           /\ \A n \in 0..Len(T) : CharsFcn(T)[n] \in Seq(Character)
<1> DEFINE F == CharsFcn(T)
<1>1. CharsUpTo(F, T, Len(T))
  BY CharsExist DEF CharsFcn
<1> HIDE DEF F
<1>2. \A n \in 0..Len(T) : F[n] = IF n = 0 THEN <<>>
                        ELSE IF T[n] = "trail" THEN F[n - 1]
                        ELSE Append(F[n - 1], CharOf(T[n]))
  <2> DEFINE G(n) == IF n = 0 THEN <<>>
                     ELSE IF T[n] = "trail" THEN F[n - 1]
                     ELSE Append(F[n - 1], CharOf(T[n]))
  <2>1. F = [n \in 0..Len(T) |-> G(n)]
    BY <1>1 DEF CharsUpTo
  <2> HIDE DEF G
  <2>2. \A n \in 0..Len(T) : F[n] = G(n)
    BY <2>1
  <2> QED
    BY <2>2 DEF G
<1>3. F[0] = <<>>
  BY <1>2
<1>4. \A n \in 1..Len(T) : F[n] =
          IF T[n] = "trail" THEN F[n - 1] ELSE Append(F[n - 1], CharOf(T[n]))
  BY <1>2
<1> DEFINE Bad == {n \in Nat : n <= Len(T) /\ F[n] \notin Seq(Character)}
<1>5. Bad = {}
  <2> SUFFICES ASSUME Bad # {} PROVE FALSE
    OBVIOUS
  <2>1. PICK n \in Bad : \A m \in Bad : n <= m
    BY LeastNat
  <2>2. n \in Nat /\ n <= Len(T) /\ F[n] \notin Seq(Character)
    OBVIOUS
  <2>3. n # 0
    <3>1. <<>> \in Seq(Character)
      OBVIOUS
    <3> QED
      BY <1>3, <2>2, <3>1
  <2>4. n \in 1..Len(T) /\ n - 1 \in Nat /\ n - 1 <= Len(T) /\ ~ (n <= n - 1)
    BY <2>2, <2>3
  <2>5. F[n - 1] \in Seq(Character)
    <3>1. n - 1 \notin Bad
      <4> HIDE DEF Bad
      <4> QED
        BY <2>1, <2>4
    <3> QED
      BY <2>4, <3>1
  <2>6. T[n] # "trail" => CharOf(T[n]) \in Character
    BY <2>4 DEF CharOf, Character
  <2>7. T[n] # "trail" => Append(F[n - 1], CharOf(T[n])) \in Seq(Character)
    BY <2>5, <2>6
  <2> QED
    BY <1>4, <2>2, <2>4, <2>5, <2>7
<1>6. \A n \in 0..Len(T) : F[n] \in Seq(Character)
  <2> TAKE n \in 0..Len(T)
  <2>1. n \in Nat /\ n <= Len(T)
    OBVIOUS
  <2> QED
    BY <1>5, <2>1
<1> QED
  BY <1>3, <1>4, <1>6 DEF F

\* The characters before a byte do not change with what follows it.
LEMMA CharsOfLonger ==
    ASSUME NEW T \in Seq(TextBytes), NEW b \in TextBytes
    PROVE  /\ Append(T, b) \in Seq(TextBytes) /\ Len(Append(T, b)) = Len(T) + 1
           /\ \A n \in 0..Len(T) : CharsFcn(Append(T, b))[n] = CharsFcn(T)[n]
<1> DEFINE U == Append(T, b)
           F == CharsFcn(T)
           G == CharsFcn(U)
           Bad == {n \in Nat : n <= Len(T) /\ G[n] # F[n]}
<1>1. U \in Seq(TextBytes) /\ Len(U) = Len(T) + 1 /\ \A n \in 1..Len(T) : U[n] = T[n]
  OBVIOUS
<1> HIDE DEF U
<1>2. F[0] = <<>> /\ G[0] = <<>>
  BY <1>1, CharsFcnIs
<1>3. /\ \A n \in 1..Len(T) : F[n] = IF T[n] = "trail" THEN F[n - 1] ELSE Append(F[n - 1], CharOf(T[n]))
      /\ \A n \in 1..Len(U) : G[n] = IF U[n] = "trail" THEN G[n - 1] ELSE Append(G[n - 1], CharOf(U[n]))
  BY <1>1, CharsFcnIs
<1> HIDE DEF F, G
<1>4. Bad = {}
  <2> SUFFICES ASSUME Bad # {} PROVE FALSE
    OBVIOUS
  <2>1. PICK n \in Bad : \A m \in Bad : n <= m
    BY LeastNat
  <2>2. n \in Nat /\ n <= Len(T) /\ G[n] # F[n]
    OBVIOUS
  <2>3. n # 0
    BY <1>2, <2>2
  <2>4. n \in 1..Len(T) /\ n \in 1..Len(U) /\ n - 1 \in Nat /\ n - 1 <= Len(T) /\ ~ (n <= n - 1)
    BY <1>1, <2>2, <2>3
  <2>5. G[n - 1] = F[n - 1]
    <3>1. n - 1 \notin Bad
      <4> HIDE DEF Bad
      <4> QED
        BY <2>1, <2>4
    <3> QED
      BY <2>4, <3>1
  <2> QED
    BY <1>1, <1>3, <2>2, <2>4, <2>5
<1>5. \A n \in 0..Len(T) : G[n] = F[n]
  <2> TAKE n \in 0..Len(T)
  <2>1. n \in Nat /\ n <= Len(T)
    OBVIOUS
  <2> QED
    BY <1>4, <2>1
<1> QED
  BY <1>1, <1>5 DEF F, G, U

\* A beginning of a text has the beginning of its characters.
LEMMA CharsGrow ==
    ASSUME NEW T \in Seq(TextBytes), NEW m \in 0..Len(T)
    PROVE  Extends(CharsFcn(T)[m], Characters(T))
<1> DEFINE F == CharsFcn(T)
           Bad == {n \in Nat : n \in m..Len(T) /\ ~ Extends(F[m], F[n])}
<1>1. /\ \A n \in 1..Len(T) : F[n] = IF T[n] = "trail" THEN F[n - 1] ELSE Append(F[n - 1], CharOf(T[n]))
      /\ \A n \in 0..Len(T) : F[n] \in Seq(Character)
  BY CharsFcnIs
<1> HIDE DEF F
<1>2. Bad = {}
  <2> SUFFICES ASSUME Bad # {} PROVE FALSE
    OBVIOUS
  <2>1. PICK n \in Bad : \A k \in Bad : n <= k
    BY LeastNat
  <2>2. n \in Nat /\ n \in m..Len(T) /\ ~ Extends(F[m], F[n])
    OBVIOUS
  <2>3. n # m
    BY <1>1, <2>2 DEF Extends
  <2>4. n \in 1..Len(T) /\ n - 1 \in Nat /\ n - 1 \in m..Len(T) /\ ~ (n <= n - 1)
        /\ n - 1 \in 0..Len(T) /\ n \in 0..Len(T)
    BY <2>2, <2>3
  <2>5. Extends(F[m], F[n - 1])
    <3>1. n - 1 \notin Bad
      <4> HIDE DEF Bad
      <4> QED
        BY <2>1, <2>4
    <3> QED
      BY <2>4, <3>1
  <2>6. F[n] = F[n - 1] \/ F[n] = Append(F[n - 1], CharOf(T[n]))
    BY <1>1, <2>4
  <2>7. ASSUME F[n] = Append(F[n - 1], CharOf(T[n])) PROVE Extends(F[m], F[n])
    <3>1. F[n - 1] \in Seq(Character) /\ F[n] \in Seq(Character)
      BY <1>1, <2>4
    <3>2. Len(F[n]) = Len(F[n - 1]) + 1 /\ \A k \in 1..Len(F[n - 1]) : F[n][k] = F[n - 1][k]
      BY <2>7, <3>1
    <3> QED
      BY <2>5, <3>1, <3>2 DEF Extends
  <2> QED
    BY <2>2, <2>5, <2>6, <2>7
<1>3. Len(T) \in Nat /\ Len(T) \in m..Len(T)
  OBVIOUS
<1>4. Extends(F[m], F[Len(T)])
  BY <1>2, <1>3
<1> QED
  BY <1>4, CharactersAreFcn DEF F

-----------------------------------------------------------------------------
\* The characters that the decoder has made of the first n bytes, and
\* whether it holds the first half of one.
HoldsHalf(T, n) == n > 0 /\ T[n] = "lead"
Fed(T, n) == IF HoldsHalf(T, n) THEN CharsFcn(T)[n - 1] ELSE CharsFcn(T)[n]

LEMMA FedType ==
    ASSUME NEW T \in Seq(TextBytes), NEW n \in 0..Len(T)
    PROVE  /\ Fed(T, n) \in Seq(Character) /\ Extends(Fed(T, n), Characters(T))
           /\ ~ HoldsHalf(T, n) /\ n = Len(T) => Fed(T, n) = Characters(T)
           /\ HoldsHalf(T, n) \in BOOLEAN
<1>1. \A m \in 0..Len(T) : CharsFcn(T)[m] \in Seq(Character) /\ Extends(CharsFcn(T)[m], Characters(T))
  BY CharsFcnIs, CharsGrow
<1>2. n > 0 => n - 1 \in 0..Len(T)
  OBVIOUS
<1>3. HoldsHalf(T, n) \in BOOLEAN /\ (HoldsHalf(T, n) => n > 0)
  BY DEF HoldsHalf
<1>4. CASE HoldsHalf(T, n)
  BY <1>1, <1>2, <1>3, <1>4 DEF Fed
<1>5. CASE ~ HoldsHalf(T, n)
  BY <1>1, <1>3, <1>5, CharactersAreFcn DEF Fed
<1> QED
  BY <1>4, <1>5

\* One more byte makes a character or nothing.
LEMMA FedByOneMore ==
    ASSUME NEW T \in Seq(TextBytes), NEW n \in 0..(Len(T) - 1),
           ~ ((T[n + 1] = "trail") # HoldsHalf(T, n))
    PROVE  /\ HoldsHalf(T, n + 1) = (T[n + 1] = "lead")
           /\ T[n + 1] = "lead" => Fed(T, n + 1) = Fed(T, n)
           /\ T[n + 1] # "lead" =>
                LET c == IF T[n + 1] = "trail" THEN "wide" ELSE T[n + 1]
                IN  c \in Character /\ Fed(T, n + 1) = Append(Fed(T, n), c)
<1> DEFINE F == CharsFcn(T)
<1>1. \A m \in 1..Len(T) : F[m] = IF T[m] = "trail" THEN F[m - 1] ELSE Append(F[m - 1], CharOf(T[m]))
  BY CharsFcnIs
<1>2. n + 1 \in 1..Len(T) /\ n \in Nat /\ n + 1 > 0 /\ n + 1 - 1 = n /\ (n > 0 => n \in 1..Len(T))
  OBVIOUS
<1>3. T[n + 1] \in TextBytes
  BY <1>2
<1>4. HoldsHalf(T, n + 1) = (T[n + 1] = "lead")
  BY <1>2 DEF HoldsHalf
<1>5. F[n + 1] = IF T[n + 1] = "trail" THEN F[n] ELSE Append(F[n], CharOf(T[n + 1]))
  BY <1>1, <1>2
<1> HIDE DEF F
<1>6. CASE T[n + 1] = "lead"
  <2>1. ~ HoldsHalf(T, n)
    BY <1>6
  <2>2. Fed(T, n) = F[n]
    BY <2>1 DEF Fed, F
  <2>3. Fed(T, n + 1) = F[n + 1 - 1]
    <3>1. HoldsHalf(T, n + 1)
      BY <1>4, <1>6
    <3>2. \A j : HoldsHalf(T, j) => Fed(T, j) = CharsFcn(T)[j - 1]
      BY DEF Fed
    <3> QED
      BY <3>1, <3>2 DEF F
  <2> QED
    BY <1>2, <1>4, <1>6, <2>2, <2>3
<1>7. CASE T[n + 1] = "trail"
  <2>1. HoldsHalf(T, n) /\ n > 0 /\ T[n] = "lead"
    BY <1>7 DEF HoldsHalf
  <2>2. Fed(T, n) = F[n - 1] /\ Fed(T, n + 1) = F[n + 1] /\ F[n + 1] = F[n]
    BY <1>4, <1>5, <1>7, <2>1 DEF Fed, F
  <2>3. F[n] = Append(F[n - 1], "wide")
    BY <1>1, <1>2, <2>1 DEF CharOf
  <2>4. "wide" \in Character
    BY DEF Character
  <2> QED
    BY <1>4, <1>7, <2>2, <2>3, <2>4
<1>8. CASE T[n + 1] # "lead" /\ T[n + 1] # "trail"
  <2>1. ~ HoldsHalf(T, n)
    BY <1>8
  <2>2. Fed(T, n) = F[n] /\ Fed(T, n + 1) = F[n + 1]
    BY <1>2, <1>4, <1>8, <2>1 DEF Fed, F
  <2>3. T[n + 1] \in Character /\ CharOf(T[n + 1]) = T[n + 1]
    BY <1>3, <1>8 DEF Character, CharOf
  <2> QED
    BY <1>4, <1>5, <1>8, <2>2, <2>3
<1> QED
  BY <1>6, <1>7, <1>8

LEMMA FedOfLonger ==
    ASSUME NEW T \in Seq(TextBytes), NEW b \in TextBytes, NEW n \in 0..Len(T)
    PROVE  Fed(Append(T, b), n) = Fed(T, n) /\ HoldsHalf(Append(T, b), n) = HoldsHalf(T, n)
<1>1. /\ Len(Append(T, b)) = Len(T) + 1
      /\ \A m \in 0..Len(T) : CharsFcn(Append(T, b))[m] = CharsFcn(T)[m]
      /\ \A m \in 1..Len(T) : Append(T, b)[m] = T[m]
  BY CharsOfLonger
<1>2. n > 0 => n \in 1..Len(T) /\ n - 1 \in 0..Len(T)
  OBVIOUS
<1>3. HoldsHalf(Append(T, b), n) = HoldsHalf(T, n)
  BY <1>1, <1>2 DEF HoldsHalf
<1> QED
  BY <1>1, <1>2, <1>3 DEF Fed, HoldsHalf

-----------------------------------------------------------------------------
\* What the engine has written, how much of it has been passed on, and what
\* is held back.
Byte == TextBytes \cup ToSet(Mark)
Sent(T, m) == T \o SubSeq(Mark, 1, m)
Passed(T, m) == IF Len(T) + m > Len(Mark) THEN Len(T) + m - Len(Mark) ELSE 0
HeldBack(T, m) == SubSeq(Sent(T, m), Passed(T, m) + 1, Len(T) + m)

LEMMA EndLength ==
    ASSUME NEW S, NEW s \in Seq(S), NEW k \in 0..Len(s)
    PROVE  Len(SubSeq(s, k + 1, Len(s))) = Len(s) - k
OBVIOUS

LEMMA MarkIs ==
    /\ Mark \in Seq(Byte) /\ Len(Mark) \in Nat \ {0}
    /\ \A i \in 1..(Len(Mark) - 1) : Mark[i] # Mark[Len(Mark)]
<1>1. Mark \in Seq(ToSet(Mark)) /\ Mark # <<>>
  BY CompletionAssumption
<1>2. ToSet(Mark) \subseteq Byte
  BY DEF Byte
<1>3. Mark \in Seq(Byte)
  BY <1>1, <1>2
<1> HIDE DEF Byte
<1> QED
  BY <1>1, <1>3, CompletionAssumption

LEMMA MarkSuffixIs ==
    ASSUME NEW W \in Seq(Byte)
    PROVE  IsSuffix(Mark, W) <=> Len(Mark) <= Len(W)
                                 /\ \A i \in 1..Len(Mark) : Mark[i] = W[Len(W) - Len(Mark) + i]
<1>1. Mark \in Seq(Byte)
  BY MarkIs
<1> QED
  BY ONLY <1>1, SuffixIs

LEMMA SentIs ==
    ASSUME NEW T \in Seq(TextBytes), NEW m \in 0..Len(Mark)
    PROVE  /\ Sent(T, m) \in Seq(Byte) /\ Len(Sent(T, m)) = Len(T) + m
           /\ \A i \in 1..Len(T) : Sent(T, m)[i] = T[i]
           /\ \A i \in 1..m : Sent(T, m)[Len(T) + i] = Mark[i]
<1> DEFINE P == SubSeq(Mark, 1, m)
<1>1. P \in Seq(Byte) /\ Len(P) = m /\ \A i \in 1..m : P[i] = Mark[i]
  BY MarkIs
<1>2. T \in Seq(Byte)
  BY DEF Byte
<1> HIDE DEF P
<1>3. /\ T \o P \in Seq(Byte) /\ Len(T \o P) = Len(T) + m
      /\ \A i \in 1..(Len(T) + m) : (T \o P)[i] = IF i <= Len(T) THEN T[i] ELSE P[i - Len(T)]
  BY <1>1, <1>2, ConcatProperties
<1>4. \A i \in 1..m : Len(T) + i \in 1..(Len(T) + m) /\ ~ (Len(T) + i <= Len(T)) /\ Len(T) + i - Len(T) = i
  OBVIOUS
<1>5. \A i \in 1..Len(T) : i \in 1..(Len(T) + m) /\ i <= Len(T)
  OBVIOUS
<1> QED
  BY <1>1, <1>3, <1>4, <1>5 DEF Sent, P

\* The byte that the engine writes next belongs to its text, which does not
\* complete the mark, or is the mark's next.
NextByte(T, m, byte, U, k) ==
    \/ m = 0 /\ k = 0 /\ U = Append(T, byte) /\ byte \in TextBytes /\ ~ IsSuffix(Mark, U)
    \/ m < Len(Mark) /\ U = T /\ k = m + 1 /\ byte = Mark[k]

LEMMA SentNext ==
    ASSUME NEW T \in Seq(TextBytes), NEW m \in 0..(Len(Mark) - 1), NEW byte, NEW U, NEW k,
           NextByte(T, m, byte, U, k)
    PROVE  /\ U \in Seq(TextBytes) /\ k \in 0..Len(Mark) /\ Len(U) + k = Len(T) + m + 1
           /\ byte \in Byte /\ Sent(U, k) = Append(Sent(T, m), byte)
           /\ k = Len(Mark) <=> IsSuffix(Mark, Sent(U, k))
<1>1. CASE m = 0 /\ k = 0 /\ U = Append(T, byte) /\ byte \in TextBytes /\ ~ IsSuffix(Mark, U)
  <2>1. U \in Seq(TextBytes) /\ Len(U) = Len(T) + 1 /\ byte \in Byte
    BY <1>1 DEF Byte
  <2>2. \A V \in Seq(TextBytes) : Sent(V, 0) = V
    <3> TAKE V \in Seq(TextBytes)
    <3>1. SubSeq(Mark, 1, 0) = <<>>
      BY MarkIs
    <3> QED
      BY <3>1 DEF Sent
  <2>3. Sent(T, m) = T /\ Sent(U, k) = U
    BY <1>1, <2>1, <2>2
  <2>4. k \in 0..Len(Mark) /\ Len(U) + k = Len(T) + m + 1 /\ k # Len(Mark)
    BY <1>1, <2>1, MarkIs
  <2> QED
    BY <1>1, <2>1, <2>3, <2>4
<1>2. CASE m < Len(Mark) /\ U = T /\ k = m + 1 /\ byte = Mark[k]
  <2>1. k \in 1..Len(Mark) /\ k \in 0..Len(Mark) /\ m \in 0..Len(Mark) /\ Len(U) + k = Len(T) + m + 1
    BY <1>2, MarkIs
  <2>2. byte \in Byte
    BY <1>2, <2>1, MarkIs
  <2> DEFINE V == Sent(T, m)
             W == Sent(T, k)
  <2>3. /\ V \in Seq(Byte) /\ Len(V) = Len(T) + m /\ \A i \in 1..Len(T) : V[i] = T[i]
        /\ \A i \in 1..m : V[Len(T) + i] = Mark[i]
    BY <2>1, SentIs
  <2>4. /\ W \in Seq(Byte) /\ Len(W) = Len(T) + k /\ \A i \in 1..Len(T) : W[i] = T[i]
        /\ \A i \in 1..k : W[Len(T) + i] = Mark[i]
    BY <2>1, SentIs
  <2> HIDE DEF V, W
  <2>5. W = Append(V, byte)
    <3>1. Append(V, byte) \in Seq(Byte) /\ Len(Append(V, byte)) = Len(W)
          /\ \A i \in 1..Len(V) : Append(V, byte)[i] = V[i]
          /\ Append(V, byte)[Len(V) + 1] = byte
      <4>1. Len(V) + 1 = Len(W) /\ Len(V) \in Nat
        BY <1>2, <2>1, <2>3, <2>4
      <4> QED
        <5>1. /\ Append(V, byte) \in Seq(Byte) /\ Len(Append(V, byte)) = Len(V) + 1
              /\ \A i \in 1..Len(V) : Append(V, byte)[i] = V[i]
              /\ Append(V, byte)[Len(V) + 1] = byte
          <6>1. V \in Seq(Byte) /\ byte \in Byte
            BY <2>2, <2>3
          <6> QED
            BY ONLY <6>1, AppendProperties
        <5> QED
          BY <4>1, <5>1
    <3>2. \A i \in 1..Len(W) : W[i] = Append(V, byte)[i]
      <4> TAKE i \in 1..Len(W)
      <4>1. CASE i <= Len(T)
        BY <2>3, <2>4, <3>1, <4>1
      <4>2. CASE i > Len(T) /\ i <= Len(T) + m
        <5>1. i - Len(T) \in 1..m /\ i - Len(T) \in 1..k /\ Len(T) + (i - Len(T)) = i
          BY <1>2, <2>4, <4>2
        <5>2. V[i] = Mark[i - Len(T)] /\ W[i] = Mark[i - Len(T)]
          BY <2>3, <2>4, <5>1
        <5> QED
          BY <2>3, <3>1, <4>2, <5>2
      <4>3. CASE i > Len(T) + m
        <5>1. i = Len(T) + k /\ i = Len(V) + 1 /\ k \in 1..k
          BY <1>2, <2>1, <2>3, <2>4, <4>3
        <5>2. Append(V, byte)[i] = byte
          BY <3>1, <5>1
        <5>3. W[Len(T) + k] = Mark[k]
          BY <2>4, <5>1
        <5> QED
          BY <1>2, <5>1, <5>2, <5>3
      <4>4. i \in Nat /\ Len(T) \in Nat /\ m \in Nat
        BY <2>1, <2>4, MarkIs
      <4>5. i <= Len(T) \/ (i > Len(T) /\ i <= Len(T) + m) \/ i > Len(T) + m
        BY <4>4
      <4> QED
        BY <4>1, <4>2, <4>3, <4>5, Zenon
    <3> QED
      BY <2>4, <3>1, <3>2, SeqEqual
  <2>6. IsSuffix(Mark, W) <=> Len(Mark) <= Len(W)
                               /\ \A i \in 1..Len(Mark) : Mark[i] = W[Len(W) - Len(Mark) + i]
    BY <2>4, MarkSuffixIs
  <2>7. ASSUME k = Len(Mark) PROVE IsSuffix(Mark, W)
    <3>1. Len(Mark) <= Len(W) /\ \A i \in 1..Len(Mark) : Len(W) - Len(Mark) + i = Len(T) + i
      BY <2>4, <2>7, MarkIs
    <3> QED
      BY <2>4, <2>6, <2>7, <3>1
  <2>8. ASSUME k # Len(Mark), IsSuffix(Mark, W) PROVE FALSE
    <3>1. k \in 1..(Len(Mark) - 1) /\ Len(Mark) \in 1..Len(Mark)
          /\ Len(W) - Len(Mark) + Len(Mark) = Len(T) + k /\ k \in 1..k
      BY <2>1, <2>4, <2>8, MarkIs
    <3>2. Mark[Len(Mark)] = W[Len(T) + k] /\ W[Len(T) + k] = Mark[k]
      BY <2>4, <2>6, <2>8, <3>1
    <3> QED
      BY <3>1, <3>2, MarkIs
  <2> QED
    BY <1>2, <2>1, <2>2, <2>5, <2>7, <2>8 DEF V, W
<1> QED
  BY <1>1, <1>2 DEF NextByte

\* The step of the loop, on the bytes.
AllHeld(T, m, byte) == Append(HeldBack(T, m), byte)

LEMMA HeldNext ==
    ASSUME NEW T \in Seq(TextBytes), NEW m \in 0..(Len(Mark) - 1), NEW byte, NEW U, NEW k,
           NextByte(T, m, byte, U, k)
    PROVE  /\ IsSuffix(Mark, AllHeld(T, m, byte)) <=> k = Len(Mark)
           /\ Len(AllHeld(T, m, byte)) > Len(Mark) <=> Passed(U, k) = Passed(T, m) + 1
           /\ ~ (Len(AllHeld(T, m, byte)) > Len(Mark)) => Passed(U, k) = Passed(T, m)
           /\ Len(AllHeld(T, m, byte)) > Len(Mark) =>
                Passed(T, m) \in 0..(Len(U) - 1) /\ AllHeld(T, m, byte)[1] = U[Passed(T, m) + 1]
           /\ HeldBack(U, k) = IF Len(AllHeld(T, m, byte)) > Len(Mark) THEN Tail(AllHeld(T, m, byte))
                                                                        ELSE AllHeld(T, m, byte)
           /\ Passed(T, m) \in 0..Len(T)
<1> DEFINE n == Passed(T, m)
           V == Sent(T, m)
           W == Sent(U, k)
           L == Len(Mark)
           H == HeldBack(T, m)
           all == Append(H, byte)
           t == Len(T) + m
<1>1. /\ U \in Seq(TextBytes) /\ k \in 0..L /\ Len(U) + k = t + 1
      /\ byte \in Byte /\ W = Append(V, byte)
      /\ k = L <=> IsSuffix(Mark, W)
  BY SentNext
<1>2. m \in 0..L /\ L \in Nat \ {0} /\ Mark \in Seq(Byte) /\ t \in Nat /\ Len(T) \in Nat /\ m < L /\ Len(U) \in Nat
  BY <1>1, MarkIs
<1>3. V \in Seq(Byte) /\ Len(V) = t
  BY <1>2, SentIs
<1>4. W \in Seq(Byte) /\ Len(W) = t + 1 /\ \A i \in 1..Len(U) : W[i] = U[i]
  BY <1>1, SentIs
<1>5. n = (IF t > L THEN t - L ELSE 0) /\ Passed(U, k) = (IF t + 1 > L THEN t + 1 - L ELSE 0)
  BY <1>1 DEF Passed
<1>6. H = SubSeq(V, n + 1, t)
  BY DEF HeldBack
<1>7. HeldBack(U, k) = SubSeq(W, Passed(U, k) + 1, t + 1)
  BY <1>1 DEF HeldBack
<1> HIDE DEF n, V, W, L, H, t
<1>8. n \in 0..t /\ t - n <= L /\ n \in 0..Len(T) /\ t - n = (IF t > L THEN L ELSE t)
  <2>1. t = Len(T) + m
    BY DEF t
  <2> QED
    BY <1>2, <1>5, <2>1
<1>9. /\ H \in Seq(Byte) /\ Len(H) = t - n /\ \A i \in 1..(t - n) : H[i] = V[n + i]
  BY <1>2, <1>3, <1>6, <1>8
<1> HIDE DEF all
<1>10. /\ all \in Seq(Byte) /\ Len(all) = t - n + 1
       /\ \A i \in 1..(t - n + 1) : all[i] = W[n + i]
  <2>1. /\ all \in Seq(Byte) /\ Len(all) = t - n + 1
        /\ \A i \in 1..(t - n) : all[i] = H[i] /\ n + i \in 1..t
        /\ all[t - n + 1] = byte
    <3>1. /\ Append(H, byte) \in Seq(Byte) /\ Len(Append(H, byte)) = Len(H) + 1
          /\ \A i \in 1..Len(H) : Append(H, byte)[i] = H[i]
          /\ Append(H, byte)[Len(H) + 1] = byte
      BY <1>1, <1>9, AppendProperties
    <3>2. \A i \in 1..(t - n) : n + i \in 1..t
      BY <1>2, <1>8
    <3>3. Len(H) = t - n
      BY <1>9
    <3> QED
      BY <3>1, <3>2, <3>3 DEF all
  <2>2. (\A i \in 1..t : W[i] = V[i]) /\ W[t + 1] = byte
    BY <1>1, <1>2, <1>3
  <2>3. ASSUME NEW i \in 1..(t - n + 1) PROVE all[i] = W[n + i]
    <3>1. CASE i <= t - n
      BY <1>2, <1>8, <1>9, <2>1, <2>2, <3>1
    <3>2. CASE ~ (i <= t - n)
      <4>1. i = t - n + 1 /\ n + i = t + 1
        BY <1>2, <1>8, <3>2
      <4> QED
        BY <2>1, <2>2, <4>1
    <3> QED
      BY <3>1, <3>2
  <2> QED
    BY <2>1, <2>3
<1>11. IsSuffix(Mark, all) <=> IsSuffix(Mark, W)
  <2>1. IsSuffix(Mark, W) <=> L <= Len(W) /\ \A i \in 1..L : Mark[i] = W[Len(W) - L + i]
    BY <1>4, MarkSuffixIs DEF L
  <2>2. IsSuffix(Mark, all) <=> L <= Len(all) /\ \A i \in 1..L : Mark[i] = all[Len(all) - L + i]
    <3>1. all \in Seq(Byte)
      BY <1>10
    <3> HIDE DEF all
    <3> QED
      BY ONLY <3>1, MarkSuffixIs DEF L
  <2>3. L <= Len(all) <=> L <= Len(W)
    BY <1>2, <1>4, <1>8, <1>10
  <2>4. L <= Len(all) => \A i \in 1..L : all[Len(all) - L + i] = W[Len(W) - L + i]
    <3> SUFFICES ASSUME L <= Len(all), NEW i \in 1..L PROVE all[Len(all) - L + i] = W[Len(W) - L + i]
      OBVIOUS
    <3>1. Len(all) - L + i \in 1..(t - n + 1) /\ n + (Len(all) - L + i) = Len(W) - L + i
      BY <1>2, <1>4, <1>8, <1>10
    <3> QED
      BY <1>10, <3>1
  <2> QED
    BY <2>1, <2>2, <2>3, <2>4
<1>12. /\ Len(all) > L <=> Passed(U, k) = n + 1
       /\ ~ (Len(all) > L) => Passed(U, k) = n
  BY <1>2, <1>5, <1>8, <1>10
<1>13. ASSUME Len(all) > L PROVE n \in 0..(Len(U) - 1) /\ all[1] = U[n + 1] /\ Tail(all) = HeldBack(U, k)
  <2>1. n \in 0..(Len(U) - 1) /\ n + 1 \in 1..Len(U) /\ 1 \in 1..(t - n + 1)
    BY <1>1, <1>2, <1>8, <1>10, <1>13
  <2>2. all[1] = U[n + 1]
    BY <1>4, <1>10, <2>1
  <2> DEFINE x == SubSeq(W, n + 2, t + 1)
  <2>3. x \in Seq(Byte) /\ Len(x) = t - n /\ \A i \in 1..(t - n) : x[i] = W[n + 1 + i]
    BY <1>2, <1>4, <1>8
  <2>4. Tail(all) \in Seq(Byte) /\ Len(Tail(all)) = t - n /\ \A i \in 1..(t - n) : Tail(all)[i] = all[i + 1]
    <3>1. all # <<>>
      BY <1>2, <1>8, <1>10
    <3>2. /\ Tail(all) \in Seq(Byte) /\ Len(Tail(all)) = Len(all) - 1
          /\ \A i \in 1..(Len(all) - 1) : Tail(all)[i] = all[i + 1]
      BY <1>10, <3>1, HeadTailProperties
    <3>3. Len(all) - 1 = t - n
      BY <1>2, <1>8, <1>10
    <3> QED
      BY <3>2, <3>3
  <2>5. \A i \in 1..(t - n) : all[i + 1] = W[n + 1 + i]
    <3> TAKE i \in 1..(t - n)
    <3>1. i + 1 \in 1..(t - n + 1) /\ n + (i + 1) = n + 1 + i
      BY <1>2, <1>8
    <3> QED
      BY <1>10, <3>1
  <2> HIDE DEF x
  <2>6. Tail(all) = x
    <3>1. Tail(all) \in Seq(Byte) /\ x \in Seq(Byte) /\ Len(Tail(all)) = Len(x)
      BY <2>3, <2>4
    <3>2. \A i \in 1..Len(x) : Tail(all)[i] = x[i]
      BY <2>3, <2>4, <2>5
    <3> HIDE DEF all
    <3> QED
      BY ONLY <3>1, <3>2, SeqEqual
  <2>7. HeldBack(U, k) = x
    <3>1. Passed(U, k) + 1 = n + 2
      BY <1>8, <1>12, <1>13
    <3> QED
      BY <1>7, <3>1 DEF x
  <2> QED
    BY <2>1, <2>2, <2>6, <2>7
<1>14. ASSUME ~ (Len(all) > L) PROVE all = HeldBack(U, k)
  <2>1. n = 0 /\ Passed(U, k) = 0
    BY <1>2, <1>5, <1>8, <1>10, <1>14
  <2>2. HeldBack(U, k) = W
    BY <1>4, <1>7, <2>1, SubSeqFull
  <2>3. all = W
    <3>1. Len(all) = Len(W) /\ \A i \in 1..Len(all) : all[i] = W[i]
      BY <1>2, <1>4, <1>10, <2>1
    <3> QED
      BY <1>4, <1>10, <3>1, SeqEqual
  <2> QED
    BY <2>2, <2>3
<1>15. AllHeld(T, m, byte) = all
  BY DEF all, H, AllHeld
<1>16. /\ IsSuffix(Mark, all) <=> k = L
       /\ HeldBack(U, k) = IF Len(all) > L THEN Tail(all) ELSE all
  BY <1>1, <1>11, <1>13, <1>14
<1> QED
  BY <1>8, <1>12, <1>13, <1>15, <1>16 DEF n, L

-----------------------------------------------------------------------------
\* Nothing has been read or written but a stream's header.
NothingRead == turn = NewTurn /\ stopper = NewStopper /\ wire.text = <<>> /\ wire.open = TRUE

\* The engine's answer is being read: what has been passed on went through
\* the decoder and StopFilter, and the rest, less than a mark, is held back.
Reading ==
    /\ turn.marked \in 0..(Len(Mark) - 1) /\ turn.pending = HeldBack(turn.text, turn.marked)
    /\ turn.lead = HoldsHalf(turn.text, Passed(turn.text, turn.marked))
    /\ Filtered(Stops, Fed(turn.text, Passed(turn.text, turn.marked)), stopper)

\* The mark has been read, and all the text passed on.
AllRead ==
    /\ turn.marked = Len(Mark) /\ turn.pending = <<>>
    /\ turn.lead = HoldsHalf(turn.text, Len(turn.text))
    /\ Filtered(Stops, Fed(turn.text, Len(turn.text)), stopper)

Header == IF reply.request.stream THEN <<200>> ELSE <<>>
Unfinished == wire.finish = "none" /\ wire.done = FALSE

Recorded ==
    /\ wire = [status |-> wire.status, text |-> wire.text, finish |-> wire.finish,
               done |-> wire.done, open |-> wire.open]
    /\ wire.open \in BOOLEAN /\ wire.done \in BOOLEAN
    /\ stopper = [pending |-> stopper.pending, matched |-> stopper.matched, out |-> stopper.out]
    /\ stopper.matched \in BOOLEAN
    /\ turn.text \in Seq(TextBytes) /\ Len(turn.text) <= MaxText

Handled ==
    /\ reply = [at |-> reply.at, request |-> reply.request, limited |-> reply.limited]
    /\ reply.request \in ChatRequests /\ reply.limited \in BOOLEAN
    /\ reply.at \in {"queue", "ask", "read", "stat", "close", "over", "failed"}
    /\ reply.at \in {"queue", "ask", "read", "stat", "close"} => OptionsOk(reply.request) /\ Unfinished
    /\ reply.at = "queue" => NothingRead /\ wire.status = <<>>
    /\ reply.at = "ask" => NothingRead
    /\ reply.at \in {"ask", "read", "stat", "close"} => wire.status = Header
    /\ reply.at = "read" => Reading
    /\ reply.at \in {"stat", "close"} => AllRead
    /\ reply.at = "close" => turn.lead = FALSE
    /\ reply.at \in {"read", "stat", "close"} => Extends(wire.text, stopper.out)
    /\ reply.at \in {"over", "failed"} => AnswersAreFaithful /\ CompletionTypeOK

CompletionIInv ==
    /\ Recorded
    /\ \/ reply = NoReply /\ NothingRead /\ Unfinished /\ wire.status = <<>>
       \/ Handled

LEMMA StopsAreGood ==
    ASSUME reply.request \in ChatRequests, OptionsOk(reply.request)
    PROVE  StopSet(Stops) /\ KeepOf(Stops) <= MaxStopLength
<1> DEFINE st == reply.request.stops
<1>1. {MaxStops, MaxStopLength} \subseteq Nat
  BY CompletionAssumption
<1>2. CASE st = NotGiven
  BY <1>1, <1>2 DEF Stops, StopSet, KeepOf
<1>3. CASE st # NotGiven
  <2>1. st \in Seq(Seq(Character))
    BY <1>3, CompletionAssumption
  <2>2. \A i \in DOMAIN st : Len(st[i]) \in 1..MaxStopLength
    BY <1>3 DEF OptionsOk, StopsOk
  <2> HIDE DEF st
  <2>3. Stops = {st[i] : i \in DOMAIN st}
    BY <1>3 DEF Stops, ToSet, st
  <2>4. Stops \subseteq Seq(Character) /\ \A s \in Stops : Len(s) \in 1..MaxStopLength
    BY <2>1, <2>2, <2>3
  <2>5. StopSet(Stops)
    BY <1>1, <2>4 DEF StopSet
  <2>6. Stops # {} => \E s \in Stops : Len(s) = Longest(Stops)
    BY <2>5, LongestIs
  <2>7. KeepOf(Stops) <= MaxStopLength
    <3>1. CASE Stops = {}
      BY <1>1, <3>1 DEF KeepOf
    <3>2. CASE Stops # {}
      <4>1. PICK s \in Stops : Len(s) = Longest(Stops)
        BY <2>6, <3>2
      <4>2. Longest(Stops) \in 1..MaxStopLength /\ KeepOf(Stops) = Longest(Stops) - 1
        BY <2>4, <3>2, <4>1 DEF KeepOf
      <4> QED
        BY <1>1, <4>2
    <3> QED
      BY <3>1, <3>2
  <2> QED
    BY <2>5, <2>7
<1> QED
  BY <1>2, <1>3

LEMMA ShownIsShownOf == ASSUME NEW W PROVE Shown(W) = ShownOf(Stops, W)
BY DEF Shown, ShownOf, StopsAt, Longest

LEMMA FeedIsFedBy == ASSUME NEW c PROVE Feed(<<c>>) = FedBy(Stops, stopper, c)
<1>1. Keep = KeepOf(Stops)
  BY DEF Keep, KeepOf, Longest
<1> QED
  BY <1>1 DEF Feed, FedBy, Found, Emitted

\* What has been passed on only grows.
LEMMA FedByGrows ==
    ASSUME NEW S, StopSet(S), NEW f, NEW c \in Character,
           f.out \in Seq(Character), f.pending \in Seq(Character)
    PROVE  Extends(f.out, FedBy(S, f, c).out)
<1> DEFINE all == f.pending \o <<c>>
           found == {i \in 0..Len(all) : \E s \in S : IsPrefix(s, SubSeq(all, i + 1, Len(all)))}
           safe == Len(all) - KeepOf(S)
<1>1. all \in Seq(Character) /\ KeepOf(S) \in Nat /\ Len(all) \in Nat
  BY KeepIs
<1>2. \A x \in Seq(Character) : Extends(f.out, f.out \o x)
  <2> TAKE x \in Seq(Character)
  <2>1. /\ f.out \o x \in Seq(Character) /\ Len(f.out \o x) = Len(f.out) + Len(x)
        /\ \A i \in 1..(Len(f.out) + Len(x)) :
             (f.out \o x)[i] = IF i <= Len(f.out) THEN f.out[i] ELSE x[i - Len(f.out)]
    BY ConcatProperties
  <2>2. Len(f.out) \in Nat /\ Len(x) \in Nat
    OBVIOUS
  <2> QED
    BY <2>1, <2>2 DEF Extends
<1>3. CASE f.matched
  BY <1>3 DEF FedBy, Extends
<1>4. CASE ~ f.matched /\ found # {}
  <2>1. Min(found) \in found
    <3>1. found \subseteq Nat
      <4>1. 0..Len(all) \subseteq Nat
        OBVIOUS
      <4> QED
        BY <4>1
    <3> HIDE DEF found
    <3> QED
      BY <1>4, <3>1, MinIs
  <2>2. Min(found) \in 0..Len(all)
    BY <2>1
  <2> HIDE DEF found, all
  <2>3. SubSeq(all, 1, Min(found)) \in Seq(Character)
    BY <1>1, <2>2
  <2>4. FedBy(S, f, c).out = f.out \o SubSeq(all, 1, Min(found))
    BY <1>4 DEF FedBy, found, all
  <2> QED
    BY <1>2, <2>3, <2>4
<1>5. CASE ~ f.matched /\ found = {} /\ safe > 0
  <2>1. safe \in 0..Len(all)
    BY <1>1, <1>5
  <2> HIDE DEF all
  <2>2. SubSeq(all, 1, safe) \in Seq(Character)
    <3> HIDE DEF safe
    <3> QED
      BY <1>1, <2>1
  <2>3. FedBy(S, f, c).out = f.out \o SubSeq(all, 1, safe)
    BY <1>5 DEF FedBy, all
  <2> HIDE DEF safe
  <2> QED
    BY <1>2, <2>2, <2>3
<1>6. CASE ~ f.matched /\ found = {} /\ ~ (safe > 0)
  <2>1. FedBy(S, f, c).out = f.out \o <<>>
    BY <1>6 DEF FedBy
  <2>2. <<>> \in Seq(Character)
    OBVIOUS
  <2> QED
    BY <1>2, <2>1, <2>2
<1> QED
  BY <1>3, <1>4, <1>5, <1>6

-----------------------------------------------------------------------------
LEMMA NothingIsShownOfNothing ==
    ASSUME NEW S
    PROVE  /\ Characters(<<>>) = <<>> /\ ShownOf(S, <<>>) = <<>> /\ IsPrefix(<<>>, <<>>)
           /\ Fed(<<>>, 0) = <<>> /\ Filtered(S, <<>>, NewStopper)
<1>1. <<>> \in Seq(TextBytes) /\ <<>> \in Seq(Character) /\ Len(<<>>) = 0
  OBVIOUS
<1>2. CharsFcn(<<>>)[0] = <<>>
  BY <1>1, CharsFcnIs
<1>3. Characters(<<>>) = <<>>
  BY <1>1, <1>2, CharactersAreFcn
<1>4. Fed(<<>>, 0) = <<>>
  BY <1>2 DEF Fed, HoldsHalf
<1>5. Clean(S, <<>>)
  BY DEF Clean
<1>6. ShownOf(S, <<>>) = <<>>
  BY <1>1, <1>5, ShownOfClean
<1>7. IsPrefix(<<>>, <<>>)
  <2>1. IsPrefix(<<>>, <<>>) <=> Len(<<>>) <= Len(<<>>) /\ \A i \in 1..Len(<<>>) : <<>>[i] = <<>>[i]
    BY <1>1, PrefixIs
  <2> QED
    BY <1>1, <2>1
<1>8. SubSeq(<<>>, 1, Cut(S, <<>>)) = <<>> /\ SubSeq(<<>>, Cut(S, <<>>) + 1, Len(<<>>)) = <<>>
  <2>1. Cut(S, <<>>) = IF 0 > KeepOf(S) THEN 0 - KeepOf(S) ELSE 0
    BY DEF Cut
  <2> QED
    BY <2>1
<1>9. Filtered(S, <<>>, NewStopper)
  BY <1>5, <1>8 DEF Filtered, NewStopper
<1> QED
  BY <1>3, <1>4, <1>6, <1>7, <1>9

\* Before the engine has written anything.
LEMMA NothingReadIsReading == ASSUME NothingRead PROVE Reading
<1>1. turn.text = <<>> /\ turn.marked = 0 /\ turn.pending = <<>> /\ turn.lead = FALSE
  BY DEF NothingRead, NewTurn
<1>2. Len(Mark) \in Nat \ {0} /\ SubSeq(Mark, 1, 0) = <<>>
  BY MarkIs
<1>3. Passed(<<>>, 0) = 0
  BY <1>2 DEF Passed
<1>4. HeldBack(<<>>, 0) = <<>>
  BY <1>2, <1>3 DEF HeldBack, Sent
<1>5. HoldsHalf(<<>>, 0) = FALSE
  BY DEF HoldsHalf
<1>6. Filtered(Stops, Fed(<<>>, 0), stopper)
  BY NothingIsShownOfNothing DEF NothingRead
<1>7. turn.marked \in 0..(Len(Mark) - 1)
  BY <1>1, <1>2
<1>8. turn.pending = HeldBack(turn.text, turn.marked) /\ Passed(turn.text, turn.marked) = 0
  BY <1>1, <1>3, <1>4
<1>9. turn.lead = HoldsHalf(turn.text, 0)
  BY <1>1, <1>5
<1> QED
  BY <1>1, <1>6, <1>7, <1>8, <1>9 DEF Reading

\* What a request that is being handled has been shown so far.
LEMMA ShownSoFar ==
    ASSUME Recorded, Handled, reply.at \in {"queue", "ask", "read", "stat", "close"}
    PROVE  /\ StopSet(Stops) /\ KeepOf(Stops) <= MaxStopLength /\ KeepOf(Stops) \in Nat
           /\ IsPrefix(wire.text, ShownOf(Stops, Written))
           /\ stopper.out \in Seq(Character) /\ stopper.pending \in Seq(Character)
           /\ Extends(wire.text, stopper.out)
           /\ Len(stopper.pending) <= MaxStopLength
           /\ turn.marked \in 0..Len(Mark) /\ Len(turn.pending) <= Len(Mark)
<1> DEFINE T == turn.text
<1>1. StopSet(Stops) /\ KeepOf(Stops) <= MaxStopLength /\ KeepOf(Stops) \in Nat
  BY StopsAreGood, KeepIs DEF Handled
<1>2. T \in Seq(TextBytes) /\ Len(T) \in Nat /\ Len(Mark) \in Nat \ {0} /\ MaxStopLength \in Nat
  BY MarkIs, CompletionAssumption DEF Recorded
<1>3. PICK n \in 0..Len(T) : Filtered(Stops, Fed(T, n), stopper)
  <2>1. CASE reply.at \in {"queue", "ask", "read"}
    <3>1. Reading
      BY <2>1, NothingReadIsReading DEF Handled
    <3>2. Passed(T, turn.marked) \in 0..Len(T)
      BY <1>2, <3>1 DEF Passed, Reading
    <3> QED
      BY <3>1, <3>2 DEF Reading
  <2>2. CASE reply.at \in {"stat", "close"}
    BY <1>2, <2>2 DEF Handled, AllRead
  <2> QED
    BY <2>1, <2>2
<1>4. Extends(Fed(T, n), Written)
  BY <1>2, FedType DEF Written
<1>5. /\ stopper.out \in Seq(Character) /\ stopper.pending \in Seq(Character)
      /\ Len(stopper.pending) <= KeepOf(Stops)
      /\ IsPrefix(stopper.out, ShownOf(Stops, Written)) /\ ShownOf(Stops, Written) \in Seq(Character)
  <2>1. StopSet(Stops) /\ Extends(Fed(T, n), Written) /\ Filtered(Stops, Fed(T, n), stopper)
    BY <1>1, <1>3, <1>4
  <2> QED
    BY ONLY <2>1, FilteredIsShown
<1>6. Extends(wire.text, stopper.out)
  <2>1. CASE reply.at \in {"queue", "ask"}
    <3>1. wire.text = <<>>
      BY <2>1 DEF Handled, NothingRead
    <3> QED
      BY <1>5, <3>1 DEF Extends
  <2>2. CASE reply.at \in {"read", "stat", "close"}
    BY <2>2 DEF Handled
  <2> QED
    BY <2>1, <2>2
<1>7. IsPrefix(wire.text, ShownOf(Stops, Written))
  <2> DEFINE X == ShownOf(Stops, Written)
  <2>1. /\ Len(stopper.out) <= Len(X) /\ \A i \in 1..Len(stopper.out) : stopper.out[i] = X[i]
    BY <1>5, PrefixIs
  <2>2. wire.text \in Seq(Character) /\ Len(wire.text) \in Nat /\ Len(stopper.out) \in Nat /\ Len(X) \in Nat
    BY <1>5, <1>6 DEF Extends
  <2>3. X \in Seq(Character)
    BY <1>5
  <2> HIDE DEF X
  <2>4. Len(wire.text) <= Len(X) /\ \A i \in 1..Len(wire.text) : wire.text[i] = X[i]
    BY <1>6, <2>1, <2>2 DEF Extends
  <2>5. IsPrefix(wire.text, X)
    BY <2>2, <2>3, <2>4, PrefixIs
  <2> QED
    BY <2>5 DEF X
<1>8. turn.marked \in 0..Len(Mark) /\ Len(turn.pending) <= Len(Mark)
  <2>1. CASE reply.at \in {"queue", "ask", "read"}
    <3>1. Reading
      BY <2>1, NothingReadIsReading DEF Handled
    <3>2. turn.marked \in 0..Len(Mark) /\ turn.marked < Len(Mark) /\ turn.pending = HeldBack(T, turn.marked)
      BY <1>2, <3>1 DEF Reading
    <3>3. Sent(T, turn.marked) \in Seq(Byte) /\ Len(Sent(T, turn.marked)) = Len(T) + turn.marked
      BY <1>2, <3>2, SentIs
    <3>4. Passed(T, turn.marked) \in 0..(Len(T) + turn.marked)
          /\ Len(T) + turn.marked - Passed(T, turn.marked) <= Len(Mark)
      BY <1>2, <3>2 DEF Passed
    <3>5. Len(HeldBack(T, turn.marked)) = Len(T) + turn.marked - Passed(T, turn.marked)
      <4> DEFINE S == Sent(T, turn.marked)
                 k == Passed(T, turn.marked)
      <4>1. S \in Seq(Byte) /\ k \in 0..Len(S) /\ Len(S) = Len(T) + turn.marked
        BY <3>3, <3>4
      <4>2. HeldBack(T, turn.marked) = SubSeq(S, k + 1, Len(S))
        BY <4>1 DEF HeldBack
      <4> HIDE DEF S, k
      <4>3. Len(SubSeq(S, k + 1, Len(S))) = Len(S) - k
        BY ONLY <4>1, EndLength
      <4>4. Len(HeldBack(T, turn.marked)) = Len(T) + turn.marked - k
        <5>1. Len(T) \in Nat /\ turn.marked \in Nat /\ k \in Nat /\ Len(S) \in Nat
          BY <1>2, <3>2, <4>1
        <5> QED
          BY ONLY <4>1, <4>2, <4>3, <5>1
      <4> QED
        BY <4>4 DEF k
    <3> QED
      BY <3>2, <3>4, <3>5
  <2>2. CASE reply.at \in {"stat", "close"}
    BY <1>2, <2>2 DEF Handled, AllRead
  <2> QED
    BY <2>1, <2>2
<1>9. Len(stopper.pending) <= MaxStopLength
  BY <1>1, <1>2, <1>5
<1> QED
  BY <1>1, <1>5, <1>6, <1>7, <1>8, <1>9

\* An answer that fails.
LEMMA FailureIsFaithful ==
    ASSUME Recorded, Handled, reply.at \in {"ask", "read", "stat"}, NEW code \in {400, 500}, FailsWith(code)
    PROVE  CompletionIInv'
<1>1. /\ IsPrefix(wire.text, ShownOf(Stops, Written))
      /\ Len(stopper.pending) <= MaxStopLength
      /\ turn.marked \in 0..Len(Mark) /\ Len(turn.pending) <= Len(Mark)
  BY ShownSoFar
<1>2. /\ reply' = [at |-> "failed", request |-> reply.request, limited |-> reply.limited]
      /\ turn' = turn /\ stopper' = stopper
  BY DEF FailsWith, Ends, Handled
<1>3. /\ wire' = [status |-> IF wire.open THEN Append(Header, code) ELSE Header, text |-> wire.text,
                  finish |-> "none", done |-> FALSE, open |-> wire.open]
      /\ wire.open \in BOOLEAN
  BY DEF FailsWith, Status, Recorded, Handled, Unfinished
<1>4. Stops' = Stops /\ Written' = Written
  BY <1>2 DEF Stops, Written
<1>5. Shown(Written)' = ShownOf(Stops, Written)
  BY <1>4 DEF Shown, ShownOf, StopsAt, Longest
<1>6. Len(wire'.status) > 1 => reply.request.stream
  BY <1>3 DEF Header
<1>7. AnswersAreFaithful'
  BY <1>1, <1>2, <1>3, <1>5, <1>6 DEF AnswersAreFaithful
<1>8. CompletionTypeOK'
  BY <1>1, <1>2, <1>3 DEF CompletionTypeOK, Recorded
<1>9. Recorded'
  BY <1>2, <1>3 DEF Recorded
<1>10. Handled'
  <2>1. reply.request \in ChatRequests /\ reply.limited \in BOOLEAN
    BY DEF Handled
  <2> QED
    BY <1>2, <1>7, <1>8, <2>1 DEF Handled
<1> QED
  BY <1>9, <1>10 DEF CompletionIInv

LEMMA WithText ==
    ASSUME NEW w, NEW status, NEW text, NEW finish, NEW done, NEW open, NEW x,
           w = [status |-> status, text |-> text, finish |-> finish, done |-> done, open |-> open]
    PROVE  [w EXCEPT !.text = x] =
               [status |-> status, text |-> x, finish |-> finish, done |-> done, open |-> open]
OBVIOUS

\* One byte of the engine's.
LEMMA ByteIsRead ==
    ASSUME Recorded, Handled, reply.at = "read", NEW byte, NEW k, NEW U,
           NextByte(turn.text, turn.marked, byte, U, k), Len(U) <= MaxText, ReadByte(byte, k, U)
    PROVE  CompletionIInv'
<1> DEFINE T == turn.text
           m == turn.marked
           n == Passed(T, m)
           all == Append(turn.pending, byte)
           ended == IsSuffix(Mark, all)
           pass == Len(all) > Len(Mark)
           got == Decode(all[1])
           next == IF pass /\ got.text # <<>> THEN Feed(got.text) ELSE stopper
<1>1. T \in Seq(TextBytes) /\ m \in 0..(Len(Mark) - 1) /\ Reading /\ turn.pending = HeldBack(T, m)
  BY DEF Recorded, Handled, Reading
<1>2. /\ ended <=> k = Len(Mark)
      /\ pass <=> Passed(U, k) = n + 1
      /\ ~ pass => Passed(U, k) = n
      /\ pass => n \in 0..(Len(U) - 1) /\ all[1] = U[n + 1]
      /\ HeldBack(U, k) = IF pass THEN Tail(all) ELSE all
      /\ n \in 0..Len(T)
  <2>1. all = AllHeld(T, m, byte)
    BY <1>1 DEF AllHeld
  <2>2. T \in Seq(TextBytes) /\ m \in 0..(Len(Mark) - 1) /\ NextByte(T, m, byte, U, k)
    BY <1>1
  <2> HIDE DEF T, m, all
  <2>3. /\ IsSuffix(Mark, AllHeld(T, m, byte)) <=> k = Len(Mark)
        /\ Len(AllHeld(T, m, byte)) > Len(Mark) <=> Passed(U, k) = Passed(T, m) + 1
        /\ ~ (Len(AllHeld(T, m, byte)) > Len(Mark)) => Passed(U, k) = Passed(T, m)
        /\ Len(AllHeld(T, m, byte)) > Len(Mark) =>
             Passed(T, m) \in 0..(Len(U) - 1) /\ AllHeld(T, m, byte)[1] = U[Passed(T, m) + 1]
        /\ HeldBack(U, k) = IF Len(AllHeld(T, m, byte)) > Len(Mark) THEN Tail(AllHeld(T, m, byte))
                                                                     ELSE AllHeld(T, m, byte)
        /\ Passed(T, m) \in 0..Len(T)
    BY ONLY <2>2, HeldNext
  <2> QED
    BY <2>1, <2>3
<1>3. /\ U \in Seq(TextBytes) /\ k \in 0..Len(Mark) /\ Len(U) \in Nat /\ Len(Mark) \in Nat \ {0}
      /\ (U = T \/ \E b \in TextBytes : U = Append(T, b))
  <2>1. U \in Seq(TextBytes) /\ k \in 0..Len(Mark)
    BY <1>1, SentNext
  <2> QED
    BY <2>1, MarkIs DEF NextByte
<1>4. Fed(U, n) = Fed(T, n) /\ HoldsHalf(U, n) = HoldsHalf(T, n) /\ n \in 0..Len(U)
  <2>1. CASE U = T
    BY <1>2, <2>1
  <2>2. CASE \E b \in TextBytes : U = Append(T, b)
    <3>1. PICK b \in TextBytes : U = Append(T, b)
      BY <2>2
    <3>2. Len(U) = Len(T) + 1 /\ n \in 0..(Len(T) + 1)
      BY <1>1, <1>2, <3>1
    <3> QED
      BY <1>1, <1>2, <3>1, <3>2, FedOfLonger
  <2> QED
    BY <1>3, <2>1, <2>2
<1>5. CASE pass /\ got.bad
  <2>1. FailsWith(500)
    BY <1>5 DEF ReadByte
  <2> QED
    BY <2>1, FailureIsFaithful
<1>6. CASE ~ (pass /\ got.bad)
  <2>1. /\ turn' = [pending |-> IF ended THEN <<>> ELSE IF pass THEN Tail(all) ELSE all,
                    marked |-> k, text |-> U, lead |-> IF pass THEN got.lead ELSE turn.lead]
        /\ stopper' = next /\ wire' = Streams(next)
        /\ IF ended THEN Ends("stat") ELSE UNCHANGED reply
    BY <1>6 DEF ReadByte
  <2>2. StopSet(Stops) /\ stopper.out \in Seq(Character) /\ stopper.pending \in Seq(Character)
        /\ Extends(wire.text, stopper.out)
    BY ShownSoFar
  <2>3. turn.lead = HoldsHalf(U, n) /\ Filtered(Stops, Fed(U, n), stopper) /\ Fed(U, n) \in Seq(Character)
    <3>1. turn.lead = HoldsHalf(T, n) /\ Filtered(Stops, Fed(T, n), stopper)
      BY <1>1 DEF Reading
    <3>2. Fed(U, n) \in Seq(Character)
      BY <1>3, <1>4, FedType
    <3> QED
      BY <1>4, <3>1, <3>2
  <2> HIDE DEF n, all
  <2>4. /\ (IF pass THEN got.lead ELSE turn.lead) = HoldsHalf(U, Passed(U, k))
        /\ Filtered(Stops, Fed(U, Passed(U, k)), next)
        /\ Extends(stopper.out, next.out)
        /\ next = [pending |-> next.pending, matched |-> next.matched, out |-> next.out]
        /\ next.matched \in BOOLEAN
    <3>1. stopper = [pending |-> stopper.pending, matched |-> stopper.matched, out |-> stopper.out]
          /\ stopper.matched \in BOOLEAN /\ Extends(stopper.out, stopper.out)
      BY <2>2 DEF Recorded, Extends
    <3>2. CASE ~ pass
      <4>1. next = stopper /\ Passed(U, k) = n
        BY <1>2, <3>2
      <4> HIDE DEF next
      <4> QED
        BY <2>3, <3>1, <3>2, <4>1
    <3>3. CASE pass
      <4>1. Passed(U, k) = n + 1 /\ n \in 0..(Len(U) - 1) /\ all[1] = U[n + 1]
        BY <1>2, <3>3
      <4>2. ~ ((U[n + 1] = "trail") # HoldsHalf(U, n))
        BY <1>6, <2>3, <3>3, <4>1 DEF Decode
      <4>3. /\ HoldsHalf(U, n + 1) = (U[n + 1] = "lead")
            /\ U[n + 1] = "lead" => Fed(U, n + 1) = Fed(U, n)
            /\ U[n + 1] # "lead" =>
                 LET c == IF U[n + 1] = "trail" THEN "wide" ELSE U[n + 1]
                 IN  c \in Character /\ Fed(U, n + 1) = Append(Fed(U, n), c)
        BY <1>3, <4>1, <4>2, FedByOneMore
      <4>4. got.lead = HoldsHalf(U, n + 1)
        BY <4>1, <4>3 DEF Decode
      <4>5. CASE U[n + 1] = "lead"
        <5>1. next = stopper
          BY <4>1, <4>5 DEF Decode
        <5> HIDE DEF next, got
        <5> QED
          BY <2>3, <3>1, <3>3, <4>1, <4>3, <4>4, <4>5, <5>1
      <4>6. CASE U[n + 1] # "lead"
        <5> DEFINE c == IF U[n + 1] = "trail" THEN "wide" ELSE U[n + 1]
        <5>1. c \in Character /\ Fed(U, n + 1) = Append(Fed(U, n), c)
          BY <4>3, <4>6
        <5>2. got.text = <<c>>
          BY <4>1, <4>6 DEF Decode
        <5> HIDE DEF c
        <5>3. next = FedBy(Stops, stopper, c)
          <6>1. next = Feed(<<c>>)
            <7>1. <<c>> # <<>>
              OBVIOUS
            <7> HIDE DEF got
            <7> QED
              BY <3>3, <5>2, <7>1
          <6> QED
            BY <6>1, FeedIsFedBy
        <5>4. Filtered(Stops, Fed(U, n + 1), FedBy(Stops, stopper, c))
          BY <2>2, <2>3, <5>1, FedKeeps
        <5>5. Extends(stopper.out, FedBy(Stops, stopper, c).out)
          BY <2>2, <5>1, FedByGrows
        <5>6. LET y == FedBy(Stops, stopper, c)
              IN  y = [pending |-> y.pending, matched |-> y.matched, out |-> y.out] /\ y.matched \in BOOLEAN
          BY <3>1 DEF FedBy
        <5> HIDE DEF next, got
        <5> QED
          BY <3>3, <4>1, <4>4, <5>3, <5>4, <5>5, <5>6
      <4> QED
        BY <4>5, <4>6
    <3> QED
      BY <3>2, <3>3
  <2> HIDE DEF next
  <2>5. /\ wire' = [status |-> wire.status, text |-> wire'.text, finish |-> "none", done |-> FALSE,
                    open |-> wire.open]
        /\ Extends(wire'.text, next.out)
    <3>1. wire = [status |-> wire.status, text |-> wire.text, finish |-> "none", done |-> FALSE,
                  open |-> wire.open]
      BY DEF Recorded, Handled, Unfinished
    <3>2. Extends(wire.text, next.out) /\ Extends(next.out, next.out)
      BY <2>2, <2>4 DEF Extends
    <3>3. wire' = Streams(next)
      BY <2>1
    <3>4. CASE reply.request.stream /\ wire.open
      <4>1. wire' = [wire EXCEPT !.text = next.out]
        BY <3>3, <3>4 DEF Streams
      <4>2. wire = [status |-> wire.status, text |-> wire.text, finish |-> wire.finish,
                    done |-> wire.done, open |-> wire.open]
        BY DEF Recorded
      <4>3. wire' = [status |-> wire.status, text |-> next.out, finish |-> wire.finish,
                     done |-> wire.done, open |-> wire.open]
        <5>1. [wire EXCEPT !.text = next.out] =
                [status |-> wire.status, text |-> next.out, finish |-> wire.finish,
                 done |-> wire.done, open |-> wire.open]
          BY ONLY <4>2, WithText
        <5> QED
          BY <4>1, <5>1
      <4>4. wire.finish = "none" /\ wire.done = FALSE
        BY DEF Handled, Unfinished
      <4> QED
        BY <3>2, <4>3, <4>4
    <3>5. CASE ~ (reply.request.stream /\ wire.open)
      <4>1. wire' = wire
        BY <3>3, <3>5 DEF Streams
      <4> QED
        BY <3>1, <3>2, <4>1
    <3> QED
      BY <3>4, <3>5
  <2>6. /\ reply' = [at |-> IF ended THEN "stat" ELSE "read", request |-> reply.request,
                     limited |-> reply.limited]
    BY <2>1 DEF Ends, Handled
  <2>7. Recorded'
    <3>1. wire.open \in BOOLEAN
      BY DEF Recorded
    <3>2. stopper' = next
      BY <2>1
    <3>3. turn'.text = U
      BY <2>1
    <3>4. stopper' = [pending |-> stopper'.pending, matched |-> stopper'.matched, out |-> stopper'.out]
          /\ stopper'.matched \in BOOLEAN
      BY <2>4, <3>2
    <3>5. /\ wire' = [status |-> wire'.status, text |-> wire'.text, finish |-> wire'.finish,
                      done |-> wire'.done, open |-> wire'.open]
          /\ wire'.open \in BOOLEAN /\ wire'.done \in BOOLEAN
      <4>1. /\ wire'.status = wire.status /\ wire'.finish = "none" /\ wire'.done = FALSE
            /\ wire'.open = wire.open
        BY <2>5
      <4> QED
        BY <2>5, <3>1, <4>1
    <3> QED
      BY <1>3, <3>3, <3>4, <3>5 DEF Recorded
  <2>8. Stops' = Stops /\ Header' = Header
    BY <2>6 DEF Stops, Header
  <2>9. turn'.text = U /\ turn'.marked = k /\ turn'.lead = HoldsHalf(U, Passed(U, k))
    <3>1. turn'.lead = IF pass THEN got.lead ELSE turn.lead
      <4> HIDE DEF got, pass
      <4> QED
        BY <2>1
    <3> QED
      BY <2>1, <2>4, <3>1
  <2>10. CASE ended
    <3>1. k = Len(Mark) /\ Passed(U, k) = Len(U)
      <4>1. k = Len(Mark)
        BY <1>2, <2>10
      <4>2. Passed(U, k) = IF Len(U) + k > Len(Mark) THEN Len(U) + k - Len(Mark) ELSE 0
        BY DEF Passed
      <4> QED
        BY ONLY <1>3, <4>1, <4>2
    <3>2. turn'.pending = <<>>
      BY <2>1, <2>10
    <3>3. Filtered(Stops, Fed(U, Len(U)), stopper')
      BY <2>1, <2>4, <3>1
    <3>4. AllRead'
      BY <2>8, <2>9, <3>1, <3>2, <3>3 DEF AllRead
    <3>5. OptionsOk(reply.request) /\ wire.status = Header /\ reply.request \in ChatRequests
          /\ reply.limited \in BOOLEAN
      BY DEF Handled
    <3>6. Extends(wire'.text, stopper'.out)
      BY <2>1, <2>5
    <3>7. Handled'
      BY <2>5, <2>6, <2>8, <2>10, <3>4, <3>5, <3>6 DEF Handled, Unfinished
    <3> QED
      BY <2>7, <3>7 DEF CompletionIInv
  <2>11. CASE ~ ended
    <3>1. k \in 0..(Len(Mark) - 1)
      BY <1>2, <1>3, <2>11
    <3>2. turn'.pending = HeldBack(U, k)
      <4> HIDE DEF pass, ended
      <4> QED
        BY <1>2, <2>1, <2>11
    <3>3. Filtered(Stops, Fed(U, Passed(U, k)), stopper')
      BY <2>1, <2>4
    <3>4. Reading'
      BY <2>8, <2>9, <3>1, <3>2, <3>3 DEF Reading
    <3>5. OptionsOk(reply.request) /\ wire.status = Header /\ reply.request \in ChatRequests
          /\ reply.limited \in BOOLEAN
      BY DEF Handled
    <3>6. Extends(wire'.text, stopper'.out)
      BY <2>1, <2>5
    <3>7. Handled'
      BY <2>5, <2>6, <2>8, <2>11, <3>4, <3>5, <3>6 DEF Handled, Unfinished
    <3> QED
      BY <2>7, <3>7 DEF CompletionIInv
  <2> QED
    BY <2>10, <2>11
<1> QED
  BY <1>5, <1>6

LEMMA StatusIs ==
    ASSUME Recorded, wire.open, NEW code
    PROVE  Status(code) = [status |-> Append(wire.status, code), text |-> wire.text,
                           finish |-> wire.finish, done |-> wire.done, open |-> wire.open]
BY DEF Status, Recorded

LEMMA OneStatus ==
    /\ ~ (Len(<<>>) > 1) /\ <<>> # <<200>>
    /\ \A code : ~ (Len(<<code>>) > 1) /\ <<code>> = Append(<<>>, code)
    /\ \A code : <<code>> = <<200>> => code = 200
<1>1. ~ (Len(<<>>) > 1) /\ \A code : ~ (Len(<<code>>) > 1) /\ <<code>> = Append(<<>>, code)
  OBVIOUS
<1>2. <<>> # <<200>>
  OBVIOUS
<1>3. \A code : <<code>>[1] = code
  OBVIOUS
<1>4. \A code : <<code>> = <<200>> => code = 200
  BY <1>3
<1> QED
  BY <1>1, <1>2, <1>4

LEMMA HeaderIsOneStatus == ~ (Len(Header) > 1)
BY DEF Header

\* A request that is answered before the engine is asked.
LEMMA AnsweredUnread ==
    ASSUME NothingRead, Unfinished, wire.status = <<>>, NEW r \in ChatRequests,
           reply' = [at |-> "over", request |-> r, limited |-> reply'.limited], reply'.limited \in BOOLEAN,
           NEW code \in {0, 400, 401, 404, 429, 503}, wire' = IF code = 0 THEN wire ELSE Status(code),
           UNCHANGED <<turn, stopper>>, Recorded
    PROVE  CompletionIInv'
<1>1. /\ wire' = [status |-> IF code = 0 THEN <<>> ELSE <<code>>, text |-> <<>>, finish |-> "none",
                  done |-> FALSE, open |-> TRUE]
      /\ turn' = NewTurn /\ stopper' = NewStopper
  <2>1. wire = [status |-> <<>>, text |-> <<>>, finish |-> "none", done |-> FALSE, open |-> TRUE]
    BY DEF NothingRead, Unfinished, Recorded
  <2>2. CASE code = 0
    BY <2>1, <2>2 DEF NothingRead
  <2>3. CASE code # 0
    <3>1. wire' = Status(code)
      BY <2>3
    <3>2. wire' = [status |-> Append(wire.status, code), text |-> wire.text,
                   finish |-> wire.finish, done |-> wire.done, open |-> wire.open]
      BY <3>1, StatusIs DEF NothingRead
    <3>3. Append(wire.status, code) = <<code>>
      BY OneStatus
    <3> QED
      BY <2>3, <3>2, <3>3 DEF NothingRead, Unfinished
  <2> QED
    BY <2>2, <2>3
<1>2. Shown(Written)' = <<>>
  <2>1. Written' = <<>>
    BY <1>1, NothingIsShownOfNothing DEF Written, NewTurn
  <2>2. Shown(Written)' = ShownOf(Stops', <<>>)
    BY <2>1 DEF Shown, ShownOf, StopsAt, Longest
  <2> QED
    BY <2>2, NothingIsShownOfNothing
<1>3. /\ ~ (Len(wire'.status) > 1) /\ wire'.status # <<200>>
  <2> DEFINE st == wire'.status
  <2>1. st = <<>> \/ st = <<code>>
    BY <1>1
  <2>2. code # 200
    OBVIOUS
  <2> HIDE DEF st
  <2>3. ~ (Len(st) > 1) /\ st # <<200>>
    <3>1. CASE st = <<>>
      <4>1. Len(st) = 0 /\ Len(<<200>>) = 1
        BY ONLY <3>1
      <4> QED
        BY ONLY <4>1
    <3>2. CASE st = <<code>>
      <4>1. Len(st) = 1 /\ st[1] = code /\ <<200>>[1] = 200
        BY ONLY <3>2
      <4> QED
        BY ONLY <2>2, <4>1
    <3> QED
      BY ONLY <2>1, <3>1, <3>2
  <2> QED
    BY <2>3 DEF st
<1>4. AnswersAreFaithful'
  BY <1>1, <1>2, <1>3, NothingIsShownOfNothing DEF AnswersAreFaithful
<1>5. CompletionTypeOK'
  BY <1>1, MarkIs, CompletionAssumption DEF CompletionTypeOK, NewTurn, NewStopper
<1>6. Recorded'
  <2>1. stopper' = [pending |-> stopper'.pending, matched |-> stopper'.matched, out |-> stopper'.out]
        /\ stopper'.matched \in BOOLEAN
    BY <1>1 DEF NewStopper
  <2>2. turn'.text \in Seq(TextBytes) /\ Len(turn'.text) <= MaxText
    BY <1>1, CompletionAssumption DEF NewTurn
  <2>3. /\ wire' = [status |-> wire'.status, text |-> wire'.text, finish |-> wire'.finish,
                    done |-> wire'.done, open |-> wire'.open]
        /\ wire'.open \in BOOLEAN /\ wire'.done \in BOOLEAN
    <3>1. wire'.open = TRUE /\ wire'.done = FALSE /\ wire'.finish = "none" /\ wire'.text = <<>>
          /\ wire'.status = IF code = 0 THEN <<>> ELSE <<code>>
      BY <1>1
    <3>2. wire' = [status |-> IF code = 0 THEN <<>> ELSE <<code>>, text |-> <<>>, finish |-> "none",
                   done |-> FALSE, open |-> TRUE]
      BY <1>1
    <3> QED
      BY ONLY <3>1, <3>2
  <2> QED
    BY <2>1, <2>2, <2>3 DEF Recorded
<1>7. Handled'
  BY <1>4, <1>5 DEF Handled
<1> QED
  BY <1>6, <1>7 DEF CompletionIInv

LEMMA RefusalIs ==
    ASSUME NEW r
    PROVE  Refusal(r) \in {0, 400, 401, 404} /\ (Refusal(r) = 0 => OptionsOk(r))
<1> DEFINE C == Checks(r)
           failed == {i \in DOMAIN C : ~ C[i][1]}
<1>1. DOMAIN C = 1..7 /\ \A i \in 1..7 : C[i][2] \in {400, 401, 404}
  BY DEF Checks
<1>2. C[6][1] = OptionsOk(r)
  BY DEF Checks
<1>3. Refusal(r) = IF failed = {} THEN 0 ELSE C[Min(failed)][2]
  BY DEF Refusal
<1> HIDE DEF C
<1>4. CASE failed = {}
  BY <1>1, <1>2, <1>3, <1>4
<1>5. CASE failed # {}
  <2>1. failed \subseteq Nat
    BY <1>1
  <2>2. Min(failed) \in failed
    <3> HIDE DEF failed
    <3> QED
      BY <1>5, <2>1, MinIs
  <2>3. C[Min(failed)][2] \in {400, 401, 404}
    BY <1>1, <2>2
  <2> HIDE DEF failed
  <2> QED
    BY <1>3, <1>5, <2>3
<1> QED
  BY <1>4, <1>5

LEMMA PostIsHandled ==
    ASSUME CompletionIInv, NEW r \in ChatRequests, PostCompletion(r)
    PROVE  CompletionIInv'
<1>1. Recorded /\ NothingRead /\ Unfinished /\ wire.status = <<>>
  BY DEF CompletionIInv, Handled, PostCompletion, NoReply
<1>2. Refusal(r) \in {0, 400, 401, 404} /\ (Refusal(r) = 0 => OptionsOk(r))
  BY RefusalIs
<1>3. CASE Refusal(r) # 0
  <2>1. /\ reply' = [at |-> "over", request |-> r, limited |-> reply'.limited]
        /\ reply'.limited \in BOOLEAN
        /\ wire' = (IF Refusal(r) = 0 THEN wire ELSE Status(Refusal(r)))
        /\ Refusal(r) \in {0, 400, 401, 404, 429, 503} /\ UNCHANGED <<turn, stopper>>
    BY <1>2, <1>3 DEF PostCompletion
  <2> QED
    BY <1>1, <2>1, AnsweredUnread
<1>4. CASE Refusal(r) = 0
  <2>1. /\ reply' = [at |-> "queue", request |-> r, limited |-> FALSE]
        /\ wire' = wire /\ turn' = turn /\ stopper' = stopper
    BY <1>4 DEF PostCompletion
  <2>2. Recorded' /\ NothingRead' /\ Unfinished'
    BY <1>1, <2>1 DEF Recorded, NothingRead, Unfinished
  <2>3. Handled'
    BY <1>1, <1>2, <1>4, <2>1, <2>2 DEF Handled
  <2> QED
    BY <2>2, <2>3 DEF CompletionIInv
<1> QED
  BY <1>3, <1>4

LEMMA NotAdmittedIsHandled ==
    ASSUME CompletionIInv, NEW code \in {0, 429, 503}, NotAdmitted(code)
    PROVE  CompletionIInv'
<1>1. Recorded /\ Handled /\ NothingRead /\ Unfinished /\ wire.status = <<>>
  BY DEF CompletionIInv, Handled, NotAdmitted, NoReply
<1>2. reply' = [at |-> "over", request |-> reply.request, limited |-> reply'.limited]
      /\ reply'.limited \in BOOLEAN
      /\ wire' = (IF code = 0 THEN wire ELSE Status(code))
      /\ UNCHANGED <<turn, stopper>> /\ reply.request \in ChatRequests
  BY <1>1 DEF NotAdmitted, Ends, Handled
<1> QED
  BY <1>1, <1>2, AnsweredUnread

LEMMA BeginIsHandled == ASSUME CompletionIInv, Begin PROVE CompletionIInv'
<1>1. Recorded /\ Handled /\ NothingRead /\ Unfinished /\ wire.status = <<>> /\ reply.at = "queue"
  BY DEF CompletionIInv, Handled, Begin, NoReply
<1>2. /\ reply' = [at |-> "ask", request |-> reply.request, limited |-> reply.limited]
      /\ turn' = turn /\ stopper' = stopper
  BY <1>1 DEF Begin, Ends, Handled
<1>3. wire' = [status |-> Header, text |-> <<>>, finish |-> "none", done |-> FALSE, open |-> TRUE]
  <2>1. wire = [status |-> <<>>, text |-> <<>>, finish |-> "none", done |-> FALSE, open |-> TRUE]
    BY <1>1 DEF NothingRead, Unfinished, Recorded
  <2>2. CASE ~ reply.request.stream
    BY <1>1, <2>1, <2>2 DEF Begin, Header
  <2>3. CASE reply.request.stream
    <3>1. wire' = Status(200)
      BY <2>3 DEF Begin
    <3>2. wire' = [status |-> Append(wire.status, 200), text |-> wire.text,
                   finish |-> wire.finish, done |-> wire.done, open |-> wire.open]
      BY <1>1, <3>1, StatusIs DEF NothingRead
    <3>3. Append(wire.status, 200) = <<200>>
      BY <1>1, OneStatus
    <3> QED
      BY <1>1, <2>3, <3>2, <3>3 DEF NothingRead, Unfinished, Header
  <2> QED
    BY <2>2, <2>3
<1>4. Recorded' /\ NothingRead' /\ Unfinished' /\ wire'.status = Header'
  BY <1>1, <1>2, <1>3 DEF Recorded, NothingRead, Unfinished, Header
<1>5. Handled'
  BY <1>1, <1>2, <1>4 DEF Handled
<1> QED
  BY <1>4, <1>5 DEF CompletionIInv

LEMMA AskIsHandled ==
    ASSUME CompletionIInv, NEW running \in BOOLEAN, AskEngine(running)
    PROVE  CompletionIInv'
<1>1. Recorded /\ Handled /\ reply.at = "ask"
  BY DEF CompletionIInv, AskEngine, NoReply
<1>2. CASE FailsWith(400) \/ FailsWith(500)
  BY <1>1, <1>2, FailureIsFaithful
<1>3. CASE Ends("read") /\ UNCHANGED <<turn, stopper, wire>>
  <2>1. /\ reply' = [at |-> "read", request |-> reply.request, limited |-> reply.limited]
        /\ turn' = turn /\ stopper' = stopper /\ wire' = wire
    BY <1>1, <1>3 DEF Ends, Handled
  <2>2. Reading /\ Extends(wire.text, stopper.out)
    BY <1>1, NothingReadIsReading, ShownSoFar DEF Handled
  <2>3. Recorded'
    BY <1>1, <2>1 DEF Recorded
  <2>4. Reading' /\ Header' = Header
    BY <2>1, <2>2 DEF Reading, Stops, Header
  <2>5. Handled'
    BY <1>1, <2>1, <2>2, <2>4 DEF Handled, Unfinished
  <2> QED
    BY <2>3, <2>5 DEF CompletionIInv
<1> QED
  BY <1>2, <1>3 DEF AskEngine

LEMMA TextIsHandled ==
    ASSUME CompletionIInv, NEW byte \in TextBytes, EngineText(byte)
    PROVE  CompletionIInv'
<1>1. Recorded /\ Handled /\ reply.at = "read"
  BY DEF CompletionIInv, EngineText, NoReply
<1> DEFINE U == Append(turn.text, byte)
<1>2. turn.marked = 0 /\ ~ IsSuffix(Mark, U) /\ Len(turn.text) < MaxText /\ ReadByte(byte, 0, U)
  BY DEF EngineText
<1>3. Len(U) <= MaxText
  BY <1>1, <1>2, CompletionAssumption DEF Recorded
<1> HIDE DEF U
<1>4. NextByte(turn.text, turn.marked, byte, U, 0)
  BY <1>2 DEF NextByte, U
<1> QED
  BY <1>1, <1>2, <1>3, <1>4, ByteIsRead

LEMMA MarkIsHandled == ASSUME CompletionIInv, EngineMark PROVE CompletionIInv'
<1>1. Recorded /\ Handled /\ reply.at = "read"
  BY DEF CompletionIInv, EngineMark, NoReply
<1> DEFINE k == turn.marked + 1
<1>2. turn.marked \in 0..(Len(Mark) - 1)
  BY <1>1 DEF Handled, Reading
<1>3. ReadByte(Mark[k], k, turn.text)
  BY DEF EngineMark
<1>4. NextByte(turn.text, turn.marked, Mark[k], turn.text, k)
  BY <1>2, MarkIs DEF NextByte
<1>5. Len(turn.text) <= MaxText
  BY <1>1 DEF Recorded
<1> HIDE DEF k
<1> QED
  BY <1>1, <1>3, <1>4, <1>5, ByteIsRead

LEMMA BreakIsHandled == ASSUME CompletionIInv, EngineBreaks PROVE CompletionIInv'
<1>1. Recorded /\ Handled /\ reply.at \in {"ask", "read", "stat"} /\ FailsWith(500)
  BY DEF CompletionIInv, EngineBreaks, NoReply
<1> QED
  BY <1>1, FailureIsFaithful

LEMMA StatIsHandled ==
    ASSUME CompletionIInv, NEW limited \in BOOLEAN, EngineStat(limited)
    PROVE  CompletionIInv'
<1>1. Recorded /\ Handled /\ reply.at = "stat"
  BY DEF CompletionIInv, EngineStat, NoReply
<1>2. CASE turn.lead
  <2>1. FailsWith(500)
    BY <1>2 DEF EngineStat
  <2> QED
    BY <1>1, <2>1, FailureIsFaithful
<1>3. CASE ~ turn.lead
  <2>1. /\ reply' = [at |-> "close", request |-> reply.request, limited |-> limited]
        /\ turn' = turn /\ stopper' = stopper /\ wire' = wire
    <3>1. /\ reply' = [reply EXCEPT !.at = "close", !.limited = limited]
          /\ turn' = turn /\ stopper' = stopper /\ wire' = wire
      BY <1>3 DEF EngineStat
    <3>2. reply = [at |-> reply.at, request |-> reply.request, limited |-> reply.limited]
      BY <1>1 DEF Handled
    <3> QED
      BY ONLY <3>1, <3>2
  <2>2. AllRead /\ turn.lead = FALSE
    <3>1. AllRead
      BY <1>1 DEF Handled
    <3>2. turn.lead \in BOOLEAN
      BY <3>1 DEF AllRead, HoldsHalf
    <3> QED
      BY <1>3, <3>1, <3>2
  <2>3. Recorded'
    BY <1>1, <2>1 DEF Recorded
  <2>4. AllRead' /\ Header' = Header
    BY <2>1, <2>2 DEF AllRead, Stops, Header
  <2>5. Handled'
    BY <1>1, <2>1, <2>2, <2>4 DEF Handled, Unfinished
  <2> QED
    BY <2>3, <2>5 DEF CompletionIInv
<1> QED
  BY <1>2, <1>3

LEMMA CloseIsHandled == ASSUME CompletionIInv, CloseReply PROVE CompletionIInv'
<1>1. Recorded /\ Handled /\ reply.at = "close"
  BY DEF CompletionIInv, CloseReply, NoReply
<1> DEFINE T == turn.text
           W == Written
           X == ShownOf(Stops, W)
<1>2. /\ StopSet(Stops) /\ IsPrefix(wire.text, X)
      /\ stopper.out \in Seq(Character) /\ stopper.pending \in Seq(Character)
      /\ turn.marked \in 0..Len(Mark) /\ Len(turn.pending) <= Len(Mark)
  BY <1>1, ShownSoFar
<1>3. AllRead /\ turn.lead = FALSE /\ T \in Seq(TextBytes) /\ wire.status = Header
      /\ Unfinished /\ reply.request \in ChatRequests /\ reply.limited \in BOOLEAN
  BY <1>1 DEF Handled, Recorded
<1>4. Filtered(Stops, W, stopper) /\ Extends(W, W)
  <2>1. Len(T) \in 0..Len(T) /\ ~ HoldsHalf(T, Len(T)) /\ Filtered(Stops, Fed(T, Len(T)), stopper)
    BY <1>3 DEF AllRead
  <2>2. Fed(T, Len(T)) = W /\ Fed(T, Len(T)) \in Seq(Character)
    BY <1>3, <2>1, FedType DEF Written
  <2>3. Filtered(Stops, W, stopper) /\ W \in Seq(Character)
    BY <2>1, <2>2
  <2> QED
    BY <2>3 DEF Extends
<1>5. /\ stopper.matched => stopper.out = X /\ X # W
      /\ ~ stopper.matched => stopper.out \o stopper.pending = X /\ X = W
  <2>1. StopSet(Stops) /\ Extends(W, W) /\ Filtered(Stops, W, stopper)
    BY <1>2, <1>4
  <2> HIDE DEF W
  <2>2. /\ stopper.matched => stopper.out = ShownOf(Stops, W) /\ ShownOf(Stops, W) # W
        /\ ~ stopper.matched /\ W = W => stopper.out \o stopper.pending = W /\ ShownOf(Stops, W) = W
    BY ONLY <2>1, FilteredIsShown
  <2> QED
    BY <2>2
<1>6. Flushed.out = X /\ Flushed.pending = <<>> /\ Flushed.matched = stopper.matched
      /\ Flushed = [pending |-> Flushed.pending, matched |-> Flushed.matched, out |-> Flushed.out]
  <2>1. stopper.out \o <<>> = stopper.out
    BY <1>2
  <2>2. stopper.matched \in BOOLEAN
    BY <1>1 DEF Recorded
  <2>3. Flushed = [pending |-> <<>>, matched |-> stopper.matched,
                   out |-> stopper.out \o (IF stopper.matched THEN <<>> ELSE stopper.pending)]
    BY DEF Flushed, Emitted
  <2>4. stopper.out \o (IF stopper.matched THEN <<>> ELSE stopper.pending) = X
    <3> HIDE DEF X, W
    <3> QED
      BY <1>5, <2>1, <2>2
  <2> HIDE DEF X, W
  <2> QED
    BY <2>3, <2>4
<1>7. /\ reply' = [at |-> "over", request |-> reply.request, limited |-> reply.limited]
      /\ turn' = turn /\ stopper' = Flushed
  BY <1>1 DEF CloseReply, Ends, Handled
<1>8. Stops' = Stops /\ Written' = W
  BY <1>7 DEF Stops, Written
<1>9. Shown(Written)' = X
  BY <1>8 DEF Shown, ShownOf, StopsAt, Longest
<1> HIDE DEF X, W
<1>10. Recorded' /\ CompletionTypeOK' /\ AnswersAreFaithful'
  <2>1. stopper' = [pending |-> stopper'.pending, matched |-> stopper'.matched, out |-> stopper'.out]
        /\ stopper'.matched \in BOOLEAN /\ Len(stopper'.pending) <= MaxStopLength
    <3>1. stopper.matched \in BOOLEAN /\ MaxStopLength \in Nat /\ Len(<<>>) = 0
      BY <1>1, CompletionAssumption DEF Recorded
    <3> QED
      BY <1>6, <1>7, <3>1
  <2>2. wire.open \in BOOLEAN /\ T \in Seq(TextBytes) /\ Len(T) <= MaxText
    BY <1>1 DEF Recorded
  <2>3. CASE ~ wire.open
    <3>1. wire' = wire
      BY <2>3 DEF CloseReply
    <3>2. wire'.text = wire.text /\ wire'.done = FALSE /\ wire'.finish = "none"
          /\ ~ (Len(wire'.status) > 1) /\ ~ wire'.open
      BY <1>3, <2>3, <3>1, HeaderIsOneStatus DEF Unfinished
    <3>3. Recorded'
      BY <1>1, <1>7, <2>1, <3>1 DEF Recorded
    <3>4. CompletionTypeOK'
      BY <1>2, <1>7, <2>1, <2>2, <3>2 DEF CompletionTypeOK
    <3>5. AnswersAreFaithful'
      BY <1>2, <1>7, <1>9, <3>2 DEF AnswersAreFaithful
    <3> QED
      BY <3>3, <3>4, <3>5
  <2>4. CASE wire.open
    <3>1. wire' = [status |-> IF reply.request.stream THEN wire.status ELSE Append(wire.status, 200),
                   text |-> X, finish |-> Finish, done |-> TRUE, open |-> wire.open]
      <4>1. wire' = [wire EXCEPT !.text = Flushed.out, !.finish = Finish, !.done = TRUE,
                                 !.status = IF reply.request.stream THEN @ ELSE Append(@, 200)]
        BY <1>1, <2>4 DEF CloseReply
      <4>2. wire = [status |-> wire.status, text |-> wire.text, finish |-> wire.finish,
                    done |-> wire.done, open |-> wire.open]
        BY <1>1 DEF Recorded
      <4>3. Flushed.out = X
        BY <1>6
      <4> DEFINE given == Flushed.out
                 finish == Finish
                 streams == reply.request.stream
      <4>4. wire' = [wire EXCEPT !.text = given, !.finish = finish, !.done = TRUE,
                                 !.status = IF streams THEN @ ELSE Append(@, 200)]
            /\ given = X
        BY <4>1, <4>3
      <4> HIDE DEF given, finish, streams
      <4>5. wire' = [status |-> IF streams THEN wire.status ELSE Append(wire.status, 200),
                     text |-> given, finish |-> finish, done |-> TRUE, open |-> wire.open]
        BY ONLY <4>2, <4>4
      <4> QED
        BY ONLY <4>4, <4>5 DEF finish, streams
    <3>2. wire'.text = X /\ wire'.done = TRUE /\ wire'.finish = Finish /\ wire'.status = <<200>>
      BY <1>3, <3>1 DEF Header
    <3>3. Finish \in {"none", "stop", "length"}
          /\ (Finish = "length" <=> ~ stopper.matched /\ reply.limited)
      BY DEF Finish
    <3>4. Recorded'
      BY <1>7, <2>1, <2>2, <3>1 DEF Recorded
    <3>5. CompletionTypeOK'
      BY <1>2, <1>7, <2>1, <2>2, <3>2, <3>3 DEF CompletionTypeOK
    <3>6. AnswersAreFaithful'
      <4>1. ~ (Len(wire'.status) > 1)
        BY <3>2
      <4>2. Finish = "length" <=> reply.limited /\ X = W
        BY <1>5, <3>3
      <4> QED
        BY <1>7, <1>8, <1>9, <3>2, <4>1, <4>2 DEF AnswersAreFaithful
    <3> QED
      BY <3>4, <3>5, <3>6
  <2> QED
    BY <2>2, <2>3, <2>4
<1>11. Handled'
  BY <1>3, <1>7, <1>10 DEF Handled
<1> QED
  BY <1>10, <1>11 DEF CompletionIInv

LEMMA LeavingIsHandled == ASSUME CompletionIInv, ClientLeaves PROVE CompletionIInv'
<1>1. Recorded /\ Handled /\ reply.at \in {"read", "stat", "close"}
  BY DEF CompletionIInv, ClientLeaves, NoReply
<1>2. reply' = reply /\ turn' = turn /\ stopper' = stopper
      /\ wire' = [status |-> wire.status, text |-> wire.text, finish |-> wire.finish,
                  done |-> wire.done, open |-> FALSE]
  BY <1>1 DEF ClientLeaves, Recorded
<1>3. Recorded'
  BY <1>1, <1>2 DEF Recorded
<1>4. Header' = Header /\ (Reading => Reading') /\ (AllRead => AllRead') /\ (Unfinished => Unfinished')
  BY <1>2 DEF Header, Reading, AllRead, Stops, Unfinished
<1>5. Handled'
  BY <1>1, <1>2, <1>4 DEF Handled
<1> QED
  BY <1>3, <1>5 DEF CompletionIInv

\* Nothing that is part of a stop or of the mark is seen, and a complete
\* answer is the text up to the first stop, for every mark whose last byte
\* is nowhere else in it, every set of stops and every text: openai_server.py
\* reads the turn, decodes and filters it in pieces.
THEOREM AnswersStayFaithful == CompletionSpec => [](CompletionTypeOK /\ AnswersAreFaithful)
<1>1. CompletionInit => CompletionIInv
  <2> SUFFICES ASSUME CompletionInit PROVE CompletionIInv
    OBVIOUS
  <2>1. /\ wire = [status |-> <<>>, text |-> <<>>, finish |-> "none", done |-> FALSE, open |-> TRUE]
        /\ stopper = [pending |-> <<>>, matched |-> FALSE, out |-> <<>>]
        /\ turn = [pending |-> <<>>, marked |-> 0, lead |-> FALSE, text |-> <<>>] /\ reply = NoReply
    BY DEF CompletionInit, NewWire, NewStopper, NewTurn
  <2>2. Recorded
    BY <2>1, CompletionAssumption DEF Recorded
  <2>3. NothingRead /\ Unfinished
    BY <2>1 DEF NothingRead, Unfinished, NewTurn, NewStopper
  <2> QED
    BY <2>1, <2>2, <2>3 DEF CompletionIInv
<1>2. CompletionIInv /\ [CompletionNext]_replyVars => CompletionIInv'
  <2> SUFFICES ASSUME CompletionIInv, [CompletionNext]_replyVars PROVE CompletionIInv'
    OBVIOUS
  <2>1. CASE UNCHANGED replyVars
    <3>1. reply' = reply /\ turn' = turn /\ stopper' = stopper /\ wire' = wire
      BY <2>1 DEF replyVars
    <3>2. Stops' = Stops /\ Written' = Written /\ Header' = Header
      BY <3>1 DEF Stops, Written, Header
    <3>3. Shown(Written)' = Shown(Written)
      BY <3>2 DEF Shown
    <3>4. AnswersAreFaithful => AnswersAreFaithful'
      BY <3>1, <3>2, <3>3 DEF AnswersAreFaithful
    <3>5. (Recorded => Recorded') /\ (CompletionTypeOK => CompletionTypeOK')
      BY <3>1 DEF Recorded, CompletionTypeOK
    <3>6. (NothingRead => NothingRead') /\ (Unfinished => Unfinished')
      BY <3>1 DEF NothingRead, Unfinished
    <3>7. (Reading => Reading') /\ (AllRead => AllRead')
      BY <3>1, <3>2 DEF Reading, AllRead
    <3>8. Handled => Handled'
      BY <3>1, <3>2, <3>4, <3>5, <3>6, <3>7 DEF Handled
    <3> QED
      BY <3>1, <3>5, <3>6, <3>8 DEF CompletionIInv
  <2>2. CASE CompletionNext
    BY <2>2, PostIsHandled, NotAdmittedIsHandled, BeginIsHandled, AskIsHandled, TextIsHandled,
       MarkIsHandled, BreakIsHandled, StatIsHandled, CloseIsHandled, LeavingIsHandled DEF CompletionNext
  <2> QED
    BY <2>1, <2>2
<1>3. CompletionIInv => CompletionTypeOK /\ AnswersAreFaithful
  <2> SUFFICES ASSUME CompletionIInv PROVE CompletionTypeOK /\ AnswersAreFaithful
    OBVIOUS
  <2>1. CASE reply = NoReply
    <3>1. reply.at = "none" /\ NothingRead /\ Unfinished
      BY <2>1 DEF CompletionIInv, Handled, NoReply
    <3>2. CompletionTypeOK
      BY <3>1, MarkIs, CompletionAssumption DEF CompletionTypeOK, NothingRead, Unfinished, NewTurn, NewStopper
    <3> QED
      BY <2>1, <3>2 DEF AnswersAreFaithful
  <2>2. CASE reply # NoReply
    <3>1. Recorded /\ Handled
      BY <2>2 DEF CompletionIInv
    <3>2. CASE reply.at \in {"over", "failed"}
      BY <3>1, <3>2 DEF Handled
    <3>3. CASE reply.at \in {"queue", "ask", "read", "stat", "close"}
      <4>1. /\ IsPrefix(wire.text, ShownOf(Stops, Written))
            /\ Len(stopper.pending) <= MaxStopLength
            /\ turn.marked \in 0..Len(Mark) /\ Len(turn.pending) <= Len(Mark)
        BY <3>1, <3>3, ShownSoFar
      <4>2. wire.finish = "none" /\ wire.done = FALSE /\ Len(turn.text) <= MaxText
            /\ (wire.status = <<>> \/ wire.status = Header)
        BY <3>1, <3>3 DEF Handled, Recorded, Unfinished
      <4>3. CompletionTypeOK
        BY <3>3, <4>1, <4>2 DEF CompletionTypeOK
      <4>4. Shown(Written) = ShownOf(Stops, Written)
        BY ShownIsShownOf
      <4>5. ~ (Len(wire.status) > 1)
        BY <4>2, HeaderIsOneStatus, OneStatus
      <4> QED
        BY <3>3, <4>1, <4>2, <4>3, <4>4, <4>5 DEF AnswersAreFaithful
    <3> QED
      BY <3>1, <3>2, <3>3 DEF Handled
  <2> QED
    BY <2>1, <2>2
<1> QED
  BY <1>1, <1>2, <1>3, PTL DEF CompletionSpec
=============================================================================
