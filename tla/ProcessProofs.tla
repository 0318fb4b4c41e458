---------------------------- MODULE ProcessProofs ----------------------------
(***************************************************************************)
(* Theorems about Process, for every value of its constants: what is       *)
(* proved of the subscriber holds of the process with all its restarts.    *)
(***************************************************************************)
EXTENDS Process, SubscriberProofs

USE ProcessAssumption

----------------------------------------------------------------------------
(***************************************************************************)
(* The stages of the start.                                                *)
(***************************************************************************)
LEMMA BootIs ==
    /\ Len(Boot) = 12
    /\ \A i \in 1 .. 12 : Boot[i] = "config" => i = 1
    /\ \A i \in 1 .. 12 : Boot[i] = "storage" => i = 2
    /\ BootStages = {Boot[i] : i \in 1 .. 11}
    /\ Boot[1] = "config" /\ Boot[2] = "storage" /\ Boot[7] = "connection" /\ Boot[12] = "wait"
<1>1. Len(Boot) = 12
  BY DEF Boot
<1>2. /\ Boot[1] = "config" /\ Boot[2] = "storage" /\ Boot[3] = "subscriber"
      /\ Boot[4] = "targetClient" /\ Boot[5] = "neutronClient" /\ Boot[6] = "status"
      /\ Boot[7] = "connection" /\ Boot[8] = "querier" /\ Boot[9] = "sender"
      /\ Boot[10] = "chains" /\ Boot[11] = "checker" /\ Boot[12] = "wait"
  BY DEF Boot
<1> QED BY <1>1, <1>2 DEF BootStages

\* A stage leads to a later one; only the first leads to the storage's.
LEMMA FollowingIs ==
    /\ {"config", "storage", "connection"} \subseteq BootStages
    /\ BootStages \cap {"off", "hung", "wait", "close", "return"} = {}
    /\ \A s \in BootStages :
          /\ Following(s) \in BootStages \cup {"wait"}
          /\ Following(s) # "config"
          /\ Following(s) = "storage" => s = "config"
          /\ s = "config" => Following(s) = "storage"
<1>1. {"config", "storage", "connection"} \subseteq BootStages
  BY BootIs
<1>2. BootStages \cap {"off", "hung", "wait", "close", "return"} = {}
  BY SMTT(30), BootIs DEF Boot
<1>3. ASSUME NEW s \in BootStages
      PROVE  /\ Following(s) \in BootStages \cup {"wait"}
             /\ Following(s) # "config"
             /\ Following(s) = "storage" => s = "config"
             /\ s = "config" => Following(s) = "storage"
  <2> DEFINE i == CHOOSE i \in 1 .. Len(Boot) - 1 : Boot[i] = s
  <2>1. \E j \in 1 .. Len(Boot) - 1 : Boot[j] = s
    BY BootIs
  <2>2. i \in 1 .. Len(Boot) - 1 /\ Boot[i] = s
    BY <2>1
  <2>3. Following(s) = Boot[1 + i]
    BY DEF Following
  <2> HIDE DEF i
  <2>4. i \in 1 .. 11 /\ 1 + i \in 2 .. 12
    BY <2>2, BootIs
  <2>5. Following(s) \in BootStages \cup {"wait"}
    <3>1. CASE i = 11
      BY <2>3, <3>1, BootIs
    <3>2. CASE i # 11
      <4>1. 1 + i \in 1 .. 11
        BY <2>4, <3>2
      <4> QED BY <2>3, <4>1, BootIs
    <3> QED BY <3>1, <3>2
  <2>6. Following(s) # "config"
    <3>1. 1 + i \in 1 .. 12 /\ 1 + i # 1
      BY <2>4
    <3> QED BY <2>3, <3>1, BootIs
  <2>7. Following(s) = "storage" => s = "config"
    <3> SUFFICES ASSUME Following(s) = "storage" PROVE s = "config"
      OBVIOUS
    <3>1. 1 + i \in 1 .. 12
      BY <2>4
    <3>2. 1 + i = 2
      BY <2>3, <3>1, BootIs
    <3>3. i = 1
      BY <2>4, <3>2
    <3> QED BY <2>2, <3>3, BootIs
  <2>8. s = "config" => Following(s) = "storage"
    <3>1. s = "config" => i = 1
      BY <2>2, <2>4, BootIs
    <3> QED BY <2>3, <3>1, BootIs
  <2> QED BY <2>5, <2>6, <2>7, <2>8
<1> QED BY <1>1, <1>2, <1>3

----------------------------------------------------------------------------
(***************************************************************************)
(* What loadConnParams does: it loads what Neutron has, tries again, or    *)
(* ends the process.                                                       *)
(***************************************************************************)
TryAgain ==
    /\ main' = [main EXCEPT !.tries = @ + 1] /\ main.tries + 1 < Attempts
    /\ UNCHANGED <<subscriberVars, cancelled, handshake, connParams, storage, server, checker,
                   notified>>

Load ==
    \E connection : /\ connection = ConnectionEnd(handshake)
                    /\ Usable(connection) /\ Loaded(connection)

LEMMA ConnectionIs ==
    ASSUME NEW answer \in {ConnectionAnswer(ConnectionRequest)} \cup Disturbed(ConnectionOKBody),
           NEW payload \in IbcCoreConnectionV1Connection(answer),
           NEW connection \in payload.connection
    PROVE  connection = ConnectionEnd(handshake)
<1>1. /\ answer.body \in {"object", "nothing", "garbled"}
      /\ answer.payload \in {[connection |-> {ConnectionEnd(handshake)}], ConnectionOKBody}
  BY DEF ConnectionAnswer, Good, Disturbed, Answer
<1>2. payload = answer.payload \/ payload = ConnectionOKBody
  BY <1>1, PayloadIs DEF IbcCoreConnectionV1Connection, ConnectionReader
<1>3. payload.connection \in {{ConnectionEnd(handshake)}, {}}
  BY <1>1, <1>2 DEF ConnectionOKBody
<1> QED BY <1>3

LEMMA AttemptIs ==
    ASSUME NEW answer \in {ConnectionAnswer(ConnectionRequest)} \cup Disturbed(ConnectionOKBody),
           Attempt(answer)
    PROVE  TryAgain \/ Exit \/ Load
<1>1. Retry => TryAgain \/ Exit
  BY DEF Retry, TryAgain
<1>2. ASSUME NEW payload \in IbcCoreConnectionV1Connection(answer),
             NEW connection \in payload.connection,
             IF Usable(connection) THEN Loaded(connection) ELSE Retry
      PROVE  TryAgain \/ Exit \/ Load
  BY <1>1, <1>2, ConnectionIs DEF Load
<1> QED BY <1>1, <1>2 DEF Attempt

LEMMA LoadIs ==
    ASSUME LoadConnParams
    PROVE  (Fault \/ UNCHANGED faults) /\ (TryAgain \/ Exit \/ Load)
BY AttemptIs DEF LoadConnParams

----------------------------------------------------------------------------
(***************************************************************************)
(* For the subscriber, a step of the process is one of its own steps, one  *)
(* that leaves it alone, or the end of the process.                        *)
(***************************************************************************)
Calm ==
    /\ UNCHANGED subscriberVars
    /\ cancelled' = cancelled \/ cancelled' = TRUE
    /\ Fault \/ UNCHANGED faults

Ends == Exit /\ (Fault \/ UNCHANGED faults)

LEMMA StepIs == [ProcessNext]_processVars => [Next]_vars \/ Calm \/ Ends
<1> SUFFICES ASSUME [ProcessNext]_processVars PROVE [Next]_vars \/ Calm \/ Ends
  OBVIOUS
<1>1. CASE UNCHANGED vars
  BY <1>1
<1>2. CASE Start \/ BootStep \/ HandshakeStep \/ WebShutdown \/ ShutdownEnds \/ RequestBegins
           \/ RequestEnds \/ CheckerStops \/ Notify \/ WaitEnds \/ CloseStorage
  BY <1>2 DEF Start, BootStep, HandshakeStep, WebShutdown, ShutdownEnds, RequestBegins,
              RequestEnds, CheckerStops, Notify, WaitEnds, CloseStorage
<1>3. CASE BootFails \/ PanicInSubscriber \/ Kill \/ MainReturns
  BY <1>3 DEF BootFails, PanicInSubscriber, NilQuery, Kill, MainReturns, Ends
<1>4. CASE LoadConnParams
  BY <1>4, LoadIs DEF TryAgain, Load, Loaded, Calm, Ends
<1>5. CASE LoadConnParamsHangs \/ WebFails \/ CheckerStarts
  BY <1>5 DEF LoadConnParamsHangs, WebFails, CheckerStarts, Failed, Calm
<1>6. CASE InProcess(SubscriberStep) \/ InProcess(RelayerStep) \/ Signal
           \/ (NeutronStep /\ UNCHANGED procVars)
  BY <1>6 DEF InProcess, Signal, Next
<1>7. CASE UNCHANGED processVars
  BY <1>7 DEF processVars
<1> QED
  BY <1>1, <1>2, <1>3, <1>4, <1>5, <1>6, <1>7 DEF ProcessNext

\* The next process starts with nothing mirrored and everything to list.
LEMMA EndsMap ==
    ASSUME MapInv, Ends
    PROVE  MapInv'
<1>1. TypeOK
  BY DEF MapInv
<1>2. UNCHANGED <<chain, neutronHeight>> /\ faults' \in 0 .. MaxFaults
  BY <1>1, FaultType DEF Ends, Exit, NeutronUnchanged
<1>3. DOMAIN activeQueries' = {}
  BY <1>1 DEF Ends, Exit, Without, TypeOK
<1>4. /\ tasks' = <<>> /\ <<>> \in Seq(Ids) /\ Len(<<>>) = 0 /\ DOMAIN <<>> = {}
      /\ Capacity \in Nat
  BY EmptySeq, SubscriberAssumption DEF Ends, Exit
<1>5. sub' \in SubType /\ sub'.pc = "list"
  BY DEF Ends, Exit, SubType
<1>6. /\ events' \in [{"updated", "removed"} -> [unread : BOOLEAN, ids : SUBSET Ids]]
      /\ newBlock' \in BOOLEAN /\ cancelled' \in BOOLEAN /\ missed' \subseteq Ids
      /\ relayer' \in [pc : {"idle", "busy", "done"}, query : {0} \cup Ids]
  BY DEF Ends, Exit, None
<1>7. TypeOK'
  BY <1>1, <1>2, <1>3, <1>4, <1>5, <1>6 DEF TypeOK
<1>8. RegistryRespected'
  BY <1>3, <1>4 DEF RegistryRespected
<1> QED BY <1>5, <1>7, <1>8 DEF MapInv

LEMMA EndsMirror ==
    ASSUME MapInv, Ends
    PROVE  MirrorInv'
<1> SUFFICES ASSUME NEW q \in Ids PROVE Mirrored(q)'
  BY DEF MirrorInv
<1>1. sub'.pc = "list" /\ sub'.cursor = 0 /\ q \in Nat /\ q # 0
  BY IdsAre DEF Ends, Exit
<1>2. StillToList(q)'
  BY <1>1 DEF StillToList
<1>3. ~Unread("removed", q)' /\ q \notin DOMAIN activeQueries'
  BY DEF Ends, Exit, Unread, None, Without, MapInv, TypeOK
<1> QED BY <1>2, <1>3 DEF Mirrored

LEMMA ProcessMap == MapInv /\ [ProcessNext]_processVars => MapInv'
<1> SUFFICES ASSUME MapInv, [ProcessNext]_processVars PROVE MapInv'
  OBVIOUS
<1>1. CASE Calm
  <2>1. TypeOK'
    <3>1. TypeOK /\ faults' \in 0 .. MaxFaults
      BY <1>1, FaultType DEF MapInv, Calm
    <3> QED BY <1>1, <3>1 DEF Calm, subscriberVars, TypeOK
  <2> QED BY <1>1, <2>1, MapFrame DEF Calm, subscriberVars
<1> QED BY <1>1, StepIs, MapStep, EndsMap

LEMMA ProcessMirror ==
    ASSUME Alike
    PROVE  MapInv /\ MirrorInv /\ [ProcessNext]_processVars => MirrorInv'
<1> SUFFICES ASSUME MapInv, MirrorInv, [ProcessNext]_processVars PROVE MirrorInv'
  OBVIOUS
<1>1. CASE Calm
  <2>1. UNCHANGED <<chain, events, sub, activeQueries, missed>>
    BY <1>1 DEF Calm, subscriberVars
  <2>2. \A q \in Ids : SameFor(q)
    BY <2>1 DEF SameFor, StillToList, Unread, Told
  <2> QED BY <2>1, <2>2, MirrorFrame
<1> QED BY <1>1, StepIs, MirrorStep, EndsMirror

\* Whenever the subscriber has read its events it schedules the watched
\* queries that Neutron has and no other, after any number of restarts,
\* panics, failed starts and signals.
THEOREM RestartsMirror ==
    ASSUME Alike
    PROVE  ProcessSpec => []ActiveIsRegistered
<1>1. ProcessInit => MapInv /\ MirrorInv
  BY MapInit, MirrorInit DEF ProcessInit
<1>2. MapInv /\ MirrorInv /\ [ProcessNext]_processVars => (MapInv /\ MirrorInv)'
  BY ProcessMap, ProcessMirror
<1>3. MapInv /\ MirrorInv => ActiveIsRegistered
  BY MirrorTells
<1> QED BY <1>1, <1>2, <1>3, PTL DEF ProcessSpec

----------------------------------------------------------------------------
(***************************************************************************)
(* The start and the end.  Until the deferred Close the storage is open;   *)
(* after wg.Wait every goroutine it waits for has returned, and stays so;  *)
(* a server that has ended with handlers running was not drained.          *)
(***************************************************************************)
StorageInv ==
    main.pc \in (BootStages \ {"config", "storage"}) \cup {"hung", "wait", "close"}
        => storage = "open"
ReturnedInv == main.pc \in {"close", "return"} => AllReturned
ServerInv   == web.pc = "done" /\ requests > 0 => web.left \in {"timeout", "failed"}
PathInv     == \A p \in connParams : \A id \in DOMAIN p : p[id] # {}

ProcessInv ==
    MapInv /\ ProcessTypeOK /\ StorageInv /\ ReturnedInv /\ ServerInv /\ PathInv

LEMMA ProcessStart == ProcessInit => ProcessInv
<1> SUFFICES ASSUME ProcessInit PROVE ProcessInv
  OBVIOUS
<1>1. MapInv /\ TypeOK
  BY MapInit DEF ProcessInit, MapInv
<1>2. main \in [pc : BootStages \cup {"off", "hung", "wait", "close", "return"},
                tries : 0 .. Attempts - 1] /\ requests \in 0 .. MaxRequests
  BY ProcessAssumption DEF ProcessInit
<1>3. ProcessTypeOK
  BY <1>1, <1>2 DEF ProcessInit, ProcessTypeOK, NotRun
<1>4. main.pc = "off" /\ main.pc \notin BootStages
  BY FollowingIs DEF ProcessInit
<1>5. StorageInv /\ ReturnedInv
  BY <1>4 DEF StorageInv, ReturnedInv
<1>6. ServerInv /\ PathInv
  BY DEF ProcessInit, ServerInv, PathInv
<1> QED BY <1>1, <1>3, <1>5, <1>6 DEF ProcessInv

\* Every way to end leaves the state of a process that does not run.
LEMMA EndsInv ==
    ASSUME ProcessInv, Ends
    PROVE  ProcessInv'
<1>1. MapInv' /\ TypeOK'
  BY EndsMap DEF ProcessInv, MapInv
<1>2. /\ main' \in [pc : BootStages \cup {"off", "hung", "wait", "close", "return"},
                    tries : 0 .. Attempts - 1] /\ requests' \in 0 .. MaxRequests
      /\ web' = NotRun /\ connParams' = {} /\ storage' = "closed" /\ checker' = "start"
      /\ notified' = FALSE /\ handshake' = handshake /\ requests' = 0 /\ main'.pc = "off"
  BY ProcessAssumption DEF Ends, Exit
<1>3. ProcessTypeOK'
  BY <1>1, <1>2 DEF ProcessTypeOK, NotRun, ProcessInv
<1>4. StorageInv' /\ ReturnedInv'
  BY <1>2, FollowingIs DEF StorageInv, ReturnedInv
<1>5. ServerInv' /\ PathInv'
  BY <1>2 DEF ServerInv, PathInv
<1> QED BY <1>1, <1>3, <1>4, <1>5 DEF ProcessInv

\* A step from a stage of the start to a later one, or to hang.
ConnectionStep == main.pc = "connection" /\ (TryAgain \/ Load)

LEMMA StartInv ==
    ASSUME ProcessInv, TypeOK', MapInv',
           Start \/ BootStep \/ LoadConnParamsHangs \/ ConnectionStep
    PROVE  ProcessInv'
<1>1. /\ main.pc \in {"off"} \cup BootStages
      /\ UNCHANGED <<handshake, web, requests, checker, notified>>
  BY FollowingIs DEF Start, BootStep, LoadConnParamsHangs, TryAgain, Load, Loaded, ConnectionStep,
         server
<1>2. /\ main'.pc \in BootStages \cup {"wait", "hung"}
      /\ main'.tries \in 0 .. Attempts - 1
      /\ DOMAIN main' = {"pc", "tries"} /\ main' = [pc |-> main'.pc, tries |-> main'.tries]
  <2>1. main \in [pc : BootStages \cup {"off", "hung", "wait", "close", "return"},
                  tries : 0 .. Attempts - 1] /\ 0 \in 0 .. Attempts - 1
    BY ProcessAssumption DEF ProcessInv, ProcessTypeOK
  <2>2. CASE Start
    BY <2>1, <2>2, BootIs, FollowingIs DEF Start, Goto
  <2>3. CASE BootStep
    BY <2>1, <2>3, FollowingIs DEF BootStep, Goto
  <2>4. CASE LoadConnParamsHangs
    BY <2>1, <2>4 DEF LoadConnParamsHangs
  <2>5. CASE ConnectionStep /\ TryAgain
    <3>1. main'.pc = main.pc /\ main'.tries = main.tries + 1 /\ main'.tries < Attempts
      BY <2>1, <2>5 DEF TryAgain
    <3> QED BY <2>1, <2>5, <3>1, FollowingIs, ProcessAssumption DEF TryAgain, ConnectionStep
  <2>6. CASE ConnectionStep /\ Load
    BY <2>1, <2>6, FollowingIs DEF ConnectionStep, Load, Loaded, Goto
  <2> QED BY <2>2, <2>3, <2>4, <2>5, <2>6 DEF ConnectionStep
<1>3. PathInv' /\ \A p \in connParams' :
                     DOMAIN p = {"neutronClientID", "targetClientID", "targetConnectionID"}
  <2>1. CASE UNCHANGED connParams
    BY <2>1 DEF ProcessInv, PathInv, ProcessTypeOK
  <2>2. CASE Load
    <3>1. PICK c : c = ConnectionEnd(handshake) /\ Usable(c) /\ connParams' = {LoadedParams(c)}
      BY <2>2 DEF Load, Loaded
    <3>2. LoadedParams(c).neutronClientID # {}
      BY <3>1 DEF LoadedParams, ConnectionEnd
    <3>3. LoadedParams(c).targetClientID # {} /\ LoadedParams(c).targetConnectionID # {}
      BY <3>1 DEF LoadedParams, Usable
    <3>4. DOMAIN LoadedParams(c) = {"neutronClientID", "targetClientID", "targetConnectionID"}
      BY DEF LoadedParams
    <3> QED BY <3>1, <3>2, <3>3, <3>4 DEF PathInv
  <2> QED BY <2>1, <2>2 DEF Start, BootStep, LoadConnParamsHangs, ConnectionStep, TryAgain
<1>4. StorageInv' /\ storage' \in {"open", "closed"}
  <2>1. storage \in {"open", "closed"}
    BY DEF ProcessInv, ProcessTypeOK
  <2>2. CASE BootStep
    <3>1. CASE main.pc = "config"
      <4>1. main'.pc = "storage"
        BY <2>2, <3>1, FollowingIs DEF BootStep, Goto
      <4> QED BY <2>1, <2>2, <3>1, <4>1 DEF StorageInv, BootStep
    <3>2. CASE main.pc # "config"
      <4>1. storage' = "open"
        BY <2>2, <3>2 DEF BootStep, ProcessInv, StorageInv
      <4> QED BY <4>1 DEF StorageInv
    <3> QED BY <3>1, <3>2
  <2>3. CASE Start
    <3>1. main'.pc = "config" /\ storage' = storage
      BY <2>3, BootIs DEF Start, Goto
    <3> QED BY <2>1, <3>1 DEF StorageInv
  <2>4. CASE ~BootStep /\ ~Start
    <3>1. main.pc = "connection" /\ storage' = storage
      BY <2>4 DEF LoadConnParamsHangs, ConnectionStep, TryAgain, Load, Loaded
    <3>2. storage = "open"
      BY <3>1, FollowingIs DEF ProcessInv, StorageInv
    <3> QED BY <3>1, <3>2 DEF StorageInv
  <2> QED BY <2>2, <2>3, <2>4
<1>5. ReturnedInv' /\ ServerInv'
  BY <1>1, <1>2, FollowingIs DEF ProcessInv, ReturnedInv, ServerInv
<1>6. ProcessTypeOK'
  BY <1>1, <1>2, <1>3, <1>4 DEF ProcessTypeOK, ProcessInv
<1> QED BY <1>3, <1>4, <1>5, <1>6 DEF ProcessInv

\* While the process runs, and when it comes to its end.
LEMMA RunInv ==
    ASSUME ProcessInv, TypeOK', MapInv',
           \/ WebFails \/ WebShutdown \/ ShutdownEnds \/ RequestBegins \/ RequestEnds
           \/ CheckerStarts \/ CheckerStops \/ Notify
    PROVE  ProcessInv'
<1>1. UNCHANGED <<main, handshake, connParams, storage>>
  BY DEF WebFails, WebShutdown, ShutdownEnds, RequestBegins, RequestEnds, CheckerStarts,
         CheckerStops, CheckerGoto, Notify
<1>2. /\ web \in [pc : {"run", "shutdown", "done"}, left : {"not", "drained", "timeout", "failed"}]
      /\ requests \in 0 .. MaxRequests /\ MaxRequests \in Nat
  BY ProcessAssumption DEF ProcessInv, ProcessTypeOK
<1>3. /\ web' \in [pc : {"run", "shutdown", "done"}, left : {"not", "drained", "timeout", "failed"}]
      /\ requests' \in 0 .. MaxRequests
  BY <1>2 DEF WebFails, WebShutdown, ShutdownEnds, RequestBegins, RequestEnds, CheckerStarts,
              CheckerStops, CheckerGoto, Notify, server
<1>4. checker' \in {"start", "run", "done"} /\ notified' \in BOOLEAN
  BY DEF WebFails, WebShutdown, ShutdownEnds, RequestBegins, RequestEnds, CheckerStarts,
         CheckerStops, CheckerGoto, Notify, ProcessInv, ProcessTypeOK
<1>5. ProcessTypeOK'
  BY <1>1, <1>3, <1>4 DEF ProcessTypeOK, ProcessInv
<1>6. StorageInv' /\ PathInv'
  BY <1>1 DEF ProcessInv, StorageInv, PathInv
<1>7. ServerInv'
  BY <1>2 DEF ProcessInv, ServerInv, WebFails, WebShutdown, ShutdownEnds, RequestBegins, RequestEnds,
         CheckerStarts, CheckerStops, CheckerGoto, Notify, server
<1>8. ReturnedInv'
  <2>1. SUFFICES ASSUME main.pc \in {"close", "return"} PROVE AllReturned'
    BY <1>1 DEF ReturnedInv
  <2>2. ~Running /\ AllReturned
    BY <2>1 DEF Running, ProcessInv, ReturnedInv
  <2>3. RequestEnds
    BY <2>2 DEF AllReturned, WebFails, WebShutdown, ShutdownEnds, RequestBegins, CheckerStarts,
                CheckerStops, Notify
  <2> QED BY <2>2, <2>3 DEF RequestEnds, AllReturned, vars
<1> QED BY <1>5, <1>6, <1>7, <1>8 DEF ProcessInv

LEMMA StopInv ==
    ASSUME ProcessInv, TypeOK', MapInv', WaitEnds \/ CloseStorage
    PROVE  ProcessInv'
<1>1. UNCHANGED <<vars, handshake, connParams, web, requests, checker, notified>>
  BY DEF WaitEnds, CloseStorage, server
<1>2. \/ main' = [pc |-> "close", tries |-> 0] /\ storage' = storage /\ storage = "open"
      \/ main' = [pc |-> "return", tries |-> 0] /\ storage' = "closed"
  BY DEF WaitEnds, CloseStorage, Goto, ProcessInv, StorageInv, Running
<1>3. ProcessTypeOK'
  <2>1. main' \in [pc : BootStages \cup {"off", "hung", "wait", "close", "return"},
                   tries : 0 .. Attempts - 1]
    BY <1>2, ProcessAssumption
  <2> QED BY <1>1, <1>2, <2>1 DEF ProcessTypeOK, ProcessInv
<1>4. StorageInv'
  BY <1>2, FollowingIs DEF StorageInv
<1>5. AllReturned'
  <2>1. AllReturned
    BY DEF WaitEnds, CloseStorage, ProcessInv, ReturnedInv
  <2> QED BY <1>1, <2>1 DEF AllReturned, vars
<1>6. ReturnedInv' /\ ServerInv' /\ PathInv'
  BY <1>1, <1>5 DEF ProcessInv, ReturnedInv, ServerInv, PathInv
<1> QED BY <1>3, <1>4, <1>6 DEF ProcessInv

\* The subscriber and the relayer do not come back; the rest of the process
\* does not change with their steps.
LEMMA GoroutineInv ==
    ASSUME ProcessInv, TypeOK', MapInv', UNCHANGED procVars,
           Running \/ UNCHANGED <<sub, relayer>>
    PROVE  ProcessInv'
<1>1. UNCHANGED <<main, handshake, connParams, storage, web, requests, checker, notified>>
  BY DEF procVars
<1>2. ReturnedInv'
  <2>1. CASE Running
    BY <1>1, <2>1 DEF Running, ReturnedInv
  <2>2. CASE UNCHANGED <<sub, relayer>>
    BY <1>1, <2>2 DEF ProcessInv, ReturnedInv, AllReturned
  <2> QED BY <2>1, <2>2
<1>3. ProcessTypeOK' /\ StorageInv' /\ ServerInv' /\ PathInv'
  BY <1>1 DEF ProcessInv, ProcessTypeOK, StorageInv, ServerInv, PathInv
<1> QED BY <1>2, <1>3 DEF ProcessInv

LEMMA ProcessStep == ProcessInv /\ [ProcessNext]_processVars => ProcessInv'
<1> SUFFICES ASSUME ProcessInv, [ProcessNext]_processVars PROVE ProcessInv'
  OBVIOUS
<1>1. MapInv' /\ TypeOK'
  <2>1. MapInv'
    BY ProcessMap DEF ProcessInv
  <2> QED BY <2>1 DEF MapInv
<1>2. CASE Start \/ BootStep \/ LoadConnParamsHangs
  BY <1>1, <1>2, StartInv
<1>3. CASE BootFails \/ PanicInSubscriber \/ Kill \/ MainReturns
  <2>1. Ends
    BY <1>3 DEF BootFails, PanicInSubscriber, NilQuery, Kill, MainReturns, Ends
  <2> QED BY <2>1, EndsInv
<1>4. CASE LoadConnParams
  <2>1. main.pc = "connection"
    BY <1>4 DEF LoadConnParams
  <2>2. Ends \/ TryAgain \/ Load
    BY <1>4, LoadIs DEF Ends
  <2> QED BY <1>1, <2>1, <2>2, StartInv, EndsInv DEF ConnectionStep
<1>5. CASE \/ WebFails \/ WebShutdown \/ ShutdownEnds \/ RequestBegins \/ RequestEnds
           \/ CheckerStarts \/ CheckerStops \/ Notify
  BY <1>1, <1>5, RunInv
<1>6. CASE WaitEnds \/ CloseStorage
  BY <1>1, <1>6, StopInv
<1>7. CASE InProcess(SubscriberStep) \/ InProcess(RelayerStep) \/ Signal
  BY <1>1, <1>7, GoroutineInv DEF InProcess, Signal
<1>8. CASE (NeutronStep /\ UNCHANGED procVars) \/ UNCHANGED processVars
  <2>1. UNCHANGED procVars /\ UNCHANGED <<sub, relayer>>
    BY <1>8 DEF NeutronStep, NeutronTx, NeutronBlock, processVars, vars
  <2> QED BY <1>1, <2>1, GoroutineInv
<1>9. CASE HandshakeStep
  <2>1. handshake' \in Handshake
        /\ UNCHANGED <<vars, main, connParams, storage, web, requests, checker, notified>>
    BY <1>9 DEF HandshakeStep, Handshake, server
  <2>2. ReturnedInv' /\ StorageInv' /\ ServerInv' /\ PathInv'
    BY <2>1 DEF ProcessInv, ReturnedInv, AllReturned, StorageInv, ServerInv, PathInv, vars
  <2>3. ProcessTypeOK'
    BY <1>1, <2>1 DEF ProcessInv, ProcessTypeOK
  <2> QED BY <1>1, <2>2, <2>3 DEF ProcessInv
<1> QED
  BY <1>2, <1>3, <1>4, <1>5, <1>6, <1>7, <1>8, <1>9 DEF ProcessNext

LEMMA ProcessCorrect == ProcessSpec => []ProcessInv
BY ProcessStart, ProcessStep, PTL DEF ProcessSpec

\* Every part of the process keeps its type over restarts: the attempts do
\* not exceed rtyAtt, the stages are those of startRelayer.
THEOREM ProcessTypeCorrect == ProcessSpec => []ProcessTypeOK
<1>1. ProcessInv => ProcessTypeOK
  BY DEF ProcessInv
<1> QED BY <1>1, ProcessCorrect, PTL

\* The deferred Close of the storage comes after the last goroutine that
\* uses it; a handler finds it closed only after a shutdown that timed out
\* or a server that failed.
THEOREM StorageCorrect == ProcessSpec => []StorageOutlivesUsers
<1>1. ProcessInv => StorageOutlivesUsers
  <2> SUFFICES ASSUME ProcessInv, storage = "closed", main.pc \notin {"off", "config", "storage"}
               PROVE  /\ checker = "done" /\ relayer.pc = "done"
                      /\ requests > 0 => web.left \in {"timeout", "failed"}
    BY DEF StorageOutlivesUsers
  <2>1. main.pc \in BootStages \cup {"off", "hung", "wait", "close", "return"}
    BY DEF ProcessInv, ProcessTypeOK
  <2>2. main.pc = "return"
    BY <2>1 DEF ProcessInv, StorageInv
  <2> QED BY <2>2 DEF ProcessInv, ReturnedInv, ServerInv, AllReturned
<1> QED BY <1>1, ProcessCorrect, PTL

\* The client and the connection of the target chain that the relayer runs
\* with are never empty, whatever Neutron's node answered in the attempts.
THEOREM PathCorrect == ProcessSpec => []PathKnown
<1>1. ProcessInv => PathKnown
  BY DEF ProcessInv, PathInv, PathKnown
<1> QED BY <1>1, ProcessCorrect, PTL

\* Over all restarts, too, nothing outside the registry is scheduled, and
\* the periods of what is scheduled are those of Neutron.
THEOREM RestartsRegistry == ProcessSpec => []RegistryRespected
<1>1. MapInv => RegistryRespected
  BY DEF MapInv
<1>2. ProcessInv => MapInv
  BY DEF ProcessInv
<1> QED BY <1>1, <1>2, ProcessCorrect, PTL

THEOREM RestartsPeriods ==
    ASSUME Alike
    PROVE  ProcessSpec => []PeriodIsCurrent
<1>1. ProcessInit => MapInv /\ MirrorInv
  BY MapInit, MirrorInit DEF ProcessInit
<1>2. MapInv /\ MirrorInv /\ [ProcessNext]_processVars => (MapInv /\ MirrorInv)'
  BY ProcessMap, ProcessMirror
<1>3. MapInv /\ MirrorInv => PeriodIsCurrent
  BY MirrorPeriods
<1> QED BY <1>1, <1>2, <1>3, PTL DEF ProcessSpec

----------------------------------------------------------------------------
(***************************************************************************)
(* The end of one is the end of all.                                       *)
(***************************************************************************)
\* The goroutines of which one has returned, or is on its way to.
Leaving == "done" \in {web.pc, checker, sub.pc, relayer.pc} \/ web.pc = "shutdown"

\* None of the goroutines is gone while the others go on as if it were there.
NobodyLeavesAlone == Leaving => cancelled

\* What a goroutine that waits in a handler has left to go through.
TodoInv ==
    /\ \A k \in {"updated", "removed"} : events[k].unread => events[k].ids # {}
    /\ sub.pc \in {"blockEvent", "updateEvent"} => sub.todo # {}

\* A subscriber that can go on: it is at a call or at the select of its
\* loop, which ctx ends, or passes over a query, or finds room for a task.
SubscriberGoes ==
    \/ sub.pc \in {"list", "subUpdated", "subRemoved", "subBlock", "select"}
    \/ sub.pc = "updateEvent" /\ sub.todo # {}
    \/ sub.pc = "blockEvent" /\ \E q \in sub.todo : ~Due(q, sub.height) \/ HasRoom

\* Of a process that ends, all have returned, or one of them can go on, or
\* the queue is full and nobody is left to empty it.
StopGoesOn ==
    Running /\ cancelled =>
        \/ AllReturned
        \/ web.pc \in {"run", "shutdown"} \/ checker \in {"start", "run"}
        \/ relayer.pc \in {"idle", "busy"}
        \/ SubscriberGoes
        \/ Stuck

LEMMA LeavingStart == ProcessInit => NobodyLeavesAlone /\ TodoInv
<1> SUFFICES ASSUME ProcessInit PROVE NobodyLeavesAlone /\ TodoInv
  OBVIOUS
<1>1. web.pc = "run" /\ checker = "start" /\ sub.pc = "list" /\ relayer.pc = "idle"
  BY DEF ProcessInit, Init, NotRun
<1>2. \A k \in {"updated", "removed"} : events[k] = None
  BY DEF ProcessInit, Init
<1> QED BY <1>1, <1>2 DEF NobodyLeavesAlone, Leaving, TodoInv, None

\* A step of the subscriber, the relayer or Neutron.
LEMMA LeavingInside ==
    ASSUME TypeOK, NobodyLeavesAlone, SubscriberStep \/ RelayerStep \/ Cancel \/ NeutronStep,
           UNCHANGED <<web, checker>>
    PROVE  NobodyLeavesAlone'
<1>1. CASE sub' # sub /\ sub'.pc = "done"
  <2>1. SubscribeFails \/ SubscriberStops
    <3>1. ~ListPage
      <4>1. ListPage => sub'.pc \in {"list", "subUpdated"}
        BY DEF TypeOK, SubType, ListPage
      <4> QED BY <1>1, <4>1
    <3>2. ~RpcSubscribe
      BY <1>1 DEF RpcSubscribe, SubscribeTo, TypeOK, SubType
    <3>3. ~BlockEvent
      BY <1>1 DEF BlockEvent, TypeOK, SubType
    <3>4. ~BlockStep
      BY <1>1, AdvanceType DEF BlockStep, Skip, Enqueue
    <3>5. ~UpdateEvent /\ ~RemoveEvent
      BY <1>1 DEF UpdateEvent, RemoveEvent, TypeOK, SubType
    <3>6. ~UpdateStep
      BY <1>1, AdvanceType DEF UpdateStep, Fetch, FetchFails, SkipUnwatched, ToFetch
    <3>7. ~RelayerStep /\ ~Cancel
      BY <1>1
      DEF RelayerStep, TakeTask, EndTask, RelayerFails, RelayerStops, Cancel, SubscriberUnchanged
    <3>8. ~NeutronStep
      BY <1>1 DEF NeutronStep, NeutronTx, NeutronBlock
    <3> QED
      BY <3>1, <3>2, <3>3, <3>4, <3>5, <3>6, <3>7, <3>8 DEF SubscriberStep, SubscribeStep
  <2> QED BY <2>1 DEF SubscribeFails, SubscriberStops, NobodyLeavesAlone
<1>2. CASE relayer' # relayer /\ relayer'.pc = "done"
  <2>1. ~SubscribeStep /\ ~SubscriberStops
    <3>1. ListPage => TasksUnchanged
      BY ZenonT(60) DEF ListPage
    <3>2. RpcSubscribe \/ SubscribeFails \/ SubscriberStops => TasksUnchanged
      BY DEF RpcSubscribe, SubscribeTo, SubscribeFails, SubscriberStops
    <3> QED BY <1>2, <3>1, <3>2 DEF SubscribeStep, TasksUnchanged
  <2>2. ~BlockEvent /\ ~BlockStep /\ ~UpdateEvent /\ ~UpdateStep /\ ~RemoveEvent
    BY <1>2
    DEF BlockEvent, BlockStep, Skip, Enqueue, UpdateEvent, UpdateStep, Fetch, FetchFails,
        SkipUnwatched, RemoveEvent, TasksUnchanged
  <2>3. ~Cancel /\ ~NeutronStep
    BY <1>2 DEF Cancel, NeutronStep, NeutronTx, NeutronBlock, TasksUnchanged
  <2>4. RelayerFails \/ RelayerStops
    BY <1>2, <2>1, <2>2, <2>3 DEF SubscriberStep, RelayerStep, TakeTask, EndTask
  <2> QED BY <2>4 DEF RelayerFails, RelayerStops, NobodyLeavesAlone
<1>3. CASE (sub' = sub \/ sub'.pc # "done") /\ (relayer' = relayer \/ relayer'.pc # "done")
  <2>1. Leaving' => Leaving
    BY <1>3 DEF Leaving
  <2>2. cancelled => cancelled'
    <3>1. ListPage => UNCHANGED cancelled
      BY ZenonT(60) DEF ListPage
    <3>2. RpcSubscribe \/ SubscriberStops => UNCHANGED cancelled
      BY DEF RpcSubscribe, SubscribeTo, SubscriberStops
    <3>3. SubscribeFails => cancelled'
      BY DEF SubscribeFails
    <3>4. BlockEvent \/ BlockStep \/ UpdateEvent \/ UpdateStep \/ RemoveEvent => UNCHANGED cancelled
      BY DEF BlockEvent, BlockStep, Skip, Enqueue, UpdateEvent, UpdateStep, Fetch, FetchFails,
             SkipUnwatched, RemoveEvent
    <3>5. TakeTask \/ RelayerStops \/ (\E submitted \in BOOLEAN : EndTask(submitted)) \/ NeutronStep
            => UNCHANGED cancelled
      BY DEF TakeTask, RelayerStops, EndTask, NeutronStep, NeutronTx, NeutronBlock
    <3>6. RelayerFails \/ Cancel => cancelled'
      BY DEF RelayerFails, Cancel
    <3> QED
      BY <3>1, <3>2, <3>3, <3>4, <3>5, <3>6 DEF SubscriberStep, SubscribeStep, RelayerStep
  <2> QED BY <2>1, <2>2 DEF NobodyLeavesAlone
<1> QED BY <1>1, <1>2, <1>3

LEMMA LeavingStep ==
    ASSUME TypeOK, NobodyLeavesAlone, [ProcessNext]_processVars
    PROVE  NobodyLeavesAlone'
<1>1. CASE UNCHANGED <<sub, relayer, web, checker, cancelled>>
  BY <1>1 DEF NobodyLeavesAlone, Leaving
<1>2. CASE UNCHANGED processVars \/ Start \/ BootStep \/ HandshakeStep \/ RequestBegins
           \/ RequestEnds \/ Notify \/ WaitEnds \/ CloseStorage \/ LoadConnParamsHangs
  <2>1. UNCHANGED <<sub, relayer, web, checker, cancelled>>
    BY <1>2
    DEF processVars, procVars, vars, subscriberVars, server, Start, BootStep, HandshakeStep,
        RequestBegins, RequestEnds, Notify, WaitEnds, CloseStorage, LoadConnParamsHangs
  <2> QED BY <1>1, <2>1
<1>3. CASE Exit
  <2>1. web'.pc = "run" /\ checker' = "start" /\ sub'.pc = "list" /\ relayer'.pc = "idle"
    BY <1>3 DEF Exit, NotRun
  <2> QED BY <2>1 DEF NobodyLeavesAlone, Leaving
<1>4. CASE BootFails \/ PanicInSubscriber \/ Kill \/ MainReturns
  BY <1>3, <1>4 DEF BootFails, PanicInSubscriber, Kill, MainReturns
<1>5. CASE LoadConnParams
  <2>1. TryAgain \/ Load => UNCHANGED <<sub, relayer, web, checker, cancelled>>
    BY DEF TryAgain, Load, Loaded, subscriberVars, server
  <2> QED BY <1>1, <1>3, <1>5, <2>1, LoadIs
<1>6. CASE WebFails \/ WebShutdown
  BY <1>6 DEF WebFails, WebShutdown, Failed, NobodyLeavesAlone, vars
<1>7. CASE ShutdownEnds
  BY <1>7 DEF ShutdownEnds, NobodyLeavesAlone, Leaving, vars
<1>8. CASE CheckerStarts
  <2>1. UNCHANGED <<sub, relayer, web>>
    BY <1>8 DEF CheckerStarts, CheckerGoto, Failed, vars, subscriberVars, server
  <2>2. CASE checker' = "run" /\ UNCHANGED vars
    BY <2>1, <2>2 DEF NobodyLeavesAlone, Leaving, vars
  <2>3. CASE Failed
    BY <2>3 DEF Failed, NobodyLeavesAlone
  <2> QED BY <1>8, <2>2, <2>3 DEF CheckerStarts, CheckerGoto
<1>9. CASE CheckerStops
  BY <1>9 DEF CheckerStops, NobodyLeavesAlone, vars
<1>10. CASE InProcess(SubscriberStep) \/ InProcess(RelayerStep) \/ Signal
            \/ (NeutronStep /\ UNCHANGED procVars)
  BY <1>10, LeavingInside DEF InProcess, Signal, procVars
<1> QED
  BY <1>2, <1>4, <1>5, <1>6, <1>7, <1>8, <1>9, <1>10 DEF ProcessNext

\* A goroutine that returns, by whatever error, has the context cancelled,
\* so that the wait group never waits for a process of which a part is
\* silently gone: no HTTP server without a relayer, no relayer without the
\* subscriber that feeds it (start.go:113-160).
THEOREM NobodyLeavesCorrect == ProcessSpec => []NobodyLeavesAlone
<1>1. ProcessInit => NobodyLeavesAlone
  BY LeavingStart
<1>2. ProcessInv /\ NobodyLeavesAlone /\ [ProcessNext]_processVars => NobodyLeavesAlone'
  BY LeavingStep DEF ProcessInv, ProcessTypeOK
<1> QED BY <1>1, <1>2, ProcessCorrect, PTL DEF ProcessSpec

\* A handler is left with the last of its queries.
LEMMA AdvanceTodo ==
    ASSUME TypeOK, NEW q \in sub.todo, Advance(q)
    PROVE  sub'.pc = "select" \/ (sub'.pc = sub.pc /\ sub'.todo # {})
<1>1. sub \in SubType
  BY DEF TypeOK
<1>2. CASE sub.todo = {q}
  BY <1>1, <1>2 DEF Advance, SubType
<1>3. CASE sub.todo # {q}
  <2>1. sub' = [sub EXCEPT !.todo = sub.todo \ {q}]
    BY <1>3 DEF Advance
  <2> QED BY <1>1, <1>3, <2>1 DEF SubType
<1> QED BY <1>2, <1>3

LEMMA TodoInside ==
    ASSUME TypeOK, TodoInv, [Next]_vars
    PROVE  TodoInv'
<1> DEFINE Filled == \A k \in {"updated", "removed"} : events[k].unread => events[k].ids # {}
           Waits == sub.pc \in {"blockEvent", "updateEvent"} => sub.todo # {}
<1>1. /\ Filled /\ Waits /\ sub \in SubType
      /\ events \in [{"updated", "removed"} -> [unread : BOOLEAN, ids : SUBSET Ids]]
  BY DEF TodoInv, TypeOK
<1>2. SUFFICES Filled' /\ Waits'
  BY DEF TodoInv
<1>3. CASE ListPage
  <2>1. UNCHANGED events /\ sub'.pc \in {"list", "subUpdated"}
    <3>1. UNCHANGED events
      BY ZenonT(60), <1>3 DEF ListPage
    <3>2. sub'.pc \in {"list", "subUpdated"}
      BY <1>1, <1>3 DEF ListPage, SubType
    <3> QED BY <3>1, <3>2
  <2> QED BY <1>1, <2>1
<1>4. CASE RpcSubscribe
  <2>1. UNCHANGED events /\ sub'.pc \in {"subRemoved", "subBlock", "select"}
    BY <1>1, <1>4 DEF RpcSubscribe, SubscribeTo, SubType
  <2> QED BY <1>1, <2>1
<1>5. CASE SubscribeFails \/ SubscriberStops \/ Panic
  <2>1. Return
    BY <1>5 DEF SubscribeFails, SubscriberStops, Panic, Stopped
  <2>2. sub'.pc = "done" /\ \A k \in {"updated", "removed"} : events'[k] = None
    BY <1>1, <2>1 DEF Return, SubType
  <2> QED BY <2>2 DEF None
<1>6. CASE BlockEvent
  <2>1. /\ UNCHANGED events
        /\ sub'.pc \in {"select", "blockEvent"} /\ (sub'.pc = "blockEvent" => sub'.todo # {})
    BY <1>1, <1>6 DEF BlockEvent, SubType
  <2> QED BY <1>1, <2>1
<1>7. CASE BlockStep \/ UpdateStep
  <2>1. PICK q \in sub.todo : Advance(q) /\ UNCHANGED events
    BY <1>7 DEF BlockStep, Skip, Enqueue, UpdateStep, Fetch, FetchFails, SkipUnwatched
  <2>2. sub'.pc = "select" \/ (sub'.pc = sub.pc /\ sub'.todo # {})
    BY <2>1, AdvanceTodo
  <2> QED BY <1>1, <2>1, <2>2
<1>8. CASE UpdateEvent
  <2>1. events' = [events EXCEPT !["updated"] = None]
        /\ sub' = [sub EXCEPT !.pc = "updateEvent", !.todo = events["updated"].ids]
        /\ events["updated"].unread
    BY <1>8 DEF UpdateEvent
  <2>2. sub'.todo = events["updated"].ids
    BY <1>1, <2>1 DEF SubType
  <2>3. events["updated"].ids # {}
    BY <1>1, <2>1
  <2>4. events'["updated"] = None /\ events'["removed"] = events["removed"]
    BY <1>1, <2>1
  <2> QED BY <1>1, <2>2, <2>3, <2>4 DEF None
<1>9. CASE RemoveEvent
  <2>1. events' = [events EXCEPT !["removed"] = None] /\ UNCHANGED sub
    BY <1>9 DEF RemoveEvent
  <2>2. events'["removed"] = None /\ events'["updated"] = events["updated"]
    BY <1>1, <2>1
  <2> QED BY <1>1, <2>1, <2>2 DEF None
<1>10. CASE RelayerStep \/ Cancel \/ NeutronBlock \/ UNCHANGED vars
  <2>1. UNCHANGED <<events, sub>>
    BY <1>10
    DEF RelayerStep, TakeTask, EndTask, RelayerFails, RelayerStops, Cancel, NeutronBlock, vars,
        SubscriberUnchanged
  <2> QED BY <1>1, <2>1
<1>11. ASSUME NEW tx \in Transactions, NeutronTx(tx)
       PROVE  Filled' /\ Waits'
  <2>1. UNCHANGED sub
        /\ events' = [k \in {"updated", "removed"} |->
                        IF Matches(tx, k) /\ ~Lost(tx, k)
                        THEN [unread |-> TRUE, ids |-> DOMAIN tx] ELSE events[k]]
    BY <1>11 DEF NeutronTx
  <2>2. \A k \in {"updated", "removed"} : Matches(tx, k) => DOMAIN tx # {}
    BY DEF Matches
  <2>3. \A k \in {"updated", "removed"} :
          \/ events'[k] = [unread |-> TRUE, ids |-> DOMAIN tx] /\ DOMAIN tx # {}
          \/ events'[k] = events[k]
    BY <2>1, <2>2
  <2> QED BY <1>1, <2>1, <2>3
<1> QED
  BY <1>3, <1>4, <1>5, <1>6, <1>7, <1>8, <1>9, <1>10, <1>11
  DEF Next, SubscriberStep, SubscribeStep, NeutronStep

LEMMA TodoStep ==
    ASSUME TypeOK, TodoInv, [ProcessNext]_processVars
    PROVE  TodoInv'
<1>1. CASE Calm
  BY <1>1 DEF Calm, subscriberVars, TodoInv
<1>2. CASE Ends
  BY <1>2 DEF Ends, Exit, None, TodoInv
<1> QED BY <1>1, <1>2, StepIs, TodoInside

\* Whatever has been cancelled can end: as long as a goroutine is left, one
\* of them can go on without any other, except in the state that the
\* relayer has returned and the subscriber waits for room in the full queue
\* (subscriber.go:185).  There is no other way for wg.Wait to hang.
THEOREM StopCorrect == ProcessSpec => []StopGoesOn
<1>1. ProcessInit => TodoInv
  BY LeavingStart
<1>2. ProcessInv /\ TodoInv /\ [ProcessNext]_processVars => TodoInv'
  BY TodoStep DEF ProcessInv, ProcessTypeOK
<1>3. ProcessInv /\ TodoInv => StopGoesOn
  <2> SUFFICES ASSUME ProcessInv, TodoInv, ~AllReturned,
                      web.pc = "done", checker = "done", relayer.pc = "done", ~SubscriberGoes
               PROVE  Stuck
    BY DEF StopGoesOn, ProcessInv, ProcessTypeOK, TypeOK
  <2>1. sub \in SubType /\ sub.pc # "done"
    BY DEF AllReturned, ProcessInv, ProcessTypeOK, TypeOK
  <2>2. sub.pc = "blockEvent" /\ sub.todo # {} /\ ~HasRoom
    BY <2>1 DEF SubscriberGoes, TodoInv, SubType
  <2>3. Len(tasks) <= Capacity /\ Len(tasks) \in Nat /\ Capacity \in Nat
    <3>1. tasks \in Seq(Ids) /\ Len(tasks) <= Capacity
      BY DEF ProcessInv, ProcessTypeOK, TypeOK
    <3> QED BY <3>1, SubscriberAssumption, LenProperties
  <2>4. Len(tasks) = Capacity
    BY <2>2, <2>3 DEF HasRoom
  <2> QED BY <2>2, <2>4 DEF Stuck
<1> QED BY <1>1, <1>2, <1>3, ProcessCorrect, PTL DEF ProcessSpec
=============================================================================
