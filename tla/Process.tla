------------------------------- MODULE Process -------------------------------
(***************************************************************************)
(* The process: startRelayer (cmd/start.go) builds the parts one after the *)
(* other (internal/app), starts their goroutines and waits for them.  The  *)
(* subscriber and the relayer's end of its queue are those of module       *)
(* Subscriber; here are the main goroutine, the web server, the submission *)
(* checker, the signals, and what a restart loses and keeps.               *)
(*                                                                         *)
(* External are Neutron, the signals, and who starts the process again.    *)
(***************************************************************************)
EXTENDS Subscriber

CONSTANTS Attempts,      \* rtyAtt: how often the connection is asked for
          MaxRequests    \* bound: HTTP requests that are served at a time

ASSUME ProcessAssumption == Attempts \in Nat \ {0} /\ MaxRequests \in Nat

VARIABLES main,         \* the main goroutine: its stage, and attempts that failed
          handshake,    \* of the relayer's connection, as Neutron has it
          connParams,   \* what loadConnParams returned, if it did
          storage,      \* LevelDB: "open" or "closed"
          web,          \* icqhttp.Run: its stage, and how the server was left
          requests,     \* handlers that run
          checker,      \* TxSubmitChecker.Run
          notified      \* signal.Notify was called

subscriberVars == <<chain, neutronHeight, events, newBlock, sub, activeQueries, tasks, relayer,
                    missed>>
server == <<web, requests>>
procVars == <<main, handshake, connParams, storage, web, requests, checker, notified>>
processVars == <<vars, procVars>>

\* The stages of startRelayer with its dependency container: each makes a
\* call that may fail, and is left for the next one.
Boot == <<"config", "storage", "subscriber", "targetClient", "neutronClient", "status",
          "connection", "querier", "sender", "chains", "checker", "wait">>
BootStages == {Boot[i] : i \in 1 .. Len(Boot) - 1}
Following(stage) == Boot[1 + CHOOSE i \in 1 .. Len(Boot) - 1 : Boot[i] = stage]

\* The configured connection; "none": Neutron knows no such connection.
ConnectionID == "neutron connection"
Handshake == {"none", "init", "open"}

NotRun == [pc |-> "run", left |-> "not"]

ProcessTypeOK ==
    /\ TypeOK
    /\ main \in [pc : BootStages \cup {"off", "hung", "wait", "close", "return"},
                 tries : 0 .. Attempts - 1]
    /\ handshake \in Handshake
    /\ \A p \in connParams : DOMAIN p = {"neutronClientID", "targetClientID", "targetConnectionID"}
    /\ storage \in {"open", "closed"}
    /\ web \in [pc : {"run", "shutdown", "done"}, left : {"not", "drained", "timeout", "failed"}]
    /\ requests \in 0 .. MaxRequests
    /\ checker \in {"start", "run", "done"}
    /\ notified \in BOOLEAN

ProcessInit ==
    /\ Init
    /\ main = [pc |-> "off", tries |-> 0]
    /\ handshake \in Handshake
    /\ connParams = {}
    /\ storage = "closed"
    /\ web = NotRun
    /\ requests = 0
    /\ checker = "start"
    /\ notified = FALSE

Running == main.pc = "wait"

----------------------------------------------------------------------------
(***************************************************************************)
(* The end of the process: its memory is gone, and its subscriptions.  A   *)
(* restart lists the queries again, so nothing it missed matters.          *)
(***************************************************************************)
Exit ==
    /\ sub' = [pc |-> "list", cursor |-> 0, todo |-> {}, height |-> 0]
    /\ events' = [k \in {"updated", "removed"} |-> None]
    /\ newBlock' = FALSE
    /\ activeQueries' = Without(Ids)
    /\ tasks' = <<>>
    /\ relayer' = [pc |-> "idle", query |-> 0]
    /\ cancelled' = FALSE
    /\ missed' = {}
    /\ main' = [pc |-> "off", tries |-> 0]
    /\ connParams' = {}
    /\ storage' = "closed"
    /\ web' = NotRun
    /\ requests' = 0
    /\ checker' = "start"
    /\ notified' = FALSE
    /\ NeutronUnchanged /\ UNCHANGED handshake

\* SIGKILL, the end of the machine, or SIGINT and SIGTERM before Notify.
Kill ==
    /\ main.pc # "off"
    /\ Fault
    /\ Exit

\* A panic of any goroutine ends the process.
PanicInSubscriber ==
    /\ Running
    /\ \E q \in sub.todo : NilQuery(q)
    /\ Exit

----------------------------------------------------------------------------
(***************************************************************************)
(* The start.                                                              *)
(***************************************************************************)
Goto(pc) == main' = [pc |-> pc, tries |-> 0]

Start ==
    /\ main.pc = "off"
    /\ Goto(Boot[1])
    /\ UNCHANGED <<vars, handshake, connParams, storage, server, checker, notified>>

\* After the last stage the four goroutines run.
BootStep ==
    /\ main.pc \in BootStages \ {"connection"}
    /\ Goto(Following(main.pc))
    /\ storage' = IF main.pc = "storage" THEN "open" ELSE storage
    /\ UNCHANGED <<vars, handshake, connParams, server, checker, notified>>

\* logger.Fatal: the deferred Close of the storage does not run.
BootFails ==
    /\ main.pc \in BootStages \ {"connection"}
    /\ Fault
    /\ Exit

\* The connection end of Neutron; before the handshake is answered it does
\* not know the connection of the other chain.
Counterparty(conn) ==
    [client_id |-> {"target client"},
     connection_id |-> IF conn = "open" THEN {"target connection"} ELSE {}]
ConnectionEnd(conn) ==
    [client_id |-> {"neutron client"}, counterparty |-> {Counterparty(conn)}]
ConnectionAnswer(request) ==
    IF handshake = "none" \/ request.connection_id # {ConnectionID}
    THEN Answer(404, "object", ConnectionOKBody)
    ELSE Good([connection |-> {ConnectionEnd(handshake)}])

ConnectionRequest == WriteToRequest(ConnectionParams({ConnectionID}))

\* Mutant: the ID of the target connection may be empty.
UsableClientOnly(connection) == The(connection.counterparty).client_id # {}

\* Both IDs of the counterparty are needed.
Usable(connection) ==
    LET c == The(connection.counterparty) IN c.connection_id # {} /\ c.client_id # {}

LoadedParams(connection) ==
    [neutronClientID |-> connection.client_id,
     targetClientID |-> The(connection.counterparty).client_id,
     targetConnectionID |-> The(connection.counterparty).connection_id]

\* Mutants: the attempts are not counted, or one more is made than rtyAtt.
RetryForEver == UNCHANGED <<main, subscriberVars, cancelled, handshake, connParams, storage,
                            server, checker, notified>>
RetryOnceMore ==
    IF main.tries < Attempts
    THEN /\ main' = [main EXCEPT !.tries = @ + 1]
         /\ UNCHANGED <<subscriberVars, cancelled>>
         /\ UNCHANGED <<handshake, connParams, storage, server, checker, notified>>
    ELSE Exit

\* An attempt fails: retry.Do waits, or gives up after the last one.
Retry ==
    IF main.tries + 1 < Attempts
    THEN /\ main' = [main EXCEPT !.tries = @ + 1]
         /\ UNCHANGED <<subscriberVars, cancelled>>
         /\ UNCHANGED <<handshake, connParams, storage, server, checker, notified>>
    ELSE Exit

Loaded(connection) ==
    /\ connParams' = {LoadedParams(connection)}
    /\ Goto(Following("connection"))
    /\ UNCHANGED <<subscriberVars, cancelled>>
    /\ UNCHANGED <<handshake, storage, server, checker, notified>>

\* An attempt.  An answer of code 200 without a connection is a panic.
Attempt(answer) ==
    LET result == IbcCoreConnectionV1Connection(answer) IN
    \/ result = {} /\ Retry
    \/ \E payload \in result :
          \/ payload.connection = {} /\ Exit
          \/ \E connection \in payload.connection :
                IF Usable(connection) THEN Loaded(connection) ELSE Retry

LoadConnParams ==
    /\ main.pc = "connection"
    /\ \/ UNCHANGED faults /\ Attempt(ConnectionAnswer(ConnectionRequest))
       \/ Fault /\ \E answer \in Disturbed(ConnectionOKBody) : Attempt(answer)

\* The client of this request has no timeout, and nothing cancels ctx yet.
LoadConnParamsHangs ==
    /\ main.pc = "connection"
    /\ Fault
    /\ main' = [main EXCEPT !.pc = "hung"]
    /\ UNCHANGED <<subscriberVars, cancelled>>
    /\ UNCHANGED <<handshake, connParams, storage, server, checker, notified>>

BootProgress == BootStep \/ LoadConnParams

----------------------------------------------------------------------------
(***************************************************************************)
(* The goroutines.                                                         *)
(***************************************************************************)
\* The subscriber, the relayer and Neutron.
InProcess(step) == Running /\ step /\ UNCHANGED procVars

\* A component returns an error: start.go cancels the context.
Failed == Fault /\ cancelled' = TRUE /\ UNCHANGED subscriberVars

\* ListenAndServe fails: the address is in use, or Accept gives up.
WebFails ==
    /\ Running /\ web.pc = "run"
    /\ Failed
    /\ web' = [pc |-> "done", left |-> "failed"]
    /\ UNCHANGED <<main, handshake, connParams, storage, requests, checker, notified>>

WebShutdown ==
    /\ Running /\ web.pc = "run" /\ cancelled
    /\ web' = [web EXCEPT !.pc = "shutdown"]
    /\ UNCHANGED <<vars, main, handshake, connParams, storage, requests, checker, notified>>

\* Mutant: Shutdown waits for the handlers without a limit.
ShutdownEndsDrained ==
    /\ web.pc = "shutdown" /\ requests = 0
    /\ web' = [pc |-> "done", left |-> "drained"]
    /\ UNCHANGED <<vars, main, handshake, connParams, storage, requests, checker, notified>>

\* Shutdown waits for the handlers, at most five seconds.
ShutdownEnds ==
    /\ web.pc = "shutdown"
    /\ web' = [pc |-> "done", left |-> IF requests = 0 THEN "drained" ELSE "timeout"]
    /\ UNCHANGED <<vars, main, handshake, connParams, storage, requests, checker, notified>>

\* A client's request; nobody says how long its handler takes.
RequestBegins ==
    /\ Running /\ web.pc = "run" /\ requests < MaxRequests
    /\ requests' = requests + 1
    /\ UNCHANGED <<vars, main, handshake, connParams, storage, web, checker, notified>>

RequestEnds ==
    /\ requests > 0
    /\ requests' = requests - 1
    /\ UNCHANGED <<vars, main, handshake, connParams, storage, web, checker, notified>>

CheckerGoto(pc) ==
    /\ checker' = pc
    /\ UNCHANGED <<main, handshake, connParams, storage, server, notified>>

\* Run: the pending transactions are read and checked.
CheckerStarts ==
    /\ Running /\ checker = "start"
    /\ \/ CheckerGoto("run") /\ UNCHANGED vars
       \/ CheckerGoto("done") /\ Failed

CheckerStops ==
    /\ Running /\ checker = "run" /\ cancelled
    /\ CheckerGoto("done")
    /\ UNCHANGED vars

Notify ==
    /\ Running /\ ~notified
    /\ notified' = TRUE
    /\ UNCHANGED <<vars, main, handshake, connParams, storage, server, checker>>

\* The first signal; the goroutine ends, and later signals do nothing.
Signal ==
    /\ Running /\ notified
    /\ Cancel
    /\ UNCHANGED procVars

----------------------------------------------------------------------------
(***************************************************************************)
(* The end of startRelayer.                                                *)
(***************************************************************************)
\* Mutant: the checker is not added to the wait group.
AllReturnedButChecker == web.pc = "done" /\ sub.pc = "done" /\ relayer.pc = "done"

\* wg.Wait()
AllReturned ==
    web.pc = "done" /\ checker = "done" /\ sub.pc = "done" /\ relayer.pc = "done"

WaitEnds ==
    /\ Running /\ AllReturned
    /\ Goto("close")
    /\ UNCHANGED <<vars, handshake, connParams, storage, server, checker, notified>>

\* The deferred Close; handlers may still run.
CloseStorage ==
    /\ main.pc = "close"
    /\ storage' = "closed"
    /\ Goto("return")
    /\ UNCHANGED <<vars, handshake, connParams, server, checker, notified>>

MainReturns ==
    /\ main.pc = "return"
    /\ Exit
    /\ UNCHANGED faults

EndStep == WaitEnds \/ CloseStorage \/ MainReturns

----------------------------------------------------------------------------
\* Somebody opens the connection, and the other chain answers.
HandshakeStep ==
    /\ handshake # "open"
    /\ handshake' = IF handshake = "none" THEN "init" ELSE "open"
    /\ UNCHANGED <<vars, main, connParams, storage, server, checker, notified>>

ProcessNext ==
    \/ Start \/ BootStep \/ BootFails
    \/ LoadConnParams \/ LoadConnParamsHangs
    \/ InProcess(SubscriberStep) \/ InProcess(RelayerStep) \/ PanicInSubscriber
    \/ WebFails \/ WebShutdown \/ ShutdownEnds \/ RequestBegins \/ RequestEnds
    \/ CheckerStarts \/ CheckerStops
    \/ Notify \/ Signal \/ Kill
    \/ WaitEnds \/ CloseStorage \/ MainReturns
    \/ HandshakeStep \/ (NeutronStep /\ UNCHANGED procVars)

ProcessSpec == ProcessInit /\ [][ProcessNext]_processVars

(***************************************************************************)
(* Fairness: goroutines go on when they can, select as in Subscriber, and  *)
(* five seconds pass.  Nobody has to start the process again, to end a     *)
(* request, to open the connection or to send a signal.                    *)
(***************************************************************************)
ProcessFairSpec ==
    /\ ProcessSpec
    /\ WF_processVars(BootProgress)
    /\ WF_processVars(InProcess(SubscribeStep))
    /\ WF_processVars(InProcess(BlockStep))
    /\ WF_processVars(InProcess(UpdateStep))
    /\ SF_processVars(InProcess(SubscriberStops))
    /\ SF_processVars(InProcess(RelayerStops))
    /\ WF_processVars(InProcess(\E submitted \in BOOLEAN : EndTask(submitted)))
    /\ WF_processVars(WebShutdown)
    /\ WF_processVars(ShutdownEnds)
    /\ WF_processVars(CheckerStarts)
    /\ WF_processVars(CheckerStops)
    /\ WF_processVars(EndStep)

----------------------------------------------------------------------------
(***************************************************************************)
(* Properties.                                                             *)
(***************************************************************************)
\* The storage is closed only when the goroutines that use it have returned
\* (wg.Wait before the deferred Close, start.go:172, 85-89); a handler may
\* find it closed only if it outlived Shutdown's five seconds, or the server
\* ended by an error, which leaves its handlers running (webserver.go:55-66).
StorageOutlivesUsers ==
    storage = "closed" /\ main.pc \notin {"off", "config", "storage"} =>
        /\ checker = "done" /\ relayer.pc = "done"
        /\ requests > 0 => web.left \in {"timeout", "failed"}

\* The relayer never runs without the client and connection of the target
\* chain, which its headers are made for: while the handshake is not
\* answered the start tries again, and gives up (app.go:188-194).
PathKnown ==
    Running => \A p \in connParams : \A id \in DOMAIN p : p[id] # {}

\* One for all: a goroutine that returns, by an error or a signal, takes
\* the others with it and the process ends, however long a handler takes;
\* but for the subscriber that waits for room in a queue nobody reads.
Stuck == relayer.pc = "done" /\ sub.pc = "blockEvent" /\ Len(tasks) = Capacity
OneForAll ==
    Running /\ (cancelled \/ "done" \in {web.pc, checker, sub.pc, relayer.pc})
        ~> main.pc = "off" \/ Stuck

\* A start comes to its end, whatever Neutron says of the connection, but
\* for a REST call that hangs (app.go:49-53, 177-202).
StartEnds == main.pc \in BootStages ~> main.pc \in {"wait", "off", "hung"}
=============================================================================
