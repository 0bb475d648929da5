---------------------------- MODULE AgentService -----------------------------
(***************************************************************************)
(* The agent's life as a Windows service (Agent.cpp): ServiceMain, the     *)
(* worker's phases, its pipe loop and its shutdown, the command thread     *)
(* with a pipe loop of its own, the control handler that sets the stop     *)
(* event and cancels both threads' waits, and the two event threads of     *)
(* EventReceiver.cpp, which the shutdown does not always get to see end.   *)
(***************************************************************************)
EXTENDS Naturals, Sequences, SequencesExt

EventThreads == {"driver", "filter"}
PipeThreads == {"worker", "commander"}

(* The order of the phases of ServiceWorkerThread, and of its shutdown;    *)
(* the variant shuts the engines down before the events have stopped.      *)
Phases == <<"yara", "db", "shipper", "tracker", "behavior", "response",
            "receiver", "etw", "queue", "command", "web", "security">>
EnginesFirst == <<"web", "shipper", "etw", "behavior", "response", "tracker",
                  "receiver", "db", "yara", "queue">>
ShutdownOrder == <<"web", "shipper", "etw", "receiver", "behavior", "response",
                   "tracker", "db", "yara", "queue">>

(* The control handler's steps; the variant cancels before it sets the     *)
(* event.                                                                  *)
CancelFirst == <<"cancelWorker", "cancelCommander", "set">>
HandlerSteps == <<"set", "cancelWorker", "cancelCommander">>

JoinOf == [driver |-> "joinDriver", filter |-> "joinFilter"]
CloseOf == [driver |-> "closeDriver", filter |-> "closeFilter"]
ReceiverSteps == <<"signal", JoinOf["driver"], JoinOf["filter"], CloseOf["driver"],
                   CloseOf["filter"], "closeEvent", "clear">>

VARIABLES
  status,      (* what the service manager was told                        *)
  stopEvent,   (* g_ServiceStopEvent is set                                *)
  handler,     (* the steps ServiceCtrlHandler has still to take           *)
  missed,      (* history: it found the worker about to begin a wait       *)
  stage,       (* ServiceWorkerThread: which part it is in                 *)
  left,        (* what of that part is still to do                         *)
  up,          (* the components that are initialized                      *)
  closing,     (* the steps ShutdownEventReceiver has still to take        *)
  pipe,        (* where each pipe thread is in its loop                    *)
  at,          (* where each event thread is                               *)
  handle,      (* g_DriverHandle and g_FilterPort: is it open?             *)
  rcvStop,     (* g_StopEvent of the receiver                              *)
  mutex,       (* g_CallbackMutex: its owner, or "nobody"                  *)
  registered   (* OnKernelEvent is in g_Callbacks                          *)

service  == <<status, stopEvent, handler, missed>>
worker   == <<stage, left, up>>
receiver == <<at, handle, rcvStop, mutex, registered>>
vars == <<service, worker, closing, pipe, receiver>>

Init ==
  /\ status = "RUNNING" /\ stopEvent = FALSE /\ handler = <<>> /\ missed = FALSE
  /\ stage = "start" /\ left = Phases /\ up = {} /\ closing = <<>>
  /\ pipe = [w \in PipeThreads |-> "none"]
  /\ at = [t \in EventThreads |-> "none"] /\ handle = [t \in EventThreads |-> FALSE]
  /\ rcvStop = "NULL" /\ mutex = "nobody" /\ registered = FALSE

-----------------------------------------------------------------------------
(* SERVICE_CONTROL_STOP, accepted once.                                    *)
Stop == /\ status = "RUNNING"
        /\ status' = "STOP_PENDING" /\ handler' = HandlerSteps
        /\ UNCHANGED <<stopEvent, missed, worker, closing, pipe, receiver>>

HandlerStep(s) == handler # <<>> /\ Head(handler) = s /\ handler' = Tail(handler)

SetStopEvent == /\ HandlerStep("set")
                /\ stopEvent' = TRUE
                /\ UNCHANGED <<status, missed, worker, closing, pipe, receiver>>

(* CancelSynchronousIo ends a wait that has begun, and does nothing else.  *)
Cancelled(w) == [pipe EXCEPT ![w] = IF @ \in {"connecting", "reading"} THEN "close" ELSE @]

CancelWorker ==
  /\ HandlerStep("cancelWorker")
  /\ pipe' = Cancelled("worker")
  /\ missed' = (pipe["worker"] \in {"create", "connect", "read"})
  /\ UNCHANGED <<status, stopEvent, worker, closing, receiver>>

CancelCommander == /\ HandlerStep("cancelCommander")
                   /\ pipe' = Cancelled("commander")
                   /\ UNCHANGED <<status, stopEvent, missed, worker, closing, receiver>>

(* ServiceMain has waited for the worker.                                  *)
Stopped == /\ stage = "ended" /\ status # "STOPPED"
           /\ status' = "STOPPED"
           /\ UNCHANGED <<stopEvent, handler, missed, worker, closing, pipe, receiver>>

-----------------------------------------------------------------------------
(* The phases of the start that change nothing but what is initialized.    *)
Plain == {"yara", "db", "shipper", "tracker", "behavior", "response", "etw", "queue", "web"}

Phase(c) == stage = "start" /\ Head(left) = c

Initialize(c) == /\ Phase(c) /\ c \in Plain
                 /\ up' = up \cup {c} /\ left' = Tail(left)
                 /\ UNCHANGED <<service, stage, closing, pipe, receiver>>

(* Without YARA's rules, or without a security descriptor, the worker      *)
(* returns at once, whatever it has started.                               *)
GiveUp == /\ Phase("yara") \/ Phase("security")
          /\ stage' = "ended"
          /\ UNCHANGED <<service, left, up, closing, pipe, receiver>>

(* RegisterEventCallback, and InitializeEventReceiver, which may fail.     *)
StartReceiver ==
  /\ Phase("receiver")
  /\ left' = Tail(left) /\ up' = up \cup {"receiver"} /\ registered' = TRUE
  /\ \/ rcvStop' = "clear" /\ at' = [t \in EventThreads |-> "test"]
     \/ UNCHANGED <<rcvStop, at>>
  /\ UNCHANGED <<service, stage, closing, pipe, handle, mutex>>

StartCommander == /\ Phase("command")
                  /\ left' = Tail(left)
                  /\ pipe' = [pipe EXCEPT !["commander"] = "test"]
                  /\ UNCHANGED <<service, stage, up, closing, receiver>>

EnterLoop == /\ Phase("security")
             /\ stage' = "loop" /\ left' = <<>>
             /\ pipe' = [pipe EXCEPT !["worker"] = "test"]
             /\ UNCHANGED <<service, up, closing, receiver>>

-----------------------------------------------------------------------------
PipeStep(w, from, to) == pipe[w] = from /\ pipe' = [pipe EXCEPT ![w] = to]

(* while (WaitForSingleObject(g_ServiceStopEvent, 0) != WAIT_OBJECT_0)     *)
PipeTest(w) ==
  /\ \/ ~stopEvent /\ PipeStep(w, "test", "create") /\ UNCHANGED worker
     \/ /\ stopEvent /\ PipeStep(w, "test", "ended")
        /\ IF w = "worker" THEN stage' = "shutdown" /\ left' = ShutdownOrder /\ UNCHANGED up
           ELSE UNCHANGED worker
  /\ UNCHANGED <<service, closing, receiver>>

PipeMoves(w, from, tos) == /\ \E to \in tos : PipeStep(w, from, to)
                           /\ UNCHANGED <<service, worker, closing, receiver>>

CreatePipe(w) == PipeMoves(w, "create", {"connect", "test"})
CallConnect(w) == PipeMoves(w, "connect", {"connecting"})
ClientConnects(w) == PipeMoves(w, "connecting", {"read"})
CallRead(w) == PipeMoves(w, "read", {"reading"})
ClientWrites(w) == PipeMoves(w, "reading", {"close"})    (* or leaves      *)
ClosePipe(w) == PipeMoves(w, "close", {"test"})

-----------------------------------------------------------------------------
EventStep(t, from, to) == at[t] = from /\ at' = [at EXCEPT ![t] = to]
Outside == <<service, worker, closing, pipe>>

(* The loop's test: g_StopEvent, once NULL, is never signalled.            *)
ThreadTest(t) ==
  /\ \/ rcvStop = "set" /\ EventStep(t, "test", "ended")
     \/ rcvStop # "set" /\ EventStep(t, "test", IF handle[t] THEN "read" ELSE "open")
  /\ UNCHANGED <<Outside, handle, rcvStop, mutex, registered>>

(* The sensor is there, or the thread sleeps and tries again.              *)
OpenSensor(t) ==
  /\ \/ EventStep(t, "open", "read") /\ handle' = [handle EXCEPT ![t] = TRUE]
     \/ EventStep(t, "open", "test") /\ UNCHANGED handle
  /\ UNCHANGED <<Outside, rcvStop, mutex, registered>>

(* An event came.                                                          *)
Receive(t) == /\ handle[t] /\ EventStep(t, "read", "dispatch")
              /\ UNCHANGED <<Outside, handle, rcvStop, mutex, registered>>

(* Nothing came: DeviceIoControl returns all the same, FilterGetMessage    *)
(* only when the port is closed, by the filter or by the shutdown.         *)
ReceiveNothing(t) ==
  /\ EventStep(t, "read", "test")
  /\ IF t = "driver" /\ handle[t] THEN UNCHANGED handle
     ELSE handle' = [handle EXCEPT ![t] = FALSE]
  /\ UNCHANGED <<Outside, rcvStop, mutex, registered>>

(* DispatchEvent locks and calls OnKernelEvent while it is registered; the *)
(* driver's thread has a buffer full of events to dispatch.                *)
After(t) == IF t = "driver" THEN {"dispatch", "test"} ELSE {"test"}

Dispatch(t) ==
  /\ mutex = "nobody"
  /\ \/ registered /\ mutex' = t /\ EventStep(t, "dispatch", "callback")
     \/ ~registered /\ UNCHANGED mutex /\ \E to \in After(t) : EventStep(t, "dispatch", to)
  /\ UNCHANGED <<Outside, handle, rcvStop, registered>>

(* OnKernelEvent returns; the variant leaves the mutex locked.             *)
KeptBy(t) == t
ReleasedBy(t) == "nobody"

Return(t) == /\ \E to \in After(t) : EventStep(t, "callback", to)
             /\ mutex' = ReleasedBy(t)
             /\ UNCHANGED <<Outside, handle, rcvStop, registered>>

-----------------------------------------------------------------------------
ShutDown(c) == stage = "shutdown" /\ left # <<>> /\ Head(left) = c

Finalize(c) == /\ ShutDown(c) /\ c \in Plain
               /\ up' = up \ {c} /\ left' = Tail(left)
               /\ UNCHANGED <<service, stage, closing, pipe, receiver>>

(* ShutdownEventReceiver ...                                               *)
CloseReceiver == /\ ShutDown("receiver") /\ closing = <<>>
                 /\ closing' = ReceiverSteps
                 /\ UNCHANGED <<service, worker, pipe, receiver>>

Closing(s) == closing # <<>> /\ Head(closing) = s /\ closing' = Tail(closing)

Signal == /\ Closing("signal")
          /\ rcvStop' = (IF rcvStop = "NULL" THEN "NULL" ELSE "set")
          /\ UNCHANGED <<service, worker, pipe, at, handle, mutex, registered>>

(* ... waits five seconds for each thread, which may pass at any time; the *)
(* variant waits until it has ended ...                                    *)
JoinedForGood(t) == at[t] \in {"none", "ended"}
Joined(t) == TRUE

Join(t) == /\ Closing(JoinOf[t]) /\ Joined(t)
           /\ UNCHANGED <<service, worker, pipe, receiver>>

(* ... closes what they may still be using ...                             *)
CloseHandle(t) == /\ Closing(CloseOf[t])
                  /\ handle' = [handle EXCEPT ![t] = FALSE]
                  /\ UNCHANGED <<service, worker, pipe, at, rcvStop, mutex, registered>>

CloseEvent == /\ Closing("closeEvent")
              /\ rcvStop' = "NULL"
              /\ UNCHANGED <<service, worker, pipe, at, handle, mutex, registered>>

(* ... and takes the callback away under the mutex; the variant does not   *)
(* lock it.                                                                *)
NotLocked == TRUE
Locked == mutex = "nobody"

Clear == /\ Closing("clear") /\ Locked
         /\ registered' = FALSE
         /\ up' = up \ {"receiver"} /\ left' = Tail(left)
         /\ UNCHANGED <<service, stage, pipe, at, handle, rcvStop, mutex>>

WorkerEnds == /\ stage = "shutdown" /\ left = <<>>
              /\ stage' = "ended"
              /\ UNCHANGED <<service, left, up, closing, pipe, receiver>>

-----------------------------------------------------------------------------
Handler == SetStopEvent \/ CancelWorker \/ CancelCommander

Starts == \/ \E c \in Plain : Initialize(c)
          \/ GiveUp \/ StartReceiver \/ StartCommander \/ EnterLoop

PipeGoesOn(w) == PipeTest(w) \/ CreatePipe(w) \/ CallConnect(w) \/ CallRead(w) \/ ClosePipe(w)

Client(w) == ClientConnects(w) \/ ClientWrites(w)

Thread(t) == \/ ThreadTest(t) \/ OpenSensor(t) \/ Receive(t) \/ ReceiveNothing(t)
             \/ Dispatch(t) \/ Return(t)

ShutsDown == \/ \E c \in Plain : Finalize(c)
             \/ CloseReceiver \/ Signal \/ CloseEvent \/ Clear \/ WorkerEnds
             \/ \E t \in EventThreads : Join(t) \/ CloseHandle(t)

Next == \/ Stop \/ Handler \/ Stopped \/ Starts \/ ShutsDown
        \/ \E w \in PipeThreads : PipeGoesOn(w) \/ Client(w)
        \/ \E t \in EventThreads : Thread(t)

(* The service's threads run; OnKernelEvent returns; a thread that waits   *)
(* for the mutex gets it some time.  Clients and sensors may be silent.    *)
Fairness ==
  /\ WF_vars(Handler) /\ WF_vars(Stopped) /\ WF_vars(Starts) /\ WF_vars(ShutsDown)
  /\ SF_vars(Clear)
  /\ \A w \in PipeThreads : WF_vars(PipeGoesOn(w))
  /\ \A t \in EventThreads : WF_vars(Return(t))

Spec == Init /\ [][Next]_vars

FairSpec == Spec /\ Fairness

-----------------------------------------------------------------------------
(* Every variable has its type, and the mutex is held exactly by the       *)
(* thread that is in the callback.                                         *)
TypeOK ==
  /\ status \in {"RUNNING", "STOP_PENDING", "STOPPED"}
  /\ stopEvent \in BOOLEAN /\ missed \in BOOLEAN /\ registered \in BOOLEAN
  /\ stage \in {"start", "loop", "shutdown", "ended"}
  /\ up \subseteq Plain \cup {"receiver"}
  /\ IsSuffix(handler, HandlerSteps) /\ IsSuffix(closing, ReceiverSteps)
  /\ pipe \in [PipeThreads -> {"none", "test", "create", "connect", "connecting",
                               "read", "reading", "close", "ended"}]
  /\ at \in [EventThreads -> {"none", "test", "open", "read", "dispatch", "callback", "ended"}]
  /\ handle \in [EventThreads -> BOOLEAN] /\ rcvStop \in {"NULL", "clear", "set"}
  /\ \A t \in EventThreads : mutex = t <=> at[t] = "callback"
  /\ mutex \in EventThreads \cup {"nobody"}

(* While an event is being handled the tracker, the behaviour engine and   *)
(* the response engine are there, although the shutdown may go on without  *)
(* the event threads and these then run for ever.                          *)
EventsFindEngines ==
  mutex # "nobody" => {"tracker", "behavior", "response"} \subseteq up

(* A shutdown that has begun comes to its end, even if an event thread     *)
(* hangs in FilterGetMessage.                                              *)
ShutdownEnds == (stage = "shutdown") ~> (status = "STOPPED")

(* A stop that finds the worker in a wait, or anywhere but about to begin  *)
(* one, stops the service although no client ever comes.                   *)
SeenStopEnds == (status = "STOP_PENDING" /\ handler = <<>> /\ ~missed) ~> (status = "STOPPED")

-----------------------------------------------------------------------------
(* SETUP.md:571 "Stop agent": a stop stops the service.                    *)
StopCompletes == (status = "STOP_PENDING") ~> (status = "STOPPED")

=============================================================================
