----------------------------- MODULE EtwConsumer ------------------------------
(***************************************************************************)
(* The consumer of Windows' event tracing (EtwConsumer.cpp), from one      *)
(* start of the agent to the next: the worker starts a named session and   *)
(* a thread that opens it and gives each event to OnEtwEvent (Agent.cpp),  *)
(* which stores it in the telemetry database; the shutdown ends the trace, *)
(* waits for the thread five seconds at most, and goes on.  A thread of    *)
(* the event receiver stores its detections in the same database.          *)
(*                                                                         *)
(* External: the session belongs to the kernel and outlives a process that *)
(* does not stop it, or fails to; ProcessTrace delivers what is left in    *)
(* the buffers, and returns, when the session is stopped or the trace      *)
(* closed.  The session is opened and stopped by its name, which is that   *)
(* of every run.                                                           *)
(***************************************************************************)
EXTENDS TelemetryDb, SequencesExt

CONSTANTS Trace,         (* EtwProcessThread, as a user of the database    *)
          Detector,      (* a thread that reports detections               *)
          MaxEtwEvents,  (* MAX_ETW_EVENTS                                 *)
          MaxEvents,     (* bound: the events that are traced              *)
          MaxStarts      (* bound: how often the agent is started          *)

ASSUME EtwAssumption ==
  /\ Writers = {Trace, Detector} /\ Trace # Detector
  /\ MaxEtwEvents \in Nat \ {0} /\ MaxEvents \in Nat /\ MaxStarts \in Nat

(* Connects and disconnects are "network"; other events are not looked at. *)
Kinds == {"network", "dns", "powershell"}
Remembered == {"network", "dns"}

ShutdownSteps == <<"signal", "closeTrace", "stopSession", "join", "closeEvent",
                   "clear", "closeDb">>

VARIABLES
  stage,        (* the worker: what it is at                               *)
  left,         (* the steps of the shutdown still to take                 *)
  run,          (* how often the agent was started                         *)
  session,      (* the run whose session there is, 0 if there is none      *)
  ownsSession,  (* g_SessionHandle is not 0                                *)
  traceHandle,  (* g_TraceHandle is not INVALID_PROCESSTRACE_HANDLE        *)
  stopFailed,   (* history: ControlTraceW of this run did not stop one     *)
  etwStop,      (* g_StopEvent of the consumer                             *)
  trace,        (* where EtwProcessThread is                               *)
  registered,   (* OnEtwEvent is in g_EtwCallbacks                         *)
  recent,       (* g_NetworkEvents and g_DnsEvents                         *)
  kinds,        (* history: the kind of each event that was traced ...     *)
  first,        (* ... the first of this run ...                           *)
  timedOut,     (* ... the thread was not seen to end                      *)
  detector      (* a thread of the event receiver is in StoreBehaviorDetection *)

worker  == <<stage, left, run>>
kernel  == <<session, ownsSession, traceHandle, stopFailed>>
events  == <<registered, recent, kinds, first>>
vars == <<db, worker, kernel, etwStop, trace, events, timedOut, detector>>

(* Where the trace's thread is while it has an event to store.             *)
InFlight == {"dispatch", "callback", "store"}

NoEvents == [k \in Remembered |-> <<>>]

Init ==
  /\ DbInit
  /\ stage = "down" /\ left = <<>> /\ run = 0
  /\ session = 0 /\ ownsSession = FALSE /\ traceHandle = FALSE /\ stopFailed = FALSE
  /\ etwStop = "NULL" /\ trace = "none" /\ detector = FALSE /\ timedOut = FALSE
  /\ registered = FALSE /\ recent = NoEvents /\ kinds = <<>> /\ first = 1

-----------------------------------------------------------------------------
Goes(from, to) == stage = from /\ stage' = to

(* Phase 2 of the worker.                                                  *)
Start == /\ Goes("down", "register") /\ run < MaxStarts
         /\ run' = run + 1 /\ first' = Len(kinds) + 1
         /\ OpenDb
         /\ UNCHANGED <<left, kernel, etwStop, trace, registered, recent, kinds,
                        timedOut, detector>>

(* Phase 7: RegisterEtwCallback, then InitializeEtwConsumer.               *)
RegisterEtwCallback ==
  /\ Goes("register", "createEvent") /\ registered' = TRUE
  /\ UNCHANGED <<db, left, run, kernel, etwStop, trace, recent, kinds, first, timedOut,
                 detector>>

CreateStopEvent ==
  /\ \/ Goes("createEvent", "stopOld") /\ etwStop' = "clear"
     \/ Goes("createEvent", "up") /\ UNCHANGED etwStop
  /\ UNCHANGED <<db, left, run, kernel, trace, events, timedOut, detector>>

(* ControlTraceW stops the session, or fails, and nobody looks.            *)
ControlTraceStop == \/ session' = 0 /\ UNCHANGED stopFailed
                    \/ session # 0 /\ UNCHANGED session /\ stopFailed' = TRUE

(* What a run that did not end well has left is stopped.                   *)
StopOldSession == /\ Goes("stopOld", "startSession")
                  /\ ControlTraceStop
                  /\ UNCHANGED <<db, left, run, ownsSession, traceHandle, etwStop, trace,
                                 events, timedOut, detector>>

(* What follows a StartTraceW that failed; the variant does not look.      *)
StartAnyway == "startThread"
GiveUp == "up"

(* StartTraceW fails without the rights, or if there is such a session.    *)
StartSession ==
  /\ \/ /\ session = 0 /\ Goes("startSession", "startThread")
        /\ session' = run /\ ownsSession' = TRUE
     \/ Goes("startSession", GiveUp) /\ UNCHANGED <<session, ownsSession>>
  /\ UNCHANGED <<db, left, run, traceHandle, stopFailed, etwStop, trace, events, timedOut,
                 detector>>

StartThread == /\ Goes("startThread", "up")
               /\ trace' \in {"open", "none"}
               /\ UNCHANGED <<db, left, run, kernel, etwStop, events, timedOut, detector>>

-----------------------------------------------------------------------------
TraceGoes(from, to) == trace = from /\ trace' = to
AwayFromTrace == <<worker, session, ownsSession, stopFailed, etwStop, first, timedOut,
                   detector>>

(* OpenTraceW.                                                             *)
OpenTrace == /\ \/ TraceGoes("open", "call") /\ traceHandle' = TRUE
                \/ TraceGoes("open", "ended") /\ traceHandle' = FALSE
             /\ UNCHANGED <<db, AwayFromTrace, registered, recent, kinds>>

(* ProcessTrace begins, whichever run's session it is, unless there is no  *)
(* trace or session by now; it may fail, which is only logged.             *)
ProcessTrace ==
  /\ \/ traceHandle /\ session # 0 /\ TraceGoes("call", "process")
     \/ TraceGoes("call", "ended")
  /\ UNCHANGED <<db, AwayFromTrace, traceHandle, registered, recent, kinds>>

(* EventRecordCallback, and the first half of StoreAndDispatch: past its   *)
(* limit a deque loses its oldest event; in the variant, its newest.       *)
LoseNewest(q) == IF Len(q) > MaxEtwEvents THEN Front(q) ELSE q
Limited(q) == IF Len(q) > MaxEtwEvents THEN Tail(q) ELSE q

EventRecord(k) ==
  /\ Len(kinds) < MaxEvents /\ TraceGoes("process", "dispatch")
  /\ kinds' = Append(kinds, k)
  /\ recent' = IF k \in Remembered
               THEN [recent EXCEPT ![k] = Limited(Append(@, Len(kinds) + 1))] ELSE recent
  /\ UNCHANGED <<db, AwayFromTrace, traceHandle, registered>>

(* The second half goes through the callbacks without a lock ...           *)
Dispatch ==
  /\ \/ registered /\ TraceGoes("dispatch", "callback") /\ UNCHANGED lossless
     \/ ~registered /\ TraceGoes("dispatch", "process") /\ lossless' = FALSE
  /\ UNCHANGED <<database, dbMutex, rows, AwayFromTrace, traceHandle, registered, recent,
                 kinds>>

(* ... and OnEtwEvent stores the event.                                    *)
StoreEtwEvent == /\ \/ TraceGoes("callback", "store") /\ BeginStore(Trace)
                    \/ TraceGoes("callback", "process") /\ SkipStore
                 /\ UNCHANGED <<AwayFromTrace, traceHandle, registered, recent, kinds>>

EtwEventStored == /\ TraceGoes("store", "process")
                  /\ EndStore(Trace, <<Len(kinds)>>)
                  /\ UNCHANGED <<AwayFromTrace, traceHandle, registered, recent, kinds>>

TraceEnded == /\ TraceGoes("process", "ended")
              /\ UNCHANGED <<db, AwayFromTrace, traceHandle, registered, recent, kinds>>

(* After a buffer BufferCallback looks at the stop event ...               *)
BufferCallback == etwStop = "set" /\ TraceEnded

(* ... but ProcessTrace returns when the session or the trace is gone.     *)
ProcessTraceReturns == (session = 0 \/ ~traceHandle) /\ TraceEnded

-----------------------------------------------------------------------------
(* OnBehaviorDetection stores what a thread of the event receiver found.   *)
AwayFromDetector == <<worker, kernel, etwStop, trace, events, timedOut>>

StoreBehaviorDetection == /\ stage \notin {"down", "register"} /\ ~detector
                          /\ BeginStore(Detector) /\ detector' = TRUE
                          /\ UNCHANGED AwayFromDetector

DetectionStored == /\ detector /\ EndStore(Detector, <<>>) /\ detector' = FALSE
                   /\ UNCHANGED AwayFromDetector

-----------------------------------------------------------------------------
(* The worker's shutdown; the web server and the shipper come before.      *)
BeginShutdown == /\ Goes("up", "shutdown") /\ left' = ShutdownSteps
                 /\ UNCHANGED <<db, run, kernel, etwStop, trace, events, timedOut, detector>>

Step(s) == left # <<>> /\ Head(left) = s /\ left' = Tail(left) /\ UNCHANGED <<stage, run>>

SignalStop == /\ Step("signal")
              /\ etwStop' = (IF etwStop = "NULL" THEN "NULL" ELSE "set")
              /\ UNCHANGED <<db, kernel, trace, events, timedOut, detector>>

CloseTrace == /\ Step("closeTrace") /\ traceHandle' = FALSE
              /\ UNCHANGED <<db, session, ownsSession, stopFailed, etwStop, trace, events,
                             timedOut, detector>>

(* The session is stopped, also when no thread could be started for it;    *)
(* the variant takes it that CloseTrace was enough.                        *)
NotStopped == UNCHANGED <<session, stopFailed>>
Ended == IF ownsSession THEN ControlTraceStop ELSE UNCHANGED <<session, stopFailed>>

(* The handle is forgotten, whether or not the session has ended.          *)
StopSession == /\ Step("stopSession")
               /\ Ended /\ ownsSession' = FALSE
               /\ UNCHANGED <<db, traceHandle, etwStop, trace, events, timedOut, detector>>

(* WaitForSingleObject returns when the thread has ended, or five seconds  *)
(* are over.                                                               *)
Join == /\ Step("join")
        /\ timedOut' = (trace \notin {"none", "ended"})
        /\ UNCHANGED <<db, kernel, etwStop, trace, events, detector>>

CloseStopEvent == /\ Step("closeEvent") /\ etwStop' = "NULL"
                  /\ UNCHANGED <<db, kernel, trace, events, timedOut, detector>>

ClearCallbacks == /\ Step("clear")
                  /\ registered' = FALSE /\ recent' = NoEvents
                  /\ UNCHANGED <<db, kernel, etwStop, trace, kinds, first, timedOut, detector>>

(* The receiver and the engines come before; its threads may not have      *)
(* ended either.                                                           *)
ShutdownTelemetryDb == /\ Step("closeDb") /\ CloseDb
                       /\ UNCHANGED <<kernel, etwStop, trace, events, timedOut, detector>>

(* The process ends, after its shutdown or at any moment before.           *)
ProcessEnds ==
  /\ stage # "down" /\ stage' = "down" /\ left' = <<>>
  /\ DbDies
  /\ ownsSession' = FALSE /\ traceHandle' = FALSE /\ stopFailed' = FALSE
  /\ etwStop' = "NULL"
  /\ trace' = "none" /\ detector' = FALSE /\ timedOut' = FALSE
  /\ registered' = FALSE /\ recent' = NoEvents
  /\ lossless' = (lossless /\ trace \notin InFlight)
  /\ UNCHANGED <<run, session, kinds, first>>

-----------------------------------------------------------------------------
Starts == \/ RegisterEtwCallback \/ CreateStopEvent \/ StopOldSession
          \/ StartSession \/ StartThread

Traces == \/ OpenTrace \/ ProcessTrace \/ Dispatch \/ EtwEventStored \/ ProcessTraceReturns

ShutsDown == \/ SignalStop \/ CloseTrace \/ StopSession \/ Join \/ CloseStopEvent
             \/ ClearCallbacks \/ ShutdownTelemetryDb

Next == \/ Start \/ Starts \/ BeginShutdown \/ ShutsDown \/ ProcessEnds
        \/ Traces \/ StoreEtwEvent \/ BufferCallback \/ \E k \in Kinds : EventRecord(k)
        \/ StoreBehaviorDetection \/ DetectionStored

(* The agent's threads run, and one that waits for the database's mutex    *)
(* gets it some time.                                                      *)
Fairness == /\ WF_vars(Starts) /\ WF_vars(ShutsDown) /\ SF_vars(ShutdownTelemetryDb)
            /\ WF_vars(Traces) /\ SF_vars(StoreEtwEvent)
            /\ WF_vars(DetectionStored)

Spec == Init /\ [][Next]_vars

FairSpec == Spec /\ Fairness

-----------------------------------------------------------------------------
(* Every variable has its type, and the database's mutex is held by the    *)
(* thread that stores.                                                     *)
TypeOK ==
  /\ DbTypeOK
  /\ stage \in {"down", "register", "createEvent", "stopOld", "startSession",
                "startThread", "up", "shutdown"}
  /\ IsSuffix(left, ShutdownSteps) /\ run \in 0 .. MaxStarts /\ session \in 0 .. run
  /\ ownsSession \in BOOLEAN /\ traceHandle \in BOOLEAN /\ registered \in BOOLEAN
  /\ stopFailed \in BOOLEAN /\ etwStop \in {"NULL", "clear", "set"}
  /\ trace \in InFlight \cup {"none", "open", "call", "process", "ended"}
  /\ kinds \in Seq(Kinds) /\ first \in 1 .. Len(kinds) + 1
  /\ recent \in [Remembered -> Seq(1 .. Len(kinds))]
  /\ detector \in BOOLEAN /\ timedOut \in BOOLEAN
  /\ (dbMutex = Trace <=> trace = "store") /\ (dbMutex = Detector <=> detector)

(* A run has, and traces, no session but its own, whatever an earlier run  *)
(* left when it died or failed to stop its own, and although the thread    *)
(* opens the session by a name that is not the run's alone.  An older one  *)
(* stays, and a shutdown leaves its own, only if ControlTraceW has failed, *)
(* whether or not the thread could be started or has opened it yet.        *)
SessionIsOwn ==
  /\ ownsSession => session = run
  /\ trace # "none" => session \in {0, run}
  /\ etwStop # "NULL" /\ stage # "stopOld" /\ session \notin {0, run} => stopFailed
  /\ stage = "shutdown" /\ ~Contains(left, "stopSession") /\ session = run => stopFailed

(* What the trace's thread is done with, this run's events of a kind, and  *)
(* what a deque has of them: the latest, in their order, up to the limit.  *)
Handled == IF trace \in InFlight THEN Len(kinds) - 1 ELSE Len(kinds)
Mine(k) == {i \in first .. Len(kinds) : kinds[i] = k}

Latest(q, mine) ==
  /\ Len(q) <= MaxEtwEvents
  /\ \A i \in DOMAIN q : q[i] \in mine
  /\ \A i, j \in DOMAIN q : i < j => q[i] < q[j]
  /\ \A e \in mine : \/ \E i \in DOMAIN q : q[i] = e
                     \/ Len(q) = MaxEtwEvents /\ \A i \in DOMAIN q : e < q[i]

(* The table has the traced events in the order in which they came, once   *)
(* each, over all runs, and all of them if none was lost on a closed or    *)
(* locked database or at the process's end; and each deque has the latest  *)
(* events of this run that are of its kind.                                *)
EventsInOrder ==
  /\ \A i, j \in DOMAIN rows : i < j => rows[i] < rows[j]
  /\ lossless => rows = [i \in 1 .. Handled |-> i]
  /\ registered => \A k \in Remembered : Latest(recent[k], Mine(k))

(* No callback is taken away while the trace's thread goes through them,   *)
(* unless the shutdown went on without it; and no statement is finalized   *)
(* while a thread, joined or not, executes it.                             *)
NothingIsPulledAway ==
  /\ trace \in {"callback", "store"} => registered \/ timedOut
  /\ dbMutex # Nobody => database = "open"

(* A shutdown ends the trace's thread, also when that had not opened the   *)
(* session yet when the shutdown closed what it found open; unless it then *)
(* opens a session that could not be stopped either.                       *)
TraceComesToEnd ==
  (stage = "shutdown") ~> (trace \in {"none", "ended"} \/ (stopFailed /\ traceHandle))

=============================================================================
