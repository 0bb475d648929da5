-------------------------- MODULE TelemetryShipper --------------------------
(***************************************************************************)
(* The agent's transit buffer to the backend                               *)
(* (VettaiyanAgent/TelemetryShipper.cpp): the event threads that call      *)
(* ShipEvent, the thread that runs ShipperLoop, and the service thread     *)
(* that runs ShutdownTelemetryShipper.  An event is known by its place in  *)
(* the order of arrival: the n-th event pushed into the buffer is n.       *)
(*                                                                         *)
(* ShipEvent has one caller, OnKernelEvent, which DispatchEvent of         *)
(* EventReceiver.cpp runs under g_CallbackMutex: the driver's and the      *)
(* filter's event thread take turns.                                       *)
(***************************************************************************)
EXTENDS Naturals, Sequences, FiniteSets, Functions

CONSTANTS Producers,    (* the threads that call ShipEvent                 *)
          BatchSize,    (* g_Config.BatchSize                              *)
          MaxBuffer,    (* g_Config.MaxBufferSize                          *)
          MaxEvents     (* bound: the events pushed in a behaviour         *)

ASSUME ConfigAssumption == BatchSize \in Nat \ {0} /\ MaxBuffer \in Nat \ {0}
ASSUME BoundsAssumption == MaxEvents \in Nat /\ IsFiniteSet(Producers)

Event == 1 .. MaxEvents

VARIABLES
  running,      (* g_Running                                               *)
  buffer,       (* g_Buffer, front first                                   *)
  buffered,     (* g_EventsBuffered                                        *)
  shipped,      (* g_EventsShipped                                         *)
  dropped,      (* g_EventsDropped                                         *)
  flushEvent,   (* g_FlushEvent: "closed", "reset" or "signalled"          *)
  pc,           (* where each producer is in ShipEvent                     *)
  loop,         (* where the shipper thread is in ShipperLoop              *)
  batch,        (* its local batch                                         *)
  stop,         (* where ShutdownTelemetryShipper is                       *)
  stored,       (* external: the events the backend has                    *)
  acked,        (* history: the events of the batches that were confirmed  *)
  gone,         (* history: the events dropped for lack of room            *)
  discarded,    (* history: the events cleared at shutdown                 *)
  raced         (* history: g_Buffer.clear() overlapped a ShipEvent        *)

bufferVars  == <<buffer, buffered, dropped, gone>>
shipperVars == <<loop, batch, shipped, stored, acked>>
stopVars    == <<running, stop, discarded, raced>>
vars == <<bufferVars, shipperVars, stopVars, flushEvent, pc>>

-----------------------------------------------------------------------------
(* InitTelemetryShipper has been given an endpoint.                        *)
Init ==
  /\ running = TRUE /\ stop = "none" /\ discarded = {} /\ raced = FALSE
  /\ buffer = <<>> /\ buffered = 0 /\ dropped = 0 /\ gone = {}
  /\ flushEvent = "reset"
  /\ pc = [p \in Producers |-> "idle"]
  /\ loop = "top" /\ batch = <<>> /\ shipped = 0 /\ stored = {} /\ acked = {}

(* g_BufferMutex is free.                                                  *)
MutexFree == \A p \in Producers : pc[p] # "inside"

ProducerAt(p, from, to) == pc[p] = from /\ pc' = [pc EXCEPT ![p] = to]

LoopAt(from, to) == loop = from /\ loop' = to

StopAt(from, to) == stop = from /\ stop' = to

-----------------------------------------------------------------------------
(* An event thread gets g_CallbackMutex, its ShipEvent finds g_Running set *)
(* and serializes the event, without g_BufferMutex.                        *)
Call(p) ==
  /\ \A q \in Producers : pc[q] = "idle"
  /\ running
  /\ buffered < MaxEvents
  /\ ProducerAt(p, "idle", "serializing")
  /\ UNCHANGED <<bufferVars, shipperVars, stopVars, flushEvent>>

(* It has g_BufferMutex.                                                   *)
Enter(p) ==
  /\ MutexFree
  /\ ProducerAt(p, "serializing", "inside")
  /\ UNCHANGED <<bufferVars, shipperVars, stopVars, flushEvent>>

(* The deque is full; the variant tests for more than full.                *)
FullLate == Len(buffer) > MaxBuffer
Full == Len(buffer) >= MaxBuffer

(* The oldest event makes room, the new one goes to the back, and a full   *)
(* batch wakes the shipper.                                                *)
Insert(p) ==
  /\ ProducerAt(p, "inside", "idle")
  /\ buffer' = Append(IF Full THEN Tail(buffer) ELSE buffer, buffered + 1)
  /\ buffered' = buffered + 1
  /\ dropped' = IF Full THEN dropped + 1 ELSE dropped
  /\ gone' = IF Full THEN gone \cup {Head(buffer)} ELSE gone
  /\ flushEvent' = IF Len(buffer') >= BatchSize /\ flushEvent # "closed"
                   THEN "signalled" ELSE flushEvent
  /\ UNCHANGED <<shipperVars, stopVars>>

-----------------------------------------------------------------------------
(* g_Running as ShipperLoop tests it; the variant never looks again.       *)
AlwaysRunning == TRUE
KeepsRunning == running

(* The two tests of g_Running in ShipperLoop.                              *)
LoopTest ==
  /\ \/ KeepsRunning /\ (LoopAt("top", "waiting") \/ LoopAt("awake", "draining"))
     \/ ~KeepsRunning /\ (LoopAt("top", "exited") \/ LoopAt("awake", "exited"))
  /\ UNCHANGED <<batch, shipped, stored, acked, bufferVars, stopVars, flushEvent, pc>>

(* WaitForSingleObject ends, by a signal or after FlushIntervalMs; the     *)
(* event resets itself.                                                    *)
Wake ==
  /\ LoopAt("waiting", "awake")
  /\ flushEvent' = "reset"
  /\ UNCHANGED <<batch, shipped, stored, acked, bufferVars, stopVars, pc>>

(* How many events a batch takes; the variant ignores BatchSize.           *)
TakeAll == Len(buffer)
BatchCount == IF Len(buffer) < BatchSize THEN Len(buffer) ELSE BatchSize

(* The front of the buffer becomes the batch; an empty one is not sent.    *)
TakeBatch ==
  /\ MutexFree
  /\ LoopAt("draining", IF BatchCount = 0 THEN "top" ELSE "posting")
  /\ batch' = SubSeq(buffer, 1, BatchCount)
  /\ buffer' = SubSeq(buffer, BatchCount + 1, Len(buffer))
  /\ UNCHANGED <<shipped, stored, acked, buffered, dropped, gone, stopVars,
                 flushEvent, pc>>

(* The backend stores the batch and its 2xx answer arrives.                *)
PostConfirmed ==
  /\ LoopAt("posting", "confirmed")
  /\ stored' = stored \cup Range(batch)
  /\ UNCHANGED <<batch, shipped, acked, bufferVars, stopVars, flushEvent, pc>>

(* Anything but a 2xx answer is a failure: the request does not reach the  *)
(* backend, is refused, or its answer does not come back in time; then the *)
(* batch may have been stored all the same.                                *)
PostFailed ==
  /\ LoopAt("posting", "failed")
  /\ stored' \in {stored, stored \cup Range(batch)}
  /\ UNCHANGED <<batch, shipped, acked, bufferVars, stopVars, flushEvent, pc>>

(* The counters of a batch that got through.                               *)
Confirm ==
  /\ LoopAt("confirmed", "top")
  /\ shipped' = shipped + Len(batch)
  /\ acked' = acked \cup Range(batch)
  /\ batch' = <<>>
  /\ UNCHANGED <<stored, bufferVars, stopVars, flushEvent, pc>>

(* The batch before the events that arrived meanwhile; the variants put it *)
(* after them, or forget it.                                               *)
BatchAtBack == buffer \o batch
BatchForgotten == buffer
Rejoined == batch \o buffer

(* The oldest that fit; the variant keeps the newest that fit.             *)
FittingNewest(s) ==
  IF Len(s) > MaxBuffer THEN SubSeq(s, Len(s) - MaxBuffer + 1, Len(s)) ELSE s
Fitting(s) == IF Len(s) > MaxBuffer THEN SubSeq(s, 1, MaxBuffer) ELSE s

(* A failed batch goes back to the front; what no longer fits is popped    *)
(* off the back.                                                           *)
Requeue ==
  /\ MutexFree
  /\ LoopAt("failed", "top")
  /\ buffer' = Fitting(Rejoined)
  /\ dropped' = dropped + Len(Rejoined) - Len(buffer')
  /\ gone' = gone \cup (Range(Rejoined) \ Range(buffer'))
  /\ batch' = <<>>
  /\ UNCHANGED <<buffered, shipped, stored, acked, stopVars, flushEvent, pc>>

-----------------------------------------------------------------------------
(* ShutdownTelemetryShipper, step by step.                                 *)
ClearRunning ==
  /\ StopAt("none", "stopping")
  /\ running' = FALSE
  /\ UNCHANGED <<bufferVars, shipperVars, discarded, raced, flushEvent, pc>>

SignalStop ==
  /\ StopAt("stopping", "joining")
  /\ flushEvent' = "signalled"
  /\ UNCHANGED <<bufferVars, shipperVars, running, discarded, raced, pc>>

JoinShipper ==
  /\ StopAt("joining", "joined")
  /\ loop = "exited"
  /\ flushEvent' = "closed"
  /\ UNCHANGED <<bufferVars, shipperVars, running, discarded, raced, pc>>

(* g_Buffer is cleared without g_BufferMutex, while the event threads      *)
(* still run: Agent.cpp:760 comes before ShutdownEventReceiver.  When a    *)
(* ShipEvent is at the deque at that moment, what is left of it is open.   *)
ClearBuffer ==
  /\ StopAt("joined", "cleared")
  /\ buffer' \in IF MutexFree THEN {<<>>}
                 ELSE {SubSeq(buffer, n, Len(buffer)) : n \in 1 .. Len(buffer) + 1}
  /\ discarded' = discarded \cup (Range(buffer) \ Range(buffer'))
  /\ raced' = ~MutexFree
  /\ UNCHANGED <<buffered, dropped, gone, shipperVars, running, flushEvent, pc>>

-----------------------------------------------------------------------------
ShipStep(p) == Enter(p) \/ Insert(p)

ShipperStep == \/ LoopTest \/ Wake \/ TakeBatch \/ PostConfirmed \/ PostFailed
               \/ Confirm \/ Requeue

StopStep == SignalStop \/ JoinShipper \/ ClearBuffer

Next == \/ \E p \in Producers : Call(p) \/ ShipStep(p)
        \/ ShipperStep
        \/ ClearRunning \/ StopStep

(* A thread inside ShipEvent, ShipperLoop or the shutdown goes on; the     *)
(* wait ends by its timeout, the POST by its own (5 s and 10 s).           *)
Fairness == /\ \A p \in Producers : WF_vars(ShipStep(p))
            /\ WF_vars(ShipperStep)
            /\ WF_vars(StopStep)

(* The environment: a backend that is asked again and again answers.       *)
BackendRecovers == SF_vars(PostConfirmed)

Spec == Init /\ [][Next]_vars

FairSpec == Spec /\ Fairness /\ BackendRecovers

-----------------------------------------------------------------------------
(* Every variable has its type; there is a batch exactly while it is       *)
(* posted, confirmed or put back; and the transit buffer never exceeds     *)
(* MaxBufferSize, although a failed batch is put back into it on top of    *)
(* what arrived meanwhile.                                                 *)
TypeOK ==
  /\ running \in BOOLEAN /\ raced \in BOOLEAN
  /\ buffer \in Seq(Nat) /\ batch \in Seq(Nat)
  /\ buffered \in Nat /\ shipped \in Nat /\ dropped \in Nat
  /\ flushEvent \in {"closed", "reset", "signalled"}
  /\ pc \in [Producers -> {"idle", "serializing", "inside"}]
  /\ loop \in {"top", "waiting", "awake", "draining", "posting", "confirmed",
               "failed", "exited"}
  /\ batch # <<>> <=> loop \in {"posting", "confirmed", "failed"}
  /\ stop \in {"none", "stopping", "joining", "joined", "cleared"}
  /\ stored \subseteq Nat /\ acked \subseteq Nat
  /\ gone \subseteq Nat /\ discarded \subseteq Nat
  /\ Len(buffer) <= MaxBuffer /\ Len(batch) <= BatchSize

(* Retries do not reorder: the batch and then the buffer are in the order  *)
(* of arrival at any time.                                                 *)
ArrivalOrder ==
  LET waiting == batch \o buffer
  IN \A i, j \in DOMAIN waiting : i < j => waiting[i] < waiting[j]

(* Every event ShipEvent accepted is in exactly one of: the buffer, the    *)
(* batch, confirmed, dropped, cleared; the statistics say so; the backend  *)
(* has what was confirmed; and what waits is in the order of arrival.      *)
(* Nothing is claimed of a deque that the shutdown cleared under another   *)
(* thread's hands.                                                         *)
EveryEventOnce ==
  raced \/
  /\ ArrivalOrder /\ acked \subseteq stored
  /\ Range(buffer) \cup Range(batch) \cup acked \cup gone \cup discarded = 1 .. buffered
  /\ Len(buffer) + Len(batch) + shipped + dropped + Cardinality(discarded) = buffered
  /\ shipped = Cardinality(acked) /\ dropped = Cardinality(gone)

(* A batch that failed is retried whole: putting it back never drops an    *)
(* event of it, whatever arrived during the POST.                          *)
RetryIsWhole == [][Requeue => Range(batch) \subseteq Range(buffer')]_vars

(* "events stay in the buffer until it comes back": an event in the buffer *)
(* reaches a backend that recovers, unless it is dropped for room or the   *)
(* agent stops first.                                                      *)
EventuallyStored ==
  \A e \in Event : e \in Range(buffer) ~> e \in stored \cup gone \/ ~running

(* The service's shutdown is not held up by the shipper for ever.          *)
ShutdownEnds == ~running ~> stop = "cleared"

=============================================================================
