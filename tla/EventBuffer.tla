---------------------------- MODULE EventBuffer -----------------------------
(***************************************************************************)
(* The driver's event queue (VettaiyanDriver/EventBuffer.c) between the    *)
(* kernel callbacks that push telemetry and the agent that drains it by    *)
(* IOCTL_EDR_READ_EVENTS.  Every statement of PushEvent and DrainEvents    *)
(* that touches state shared by two threads is a step of its own: the      *)
(* capacity test reads g_EventCount without the spinlock, the statistics   *)
(* are bumped outside it, and the copy to the agent happens after it.      *)
(*                                                                         *)
(* A pusher is a processor on which a callback is running.  The reader is  *)
(* the agent's DriverEventThread, the only caller of the read IOCTL.       *)
(***************************************************************************)
EXTENDS Naturals, Sequences, FiniteSets, Functions

CONSTANTS Pushers,     (* the threads in which callbacks run              *)
          Reader,      (* the thread that drains                          *)
          Nobody,      (* the holder of a free spinlock                   *)
          Kinds,       (* the event categories with a counter of their own *)
          Size,        (* the bytes an event of each kind takes           *)
          MaxQueue,    (* EDR_MAX_EVENTS_IN_QUEUE                         *)
          BufferSize,  (* the bytes the agent reads at once               *)
          NoEvent,     (* what an idle pusher holds                       *)
          MaxSeq       (* bound: the events stamped in a behaviour        *)

ASSUME PushersAssumption == /\ IsFiniteSet(Pushers)
                            /\ Pushers # {}
                            /\ Reader \notin Pushers
                            /\ Nobody \notin Pushers \cup {Reader}
(* The agent's buffer holds the largest event, EDR_PROCESS_EVENT.          *)
ASSUME SizesAssumption == /\ BufferSize \in Nat
                          /\ Size \in [Kinds -> Nat]
                          /\ \A k \in Kinds : 0 < Size[k] /\ Size[k] <= BufferSize
ASSUME BoundsAssumption == MaxQueue \in Nat \ {0} /\ MaxSeq \in Nat

Event == [seq : 1 .. MaxSeq, kind : Kinds]
ASSUME NoEventAssumption == NoEvent \notin Event

VARIABLES
  initialized,   (* g_Initialized                                        *)
  queue,         (* g_EventListHead, oldest entry first                  *)
  eventCount,    (* g_EventCount                                         *)
  seqNum,        (* g_SequenceNumber                                     *)
  generated,     (* g_TotalGenerated                                     *)
  delivered,     (* g_TotalDelivered                                     *)
  dropped,       (* g_EventsDropped                                      *)
  typeCount,     (* g_ProcessEvents, g_ImageEvents, ... by kind          *)
  lock,          (* who holds g_EventListLock                            *)
  pc,            (* where each pusher is in its callback                 *)
  ev,            (* the event each pusher has built                      *)
  rpc,           (* where the reader is in DrainEvents                   *)
  local,         (* DrainEvents' localHead                               *)
  room,          (* BufferSize - totalSize                               *)
  drained,       (* drainCount                                           *)
  loaded,        (* g_EventCount as "g_EventCount -= drainCount" read it *)
  received,      (* history: the events copied to the agent, in order    *)
  lost,          (* history: the events PushEvent dropped                *)
  flushed        (* history: the events CleanupEventBuffer freed         *)

listVars  == <<queue, eventCount>>
pushVars  == <<pc, ev, generated, typeCount>>
dropVars  == <<dropped, lost>>
drainVars == <<rpc, local, room, drained, loaded, delivered, received>>
vars == <<initialized, seqNum, lock, listVars, pushVars, dropVars, drainVars, flushed>>

-----------------------------------------------------------------------------
(* InitializeEventBuffer has run; no callback is registered before it.     *)
Init ==
  /\ initialized = TRUE
  /\ queue = <<>> /\ eventCount = 0 /\ seqNum = 0
  /\ generated = 0 /\ delivered = 0 /\ dropped = 0
  /\ typeCount = [k \in Kinds |-> 0]
  /\ lock = Nobody
  /\ pc = [p \in Pushers |-> "idle"]
  /\ ev = [p \in Pushers |-> NoEvent]
  /\ rpc = "idle" /\ local = <<>> /\ room = 0 /\ drained = 0 /\ loaded = 0
  /\ received = <<>> /\ lost = {} /\ flushed = {}

PusherAt(p, from, to) == pc[p] = from /\ pc' = [pc EXCEPT ![p] = to]

ReaderAt(from, to) == rpc = from /\ rpc' = to

(* KeAcquireSpinLock by t; the variant does not wait for the lock.         *)
GrabLock(t) == lock' = t
TakeLock(t) == lock = Nobody /\ lock' = t

(* InsertTailList; the variant is InsertHeadList.                          *)
InsertHead(list, e) == <<e>> \o list
InsertTail(list, e) == Append(list, e)

(* RemoveEntryList of the first entry; the variant forgets to unlink it.   *)
LeaveEntry(list) == list
RemoveEntry(list) == Tail(list)

IncrementTypeCounter(k) == [typeCount EXCEPT ![k] = @ + 1]

(* The capacity test of PushEvent; the variant is off by one.              *)
AtCapacityLate == eventCount > MaxQueue
AtCapacity == eventCount >= MaxQueue

(* The oldest entry fits into what is left of the agent's buffer; the      *)
(* variant asks for a byte to spare.                                       *)
HeadFitsStrictly == queue # <<>> /\ Size[Head(queue).kind] < room
HeadFits == queue # <<>> /\ Size[Head(queue).kind] <= room

-----------------------------------------------------------------------------
(* A callback: GetNextSequenceNumber, then the event around the number.    *)
(* Callbacks run only while they are registered, which is only while the   *)
(* queue is initialized (module DriverLifecycle).                          *)
Stamp(p) ==
  /\ initialized
  /\ seqNum < MaxSeq
  /\ PusherAt(p, "idle", "stamped")
  /\ seqNum' = seqNum + 1
  /\ \E k \in Kinds : ev' = [ev EXCEPT ![p] = [seq |-> seqNum + 1, kind |-> k]]
  /\ UNCHANGED <<initialized, lock, listVars, generated, typeCount, dropVars,
                 drainVars, flushed>>

(* PushEvent gives the event up: g_EventsDropped, no entry.                *)
Drop(p) ==
  /\ dropped' = dropped + 1
  /\ lost' = lost \cup {ev[p]}
  /\ ev' = [ev EXCEPT ![p] = NoEvent]
  /\ UNCHANGED <<initialized, seqNum, lock, listVars, generated, typeCount,
                 drainVars, flushed>>

(* The queue looks full: drop rather than block the callback.              *)
PushFull(p) == PusherAt(p, "stamped", "idle") /\ AtCapacity /\ Drop(p)

(* ExAllocatePool2 returns NULL.                                           *)
AllocFail(p) == PusherAt(p, "admitted", "idle") /\ Drop(p)

(* What the other steps of PushEvent leave alone.                          *)
notPush == <<initialized, seqNum, dropVars, drainVars, flushed>>

(* The queue looks to have room; nothing holds that room for this pusher.  *)
PushAdmit(p) == /\ PusherAt(p, "stamped", "admitted")
                /\ ~AtCapacity
                /\ UNCHANGED <<notPush, lock, listVars, ev, generated, typeCount>>

(* The entry is allocated and filled, and its category counted.            *)
Fill(p) == /\ PusherAt(p, "admitted", "filled")
           /\ typeCount' = IncrementTypeCounter(ev[p].kind)
           /\ UNCHANGED <<notPush, lock, listVars, ev, generated>>

Acquire(p) == /\ PusherAt(p, "filled", "locked")
              /\ TakeLock(p)
              /\ UNCHANGED <<notPush, listVars, ev, generated, typeCount>>

Link(p) == /\ PusherAt(p, "locked", "linked")
           /\ queue' = InsertTail(queue, ev[p])
           /\ UNCHANGED <<notPush, lock, eventCount, ev, generated, typeCount>>

Count(p) == /\ PusherAt(p, "linked", "counted")
            /\ eventCount' = eventCount + 1
            /\ UNCHANGED <<notPush, lock, queue, ev, generated, typeCount>>

(* KeReleaseSpinLock.                                                      *)
Release(p) == /\ PusherAt(p, "counted", "released")
              /\ lock' = Nobody
              /\ UNCHANGED <<notPush, listVars, ev, generated, typeCount>>

(* g_TotalGenerated is bumped last, when the agent may have the event.     *)
Generate(p) == /\ PusherAt(p, "released", "idle")
               /\ generated' = generated + 1
               /\ ev' = [ev EXCEPT ![p] = NoEvent]
               /\ UNCHANGED <<notPush, lock, listVars, typeCount>>

-----------------------------------------------------------------------------
(* What every step of DrainEvents leaves alone.                            *)
notDrain == <<initialized, seqNum, pushVars, dropVars, flushed>>

(* DrainEvents is called and takes the spinlock.                           *)
StartDrain == /\ initialized
              /\ ReaderAt("idle", "moving")
              /\ TakeLock(Reader)
              /\ room' = BufferSize /\ drained' = 0
              /\ UNCHANGED <<notDrain, listVars, local, loaded, delivered, received>>

(* RemoveEntryList, InsertTailList on the local list.                      *)
MoveEntry == /\ ReaderAt("moving", "moving")
             /\ HeadFits
             /\ queue' = RemoveEntry(queue)
             /\ local' = InsertTail(local, Head(queue))
             /\ room' = room - Size[Head(queue).kind]
             /\ drained' = drained + 1
             /\ UNCHANGED <<notDrain, lock, eventCount, loaded, delivered, received>>

(* The loop ends, and "g_EventCount -= drainCount" reads the count ...     *)
LoadCount == /\ ReaderAt("moving", "loaded")
             /\ ~HeadFits
             /\ loaded' = eventCount
             /\ UNCHANGED <<notDrain, lock, listVars, local, room, drained,
                            delivered, received>>

(* ... and writes it back: it is not an interlocked operation.             *)
StoreCount == /\ ReaderAt("loaded", "stored")
              /\ eventCount' = loaded - drained
              /\ UNCHANGED <<notDrain, lock, queue, local, room, drained, loaded,
                             delivered, received>>

(* KeReleaseSpinLock; the locals of phase 1 are not used again.            *)
ReleaseDrain == /\ ReaderAt("stored", "copying")
                /\ lock' = Nobody
                /\ room' = 0 /\ drained' = 0 /\ loaded' = 0
                /\ UNCHANGED <<notDrain, listVars, local, delivered, received>>

(* Phase 2: the entry is copied to the agent's buffer, counted and freed.  *)
CopyEntry == /\ ReaderAt("copying", "copying")
             /\ local # <<>>
             /\ received' = Append(received, Head(local))
             /\ local' = Tail(local)
             /\ delivered' = delivered + 1
             /\ UNCHANGED <<notDrain, lock, listVars, room, drained, loaded>>

Return == /\ ReaderAt("copying", "idle")
          /\ local = <<>>
          /\ UNCHANGED <<notDrain, lock, listVars, local, room, drained, loaded,
                         delivered, received>>

-----------------------------------------------------------------------------
(* CleanupEventBuffer, from DriverUnload: the callbacks are unregistered   *)
(* by then, which waits for those that run, and the device has no open     *)
(* handle, so nobody else is in this module's code.  The entries spliced   *)
(* off the list belong to this thread alone and are freed.                 *)
Cleanup ==
  /\ initialized
  /\ \A p \in Pushers : pc[p] = "idle"
  /\ rpc = "idle"
  /\ flushed' = flushed \cup Range(queue)
  /\ queue' = <<>>
  /\ eventCount' = 0
  /\ initialized' = FALSE
  /\ UNCHANGED <<seqNum, lock, pushVars, dropVars, drainVars>>

-----------------------------------------------------------------------------
(* The steps of a PushEvent that has an event to push.                     *)
PushStep(p) == \/ PushFull(p) \/ PushAdmit(p) \/ AllocFail(p) \/ Fill(p)
               \/ Acquire(p) \/ Link(p) \/ Count(p) \/ Release(p) \/ Generate(p)

DrainStep == \/ StartDrain \/ MoveEntry \/ LoadCount \/ StoreCount
             \/ ReleaseDrain \/ CopyEntry \/ Return

Next == \/ \E p \in Pushers : Stamp(p) \/ PushStep(p)
        \/ DrainStep
        \/ Cleanup

(* The agent polls for ever (DriverEventThread), and a thread that is in   *)
(* PushEvent or DrainEvents is not stopped there.  Callbacks and unloads   *)
(* need never happen.                                                      *)
Fairness == /\ \A p \in Pushers : WF_vars(PushStep(p))
            /\ WF_vars(DrainStep)

Spec == Init /\ [][Next]_vars

FairSpec == Spec /\ Fairness

-----------------------------------------------------------------------------
(* The pushers at one of the given points of PushEvent.                    *)
At(points) == {p \in Pushers : pc[p] \in points}

(* Every variable has its type: in particular g_EventCount, which two      *)
(* unsynchronised writers could drive below zero, is a natural number.     *)
TypeOK ==
  /\ initialized \in BOOLEAN
  /\ queue \in Seq(Event) /\ local \in Seq(Event) /\ received \in Seq(Event)
  /\ eventCount \in Nat /\ seqNum \in 0 .. MaxSeq
  /\ generated \in Nat /\ delivered \in Nat /\ dropped \in Nat
  /\ typeCount \in [Kinds -> Nat]
  /\ lock \in Pushers \cup {Reader, Nobody}
  /\ pc \in [Pushers -> {"idle", "stamped", "admitted", "filled", "locked",
                         "linked", "counted", "released"}]
  /\ ev \in [Pushers -> Event \cup {NoEvent}]
  /\ \A p \in Pushers : pc[p] # "idle" => ev[p] \in Event
  /\ rpc \in {"idle", "moving", "loaded", "stored", "copying"}
  /\ room \in Nat /\ drained \in Nat /\ loaded \in Nat
  /\ lost \subseteq Event /\ flushed \subseteq Event

(* Whenever the spinlock is free, g_EventCount is the length of the list,  *)
(* although the drainer updates it with a plain read and write.            *)
CountMatchesList == lock = Nobody => eventCount = Len(queue)

(* The capacity test (EventBuffer.c:186) is not atomic with the insertion, *)
(* so the list can outgrow EDR_MAX_EVENTS_IN_QUEUE, but never by more than *)
(* the pushers that can stand between the two, less the one that tests.    *)
OverrunBound == Len(queue) + 1 <= MaxQueue + Cardinality(Pushers)

(* What the counters tell the dashboard: each event that got into the list *)
(* is in g_TotalGenerated or about to be, and each category counter is the *)
(* number of its events that got in or are about to.                       *)
StatisticsAgree ==
  LET Entered == Range(queue \o local \o received) \cup flushed
  IN /\ generated + Cardinality(At({"linked", "counted", "released"}))
          = Cardinality(Entered)
     /\ delivered = Len(received) /\ dropped = Cardinality(lost)
     /\ \A k \in Kinds : typeCount[k] =
          Cardinality({e \in Entered : e.kind = k})
          + Cardinality({p \in At({"filled", "locked"}) : ev[p].kind = k})

(* Every number GetNextSequenceNumber gave out belongs to exactly one      *)
(* event, and that event is in exactly one place: in a pusher's hands, on  *)
(* a list, at the agent, dropped or flushed.  No entry is leaked, freed    *)
(* twice or delivered twice; and the statistics agree with it.             *)
EveryEventOnce ==
  LET Held == {ev[p] : p \in At({"stamped", "admitted", "filled", "locked"})}
      Listed == queue \o local \o received
  IN /\ {e.seq : e \in Held \cup Range(Listed) \cup lost \cup flushed} = 1 .. seqNum
     /\ Cardinality(At({"stamped", "admitted", "filled", "locked"})) + Len(Listed)
          + Cardinality(lost) + Cardinality(flushed) = seqNum
     /\ StatisticsAgree

(* The queue implements a lossy channel: an event is dropped before it is  *)
(* linked or arrives once, in the order of linking, unless the driver is   *)
(* unloaded first.                                                         *)
Channel == INSTANCE LossyChannel WITH chan <- local \o queue, got <- received,
                                      lost <- lost \cup flushed
DeliversInOrder == Channel!Spec

(* Whatever is in the list reaches the agent as long as the agent polls,   *)
(* unless the driver is unloaded: no event at the head blocks the queue.   *)
EventuallyDelivered ==
  \A e \in Event : (e \in Range(queue)) ~> (e \in Range(received) \cup flushed)

=============================================================================
