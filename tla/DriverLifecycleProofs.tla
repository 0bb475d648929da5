------------------------ MODULE DriverLifecycleProofs ------------------------
(***************************************************************************)
(* Proofs about DriverLifecycle for every set of threads and any number of *)
(* loads, as long as the required callbacks can be registered.             *)
(***************************************************************************)
EXTENDS DriverLifecycle, TLAPS

(* The callbacks whose failure makes DriverEntry return an error.          *)
Required == {"image", "process", "thread"}

(* TypeOK, but for the entries without a queue, of which QueueInv says more. *)
Types ==
  /\ phase \in {"absent", "entry", "running", "unload"}
  /\ at \in 1 .. Len(EntryOrder)
  /\ device \in BOOLEAN /\ symlink \in BOOLEAN /\ registered \subseteq Callbacks
  /\ initialized \in BOOLEAN /\ entries \in 0 .. MaxEntries
  /\ call \in [Threads -> Callbacks \cup {NoCall}]
  /\ pushing \subseteq {t \in Threads : InCall(t)}
  /\ handle \in BOOLEAN /\ stopping \in BOOLEAN /\ loads \in 0 .. MaxLoads

(* The callbacks that may be registered, or in progress, at this point of  *)
(* the driver's life.                                                      *)
Live == {c \in Callbacks : \/ phase = "running"
                           \/ phase = "entry" /\ \E i \in 1 .. 8 : i < at /\ EntryOrder[i] = c
                           \/ phase = "unload" /\ \E i \in at .. 8 : UnloadOrder[i] = c}

CallsInv == /\ registered \subseteq Live
            /\ \A t \in Threads : InCall(t) => call[t] \in Live

(* The queue is there between its place in DriverEntry and its place in    *)
(* DriverUnload, and has entries only then.                                *)
QueueThere == \/ phase = "entry" /\ at > 3
              \/ phase = "running"
              \/ phase = "unload" /\ at <= 6

QueueInv == IF QueueThere THEN initialized ELSE entries = 0

(* The device and its link are made and deleted at their places.           *)
DeviceInv ==
  /\ phase = "absent" \/ (phase = "entry" /\ at = 1) => ~device
  /\ \/ phase = "absent" \/ (phase = "entry" /\ at <= 2) \/ (phase = "unload" /\ at = 8)
     => ~symlink

IInv == Types /\ CallsInv /\ QueueInv /\ DeviceInv

-----------------------------------------------------------------------------
USE LifecycleAssumption DEF LifecycleAssumption

(* The two orders, position by position.                                   *)
LEMMA Orders ==
  /\ Len(EntryOrder) = 8 /\ Len(UnloadOrder) = 8
  /\ EntryOrder[1] = "device" /\ EntryOrder[2] = "symlink" /\ EntryOrder[3] = "buffer"
  /\ EntryOrder[4] = "image" /\ EntryOrder[5] = "process" /\ EntryOrder[6] = "thread"
  /\ EntryOrder[7] = "registry" /\ EntryOrder[8] = "object"
  /\ UnloadOrder[1] = "image" /\ UnloadOrder[2] = "process" /\ UnloadOrder[3] = "thread"
  /\ UnloadOrder[4] = "registry" /\ UnloadOrder[5] = "object" /\ UnloadOrder[6] = "buffer"
  /\ UnloadOrder[7] = "symlink" /\ UnloadOrder[8] = "device"
  BY DEF EntryOrder, UnloadOrder

(* Wherever a callback is live there is a queue.                           *)
LEMMA LiveHasQueue == ASSUME Types, Live # {} PROVE QueueThere
  BY Orders DEF Types, Live, QueueThere, Callbacks

LEMMA InitIInv == Init => IInv
<1> SUFFICES ASSUME Init PROVE IInv
  OBVIOUS
<1>1. 0 \in 0 .. MaxEntries /\ 0 \in 0 .. MaxLoads /\ 1 \in 1 .. Len(EntryOrder)
  BY Orders
<1>2. Types
  BY <1>1 DEF Init, Types, InCall
<1> QED BY <1>2 DEF Init, IInv, CallsInv, QueueInv, QueueThere, DeviceInv, InCall

(* What the system's threads do keeps it: a callback is entered only if it *)
(* is registered, and pushes only while it is in progress.                 *)
LEMMA CallKeepsIInv ==
  ASSUME IInv, NEW t \in Threads, CallStep(t) \/ \E c \in Callbacks : Enter(t, c)
  PROVE  IInv'
<1> USE DEF IInv
<1>1. /\ UNCHANGED <<phase, at, objects, initialized, handle, stopping, loads>>
      /\ Live' = Live /\ (QueueThere' <=> QueueThere)
  BY DEF CallStep, StartPush, FinishPush, Leave, Enter, Live, QueueThere
<1>2. DeviceInv'
  BY <1>1 DEF DeviceInv, objects
<1>3. call' \in [Threads -> Callbacks \cup {NoCall}] /\ CallsInv'
  BY <1>1 DEF CallStep, StartPush, FinishPush, Leave, Enter, CallsInv, InCall, Types, objects
<1>4. pushing' \subseteq {u \in Threads : call'[u] # NoCall}
  BY DEF CallStep, StartPush, FinishPush, Leave, Enter, InCall, Types
<1>5. entries' \in 0 .. MaxEntries /\ (entries' # entries => t \in pushing)
  BY DEF CallStep, StartPush, FinishPush, Leave, Enter, Types
<1>6. t \in pushing => QueueThere
  BY LiveHasQueue DEF Types, CallsInv
<1>7. QueueInv'
  BY <1>1, <1>5, <1>6 DEF QueueInv
<1>8. Types'
  BY <1>1, <1>3, <1>4, <1>5 DEF Types, InCall, objects
<1> QED BY <1>2, <1>3, <1>7, <1>8

(* So does the agent with its handle.                                      *)
LEMMA AgentKeepsIInv == ASSUME IInv, Open \/ ReadEvents \/ Close \/ RequestStop PROVE IInv'
<1> USE DEF IInv
<1>1. /\ UNCHANGED <<phase, at, objects, initialized, calls, loads>>
      /\ Live' = Live /\ (QueueThere' <=> QueueThere)
  BY DEF Open, ReadEvents, Close, RequestStop, Live, QueueThere
<1>2. handle' \in BOOLEAN /\ stopping' \in BOOLEAN
  BY DEF Open, ReadEvents, Close, RequestStop, Types
<1>3. entries' = entries \/ (entries # 0 /\ entries' \in 0 .. MaxEntries)
  BY DEF Open, ReadEvents, Close, RequestStop, Types
<1> QED BY <1>1, <1>2, <1>3 DEF Types, CallsInv, QueueInv, DeviceInv, InCall, objects, calls

(* Loading registers a callback only behind the queue, and fails only      *)
(* before the first of them.                                               *)
LEMMA EntryKeepsIInv ==
  ASSUME IInv, MayFail \cap Required = {}, Load \/ EntryStep
  PROVE  IInv'
<1> USE Orders DEF IInv
<1>1. CASE Load
  <2>1. at' \in 1 .. 8 /\ loads' \in 0 .. MaxLoads
    BY <1>1 DEF Load, Types
  <2>2. Types'
    BY <1>1, <2>1 DEF Load, Types, InCall, objects, calls
  <2> QED BY <1>1, <2>2 DEF Load, CallsInv, Live, QueueInv, QueueThere, DeviceInv, InCall,
                            Types, objects, calls
<1>2. CASE CreateDevice
  <2>1. at' \in 1 .. 8 /\ phase' \in {"absent", "entry", "running"}
    BY <1>2 DEF CreateDevice, EntryAt, EntryGoesOn, EntryFails, Types
  <2>2. device' \in BOOLEAN /\ symlink' \in BOOLEAN
    BY <1>2 DEF CreateDevice, Types
  <2>3. Types'
    BY <1>2, <2>1, <2>2 DEF CreateDevice, Types, InCall, calls
  <2> QED BY <1>2, <2>3 DEF CreateDevice, EntryAt, EntryGoesOn, EntryFails, CallsInv, Live,
                            QueueInv, QueueThere, DeviceInv, InCall, Types, calls
<1>3. CASE CreateSymlink
  <2>1. at' \in 1 .. 8 /\ phase' \in {"absent", "entry", "running"}
    BY <1>3 DEF CreateSymlink, EntryAt, EntryGoesOn, EntryFails, Types
  <2>2. device' \in BOOLEAN /\ symlink' \in BOOLEAN
    BY <1>3 DEF CreateSymlink, Types
  <2>3. Types'
    BY <1>3, <2>1, <2>2 DEF CreateSymlink, Types, InCall, calls
  <2>4. /\ phase = "entry" /\ at = 2 /\ ~symlink
        /\ \/ phase' = "entry" /\ at' = 3
           \/ phase' = "absent" /\ at' = 1 /\ ~device' /\ ~symlink'
        /\ UNCHANGED <<registered, initialized, entries, calls>>
    BY <1>3 DEF CreateSymlink, EntryAt, EntryGoesOn, EntryFails, DeviceInv, Types
  <2>5. Live = {} /\ CallsInv'
    BY <2>4 DEF CallsInv, Live, InCall, Callbacks, calls
  <2> QED BY <2>3, <2>4, <2>5 DEF QueueInv, QueueThere, DeviceInv
<1>4. CASE InitializeEventBuffer
  <2>1. Types'
    BY <1>4 DEF InitializeEventBuffer, EntryAt, EntryGoesOn, Types, InCall, objects, calls
  <2> QED BY <1>4, <2>1 DEF InitializeEventBuffer, EntryAt, EntryGoesOn, CallsInv, Live,
                            QueueInv, QueueThere, DeviceInv, InCall, Types, objects, calls
<1>5. ASSUME NEW c \in Callbacks, Register(c) PROVE IInv'
  <2>1. /\ phase = "entry" /\ EntryOrder[at] = c /\ at \in 4 .. 8
        /\ EntryGoesOn /\ registered' \subseteq registered \cup {c}
        /\ UNCHANGED <<device, symlink, initialized, entries, calls, handle, stopping, loads>>
    BY <1>5 DEF Register, EntryAt, Callbacks, Types, Required
  <2>2. at' \in 1 .. 8 /\ phase' \in {"entry", "running"}
    BY <2>1 DEF EntryGoesOn, Types
  <2>3. Types'
    BY <2>1, <2>2 DEF Types, InCall, calls
  <2>4. Live \cup {c} \subseteq Live'
    BY <2>1 DEF Live, EntryGoesOn, Types
  <2>5. CallsInv'
    BY <2>1, <2>4 DEF CallsInv, InCall, calls
  <2>6. QueueInv' /\ DeviceInv'
    BY <2>1 DEF QueueInv, QueueThere, DeviceInv, EntryGoesOn, Types
  <2> QED BY <2>3, <2>5, <2>6
<1> QED BY <1>1, <1>2, <1>3, <1>4, <1>5 DEF EntryStep

(* Unloading goes past a callback only when the last call of it has ended, *)
(* and past the queue only when there is no callback left.                 *)
LEMMA UnloadKeepsIInv == ASSUME IInv, UnloadStep PROVE IInv'
<1> USE Orders DEF IInv
<1>1. CASE BeginUnload
  <2>1. Types'
    BY <1>1 DEF BeginUnload, Types, InCall, objects, calls
  <2>2. \A c \in Callbacks : \E i \in 1 .. 8 : UnloadOrder[i] = c
    BY DEF Callbacks
  <2>3. Live' = Live
    BY <1>1, <2>2 DEF BeginUnload, Live
  <2> QED BY <1>1, <2>1, <2>3 DEF BeginUnload, CallsInv, QueueInv, QueueThere, DeviceInv,
                                  InCall, objects, calls
<1>2. ASSUME NEW c \in Callbacks, Unregister(c) PROVE IInv'
  <2>1. /\ registered' \subseteq registered
        /\ UNCHANGED <<phase, at, device, symlink, initialized, entries, calls, handle,
                       stopping, loads>>
    BY <1>2 DEF Unregister, TakenBack
  <2> QED BY <2>1 DEF Types, CallsInv, Live, QueueInv, QueueThere, DeviceInv, InCall, calls
<1>3. ASSUME NEW c \in Callbacks, Unregistered(c) PROVE IInv'
  <2>1. /\ phase = "unload" /\ UnloadOrder[at] = c /\ c \notin registered
        /\ \A t \in Threads : call[t] # c
        /\ UnloadGoesOn
        /\ UNCHANGED <<objects, initialized, entries, calls, handle, stopping, loads>>
    BY <1>3 DEF Unregistered, UnloadAt
  <2>2. at \in 1 .. 5 /\ phase' = "unload" /\ at' = at + 1
    BY <2>1 DEF UnloadGoesOn, Callbacks, Types
  <2>3. Types'
    BY <2>1, <2>2 DEF Types, InCall, objects, calls
  <2>4. Live \subseteq Live' \cup {c}
    BY <2>1, <2>2 DEF Live
  <2>5. CallsInv'
    BY <2>1, <2>4 DEF CallsInv, InCall, objects, calls
  <2>6. QueueInv' /\ DeviceInv'
    BY <2>1, <2>2 DEF QueueInv, QueueThere, DeviceInv, objects
  <2> QED BY <2>3, <2>5, <2>6
<1>4. ASSUME CleanupEventBuffer \/ DeleteSymlink \/ DeleteDevice PROVE IInv'
  <2>1. /\ phase = "unload" /\ at \in 6 .. 8 /\ Live = {}
        /\ UNCHANGED <<registered, calls, handle, stopping, loads>> /\ UnloadGoesOn
    BY <1>4 DEF CleanupEventBuffer, Freed, DeleteSymlink, DeleteDevice, UnloadAt, Live, Callbacks,
                Types, objects
  <2>2. /\ registered = {} /\ \A t \in Threads : ~InCall(t)
        /\ registered' = {} /\ \A t \in Threads : ~InCall(t)'
    BY <2>1 DEF CallsInv, InCall, calls
  <2>3. device' \in BOOLEAN /\ symlink' \in BOOLEAN /\ initialized' \in BOOLEAN
    BY <1>4 DEF CleanupEventBuffer, Freed, DeleteSymlink, DeleteDevice, objects, Types
  <2>4. entries' \in 0 .. MaxEntries
    BY <1>4 DEF CleanupEventBuffer, Freed, DeleteSymlink, DeleteDevice, Types
  <2>5. Types'
    BY <2>1, <2>2, <2>3, <2>4 DEF Types, UnloadGoesOn, InCall, calls
  <2>6. QueueInv' /\ DeviceInv'
    BY <1>4, <2>1 DEF CleanupEventBuffer, Freed, DeleteSymlink, DeleteDevice, UnloadAt, UnloadGoesOn,
                      QueueInv, QueueThere, DeviceInv, objects, Types
  <2> QED BY <2>2, <2>5, <2>6 DEF CallsInv
<1> QED BY <1>1, <1>2, <1>3, <1>4 DEF UnloadStep

LEMMA NextKeepsIInv == ASSUME MayFail \cap Required = {} PROVE IInv /\ [Next]_vars => IInv'
<1> SUFFICES ASSUME IInv, [Next]_vars PROVE IInv'
  OBVIOUS
<1>1. CASE UNCHANGED vars
  BY <1>1 DEF IInv, vars, objects, calls, Types, CallsInv, Live, QueueInv, QueueThere,
              DeviceInv, InCall
<1> QED BY <1>1, CallKeepsIInv, AgentKeepsIInv, EntryKeepsIInv, UnloadKeepsIInv DEF Next

LEMMA InvariantHolds == ASSUME MayFail \cap Required = {} PROVE Spec => []IInv
  BY InitIInv, NextKeepsIInv, PTL DEF Spec

-----------------------------------------------------------------------------
(* The driver's variables keep their types, only a thread in a callback    *)
(* pushes, and CleanupEventBuffer leaves no pool entry without a queue.    *)
THEOREM TypeCorrect == ASSUME MayFail \cap Required = {} PROVE Spec => []TypeOK
<1>1. IInv => TypeOK
  BY DEF IInv, Types, QueueInv, TypeOK
<1> QED BY <1>1, InvariantHolds, PTL

(* However many threads run callbacks while the driver is loaded and       *)
(* unloaded again and again, none of them finds the queue missing.         *)
THEOREM QueueIsFound == ASSUME MayFail \cap Required = {} PROVE Spec => []CallbacksFindQueue
<1>1. IInv => CallbacksFindQueue
  BY LiveHasQueue DEF IInv, CallsInv, QueueInv, CallbacksFindQueue
<1> QED BY <1>1, InvariantHolds, PTL

(* A driver that is gone has left no callback, no call, no device, no link *)
(* and no pool entry behind.                                               *)
THEOREM NothingIsLeft == ASSUME MayFail \cap Required = {} PROVE Spec => []NothingLeftBehind
<1>1. IInv => NothingLeftBehind
  BY DEF IInv, CallsInv, Live, QueueInv, QueueThere, DeviceInv, NothingLeftBehind
<1> QED BY <1>1, InvariantHolds, PTL

=============================================================================
