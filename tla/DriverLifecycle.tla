-------------------------- MODULE DriverLifecycle ---------------------------
(***************************************************************************)
(* Loading and unloading the kernel driver (VettaiyanDriver/Driver.c)      *)
(* while the system goes on creating processes, threads, images, registry  *)
(* keys and handles: DriverEntry registers the callbacks one by one, each  *)
(* is called from any thread from that moment on, DriverUnload takes them  *)
(* back and frees the event queue.  What a push does to the queue is in    *)
(* module EventBuffer; here the queue is a number of pool entries.         *)
(*                                                                         *)
(* External: the I/O manager calls DriverUnload only when no handle to the *)
(* device is open, and throws the driver's code away when DriverEntry      *)
(* fails or DriverUnload returns; the routines that unregister a callback  *)
(* wait for the calls of it that are in progress.                          *)
(***************************************************************************)
EXTENDS Naturals, Sequences, FiniteSets, Functions

CONSTANTS Threads,     (* the system's threads                            *)
          NoCall,      (* what a thread runs that is in no callback       *)
          MayFail,     (* the steps of DriverEntry that may fail          *)
          MaxEntries,  (* bound: the pool entries told apart              *)
          MaxLoads     (* bound: how often the driver is loaded           *)

Callbacks == {"image", "process", "thread", "registry", "object"}

ASSUME LifecycleAssumption ==
  /\ NoCall \notin Callbacks
  /\ MayFail \subseteq Callbacks \cup {"device", "symlink"}
  /\ MaxEntries \in Nat /\ MaxLoads \in Nat

VARIABLES
  phase,        (* "absent", "entry", "running" or "unload"                *)
  at,           (* the step of DriverEntry or DriverUnload that is next    *)
  device,       (* the device object exists                                *)
  symlink,      (* its symbolic link exists                                *)
  registered,   (* the callbacks the kernel calls                          *)
  initialized,  (* g_Initialized                                           *)
  entries,      (* pool entries allocated by PushEvent and not yet freed   *)
  call,         (* the callback each thread is in                          *)
  pushing,      (* the threads that passed PushEvent's test of g_Initialized *)
  handle,       (* the agent has the device open                           *)
  stopping,     (* the service manager was asked to stop the driver        *)
  loads         (* how often the driver was loaded                         *)

objects == <<device, symlink, registered>>
calls   == <<call, pushing>>
vars == <<phase, at, objects, initialized, entries, calls, handle, stopping, loads>>

(* The order of DriverEntry; the variant registers before the queue exists. *)
EntryOrderQueueLast == <<"device", "symlink", "image", "process", "thread",
                         "registry", "object", "buffer">>
EntryOrder == <<"device", "symlink", "buffer", "image", "process", "thread",
                "registry", "object">>

(* The order of DriverUnload; the variant frees the queue while some        *)
(* callbacks are registered.                                               *)
UnloadOrderQueueFirst == <<"image", "process", "thread", "buffer", "registry",
                           "object", "symlink", "device">>
UnloadOrder == <<"image", "process", "thread", "registry", "object", "buffer",
                 "symlink", "device">>

Init ==
  /\ phase = "absent" /\ at = 1
  /\ device = FALSE /\ symlink = FALSE /\ registered = {}
  /\ initialized = FALSE /\ entries = 0
  /\ call = [t \in Threads |-> NoCall] /\ pushing = {}
  /\ handle = FALSE /\ stopping = FALSE /\ loads = 0

-----------------------------------------------------------------------------
Load ==
  /\ phase = "absent" /\ loads < MaxLoads
  /\ phase' = "entry" /\ at' = 1
  /\ initialized' = FALSE
  /\ stopping' = FALSE
  /\ loads' = loads + 1
  /\ UNCHANGED <<objects, entries, calls, handle>>

EntryAt(s) == phase = "entry" /\ EntryOrder[at] = s

(* The step succeeded, or its failure is not fatal.                        *)
EntryGoesOn == IF at = Len(EntryOrder) THEN phase' = "running" /\ at' = 1
               ELSE phase' = "entry" /\ at' = at + 1

(* DriverEntry returns an error.                                           *)
EntryFails == phase' = "absent" /\ at' = 1

(* A name that is taken makes IoCreateDeviceSecure fail as well.           *)
CreateDevice ==
  /\ EntryAt("device")
  /\ \/ ~device /\ device' = TRUE /\ EntryGoesOn
     \/ ("device" \in MayFail \/ device) /\ UNCHANGED device /\ EntryFails
  /\ UNCHANGED <<symlink, registered, initialized, entries, calls, handle, stopping, loads>>

CreateSymlink ==
  /\ EntryAt("symlink")
  /\ \/ symlink' = TRUE /\ EntryGoesOn /\ UNCHANGED device
     \/ "symlink" \in MayFail /\ device' = FALSE /\ EntryFails /\ UNCHANGED symlink
  /\ UNCHANGED <<registered, initialized, entries, calls, handle, stopping, loads>>

InitializeEventBuffer ==
  /\ EntryAt("buffer")
  /\ initialized' = TRUE
  /\ EntryGoesOn
  /\ UNCHANGED <<objects, entries, calls, handle, stopping, loads>>

(* Image, process and thread notifications are required: their failure     *)
(* ends DriverEntry, and nothing done so far is undone.  Registry and      *)
(* object callbacks are not.                                               *)
Register(c) ==
  /\ EntryAt(c)
  /\ \/ registered' = registered \cup {c} /\ EntryGoesOn
     \/ /\ c \in MayFail /\ UNCHANGED registered
        /\ IF c \in {"registry", "object"} THEN EntryGoesOn ELSE EntryFails
  /\ UNCHANGED <<device, symlink, initialized, entries, calls, handle, stopping, loads>>

-----------------------------------------------------------------------------
(* The kernel calls a registered callback in some thread.                  *)
Enter(t, c) ==
  /\ c \in registered
  /\ call[t] = NoCall
  /\ call' = [call EXCEPT ![t] = c]
  /\ UNCHANGED <<phase, at, objects, initialized, entries, pushing, handle, stopping, loads>>

(* The callback has an event, and PushEvent finds the queue initialized.   *)
StartPush(t) ==
  /\ call[t] # NoCall /\ t \notin pushing
  /\ initialized
  /\ pushing' = pushing \cup {t}
  /\ UNCHANGED <<phase, at, objects, initialized, entries, call, handle, stopping, loads>>

(* The entry is in the list, or dropped for lack of room or memory.        *)
FinishPush(t) ==
  /\ t \in pushing
  /\ entries' \in {entries} \cup (IF entries < MaxEntries THEN {entries + 1} ELSE {})
  /\ pushing' = pushing \ {t}
  /\ call' = [call EXCEPT ![t] = NoCall]
  /\ UNCHANGED <<phase, at, objects, initialized, handle, stopping, loads>>

(* The callback filters its notification out (image loads of the system,   *)
(* registry reads, unresolved paths), or PushEvent refuses the event.      *)
Leave(t) ==
  /\ call[t] # NoCall /\ t \notin pushing
  /\ call' = [call EXCEPT ![t] = NoCall]
  /\ UNCHANGED <<phase, at, objects, initialized, entries, pushing, handle, stopping, loads>>

-----------------------------------------------------------------------------
(* The agent opens the device, reads events, closes it.                    *)
Open == /\ phase = "running" /\ symlink /\ ~stopping /\ ~handle
        /\ handle' = TRUE
        /\ UNCHANGED <<phase, at, objects, initialized, entries, calls, stopping, loads>>

ReadEvents == /\ handle /\ initialized /\ entries > 0
              /\ entries' \in 0 .. entries - 1
              /\ UNCHANGED <<phase, at, objects, initialized, calls, handle, stopping, loads>>

Close == /\ handle
         /\ handle' = FALSE
         /\ UNCHANGED <<phase, at, objects, initialized, entries, calls, stopping, loads>>

-----------------------------------------------------------------------------
RequestStop == /\ phase = "running" /\ ~stopping
               /\ stopping' = TRUE
               /\ UNCHANGED <<phase, at, objects, initialized, entries, calls, handle, loads>>

(* External: DriverUnload waits for the last handle.                       *)
BeginUnload == /\ phase = "running" /\ stopping /\ ~handle
               /\ phase' = "unload" /\ at' = 1
               /\ UNCHANGED <<objects, initialized, entries, calls, handle, stopping, loads>>

UnloadAt(s) == phase = "unload" /\ UnloadOrder[at] = s

UnloadGoesOn == IF at = Len(UnloadOrder) THEN phase' = "absent" /\ at' = 1
                ELSE phase' = "unload" /\ at' = at + 1

(* What is registered without c; the variant has lost the cookie of c.     *)
CookieLost(c) == registered
TakenBack(c) == registered \ {c}

(* No new calls of the callback ...                                        *)
Unregister(c) ==
  /\ UnloadAt(c) /\ c \in registered
  /\ registered' = TakenBack(c)
  /\ UNCHANGED <<phase, at, device, symlink, initialized, entries, calls, handle,
                 stopping, loads>>

(* ... and the routine returns when those in progress have ended.  A       *)
(* callback that never was registered is skipped.                          *)
Unregistered(c) ==
  /\ UnloadAt(c) /\ c \notin registered
  /\ \A t \in Threads : call[t] # c
  /\ UnloadGoesOn
  /\ UNCHANGED <<objects, initialized, entries, calls, handle, stopping, loads>>

(* The pool entries that are left of the queue once it is emptied: each is *)
(* freed; the variant forgets them with the list.                          *)
Forgotten == entries
Freed == 0

CleanupEventBuffer ==
  /\ UnloadAt("buffer")
  /\ initialized' = FALSE /\ entries' = Freed
  /\ UnloadGoesOn
  /\ UNCHANGED <<objects, calls, handle, stopping, loads>>

DeleteSymlink == /\ UnloadAt("symlink")
                 /\ symlink' = FALSE
                 /\ UnloadGoesOn
                 /\ UNCHANGED <<device, registered, initialized, entries, calls,
                                handle, stopping, loads>>

DeleteDevice == /\ UnloadAt("device")
                /\ device' = FALSE
                /\ UnloadGoesOn
                /\ UNCHANGED <<symlink, registered, initialized, entries, calls,
                               handle, stopping, loads>>

-----------------------------------------------------------------------------
EntryStep == \/ CreateDevice \/ CreateSymlink \/ InitializeEventBuffer
             \/ \E c \in Callbacks : Register(c)

CallStep(t) == StartPush(t) \/ FinishPush(t) \/ Leave(t)

UnloadStep == \/ BeginUnload
              \/ \E c \in Callbacks : Unregister(c) \/ Unregistered(c)
              \/ CleanupEventBuffer \/ DeleteSymlink \/ DeleteDevice

Next == \/ Load \/ EntryStep
        \/ \E t \in Threads : CallStep(t) \/ \E c \in Callbacks : Enter(t, c)
        \/ Open \/ ReadEvents \/ Close
        \/ RequestStop \/ UnloadStep

(* A callback that was entered returns, and the thread that loads or       *)
(* unloads the driver goes on.                                             *)
Fairness == /\ WF_vars(EntryStep) /\ WF_vars(UnloadStep)
            /\ \A t \in Threads : WF_vars(CallStep(t))

Spec == Init /\ [][Next]_vars

FairSpec == Spec /\ Fairness

-----------------------------------------------------------------------------
InCall(t) == call[t] # NoCall

(* Every variable has its type, only a thread in a callback pushes, and    *)
(* there are pool entries only while there is a queue to find them in.     *)
TypeOK ==
  /\ phase \in {"absent", "entry", "running", "unload"}
  /\ at \in 1 .. Len(EntryOrder)
  /\ device \in BOOLEAN /\ symlink \in BOOLEAN /\ registered \subseteq Callbacks
  /\ initialized \in BOOLEAN /\ entries \in 0 .. MaxEntries
  /\ entries > 0 => initialized
  /\ call \in [Threads -> Callbacks \cup {NoCall}]
  /\ pushing \subseteq {t \in Threads : InCall(t)}
  /\ handle \in BOOLEAN /\ stopping \in BOOLEAN /\ loads \in 0 .. MaxLoads

(* A callback never finds the queue uninitialized, nor one that is cleaned *)
(* up between its test and its insertion.                                  *)
CallbacksFindQueue == \A t \in Threads : InCall(t) => initialized

(* When the driver's code is gone the kernel calls none of its callbacks,  *)
(* no call is in progress, and its device, its link and its pool entries   *)
(* are gone: none was pushed behind the back of CleanupEventBuffer.        *)
NothingLeftBehind ==
  phase = "absent" =>
    /\ registered = {} /\ \A t \in Threads : ~InCall(t)
    /\ ~device /\ ~symlink /\ entries = 0

(* A driver that is asked to stop is unloaded once the agent has closed    *)
(* its handle, however busy the system is.                                 *)
UnloadEnds == (stopping /\ ~handle) ~> phase = "absent"

-----------------------------------------------------------------------------
(* CallBackProcess.c:117 "Unregister -- called during driver unload": that *)
(* covers every registration, also that of a DriverEntry that fails after  *)
(* it, since its code goes away too.                                       *)
NoCallbackSurvivesFailedLoad == phase = "absent" => registered = {}

=============================================================================
