---------------------------- MODULE AutoResponse -----------------------------
(***************************************************************************)
(* From a suspicious act to the kill: the system's processes, the two      *)
(* event streams of the agent, the process tracker (ProcessTracker.cpp),   *)
(* the behaviour engine's rules (BehaviorEngine.cpp), the automatic        *)
(* response (OnBehaviorDetection in Agent.cpp) and the kill                *)
(* (ResponseEngine.cpp).  Processes come and go, and their ids are used    *)
(* again, while the agent works on events that are already old.            *)
(*                                                                         *)
(* Process events, handle and thread events come through the driver's      *)
(* queue, a lossy channel in order (module EventBuffer); file events come  *)
(* through the minifilter's port, on another thread.  DispatchEvent of     *)
(* EventReceiver.cpp lets one event at a time through (g_CallbackMutex).   *)
(*                                                                         *)
(* The ids 0 and 4, which both image lists treat as the system's, are left *)
(* out; a process of session 0 whose parent is one of them is "critical".  *)
(***************************************************************************)
EXTENDS Naturals, Sequences, FiniteSets, Functions

CONSTANTS Pids,          (* the process ids of the system                  *)
          Self,          (* the agent's own process id                     *)
          Old,           (* the ids in use before the driver is loaded     *)
          MaxQueue,      (* the events that wait in the driver             *)
          MaxTracked,    (* MAX_TRACKED_PROCESSES                          *)
          MaxProcesses,  (* bound: the processes that ever run             *)
          MaxActs        (* bound: the suspicious acts                     *)

(* "critical" images are in SYSTEM_IMAGES and in PROTECTED, "tool" images  *)
(* in neither.  Those only in SYSTEM_IMAGES (explorer.exe, ...) are left   *)
(* out: no rule with a critical severity fires for them.                   *)
Images == {"critical", "tool"}

ASSUME ResponseAssumption ==
  /\ IsFiniteSet(Pids) /\ Self \in Pids /\ Old \subseteq Pids \ {Self}
  /\ MaxQueue \in Nat \ {0} /\ MaxTracked \in Nat \ {0}
  /\ MaxProcesses \in Nat /\ Cardinality(Old) < MaxProcesses
  /\ MaxActs \in Nat

Ids == 1 .. MaxProcesses     (* processes, in the order of creation        *)
NoProcess == [id |-> 0, image |-> "tool"]
NoNode == [id |-> 0, image |-> "tool", alive |-> FALSE, alerts |-> {}]
NoEvent == [kind |-> "none", pid |-> Self, id |-> 0, image |-> "tool"]

VARIABLES
  real,        (* the process each id belongs to, or NoProcess             *)
  started,     (* how many processes were ever created                     *)
  acts,        (* how many suspicious acts there were                      *)
  queue,       (* the driver's events the agent has not dispatched         *)
  files,       (* the minifilter's events the agent has not dispatched     *)
  missed,      (* history: processes of which a driver event was lost, or  *)
               (* that were created before there was a tracker             *)
  tracker,     (* g_ProcessMap                                             *)
  holder,      (* the stream whose event is being dispatched, or "nobody"  *)
  step,        (* where its dispatch is                                    *)
  cur,         (* that event                                               *)
  kills        (* history: who was killed for whose act                    *)

world == <<real, started, acts>>
agent == <<tracker, holder, step, cur, kills>>
vars == <<world, queue, files, missed, agent>>

Living(p) == real[p] # NoProcess

(* The driver's queue is in order; the variant is a stack.                 *)
PutFirst(q, e) == <<e>> \o q
PutLast(q, e) == Append(q, e)

(* The driver queues an event, or drops it when it has no room.            *)
Queued(e) == IF Len(queue) < MaxQueue THEN queue' = PutLast(queue, e) /\ UNCHANGED missed
             ELSE missed' = missed \cup {e.id} /\ UNCHANGED queue

Event(kind, p, process) ==
  [kind |-> kind, pid |-> p, id |-> process.id, image |-> process.image]

(* The driver saw the agent start; of the processes in Old it knows        *)
(* nothing.  Where they are is all that differs between initial states.    *)
Oldest == 2 .. 1 + Cardinality(Old)

Init ==
  /\ \E id \in [Old -> Oldest], image \in [Old -> Images] :
       /\ IsInjective(id)
       /\ real = [p \in Pids |-> CASE p = Self -> [id |-> 1, image |-> "tool"]
                                  [] p \in Old -> [id |-> id[p], image |-> image[p]]
                                  [] OTHER -> NoProcess]
  /\ started = 1 + Cardinality(Old) /\ acts = 0
  /\ queue = <<Event("create", Self, real[Self])>> /\ files = <<>>
  /\ missed = Oldest
  /\ tracker = [p \in Pids |-> NoNode]
  /\ holder = "nobody" /\ step = "idle" /\ cur = NoEvent
  /\ kills = {}

-----------------------------------------------------------------------------
(* EdrCreateProcessNotifyRoutine with a CreateInfo.                        *)
Create(p) ==
  /\ ~Living(p) /\ started < MaxProcesses
  /\ started' = started + 1
  /\ \E image \in Images :
       /\ real' = [real EXCEPT ![p] = [id |-> started + 1, image |-> image]]
       /\ Queued(Event("create", p, [id |-> started + 1, image |-> image]))
  /\ UNCHANGED <<acts, files, agent>>

(* The process ends; the routine runs without a CreateInfo.                *)
Ends(p) == /\ real' = [real EXCEPT ![p] = NoProcess]
           /\ Queued(Event("exit", p, real[p]))

Exit(p) == /\ Living(p) /\ p # Self
           /\ Ends(p)
           /\ UNCHANGED <<started, acts, files, agent>>

(* A living process opens a handle with injection rights, or starts a      *)
(* thread in another process: the driver queues an event.                  *)
Act(p, kind) ==
  /\ Living(p) /\ acts < MaxActs
  /\ acts' = acts + 1
  /\ Queued(Event(kind, p, real[p]))
  /\ UNCHANGED <<real, started, files, agent>>

(* It opens a credential store: the minifilter sends a message.            *)
OpenHive(p) ==
  /\ Living(p) /\ acts < MaxActs
  /\ acts' = acts + 1
  /\ files' = Append(files, Event("file", p, real[p]))
  /\ UNCHANGED <<real, started, queue, missed, agent>>

-----------------------------------------------------------------------------
At(from, to) == step = from /\ step' = to

(* DispatchEvent takes g_CallbackMutex for the next event of a stream.     *)
ReceiveDriver == /\ At("idle", "received")
                 /\ queue # <<>>
                 /\ holder' = "driver" /\ cur' = Head(queue) /\ queue' = Tail(queue)
                 /\ UNCHANGED <<world, files, missed, tracker, kills>>

ReceiveFile == /\ At("idle", "received")
               /\ files # <<>>
               /\ holder' = "filter" /\ cur' = Head(files) /\ files' = Tail(files)
               /\ UNCHANGED <<world, queue, missed, tracker, kills>>

(* The dispatch ends and gives the mutex back; the variant keeps it.       *)
NotReleased == UNCHANGED holder /\ step' = "idle" /\ cur' = NoEvent
Released == holder' = "nobody" /\ step' = "idle" /\ cur' = NoEvent

(* A full map forgets its dead; the variant forgets everything.            *)
EvictAll == [p \in Pids |-> NoNode]
EvictDead == [p \in Pids |-> IF tracker[p].alive THEN tracker[p] ELSE NoNode]

Tracked == {p \in Pids : tracker[p] # NoNode}
Evicted == IF Cardinality(Tracked) >= MaxTracked THEN EvictDead ELSE tracker

OnProcessCreate(e) == [Evicted EXCEPT ![e.pid] =
  [id |-> e.id, image |-> e.image, alive |-> TRUE, alerts |-> {}]]

OnProcessTerminate(e) ==
  IF tracker[e.pid] = NoNode THEN tracker ELSE [tracker EXCEPT ![e.pid].alive = FALSE]

(* OnKernelEvent: the tracker first.                                       *)
Track ==
  /\ At("received", "tracked")
  /\ tracker' = CASE cur.kind = "create" -> OnProcessCreate(cur)
                  [] cur.kind = "exit" -> OnProcessTerminate(cur)
                  [] OTHER -> tracker
  /\ UNCHANGED <<world, queue, files, missed, holder, cur, kills>>

-----------------------------------------------------------------------------
IsKnownSystemProcess(p) == tracker[p].image = "critical"

(* The rules: the command lines of new processes (any verdict), acts on    *)
(* other processes, which are never the agent's, and credential stores.    *)
RuleFires ==
  CASE cur.kind = "create" -> {TRUE, FALSE}
    [] cur.kind \in {"handle", "thread"} ->
         {cur.pid # Self /\ ~IsKnownSystemProcess(cur.pid)}
    [] cur.kind = "file" -> {~IsKnownSystemProcess(cur.pid)}
    [] OTHER -> {FALSE}

(* The rules whose detections are critical; the variant has one less.      *)
CriticalFile(e) == e.kind = "file"
Critical(e) == e.kind \in {"handle", "file"}

(* The guard of the automatic kill: a living, unprotected process that is  *)
(* not the agent.                                                          *)
Safe(p) == tracker[p].alive /\ tracker[p].image # "critical" /\ p # Self

(* AnalyzeProcessEvent and its siblings; EmitDetection calls               *)
(* OnBehaviorDetection, which decides.                                     *)
Analyze ==
  /\ step = "tracked"
  /\ \/ /\ TRUE \in RuleFires
        /\ step' = IF Critical(cur) /\ Safe(cur.pid) THEN "condemned" ELSE "answered"
        /\ UNCHANGED <<holder, cur>>
     \/ FALSE \in RuleFires /\ Released
  /\ UNCHANGED <<world, queue, files, missed, tracker, kills>>

(* KillProcess: whatever has the id now is terminated by the driver, whose *)
(* handle is the kernel's own and is not refused; or there is none.        *)
Kill ==
  /\ At("condemned", "answered")
  /\ IF Living(cur.pid)
     THEN Ends(cur.pid) /\ kills' = kills \cup {[by |-> cur, hit |-> real[cur.pid]]}
     ELSE UNCHANGED <<real, queue, missed, kills>>
  /\ UNCHANGED <<started, acts, files, tracker, holder, cur>>

(* IncrementSuspicionScore and AddProcessAlert end EmitDetection.          *)
Alert ==
  /\ step = "answered"
  /\ tracker' = IF tracker[cur.pid] = NoNode THEN tracker
                ELSE [tracker EXCEPT ![cur.pid].alerts = @ \cup {cur}]
  /\ Released
  /\ UNCHANGED <<world, queue, files, missed, kills>>

(* "KILL|pid" from the command pipe has no guard.  A command to kill the   *)
(* agent itself ends what is modelled here and is left out.                *)
CommandKill(p) ==
  /\ Living(p) /\ p # Self
  /\ Ends(p)
  /\ UNCHANGED <<started, acts, files, agent>>

-----------------------------------------------------------------------------
System == \E p \in Pids : \/ Create(p) \/ Exit(p) \/ CommandKill(p) \/ OpenHive(p)
                          \/ \E kind \in {"handle", "thread"} : Act(p, kind)

Dispatch == Track \/ Analyze \/ Kill \/ Alert

Next == System \/ ReceiveDriver \/ ReceiveFile \/ Dispatch

(* Both event threads keep running, and a dispatch is not stopped half way. *)
Fairness == WF_vars(ReceiveDriver) /\ WF_vars(ReceiveFile) /\ WF_vars(Dispatch)

Spec == Init /\ [][Next]_vars

FairSpec == Spec /\ Fairness

-----------------------------------------------------------------------------
EventType == [kind : {"none", "create", "exit", "handle", "thread", "file"},
              pid : Pids, id : 0 .. MaxProcesses, image : Images]

Node == [id : 0 .. MaxProcesses, image : Images, alive : BOOLEAN, alerts : SUBSET EventType]

(* Every variable has its type, there is an event exactly while the mutex  *)
(* is held, and no kill has hit the agent, which is process 1.             *)
TypeOK ==
  /\ real \in [Pids -> [id : 0 .. MaxProcesses, image : Images]]
  /\ started \in 0 .. MaxProcesses /\ acts \in 0 .. MaxActs
  /\ queue \in Seq(EventType) /\ files \in Seq(EventType)
  /\ missed \subseteq Ids
  /\ tracker \in [Pids -> Node]
  /\ holder \in {"nobody", "driver", "filter"} /\ cur \in EventType
  /\ step \in {"idle", "received", "tracked", "condemned", "answered"}
  /\ (step = "idle") = (holder = "nobody") /\ (cur = NoEvent) = (holder = "nobody")
  /\ kills \subseteq [by : EventType, hit : [id : Ids \ {1}, image : Images]]

(* Events that begin or end the use of the id p, and what they say of it.  *)
Life(e, p) == e.pid = p /\ e.kind \in {"create", "exit"}
Says(e) == IF e.kind = "create" THEN e.id ELSE 0

LastLife(q, p, i) == /\ i \in DOMAIN q /\ Life(q[i], p)
                     /\ \A j \in DOMAIN q : i < j => ~Life(q[j], p)

(* What the tracker will take p for once it has seen the events under way. *)
Believed(p) ==
  IF \E i \in DOMAIN queue : Life(queue[i], p)
  THEN Says(queue[CHOOSE i \in DOMAIN queue : LastLife(queue, p, i)])
  ELSE IF step = "received" /\ Life(cur, p) THEN Says(cur)
  ELSE IF tracker[p].alive THEN tracker[p].id ELSE 0

(* The tracker catches up: with the events under way it agrees with the    *)
(* system about every process of which it did not miss an event, however   *)
(* ids are reused and whatever was evicted.                                *)
TrackerCatchesUp ==
  \A p \in Pids : Believed(p) # real[p].id => {Believed(p), real[p].id} \cap missed # {}

(* An alert from the driver's stream sits on the node of the process that  *)
(* acted, not on an earlier or later owner of its id, unless one of its    *)
(* own events was lost ...                                                 *)
AlertsAreOwn ==
  \A p \in Pids : \A a \in tracker[p].alerts :
    (a.kind # "file" /\ a.id # tracker[p].id) => a.id \in missed

(* ... and who is killed for an act is who acted, or got its id later; a   *)
(* critical process only if it got it later, or with events lost or from   *)
(* the other stream.  ProtectedNeverKilled asks for more.                  *)
KillsAreOwn ==
  \A k \in kills : /\ k.by.id <= k.hit.id
                   /\ (k.by.kind # "file" /\ k.hit.image = "critical" /\ k.by.id = k.hit.id)
                        => k.by.id \in missed

ActsAreAttributed == AlertsAreOwn /\ KillsAreOwn

(* A tool that was seen from its creation and opens a handle for injection *)
(* does not go on running.                                                 *)
CulpritIsStopped ==
  \A e \in [kind : {"handle"}, pid : Pids \ {Self}, id : Ids \ (Oldest \cup {1}),
           image : {"tool"}] :
    (e \in Range(queue)) ~> (real[e.pid].id # e.id \/ e.id \in missed)

-----------------------------------------------------------------------------
(* Agent.cpp:323 "never auto-kill critical Windows processes".             *)
ProtectedNeverKilled == \A k \in kills : k.hit.image # "critical"

=============================================================================
