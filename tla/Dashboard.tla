------------------------------ MODULE Dashboard -------------------------------
(***************************************************************************)
(* The web dashboard (WebServer.cpp): the server's pool of threads that    *)
(* answer requests, the event streams that hold one of them each for as    *)
(* long as a browser listens, the broadcast of notifications to them from  *)
(* the agent's other threads (Notification.cpp), and StopWebServer.  A     *)
(* request for a response action becomes a client of the command thread,   *)
(* whose module this one composes with the server's.                       *)
(*                                                                         *)
(* External: httplib keeps accepted connections in a queue for its pool,   *)
(* a write to a browser that does not read is given up after a time-out,   *)
(* and stop() makes the server accept nothing more.                        *)
(***************************************************************************)
EXTENDS Isolation

CONSTANTS Notifiers,    (* the threads that send notifications             *)
          Nobody,       (* the owner of a mutex that is free               *)
          MaxWaiting    (* bound: the requests that wait for a thread      *)

Pool == Clients
Requests == {"view", "stream", "action"}

ASSUME DashboardAssumption ==
  /\ Nobody \notin Pool \cup Notifiers /\ Pool \cap Notifiers = {}
  /\ MaxWaiting \in Nat

VARIABLES
  service,      (* how far the service's start and stop have got           *)
  requests,     (* the connections that wait for a thread of the pool      *)
  worker,       (* what each thread of the pool is at                      *)
  sseClients,   (* g_sseClients, each client named by its thread           *)
  alive,        (* SseClient.alive                                         *)
  mutex,        (* g_sseMutex                                              *)
  notifier,     (* where each notifying thread is                          *)
  targets       (* the clients a broadcast has still to come to            *)

server  == <<service, requests>>
streams == <<sseClients, alive>>
sending == <<notifier, targets>>
vars == <<isolation, server, worker, streams, mutex, sending>>

Init ==
  /\ IsolationInit
  /\ service = "down" /\ requests = <<>>
  /\ worker = [t \in Pool |-> "free"]
  /\ sseClients = {} /\ alive = [t \in Pool |-> FALSE]
  /\ mutex = Nobody /\ notifier = [n \in Notifiers |-> "idle"] /\ targets = {}

-----------------------------------------------------------------------------
StartWebServer == /\ service = "down" /\ service' = "running"
                  /\ StartCommander
                  /\ UNCHANGED <<requests, worker, streams, mutex, sending>>

Browse(r) == /\ service = "running" /\ Len(requests) < MaxWaiting
             /\ requests' = Append(requests, r)
             /\ UNCHANGED <<isolation, service, worker, streams, mutex, sending>>

WorkerGoes(t, from, to) == worker[t] = from /\ worker' = [worker EXCEPT ![t] = to]

(* A thread takes the next connection, also after the server was stopped,  *)
(* and goes on to `to`.                                                    *)
Takes(t, r, to) == /\ requests # <<>> /\ Head(requests) = r /\ service # "down"
                   /\ WorkerGoes(t, "free", to) /\ requests' = Tail(requests)
                   /\ UNCHANGED <<service, streams, mutex, sending>>

(* The read-only views open the database for themselves; ApiScanTrigger    *)
(* fills the scan queue.                                                   *)
View(t) == Takes(t, "view", "free") /\ UNCHANGED isolation

(* ApiResponseAction sends its command to the agent's own pipe ...         *)
Act(t) == \/ Takes(t, "action", "waiting") /\ \E cmd \in Commands : SendCommand(t, cmd)
          \/ Takes(t, "action", "free") /\ CannotConnect

(* ... and reads the answer.                                               *)
ReadAnswer(t) == /\ caller # t /\ WorkerGoes(t, "waiting", "free")
                 /\ UNCHANGED <<isolation, server, streams, mutex, sending>>

-----------------------------------------------------------------------------
(* ApiNotifications: the client is made and put into the list ...          *)
Stream(t) == Takes(t, "stream", "stream") /\ UNCHANGED isolation

Register(t) ==
  /\ mutex = Nobody /\ WorkerGoes(t, "stream", "listen")
  /\ sseClients' = sseClients \cup {t} /\ alive' = [alive EXCEPT ![t] = TRUE]
  /\ UNCHANGED <<isolation, server, mutex, sending>>

(* ... looked after every half second, until its browser has gone ...      *)
BrowserGone(t) ==
  /\ worker[t] = "listen" /\ alive[t]
  /\ alive' = [alive EXCEPT ![t] = FALSE]
  /\ UNCHANGED <<isolation, server, worker, sseClients, mutex, sending>>

(* ... or the server is stopped, then taken from the list and deleted.     *)
DeleteClient(t) == /\ ~alive[t] /\ mutex = Nobody /\ WorkerGoes(t, "listen", "free")
                   /\ sseClients' = sseClients \ {t}
                   /\ UNCHANGED <<isolation, server, alive, mutex, sending>>

-----------------------------------------------------------------------------
NotifierGoes(n, from, to) == notifier[n] = from /\ notifier' = [notifier EXCEPT ![n] = to]

(* LaunchNotification: BroadcastNotification locks the list ...            *)
Broadcast(n) == /\ service # "down" /\ mutex = Nobody
                /\ NotifierGoes(n, "idle", "broadcast")
                /\ mutex' = n /\ targets' = sseClients
                /\ UNCHANGED <<isolation, server, worker, streams>>

(* ... writes to one client after the other ...                            *)
WriteTo(n, t) == /\ notifier[n] = "broadcast" /\ t \in targets
                 /\ targets' = targets \ {t}
                 /\ UNCHANGED <<isolation, server, worker, streams, mutex, notifier>>

(* ... and unlocks it (the variants do so before the last write, or not at *)
(* all).  The message then goes to the notification pipe, if anyone reads  *)
(* it.                                                                     *)
AnyTime == TRUE
AllWritten == targets = {}

KeptLocked == mutex
Unlocked == Nobody

Unlock(n) == /\ AllWritten /\ NotifierGoes(n, "broadcast", "idle")
             /\ mutex' = Unlocked
             /\ UNCHANGED <<isolation, server, worker, streams, targets>>

-----------------------------------------------------------------------------
(* StopWebServer: the server accepts no more and is deleted, while its own *)
(* thread and its pool go on with what they have ...                       *)
StopWebServer == /\ service = "running" /\ service' = "deleted"
                 /\ UNCHANGED <<isolation, requests, worker, streams, mutex, sending>>

(* ... and the streams are told to end.                                    *)
KillClients == /\ service = "deleted" /\ service' = "cleared"
               /\ mutex = Nobody
               /\ alive' = [t \in Pool |-> alive[t] /\ t \notin sseClients] /\ sseClients' = {}
               /\ UNCHANGED <<isolation, requests, worker, mutex, sending>>

(* The stop event was set before the worker came to its shutdown.          *)
StopCommander == /\ service \in {"deleted", "cleared"}
                 /\ CommanderEnds
                 /\ UNCHANGED <<server, worker, streams, mutex, sending>>

(* The process ends, after its shutdown or at any moment before.           *)
ProcessEnds ==
  /\ service # "down" /\ service' = "down"
  /\ AgentDies
  /\ requests' = <<>>
  /\ worker' = [t \in Pool |-> "free"]
  /\ sseClients' = {} /\ targets' = {} /\ mutex' = Nobody
  /\ alive' = [t \in Pool |-> FALSE]
  /\ notifier' = [n \in Notifiers |-> "idle"]

-----------------------------------------------------------------------------
Elsewhere == <<server, worker, streams, mutex, sending>>

Commander == service # "down" /\ CommanderStep /\ UNCHANGED Elsewhere
NetshStep == (NetshEnds \/ \E p \in Netsh : LateNetshEnds(p)) /\ UNCHANGED Elsewhere

Worker(t) == View(t) \/ Act(t) \/ ReadAnswer(t) \/ Stream(t)
Waits(t) == Register(t) \/ DeleteClient(t)
Notifier(n) == (\E t \in Pool : WriteTo(n, t)) \/ Unlock(n)

Next == \/ StartWebServer \/ StopWebServer \/ KillClients \/ StopCommander \/ ProcessEnds
        \/ Commander \/ NetshStep
        \/ \E r \in Requests : Browse(r)
        \/ \E t \in Pool : Worker(t) \/ Waits(t) \/ BrowserGone(t)
        \/ \E n \in Notifiers : Broadcast(n) \/ Notifier(n)

(* The agent's threads run, those that wait for the mutex get it some      *)
(* time, and writes come to an end.  Browsers and netsh may take for ever. *)
Fairness == /\ WF_vars(Commander) /\ WF_vars(KillClients)
            /\ \A t \in Pool : WF_vars(Worker(t)) /\ SF_vars(Waits(t))
            /\ \A n \in Notifiers : WF_vars(Notifier(n))

Spec == Init /\ [][Next]_vars

FairSpec == Spec /\ Fairness

-----------------------------------------------------------------------------
Streaming == {t \in Pool : worker[t] = "listen"}

(* Every variable has its type; the mutex is held by the thread that       *)
(* broadcasts.                                                             *)
TypeOK ==
  /\ IsolationTypeOK
  /\ service \in {"down", "running", "deleted", "cleared"}
  /\ requests \in Seq(Requests) /\ Len(requests) <= MaxWaiting
  /\ worker \in [Pool -> {"free", "waiting", "stream", "listen"}]
  /\ alive \in [Pool -> BOOLEAN]
  /\ sseClients \subseteq Pool /\ targets \subseteq Pool
  /\ notifier \in [Notifiers -> {"idle", "broadcast"}]
  /\ mutex \in Notifiers \cup {Nobody}
  /\ \A n \in Notifiers : mutex = n <=> notifier[n] = "broadcast"

(* A broadcast comes to every stream that is alive and to no client that   *)
(* is gone: what g_sseClients and a broadcast under way point to is there, *)
(* whichever thread adds, removes and deletes clients or stops the server. *)
ClientsAreLive ==
  /\ sseClients \cup targets \subseteq Streaming
  /\ {t \in Pool : alive[t]} \subseteq sseClients

(* As long as the event streams leave a thread of the pool, a request gets *)
(* one, and a response action comes back although netsh hangs.             *)
RequestsAreServed ==
  /\ requests # <<>> ~> (requests = <<>> \/ Streaming = Pool \/ service = "down")
  /\ \A t \in Pool : (worker[t] = "waiting") ~> (worker[t] # "waiting")

=============================================================================
