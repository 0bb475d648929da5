----------------------------- MODULE FilterPort ------------------------------
(***************************************************************************)
(* The minifilter (VettaiyanFilter): its callbacks around the file I/O of  *)
(* every thread, the communication port through which the agent connects,  *)
(* is sent events, hangs, dies and reconnects, and the unload.             *)
(*                                                                         *)
(* What the Filter Manager guarantees is external: at most                 *)
(* FS_MAX_CONNECTIONS = 1 connection, its end reported before the next     *)
(* begins; FltCloseClientPort clears the pointer and ends the sends on it; *)
(* FltUnregisterFilter starts no callback any more, drains the completions *)
(* that are due and waits for the callbacks that run.                      *)
(***************************************************************************)
EXTENDS Integers, FiniteSets

CONSTANTS Threads,         (* the threads that do file I/O                 *)
          AgentThreads,    (* those of the agent's process                 *)
          MaxConnections   (* bound: how often the agent connects          *)

ASSUME PortAssumption ==
  IsFiniteSet(Threads) /\ AgentThreads \subseteq Threads /\ MaxConnections \in Nat

(* The operations that have callbacks; the completion of a create has one. *)
Operations == {"create", "write", "set", "close"}

VARIABLES
  pc,           (* where each thread is in the callbacks of its operation  *)
  op,           (* that operation                                          *)
  names,        (* the references held on file name informations           *)
  port,         (* g_ClientPort is not NULL                                *)
  agentPid,     (* g_AgentPid is the agent's                               *)
  server,       (* g_ServerPort is not NULL                                *)
  conn,         (* the agent's connection, and where its routines are      *)
  connections,  (* how many there have been                                *)
  unload,       (* how far UnloadFSFilter is                               *)
  disturbed,    (* history: the threads whose operation overlaps a connect *)
                (* or the unload                                           *)
  received      (* history: what the agent received: its own or not, and   *)
                (* was it disturbed                                        *)

io == <<pc, op, names, received>>
link == <<port, agentPid, server, conn, connections, unload>>
vars == <<io, link, disturbed>>

Init ==
  /\ pc = [t \in Threads |-> "idle"] /\ op = [t \in Threads |-> "close"]
  /\ names = 0 /\ disturbed = {} /\ received = {}
  /\ port = FALSE /\ agentPid = FALSE
  /\ server \in BOOLEAN   (* a failure to create the port is not fatal *)
  /\ conn = "none" /\ connections = 0 /\ unload = "no"

Busy == {t \in Threads : pc[t] # "idle"}
Unsettled == conn = "storing" \/ unload # "no"

-----------------------------------------------------------------------------
Goes(t, from, to) == pc[t] = from /\ pc' = [pc EXCEPT ![t] = to]

(* A pre-operation callback that finds the agent connected and gets the    *)
(* file's name; otherwise it lets the operation pass.                      *)
Begin(t) ==
  /\ port /\ unload # "unregistering" /\ unload # "unloaded"
  /\ Goes(t, "idle", "named")
  /\ \E k \in Operations : op' = [op EXCEPT ![t] = k]
  /\ names' = names + 1
  /\ disturbed' = IF Unsettled THEN disturbed \cup {t} ELSE disturbed \ {t}
  /\ UNCHANGED <<received, link>>

(* A create keeps the name for its completion; the variant does not.       *)
NotReferenced(t) == 0
Referenced(t) == IF op[t] = "create" THEN 1 ELSE 0

(* ShouldExcludePath: the agent's own I/O is left alone; the variant's     *)
(* callback for writes does not ask.                                       *)
ExceptWrites(t) == agentPid /\ t \in AgentThreads /\ op[t] # "write"
ShouldExclude(t) == agentPid /\ t \in AgentThreads

Exclude(t) == /\ ShouldExclude(t)
              /\ Goes(t, "named", "idle")
              /\ names' = names - 1
              /\ UNCHANGED <<op, received, link, disturbed>>

(* The name goes with a create to its completion ...                       *)
Forward(t) == /\ ~ShouldExclude(t) /\ op[t] = "create"
              /\ Goes(t, "named", "completing")
              /\ names' = names + Referenced(t) - 1
              /\ UNCHANGED <<op, received, link, disturbed>>

(* ... or into an event, unless there is nothing to report: the file has   *)
(* no name or none that parses, a kernel thread is at work, or the         *)
(* set-information is neither a delete nor a rename.                       *)
Build(t) == /\ ~ShouldExclude(t) /\ op[t] # "create"
            /\ Goes(t, "named", "built")
            /\ UNCHANGED <<op, names, received, link, disturbed>>

Ignore(t) == /\ ~ShouldExclude(t)
             /\ Goes(t, "named", "idle")
             /\ names' = names - 1
             /\ UNCHANGED <<op, received, link, disturbed>>

(* The completion of a create that succeeded ...                           *)
Complete(t) == /\ unload # "unregistering"
               /\ Goes(t, "completing", "built")
               /\ UNCHANGED <<op, names, received, link, disturbed>>

(* ... that failed, or that is drained; the variant forgets the name.      *)
Forgotten == 0
Released == 1

Drain(t) == /\ Goes(t, "completing", "idle")
            /\ names' = names - Released
            /\ UNCHANGED <<op, received, link, disturbed>>

(* SendFileEventToAgent looks at the port once more ...                    *)
Send(t) == /\ Goes(t, "built", IF port THEN "sending" ELSE "sent")
           /\ UNCHANGED <<op, names, received, link, disturbed>>

(* ... and waits until the agent's FilterGetMessage takes the message ...  *)
GetMessage(t) ==
  /\ conn = "open"
  /\ Goes(t, "sending", "sent")
  /\ received' = received \cup {[own |-> t \in AgentThreads, disturbed |-> t \in disturbed]}
  /\ UNCHANGED <<op, names, link, disturbed>>

(* ... but no longer than FS_SEND_TIMEOUT_100NS; the variant waits on.     *)
WaitsOn == FALSE
TimeIsUp == TRUE

SendTimesOut(t) == /\ TimeIsUp
                   /\ Goes(t, "sending", "sent")
                   /\ UNCHANGED <<op, names, received, link, disturbed>>

Finish(t) == /\ Goes(t, "sent", "idle")
             /\ names' = names - 1
             /\ UNCHANGED <<op, received, link, disturbed>>

-----------------------------------------------------------------------------
(* FilterConnectNotify stores the port ...                                 *)
Connect == /\ server /\ conn = "none" /\ connections < MaxConnections
           /\ conn' = "storing" /\ connections' = connections + 1
           /\ port' = TRUE
           /\ disturbed' = disturbed \cup Busy
           /\ UNCHANGED <<io, agentPid, server, unload>>

(* ... and then the process id.                                            *)
Connected == /\ conn = "storing"
             /\ conn' = "open" /\ agentPid' = TRUE
             /\ UNCHANGED <<io, port, server, connections, unload, disturbed>>

ClosePort == /\ port' = FALSE
             /\ pc' = [t \in Threads |-> IF pc[t] = "sending" THEN "sent" ELSE pc[t]]

(* The agent closes its handle, or dies: FilterDisconnectNotify closes the *)
(* port and then forgets the process id.                                   *)
Disconnect == /\ conn = "open"
              /\ conn' = "closing" /\ ClosePort
              /\ UNCHANGED <<op, names, received, agentPid, server, connections, unload,
                             disturbed>>

Disconnected == /\ conn = "closing"
                /\ conn' = "none" /\ agentPid' = FALSE
                /\ UNCHANGED <<io, port, server, connections, unload, disturbed>>

-----------------------------------------------------------------------------
UnloadStep(from, to) == unload = from /\ unload' = to

(* CleanupFilterCommPort: the client's port, the process id, the server's  *)
(* port.  The agent may connect again before the last.                     *)
CloseClient == /\ UnloadStep("no", "clientClosed")
               /\ ClosePort
               /\ disturbed' = disturbed \cup Busy
               /\ UNCHANGED <<op, names, received, agentPid, server, conn, connections>>

ForgetAgent == /\ UnloadStep("clientClosed", "agentForgotten")
               /\ agentPid' = FALSE
               /\ UNCHANGED <<io, port, server, conn, connections, disturbed>>

CloseServer == /\ UnloadStep("agentForgotten", "unregistering")
               /\ server' = FALSE
               /\ UNCHANGED <<io, port, agentPid, conn, connections, disturbed>>

(* FltUnregisterFilter returns.                                            *)
Unregistered == /\ UnloadStep("unregistering", "unloaded")
                /\ Busy = {} /\ conn # "storing"
                /\ UNCHANGED <<io, port, agentPid, server, conn, connections, disturbed>>

-----------------------------------------------------------------------------
Callback(t) == \/ Exclude(t) \/ Forward(t) \/ Build(t) \/ Ignore(t)
               \/ Complete(t) \/ Drain(t) \/ Send(t) \/ SendTimesOut(t) \/ Finish(t)

Agent == Connect \/ Connected \/ Disconnect \/ Disconnected

Unload == CloseClient \/ ForgetAgent \/ CloseServer \/ Unregistered

Next == \/ \E t \in Threads : Begin(t) \/ Callback(t) \/ GetMessage(t)
        \/ Agent
        \/ Unload

(* The file system completes what it began and threads run on; nothing is  *)
(* asked of the agent.                                                     *)
Fairness == \A t \in Threads : WF_vars(Callback(t))

Spec == Init /\ [][Next]_vars

FairSpec == Spec /\ Fairness

-----------------------------------------------------------------------------
(* Every variable has its type, the count of references included.          *)
TypeOK ==
  /\ pc \in [Threads -> {"idle", "named", "completing", "built", "sending", "sent"}]
  /\ op \in [Threads -> Operations] /\ names \in Nat
  /\ port \in BOOLEAN /\ agentPid \in BOOLEAN /\ server \in BOOLEAN
  /\ conn \in {"none", "storing", "open", "closing"}
  /\ connections \in 0 .. MaxConnections
  /\ unload \in {"no", "clientClosed", "agentForgotten", "unregistering", "unloaded"}
  /\ disturbed \subseteq Threads /\ received \subseteq [own : BOOLEAN, disturbed : BOOLEAN]

(* A name is held exactly by the operations that need it, on every path,   *)
(* so that none is left when the filter is gone.                           *)
NamesAreReleased == names = Cardinality(Busy)

(* The agent hears of its own I/O only if the operation overlapped a       *)
(* connect or the unload, however often it disconnects and connects.       *)
OwnIoIsSkipped == [own |-> TRUE, disturbed |-> FALSE] \notin received

(* Every operation gets through the filter, although the agent may hang,   *)
(* die or reconnect at any time.                                           *)
IoCompletes == \A t \in Threads : (pc[t] # "idle") ~> (pc[t] = "idle")

=============================================================================
