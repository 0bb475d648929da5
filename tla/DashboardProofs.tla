--------------------------- MODULE DashboardProofs ---------------------------
(***************************************************************************)
(* Proofs about Dashboard, and about Isolation as a part of it, for any    *)
(* threads of the pool, any notifiers, any rules and any load.             *)
(***************************************************************************)
EXTENDS Dashboard, SequenceTheorems, TLAPS

(* What the command thread has still to do makes up for what the firewall  *)
(* has not got of the command yet.                                         *)
ScriptInv ==
  /\ settled # "unclear" => late = {}
  /\ commander \in {"run", "wait"} =>
       /\ settled \in {command, "unclear"}
       /\ \A i \in DOMAIN script :
            script[i].op = IF command = "ISOLATE" THEN "add" ELSE "delete"
       /\ settled = "ISOLATE" =>
            \A r \in Rules : r \in rules \/ \E i \in DOMAIN script : script[i].rule = r
       /\ settled = "UNISOLATE" =>
            \A r \in rules : \E i \in DOMAIN script : script[i].rule = r

IsolationInv == IsolationTypeOK /\ ScriptInv /\ RulesFollowCommand

(* The server's part of TypeOK.                                            *)
ServerTypes == /\ service \in {"down", "running", "deleted", "cleared"}
               /\ requests \in Seq(Requests) /\ Len(requests) <= MaxWaiting

(* A broadcast that is under way has the mutex.                            *)
StreamInv ==
  /\ worker \in [Pool -> {"free", "waiting", "stream", "listen"}]
  /\ alive \in [Pool -> BOOLEAN]
  /\ sseClients \subseteq Pool /\ targets \subseteq Pool
  /\ notifier \in [Notifiers -> {"idle", "broadcast"}]
  /\ mutex \in Notifiers \cup {Nobody}
  /\ \A n \in Notifiers : mutex = n <=> notifier[n] = "broadcast"
  /\ mutex = Nobody => targets = {}

IInv == IsolationInv /\ ServerTypes /\ StreamInv /\ ClientsAreLive

-----------------------------------------------------------------------------
USE IsolationAssumption, DashboardAssumption DEF IsolationAssumption, DashboardAssumption

(* The firewall, step by step.                                             *)
LEMMA RunIsScript ==
  ASSUME NEW o \in Ops
  PROVE  /\ Run(o) \in Seq(Netsh) /\ DOMAIN Run(o) = DOMAIN RuleNames
         /\ \A i \in DOMAIN RuleNames : Run(o)[i].op = o
         /\ \A r \in Rules : \E i \in DOMAIN Run(o) : Run(o)[i].rule = r
<1>1. \A i \in DOMAIN RuleNames : RuleNames[i] \in Rules
  BY DEF Rules, Range
<1>2. \A r \in Rules : \E i \in DOMAIN RuleNames : RuleNames[i] = r
  BY DEF Rules, Range
<1>3. /\ DOMAIN Run(o) = DOMAIN RuleNames
      /\ \A i \in DOMAIN RuleNames : Run(o)[i] = [op |-> o, rule |-> RuleNames[i]]
  BY DEF Run
<1>4. \A i \in DOMAIN RuleNames : [op |-> o, rule |-> RuleNames[i]] \in Netsh
  BY <1>1 DEF Netsh
<1>5. DOMAIN RuleNames = 1 .. Len(RuleNames) /\ Len(RuleNames) \in Nat
  OBVIOUS
<1>6. Run(o) \in Seq(Netsh)
  BY <1>4, <1>5 DEF Run
<1> QED BY <1>2, <1>3, <1>6

LEMMA SendKeepsIsolation ==
  ASSUME IsolationInv, NEW c \in Clients, NEW cmd \in Commands, SendCommand(c, cmd)
  PROVE  IsolationInv'
<1>1. script' \in Seq(Netsh)
  BY RunIsScript DEF SendCommand, ScriptOf, Ops
<1>2. IsolationTypeOK'
  BY <1>1 DEF SendCommand, CommanderGoes, IsolationInv, IsolationTypeOK
<1>3. ScriptInv'
  BY RunIsScript DEF SendCommand, CommanderGoes, ScriptOf, ScriptInv, IsolationInv,
     IsolationTypeOK, Ops, Commands
<1> QED BY <1>2, <1>3 DEF IsolationInv, RulesFollowCommand, SendCommand, CommanderGoes

(* A run of netsh takes the head of the script; if it did what it should,  *)
(* its rule is settled.                                                    *)
LEMMA NextRun ==
  ASSUME IsolationInv, script # <<>>, script' = Tail(script)
  PROVE  /\ script' \in Seq(Netsh) /\ Head(script) \in Netsh /\ Head(script) = script[1]
         /\ \A i \in DOMAIN script' : i + 1 \in DOMAIN script /\ script'[i] = script[i + 1]
         /\ \A i \in DOMAIN script :
              i = 1 \/ (i - 1 \in DOMAIN script' /\ script'[i - 1] = script[i])
  BY HeadTailProperties DEF IsolationInv, IsolationTypeOK

LEMMA NetshKeepsIsolation == ASSUME IsolationInv, NetshEnds PROVE IsolationInv'
<1> DEFINE p == Head(script)
<1>1. /\ commander = "wait" /\ commander' = "run" /\ script # <<>> /\ script' = Tail(script)
      /\ UNCHANGED <<late, isolated, caller, command>>
  BY DEF NetshEnds, CommanderGoes, IsolationInv, IsolationTypeOK
<1>2. p \in Netsh /\ p.rule \in Rules /\ p = script[1] /\ 1 \in DOMAIN script
  BY <1>1, NextRun DEF Netsh, IsolationInv, IsolationTypeOK
<1>3. \/ rules' = Applied(p) /\ settled' = settled
      \/ rules' = rules /\ settled' = "unclear"
  BY DEF NetshEnds
<1>4. rules' \subseteq Rules
  BY <1>2, <1>3 DEF Applied, IsolationInv, IsolationTypeOK
<1>5. IsolationTypeOK'
  BY <1>1, <1>3, <1>4, NextRun DEF IsolationInv, IsolationTypeOK
<1>6. \A i \in DOMAIN script' : script'[i].op = IF command' = "ISOLATE" THEN "add" ELSE "delete"
  BY <1>1, NextRun DEF IsolationInv, ScriptInv
<1>7. CASE settled' = "unclear"
  BY <1>1, <1>5, <1>6, <1>7 DEF IsolationInv, ScriptInv, RulesFollowCommand
<1>8. CASE settled' = "ISOLATE"
  <2>1. rules' = rules \cup {p.rule}
    BY <1>1, <1>2, <1>3, <1>8 DEF Applied, IsolationInv, ScriptInv
  <2>2. \A r \in Rules : r \in rules' \/ \E i \in DOMAIN script' : script'[i].rule = r
    <3>1. SUFFICES ASSUME NEW r \in Rules, r \notin rules'
                   PROVE  \E i \in DOMAIN script' : script'[i].rule = r
      OBVIOUS
    <3>2. PICK i \in DOMAIN script : script[i].rule = r
      BY <1>1, <1>3, <1>8, <2>1, <3>1 DEF IsolationInv, ScriptInv
    <3>3. i # 1
      BY <1>2, <2>1, <3>1, <3>2
    <3> QED BY <1>1, <3>2, <3>3, NextRun
  <2> QED BY <1>1, <1>3, <1>5, <1>6, <1>8, <2>2 DEF IsolationInv, ScriptInv, RulesFollowCommand
<1>9. CASE settled' = "UNISOLATE"
  <2>1. rules' = rules \ {p.rule}
    BY <1>1, <1>2, <1>3, <1>9 DEF Applied, IsolationInv, ScriptInv
  <2>2. \A r \in rules' : \E i \in DOMAIN script' : script'[i].rule = r
    <3>1. SUFFICES ASSUME NEW r \in rules'
                   PROVE  \E i \in DOMAIN script' : script'[i].rule = r
      OBVIOUS
    <3>2. PICK i \in DOMAIN script : script[i].rule = r
      BY <1>1, <1>3, <1>9, <2>1, <3>1 DEF IsolationInv, ScriptInv
    <3>3. i # 1
      BY <1>2, <2>1, <3>1, <3>2
    <3> QED BY <1>1, <3>2, <3>3, NextRun
  <2> QED BY <1>1, <1>3, <1>5, <1>6, <1>9, <2>2 DEF IsolationInv, ScriptInv, RulesFollowCommand
<1> QED BY <1>5, <1>7, <1>8, <1>9 DEF IsolationTypeOK, Commands

(* The other steps of the command thread, of a netsh that nobody waits     *)
(* for, and the end of the process.                                        *)
LEMMA CommanderKeepsIsolation ==
  ASSUME IsolationInv, CommanderStep \/ StartCommander \/ CommanderEnds
  PROVE  IsolationInv'
<1> USE DEF CommanderGoes
<1>1. CASE CreateCommandPipe \/ CommanderEnds
  BY <1>1 DEF CreateCommandPipe, CommanderEnds, IsolationInv, IsolationTypeOK, ScriptInv,
              RulesFollowCommand
<1>2. CASE StartCommander
  BY <1>2 DEF StartCommander, IsolationInv, IsolationTypeOK, ScriptInv, RulesFollowCommand
<1>3. CASE LaunchNetsh
  <2>1. CASE commander' = "wait"
    BY <1>3, <2>1 DEF LaunchNetsh, IsolationInv, IsolationTypeOK, ScriptInv, RulesFollowCommand
  <2>2. CASE commander' = "run"
    <3>1. /\ script # <<>> /\ script' = Tail(script) /\ settled' = "unclear" /\ commander = "run"
          /\ UNCHANGED <<rules, late, isolated, caller, command>>
      BY <1>3, <2>2 DEF LaunchNetsh
    <3>2. IsolationTypeOK'
      BY <2>2, <3>1, NextRun DEF IsolationInv, IsolationTypeOK
    <3> QED BY <2>2, <3>1, <3>2, NextRun DEF IsolationInv, ScriptInv, RulesFollowCommand
  <2> QED BY <1>3, <2>1, <2>2 DEF LaunchNetsh
<1>4. CASE WaitEnds
  <2>1. /\ script # <<>> /\ script' = Tail(script) /\ settled' = "unclear"
        /\ commander = "wait" /\ commander' = "run" /\ late' = late \cup {Head(script).op}
        /\ UNCHANGED <<rules, isolated, caller, command>>
    BY <1>4 DEF WaitEnds, IsolationInv, IsolationTypeOK
  <2>2. late' \subseteq Ops
    BY <2>1, NextRun DEF IsolationInv, IsolationTypeOK, Netsh
  <2>3. IsolationTypeOK'
    BY <2>1, <2>2, NextRun DEF IsolationInv, IsolationTypeOK
  <2> QED BY <2>1, <2>3, NextRun DEF IsolationInv, ScriptInv, RulesFollowCommand
<1>5. CASE FinishCommand
  <2>1. /\ script = <<>> /\ commander = "run" /\ commander' = "closed"
        /\ isolated' = (command = "ISOLATE") /\ caller' = NoClient /\ command' = "none"
        /\ UNCHANGED <<rules, late, script, settled>>
    BY <1>5 DEF FinishCommand
  <2>2. DOMAIN script = {}
    BY <2>1
  <2>3. IsolationTypeOK'
    BY <2>1 DEF IsolationInv, IsolationTypeOK, Commands
  <2>4. settled = "ISOLATE" => rules = Rules
    BY <2>1, <2>2 DEF IsolationInv, IsolationTypeOK, ScriptInv
  <2>5. settled = "UNISOLATE" => rules = {} /\ command = "UNISOLATE"
    BY <2>1, <2>2 DEF IsolationInv, ScriptInv
  <2> QED BY <2>1, <2>3, <2>4, <2>5 DEF IsolationInv, ScriptInv, RulesFollowCommand
<1> QED BY <1>1, <1>2, <1>3, <1>4, <1>5 DEF CommanderStep

LEMMA LateKeepsIsolation ==
  ASSUME IsolationInv, NEW p \in Netsh, LateNetshEnds(p)
  PROVE  IsolationInv'
<1>1. settled = "unclear"
  BY DEF LateNetshEnds, IsolationInv, ScriptInv
<1>2. rules' \subseteq Rules /\ late' \subseteq Ops
  BY DEF LateNetshEnds, Applied, Netsh, IsolationInv, IsolationTypeOK
<1> QED BY <1>1, <1>2 DEF LateNetshEnds, IsolationInv, IsolationTypeOK, ScriptInv,
                          RulesFollowCommand, thread

LEMMA DeathKeepsIsolation == ASSUME IsolationInv, AgentDies PROVE IsolationInv'
<1>1. commander = "wait" => Head(script).op \in Ops
  <2>1. script \in Seq(Netsh) /\ (commander = "wait" => script # <<>>)
    BY DEF IsolationInv, IsolationTypeOK
  <2>2. commander = "wait" => Head(script) \in Netsh
    BY <2>1, HeadTailProperties
  <2> QED BY <2>2 DEF Netsh
<1>2. late' \subseteq Ops
  BY <1>1 DEF AgentDies, IsolationInv, IsolationTypeOK
<1>3. script' \in Seq(Netsh) /\ settled' \in Commands \cup {"unclear"}
  BY DEF AgentDies, IsolationInv, IsolationTypeOK
<1>4. IsolationTypeOK'
  BY <1>2, <1>3 DEF AgentDies, IsolationInv, IsolationTypeOK, Commands
<1> QED BY <1>4 DEF AgentDies, IsolationInv, ScriptInv, RulesFollowCommand

LEMMA NextKeepsIsolation == ASSUME IsolationInv, Next PROVE IsolationInv'
<1>1. CASE UNCHANGED isolation
  BY <1>1 DEF IsolationInv, IsolationTypeOK, ScriptInv, RulesFollowCommand, isolation, thread
<1>2. CASE StartWebServer \/ StopCommander \/ Commander
  BY <1>2, CommanderKeepsIsolation DEF StartWebServer, StopCommander, Commander
<1>3. CASE ProcessEnds
  BY <1>3, DeathKeepsIsolation DEF ProcessEnds
<1>4. CASE NetshStep
  BY <1>4, NetshKeepsIsolation, LateKeepsIsolation DEF NetshStep
<1>5. ASSUME NEW t \in Pool, Act(t) PROVE IsolationInv'
  BY <1>1, <1>5, SendKeepsIsolation DEF Act, CannotConnect, Pool
<1>6. ASSUME NEW t \in Pool, Worker(t) \/ Waits(t) \/ BrowserGone(t) PROVE IsolationInv'
  BY <1>1, <1>5, <1>6 DEF Worker, View, ReadAnswer, Stream, Waits, Register,
                          DeleteClient, BrowserGone
<1>7. CASE \/ StopWebServer \/ KillClients \/ \E r \in Requests : Browse(r)
           \/ \E n \in Notifiers : Broadcast(n) \/ Notifier(n)
  BY <1>1, <1>7 DEF StopWebServer, KillClients, Browse, Broadcast, Notifier, WriteTo, Unlock
<1> QED BY <1>2, <1>3, <1>4, <1>6, <1>7 DEF Next

-----------------------------------------------------------------------------
(* The server's own threads, the streams and the broadcasts.               *)
LEMMA TakesKeeps ==
  ASSUME IInv, NEW t \in Pool, NEW r \in Requests, NEW to \in {"free", "waiting", "stream"},
         Takes(t, r, to)
  PROVE  ServerTypes' /\ StreamInv' /\ ClientsAreLive'
<1>1. requests' \in Seq(Requests) /\ Len(requests') <= MaxWaiting
  BY HeadTailProperties, LenProperties DEF Takes, IInv, ServerTypes
<1>2. ServerTypes'
  BY <1>1 DEF Takes, IInv, ServerTypes
<1>3. worker[t] = "free" /\ worker' = [worker EXCEPT ![t] = to]
      /\ UNCHANGED <<streams, mutex, sending>>
  BY DEF Takes, WorkerGoes
<1> QED BY <1>2, <1>3 DEF IInv, StreamInv, ClientsAreLive, Streaming, streams, sending

LEMMA WorkerKeeps ==
  ASSUME IInv, NEW t \in Pool, Worker(t) \/ Waits(t) \/ BrowserGone(t)
  PROVE  ServerTypes' /\ StreamInv' /\ ClientsAreLive'
<1>1. CASE View(t) \/ Act(t) \/ Stream(t)
  BY <1>1, TakesKeeps DEF View, Act, Stream, Requests
<1>2. CASE ReadAnswer(t) \/ Register(t) \/ DeleteClient(t) \/ BrowserGone(t)
  <2>1. ServerTypes'
    BY <1>2 DEF ReadAnswer, Register, DeleteClient, BrowserGone, IInv, ServerTypes,
                server
  <2>2. CASE ReadAnswer(t)
    BY <2>1, <2>2 DEF ReadAnswer, WorkerGoes, IInv, StreamInv, ClientsAreLive, Streaming,
                      streams, sending
  <2>3. CASE Register(t)
    BY <2>1, <2>3 DEF Register, WorkerGoes, IInv, StreamInv, ClientsAreLive, Streaming, sending
  <2>4. CASE DeleteClient(t)
    BY <2>1, <2>4 DEF DeleteClient, WorkerGoes, IInv, StreamInv, ClientsAreLive, Streaming,
                      sending
  <2>5. CASE BrowserGone(t)
    BY <2>1, <2>5 DEF BrowserGone, IInv, StreamInv, ClientsAreLive, Streaming, sending
  <2> QED BY <1>2, <2>2, <2>3, <2>4, <2>5
<1> QED BY <1>1, <1>2 DEF Worker, Waits

LEMMA NotifierKeeps ==
  ASSUME IInv, NEW n \in Notifiers, Broadcast(n) \/ Notifier(n)
  PROVE  ServerTypes' /\ StreamInv' /\ ClientsAreLive'
<1>1. ServerTypes'
  BY DEF Broadcast, Notifier, WriteTo, Unlock, IInv, ServerTypes, server
<1>2. CASE Broadcast(n)
  BY <1>1, <1>2 DEF Broadcast, NotifierGoes, IInv, StreamInv, ClientsAreLive, Streaming, streams
<1>3. ASSUME NEW t \in Pool, WriteTo(n, t) PROVE StreamInv' /\ ClientsAreLive'
  BY <1>3 DEF WriteTo, IInv, StreamInv, ClientsAreLive, Streaming, streams
<1>4. CASE Unlock(n)
  BY <1>1, <1>4 DEF Unlock, Unlocked, AllWritten, NotifierGoes, IInv, StreamInv, ClientsAreLive,
                    Streaming, streams
<1> QED BY <1>1, <1>2, <1>3, <1>4 DEF Notifier

LEMMA LifeKeeps ==
  ASSUME IInv,
         \/ StartWebServer \/ StopWebServer \/ KillClients \/ StopCommander \/ ProcessEnds
         \/ Commander \/ NetshStep \/ \E r \in Requests : Browse(r)
  PROVE  ServerTypes' /\ StreamInv' /\ ClientsAreLive'
<1>1. CASE StartWebServer \/ StopWebServer \/ StopCommander \/ Commander \/ NetshStep
  <2>1. ServerTypes'
    BY <1>1 DEF StartWebServer, StopWebServer, StopCommander, Commander, NetshStep, Elsewhere,
                IInv, ServerTypes, server
  <2>2. UNCHANGED <<worker, streams, mutex, sending>>
    BY <1>1 DEF StartWebServer, StopWebServer, StopCommander, Commander, NetshStep, Elsewhere
  <2> QED BY <2>1, <2>2 DEF IInv, StreamInv, ClientsAreLive, Streaming, streams, sending
<1>2. CASE KillClients
  BY <1>2 DEF KillClients, IInv, ServerTypes, StreamInv, ClientsAreLive, Streaming, sending
<1>3. CASE ProcessEnds
  BY <1>3 DEF ProcessEnds, IInv, ServerTypes, StreamInv, ClientsAreLive, Streaming
<1>4. ASSUME NEW r \in Requests, Browse(r) PROVE ServerTypes' /\ StreamInv' /\ ClientsAreLive'
  <2>1. ServerTypes'
    BY <1>4, AppendProperties DEF Browse, IInv, ServerTypes
  <2> QED BY <1>4, <2>1 DEF Browse, IInv, StreamInv, ClientsAreLive, Streaming, streams, sending
<1> QED BY <1>1, <1>2, <1>3, <1>4

LEMMA InitIInv == Init => IInv
<1> SUFFICES ASSUME Init PROVE IInv
  OBVIOUS
<1>1. IsolationTypeOK
  <2>1. caller \notin Clients /\ command \notin Commands /\ settled \in Commands
    BY IsolationAssumption DEF Init, IsolationInit, Commands
  <2>2. script \in Seq(Netsh)
    BY DEF Init, IsolationInit
  <2>3. rules \subseteq Rules /\ late \subseteq Ops /\ isolated \in BOOLEAN /\ commander = "none"
    BY DEF Init, IsolationInit
  <2> QED BY <2>1, <2>2, <2>3 DEF IsolationTypeOK
<1>2. IsolationInv
  BY <1>1 DEF Init, IsolationInit, IsolationInv, ScriptInv, RulesFollowCommand
<1>3. ServerTypes
  BY DEF Init, ServerTypes
<1> QED BY <1>2, <1>3 DEF Init, IInv, StreamInv, ClientsAreLive, Streaming

LEMMA NextKeepsIInv == IInv /\ [Next]_vars => IInv'
<1> SUFFICES ASSUME IInv, [Next]_vars PROVE IInv'
  OBVIOUS
<1>1. CASE UNCHANGED vars
  BY <1>1 DEF vars, isolation, thread, server, streams, sending, IInv, IsolationInv,
              IsolationTypeOK, ScriptInv, RulesFollowCommand, ServerTypes, StreamInv,
              ClientsAreLive, Streaming
<1>2. CASE Next
  <2>1. IsolationInv'
    BY <1>2, NextKeepsIsolation DEF IInv
  <2>2. ServerTypes' /\ StreamInv' /\ ClientsAreLive'
    BY <1>2, WorkerKeeps, NotifierKeeps, LifeKeeps DEF Next
  <2> QED BY <2>1, <2>2 DEF IInv
<1> QED BY <1>1, <1>2

LEMMA InvariantHolds == Spec => []IInv
  BY InitIInv, NextKeepsIInv, PTL DEF Spec

-----------------------------------------------------------------------------
(* Every variable of the server and of the isolation keeps its type, and   *)
(* the mutex of the streams is held by the thread that broadcasts.         *)
THEOREM TypeCorrect == Spec => []TypeOK
<1>1. IInv => TypeOK
  BY DEF IInv, IsolationInv, ServerTypes, StreamInv, TypeOK
<1> QED BY <1>1, InvariantHolds, PTL

(* However many streams, notifiers and stops there are, a broadcast comes  *)
(* to every stream that is alive and to no client that is deleted.         *)
THEOREM ClientsLive == Spec => []ClientsAreLive
<1>1. IInv => ClientsAreLive
  BY DEF IInv
<1> QED BY <1>1, InvariantHolds, PTL

(* For any set of firewall rules, a command that was carried out with no   *)
(* netsh failing or late has its effect on all of them, whatever commands  *)
(* and deaths of the agent came before.                                    *)
THEOREM RulesFollow == Spec => []RulesFollowCommand
<1>1. IInv => RulesFollowCommand
  BY DEF IInv, IsolationInv
<1> QED BY <1>1, InvariantHolds, PTL

=============================================================================
