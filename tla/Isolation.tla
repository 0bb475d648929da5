------------------------------ MODULE Isolation -------------------------------
(***************************************************************************)
(* Network isolation (ResponseEngine.cpp) and the command thread that      *)
(* carries it out (Agent.cpp): one pipe, one client at a time, three runs  *)
(* of netsh for each ISOLATE and each UNISOLATE.  The firewall's rules     *)
(* survive the agent, its flag does not; a netsh that takes more than five *)
(* seconds goes on by itself, also after the agent's death.                *)
(*                                                                         *)
(* External: netsh.  "add rule" adds one more rule of the name, "delete    *)
(* rule" deletes all of that name, either may fail or hang.                *)
(***************************************************************************)
EXTENDS Naturals, Sequences, Functions

CONSTANTS Clients,     (* the threads that send commands                   *)
          NoClient,    (* the pipe's client when it has none               *)
          RuleNames    (* the agent's firewall rules, in the order in      *)
                       (* which they are added and deleted                 *)

ASSUME IsolationAssumption ==
  NoClient \notin Clients /\ RuleNames \in Seq(STRING) /\ RuleNames # <<>>

Rules == Range(RuleNames)
Ops == {"add", "delete"}
Netsh == [op : Ops, rule : Rules]

(* KILL, QUARANTINE and STATUS leave the firewall alone.                   *)
Commands == {"ISOLATE", "UNISOLATE"}

VARIABLES
  rules,       (* the names of the agent's rules that are in the firewall  *)
  late,        (* what the runs of netsh do that nobody waits for any more *)
  isolated,    (* g_IsIsolated                                             *)
  commander,   (* where CommandWorkerThread is                             *)
  caller,      (* the client of its pipe                                   *)
  command,     (* the command it carries out                               *)
  script,      (* the runs of netsh that are left of it                    *)
  settled      (* history: the last command that was begun, "unclear" if   *)
               (* anything came in its way                                 *)

thread == <<commander, caller, command, script>>
isolation == <<rules, late, isolated, thread, settled>>

IsolationInit ==
  /\ rules = {} /\ late = {} /\ isolated = FALSE
  /\ commander = "none" /\ caller = NoClient /\ command = "none" /\ script = <<>>
  /\ settled = "UNISOLATE"

-----------------------------------------------------------------------------
CommanderGoes(from, to) == commander = from /\ commander' = to

(* InitializeResponseEngine, and the command thread's start.               *)
StartCommander == /\ CommanderGoes("none", "closed")
                  /\ isolated' = FALSE
                  /\ UNCHANGED <<rules, late, caller, command, script, settled>>

CreateCommandPipe ==
  /\ CommanderGoes("closed", "listening")
  /\ UNCHANGED <<rules, late, isolated, caller, command, script, settled>>

Run(op) == [i \in DOMAIN RuleNames |-> [op |-> op, rule |-> RuleNames[i]]]

(* IsolateEndpoint adds the rules, RemoveEndpointIsolation deletes them,   *)
(* whatever the flag says; the variant trusts the flag.                    *)
ScriptByFlag(cmd) == IF cmd = "ISOLATE" THEN Run("add")
                     ELSE IF isolated THEN Run("delete") ELSE <<>>
ScriptOf(cmd) == IF cmd = "ISOLATE" THEN Run("add") ELSE Run("delete")

(* SendCommandToSelf: CreateFileW finds the pipe listening, and the thread *)
(* reads what is written to it ...                                         *)
SendCommand(c, cmd) ==
  /\ CommanderGoes("listening", "run")
  /\ caller' = c /\ command' = cmd /\ script' = ScriptOf(cmd)
  /\ settled' = IF late = {} THEN cmd ELSE "unclear"
  /\ UNCHANGED <<rules, late, isolated>>

(* ... or there is no instance without a client, which is not waited for.  *)
CannotConnect == commander # "listening" /\ UNCHANGED isolation

(* CreateProcessW succeeds, or fails and the next command is tried.  After *)
(* an earlier success RemoveEndpointIsolation then waits for, and closes,  *)
(* a handle it has closed before.                                          *)
LaunchNetsh ==
  /\ script # <<>>
  /\ \/ CommanderGoes("run", "wait") /\ UNCHANGED <<script, settled>>
     \/ CommanderGoes("run", "run") /\ script' = Tail(script) /\ settled' = "unclear"
  /\ UNCHANGED <<rules, late, isolated, caller, command>>

Applied(p) == IF p.op = "add" THEN rules \cup {p.rule} ELSE rules \ {p.rule}

(* netsh ends in time, its exit code is not looked at.                     *)
NetshEnds ==
  /\ CommanderGoes("wait", "run")
  /\ script' = Tail(script)
  /\ \/ rules' = Applied(Head(script)) /\ UNCHANGED settled
     \/ settled' = "unclear" /\ UNCHANGED rules
  /\ UNCHANGED <<late, isolated, caller, command>>

(* The five seconds are over; the variant waits for ever.                  *)
WaitsForEver == FALSE
TimeIsUp == TRUE

WaitEnds ==
  /\ CommanderGoes("wait", "run") /\ TimeIsUp
  /\ script' = Tail(script)
  /\ late' = late \cup {Head(script).op} /\ settled' = "unclear"
  /\ UNCHANGED <<rules, isolated, caller, command>>

(* The flag is set, whatever became of the runs, and the client answered.  *)
FinishCommand ==
  /\ script = <<>> /\ CommanderGoes("run", "closed")
  /\ isolated' = (command = "ISOLATE")
  /\ caller' = NoClient /\ command' = "none"
  /\ UNCHANGED <<rules, late, script, settled>>

(* The loop's test, or a cancelled ConnectNamedPipe, after the stop event. *)
CommanderEnds == /\ commander \in {"closed", "listening"} /\ commander' = "ended"
                 /\ UNCHANGED <<rules, late, isolated, caller, command, script, settled>>

(* A netsh that nobody waits for ends, whichever rule it was about;        *)
(* another one that does the same may go on.                               *)
LateNetshEnds(p) == /\ p.op \in late /\ late' \in {late, late \ {p.op}}
                    /\ rules' \in {rules, Applied(p)}
                    /\ UNCHANGED <<isolated, thread, settled>>

(* The agent's process ends, in the middle of whatever it does.            *)
AgentDies ==
  /\ commander' = "none" /\ caller' = NoClient /\ command' = "none" /\ script' = <<>>
  /\ isolated' = FALSE
  /\ late' = (IF commander = "wait" THEN late \cup {Head(script).op} ELSE late)
  /\ settled' = (IF commander \in {"run", "wait"} THEN "unclear" ELSE settled)
  /\ UNCHANGED rules

CommanderStep == CreateCommandPipe \/ LaunchNetsh \/ WaitEnds \/ FinishCommand

-----------------------------------------------------------------------------
IsolationTypeOK ==
  /\ rules \subseteq Rules /\ late \subseteq Ops /\ isolated \in BOOLEAN
  /\ commander \in {"none", "closed", "listening", "run", "wait", "ended"}
  /\ caller \in Clients <=> commander \in {"run", "wait"}
  /\ command \in Commands <=> caller \in Clients
  /\ script \in Seq(Netsh) /\ (commander = "wait" => script # <<>>)
  /\ settled \in Commands \cup {"unclear"}

(* Once a firewall command is carried out, with no netsh failing or late,  *)
(* all the rules are there or all are gone, also when the agent died       *)
(* before it, in the middle of other commands, or after it; and the flag   *)
(* does not say "isolated" without them.                                   *)
RulesFollowCommand ==
  commander \notin {"run", "wait"} =>
    /\ settled = "ISOLATE" => rules = Rules
    /\ settled = "UNISOLATE" => rules = {} /\ ~isolated

=============================================================================
