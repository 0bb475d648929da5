---------------------------- MODULE MCEventBuffer ----------------------------
(* Instances of EventBuffer for TLC.                                        *)
EXTENDS EventBuffer

(* A thread event is small, a process event fills the agent's buffer.       *)
MCSize == [k \in Kinds |-> IF k = "Thread" THEN 1 ELSE 2]

=============================================================================
