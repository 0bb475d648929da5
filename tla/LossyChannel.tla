---------------------------- MODULE LossyChannel ----------------------------
(***************************************************************************)
(* What the driver's event queue promises to the agent, and nothing about  *)
(* how: an event is either lost before it enters the channel or enters it  *)
(* once; what has entered leaves in the same order, once, towards the      *)
(* agent, or is thrown away with all the rest when the channel is emptied. *)
(***************************************************************************)
EXTENDS Sequences, Functions

CONSTANT Event     (* everything that can be sent *)

VARIABLES chan,    (* the events on their way to the agent, oldest first *)
          got,     (* the events the agent has, in the order it got them *)
          lost     (* the events that will never arrive *)

vars == <<chan, got, lost>>

(* The events whose fate the channel knows: none of them is accepted again. *)
Seen == Range(chan) \cup Range(got) \cup lost

Init == /\ chan = <<>>
        /\ got = <<>>
        /\ lost = {}

Send(e) == /\ e \notin Seen
           /\ chan' = Append(chan, e)
           /\ UNCHANGED <<got, lost>>

Lose(e) == /\ e \notin Seen
           /\ lost' = lost \cup {e}
           /\ UNCHANGED <<chan, got>>

Receive == /\ chan # <<>>
           /\ got' = Append(got, Head(chan))
           /\ chan' = Tail(chan)
           /\ UNCHANGED lost

Empty == /\ lost' = lost \cup Range(chan)
         /\ chan' = <<>>
         /\ UNCHANGED got

Next == \/ \E e \in Event : Send(e) \/ Lose(e)
        \/ Receive
        \/ Empty

Spec == Init /\ [][Next]_vars

=============================================================================
