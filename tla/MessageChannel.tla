--------------------------- MODULE MessageChannel ---------------------------
(***************************************************************************)
(* What eedit's threads expect of an event_queue, whatever its locking: a  *)
(* FIFO channel that neither loses, duplicates nor reorders a message, and *)
(* that hands every accepted message over in the end.                      *)
(***************************************************************************)
EXTENDS Naturals, Sequences

CONSTANT Msg          \* the messages that can be sent

VARIABLES sent,       \* every message accepted so far, in order
          received    \* every message handed to the consumer so far, in order

vars == <<sent, received>>

Init == /\ sent = <<>>
        /\ received = <<>>

Send(m) == /\ sent' = Append(sent, m)
           /\ UNCHANGED received

Receive == /\ Len(received) < Len(sent)
           /\ received' = Append(received, sent[Len(received) + 1])
           /\ UNCHANGED sent

Next == (\E m \in Msg : Send(m)) \/ Receive

SafeSpec == Init /\ [][Next]_vars

Spec == SafeSpec /\ WF_vars(Receive)

=============================================================================
