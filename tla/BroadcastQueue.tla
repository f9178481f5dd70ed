--------------------------- MODULE BroadcastQueue ---------------------------
(***************************************************************************)
(* What MessageQueue promises: one writer, and every reader receives all   *)
(* that is sent, in the order it was sent, nothing twice.                  *)
(***************************************************************************)
EXTENDS Naturals, Sequences

CONSTANTS Readers, Messages

VARIABLES sent,       \* all messages sent so far
          received    \* reader -> all messages it has received so far
vars == <<sent, received>>

Init == sent = <<>> /\ received = [r \in Readers |-> <<>>]

Send(m) == sent' = Append(sent, m) /\ UNCHANGED received

Receive(r) ==
    /\ Len(received[r]) < Len(sent)
    /\ received' = [received EXCEPT ![r] = Append(@, sent[Len(@) + 1])]
    /\ UNCHANGED sent

Next == (\E m \in Messages : Send(m)) \/ (\E r \in Readers : Receive(r))

Spec == Init /\ [][Next]_vars /\ \A r \in Readers : WF_vars(Receive(r))
=============================================================================
