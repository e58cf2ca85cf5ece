---------------------------- MODULE AgreedInputs -----------------------------
(***************************************************************************)
(* What input lockstep promises: one session-wide log of input vectors,    *)
(* written only at its end by the host, of which every node has applied a  *)
(* prefix that only grows.  Prediction, rollback, packets and windows are  *)
(* not visible here.                                                       *)
(***************************************************************************)
EXTENDS Naturals, Sequences

CONSTANTS Node, Host, InputVector

VARIABLES
    log,        \* the input vectors agreed so far, one per frame
    applied     \* the confirmed part of each node's simulation

vars == <<log, applied>>

Init ==
    /\ log = <<>>
    /\ applied = [n \in Node |-> <<>>]

\* The host steps a frame: its inputs are agreed from then on.
Decide(inputs) ==
    /\ log' = Append(log, inputs)
    /\ applied' = [applied EXCEPT ![Host] = log']

\* A node confirms some more of the agreed frames.
Confirm(n) ==
    /\ \E k \in (Len(applied[n]) + 1) .. Len(log) :
          applied' = [applied EXCEPT ![n] = SubSeq(log, 1, k)]
    /\ UNCHANGED log

Next ==
    \/ \E inputs \in InputVector : Decide(inputs)
    \/ \E n \in Node \ {Host} : Confirm(n)

Spec == Init /\ [][Next]_vars
=============================================================================
