----------------------- MODULE InputLockstepAgreement ------------------------
(* Input lockstep implements AgreedInputs. *)
EXTENDS InputLockstep, Sequences

\* A frame a node will not step again: its records have left the buffer, or
\* all of them are canonical and no rollback reaches back to it.
Settled(n, f) ==
    \/ f < nextFrame[n] - BufferedFrames
    \/ /\ \A p \in Player : IsCanonical(n, p, f)
       /\ rollback[n] = NoFrame \/ f < rollback[n]

\* The length of the settled prefix of a node's simulation.
SettledFrames(n) ==
    Max({k \in 0 .. nextFrame[n] : \A f \in Frame : f < k => Settled(n, f)})

Prefix(n, k) == [i \in 1 .. k |-> game[n][i - 1]]

Agreed == INSTANCE AgreedInputs WITH
    log     <- Prefix(Host, nextFrame[Host]),
    applied <- [n \in Node |-> Prefix(n, SettledFrames(n))]

\* The settled prefix of each simulation is a prefix of the host's, and only
\* grows: prediction and rollback stay invisible behind it.
ImplementsAgreedInputs == Agreed!Spec
=============================================================================
