--------------------------- MODULE MCInputLockstep ---------------------------
(* Instances of InputLockstep for TLC. *)
EXTENDS InputLockstepAgreement, TLC

CONSTANTS host, peer

\* The host's player and one peer's player.
TwoNodes == {host, peer}
TwoPlayers == {1, 2}
OwnerOfTwo == (1 :> host) @@ (2 :> peer)
\* Only the host's player changes its input: the peer has to predict it.
HostVaries == (1 :> {0, 1}) @@ (2 :> {1})
\* Only the peer's player does: the host waits for it, the peer holds several
\* records of a frame.
PeerVaries == (1 :> {1}) @@ (2 :> {0, 1})
====
