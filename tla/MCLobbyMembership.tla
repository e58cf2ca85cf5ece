-------------------------- MODULE MCLobbyMembership --------------------------
(* An instance of LobbyMembership for TLC. *)
EXTENDS LobbyMembership, TLC

\* An address is only compared with another: which of them joins does not matter.
AnyEndpoint == Permutations(Endpoint)
==============================================================================
