------------------------- MODULE LobbyMembershipProofs -------------------------
(***************************************************************************)
(* Proofs about LobbyMembership, for every number of endpoints, ids,       *)
(* items and snapshots.  Those about the players and their items assume    *)
(* that the players do not change while the host has a rollback to replay. *)
(*                                                                         *)
(* The inductive invariant says of every snapshot the host may still       *)
(* restore what must hold of the simulation it would replace: it has       *)
(* today's slots, and nothing in it is in a record as well.                *)
(***************************************************************************)
EXTENDS LobbyMembership, TLAPS

\* A simulation that may be the present one, with the records there are.
Sound(w) ==
    /\ InOnePlace(w)
    /\ \A i \in Id \ w.slots : w.carried[i] = {}

SnapshotsAreSound ==
    /\ requested <= calm
    /\ \A k \in 1 .. Len(saved) :
          k <= calm => saved[k].slots = world.slots /\ Sound(saved[k])

RecordsAreSound ==
    \A i \in Id : retained[i] # NoRecord =>
        /\ i \notin world.slots
        /\ retained[i].since <= played
        /\ world.frame - retained[i].frame <= played - retained[i].since

\* With TypeOK, the inductive invariant.
Core == EveryPlayerHasAnEndpoint /\ SnapshotsAreSound /\ Sound(world) /\ RecordsAreSound

-----------------------------------------------------------------------------
(* Types                                                                   *)

LEMMA IdsForAreIds ==
    ASSUME TypeOK, NEW e \in Endpoint, NEW r \in Request
    PROVE  IdsFor(e, r) \subseteq Id
BY DEF TypeOK, IdsFor, PreferredIds, NewIds, Least, Request, Id, FirstRemotePlayerId

LEMMA RemovalKeepsType ==
    ASSUME TypeOK, NEW ids \in SUBSET Id, RemoveRemotePlayers(ids)
    PROVE  /\ world' \in World /\ saved' \in Seq(World) /\ Len(saved') <= Window
           /\ calm' \in 0 .. Window + 1 /\ requested' \in 0 .. Len(saved')
           /\ blocked' \in BOOLEAN /\ connected' \subseteq Id
           /\ remotes' \in [Endpoint -> SUBSET Id]
           /\ retained' \in [Id -> Record \cup {NoRecord}]
<1>1. /\ saved' = saved /\ requested' = requested /\ calm' = 0 /\ blocked' = TRUE
  BY DEF RemoveRemotePlayers, TopologyChanged
<1>2. world' \in World
  BY DEF TypeOK, World, RemoveRemotePlayers, DeactivateDepartingPlayerEnt
<1>3. retained' \in [Id -> Record \cup {NoRecord}]
  BY DEF TypeOK, World, RemoveRemotePlayers, StoreRetainedPlayerState, Record
<1>4. connected' \subseteq Id /\ remotes' \in [Endpoint -> SUBSET Id]
  BY DEF TypeOK, RemoveRemotePlayers, ForgetPlayersOfRemotes
<1> QED
  BY <1>1, <1>2, <1>3, <1>4, BoundAssumption DEF TypeOK

LEMMA AcceptKeepsType ==
    ASSUME TypeOK, NEW e \in Endpoint, NEW r \in Request, AcceptJoinRequest(e, r)
    PROVE  /\ world' \in World /\ saved' \in Seq(World) /\ Len(saved') <= Window
           /\ calm' \in 0 .. Window + 1 /\ requested' \in 0 .. Len(saved')
           /\ blocked' \in BOOLEAN /\ connected' \subseteq Id
           /\ remotes' \in [Endpoint -> SUBSET Id] /\ remotes'[e] = IdsFor(e, r)
           /\ pending' \in [Endpoint -> Request \cup {NoRequest}]
           /\ retained' \in [Id -> Record \cup {NoRecord}]
           /\ nextId' \in FirstRemotePlayerId .. MaxId + 1
<1> DEFINE ids == IdsFor(e, r)
<1>0. ids \subseteq Id
  BY IdsForAreIds
<1>1. /\ saved' = saved /\ requested' = requested /\ calm' = 0 /\ blocked' = TRUE
      /\ pending' = [pending EXCEPT ![e] = NoRequest]
  BY DEF AcceptJoinRequest, TopologyChanged
<1>2. /\ GiveBodies(ids) /\ RemoveRetainedPlayerState(ids)
      /\ connected' = connected \cup ids /\ remotes' = [remotes EXCEPT ![e] = ids]
      /\ nextId' = nextId \/ nextId' \in IdsAfter(r)
  BY DEF AcceptJoinRequest, Admit, RegisterRemoteEndpoint
<1> HIDE DEF ids
<1>3. \A i \in Id : GivenBack(i) \in SUBSET Item
  BY DEF TypeOK, GivenBack, Record, NoRecord
<1>4. world' \in World
  BY <1>0, <1>2, <1>3 DEF TypeOK, World, GiveBodies
<1>5. retained' \in [Id -> Record \cup {NoRecord}]
  BY <1>2 DEF TypeOK, RemoveRetainedPlayerState
<1>6. nextId' \in FirstRemotePlayerId .. MaxId + 1
  BY <1>2, BoundAssumption DEF TypeOK, IdsAfter, FirstRemotePlayerId
<1>7. connected' \subseteq Id /\ remotes' \in [Endpoint -> SUBSET Id] /\ remotes'[e] = ids
  BY <1>0, <1>2 DEF TypeOK
<1>8. pending' \in [Endpoint -> Request \cup {NoRequest}]
  BY <1>1 DEF TypeOK
<1> QED
  BY <1>1, <1>4, <1>5, <1>6, <1>7, <1>8, BoundAssumption DEF TypeOK, ids

\* What the processes and the packets are.
ClientType ==
    [is : {"out", "asking", "in", "gone"}, request : Request \cup {NoRequest},
     ids : SUBSET Id]

LEMMA InitIsTyped == Init => TypeOK
<1> SUFFICES ASSUME Init PROVE TypeOK
  OBVIOUS
<1>1. world \in World
  BY DEF Init, World
<1>2. saved \in Seq(World) /\ Len(saved) = 0
  BY DEF Init
<1>3. /\ client \in [Endpoint -> ClientType]
      /\ \A e \in Endpoint : client[e].is = "asking" => client[e].request \in Request
  BY DEF Init, ClientType
<1>4. nextId \in FirstRemotePlayerId .. MaxId + 1
  BY BoundAssumption DEF Init, FirstRemotePlayerId
<1>5. /\ Len(saved) <= Window /\ calm \in 0 .. Window + 1 /\ requested \in 0 .. Len(saved)
      /\ played \in 0 .. MaxPlayed /\ stage \in 0 .. MaxStage
      /\ cuts \in 0 .. MaxCuts /\ sent \in 0 .. MaxRequests
  BY <1>2, BoundAssumption DEF Init
<1>6. /\ mode = "Playing" /\ blocked \in BOOLEAN
      /\ connected \subseteq Id /\ remotes \in [Endpoint -> SUBSET Id]
      /\ pending \in [Endpoint -> Request \cup {NoRequest}]
      /\ retained \in [Id -> Record \cup {NoRecord}]
      /\ spawnMode \in SpawnModes /\ net \subseteq Packet
  BY DEF Init
<1> QED
  BY <1>1, <1>2, <1>3, <1>4, <1>5, <1>6 DEF TypeOK, ClientType

LEMMA ReplayedIsTyped ==
    ASSUME TypeOK
    PROVE  Replayed \in World /\ Replayed.frame = world.frame
<1>1. CASE requested = 0
  BY <1>1 DEF TypeOK, Replayed
<1>2. CASE requested # 0
  <2>1. saved[requested] \in World
    BY <1>2 DEF TypeOK
  <2> QED
    BY <1>2, <2>1 DEF TypeOK, Replayed, World
<1> QED
  BY <1>1, <1>2

LEMMA MovesAreTwo ==
    ASSUME NEW v, NEW w \in Moves(v)
    PROVE  \/ w = v
           \/ \E i \in v.slots, x \in v.ground : w = PickUp(v, i, x)
           \/ \E i \in v.slots, x \in Item : w = Drop(v, i, x)
BY DEF Moves

LEMMA MovesAreTyped ==
    ASSUME NEW v \in World, NEW w \in Moves(v)
    PROVE  /\ w \in World /\ w.slots = v.slots /\ w.frame = v.frame
<1>1. ASSUME NEW i \in v.slots, NEW x \in v.ground, w = PickUp(v, i, x)
      PROVE  /\ w \in World /\ w.slots = v.slots /\ w.frame = v.frame
  BY <1>1 DEF World, PickUp
<1>2. ASSUME NEW i \in v.slots, NEW x \in Item, w = Drop(v, i, x)
      PROVE  /\ w \in World /\ w.slots = v.slots /\ w.frame = v.frame
  BY <1>2 DEF World, Drop
<1> QED
  BY <1>1, <1>2, MovesAreTwo

LEMMA StepFrameKeepsType ==
    ASSUME TypeOK, StepFrame
    PROVE  TypeOK'
<1>1. PICK w \in Moves(Replayed), ends \in BOOLEAN :
        /\ world' = [w EXCEPT !.frame = IF ends THEN 1 ELSE @ + 1]
        /\ mode' = IF ends THEN "StageTransition" ELSE mode
  BY DEF StepFrame
<1>2. w \in World
  BY MovesAreTyped, ReplayedIsTyped
<1>3. world' \in World
  BY <1>1, <1>2 DEF World
<1> DEFINE kept == IF Len(saved) < Window THEN Len(saved) + 1 ELSE Window
           all == <<Replayed>> \o saved
<1>4. all \in Seq(World) /\ Len(all) = Len(saved) + 1
  BY ReplayedIsTyped DEF TypeOK
<1>5. kept \in 0 .. Len(all) /\ kept <= Window
  BY <1>4, BoundAssumption DEF TypeOK
<1>6. saved' = SubSeq(all, 1, kept)
  BY DEF StepFrame
<1> HIDE DEF kept, all
<1>7. saved' \in Seq(World) /\ Len(saved') = kept
  BY <1>4, <1>5, <1>6
<1>8. calm' \in 0 .. Window + 1
  <2>1. calm \in 0 .. Window + 1 /\ calm' = IF calm <= Window THEN calm + 1 ELSE calm
    BY DEF StepFrame, TypeOK
  <2> QED
    BY <2>1, BoundAssumption
<1>9. requested' = 0 /\ played' \in 0 .. MaxPlayed
  <2>1. requested' = 0 /\ played < MaxPlayed /\ played' = played + 1
    BY DEF StepFrame
  <2> QED
    BY <2>1, BoundAssumption DEF TypeOK
<1>10. /\ mode' \in {"Playing", "StageTransition"}
       /\ mode' = "StageTransition" => stage < MaxStage
  BY DEF StepFrame, TypeOK
<1>11. UNCHANGED <<connected, remotes, pending, retained, nextId, spawnMode, client,
                   net, stage, cuts, sent>>
  BY DEF StepFrame, lobby
<1>12. Len(saved') <= Window /\ requested' \in 0 .. Len(saved')
  BY <1>5, <1>7, <1>9
<1>13. /\ blocked' \in BOOLEAN
       /\ stage' = stage /\ stage \in 0 .. MaxStage
  BY <1>11 DEF StepFrame, TypeOK
<1>14. /\ client' = client /\ remotes' = remotes /\ pending' = pending /\ net' = net
       /\ connected' = connected /\ retained' = retained /\ nextId' = nextId
       /\ spawnMode' = spawnMode /\ cuts' = cuts /\ sent' = sent
  BY <1>11
<1> QED
  BY <1>3, <1>7, <1>8, <1>9, <1>10, <1>12, <1>13, <1>14 DEF TypeOK

LEMMA StepKeepsType == TypeOK /\ [Next]_vars => TypeOK'
<1> SUFFICES ASSUME TypeOK, [Next]_vars PROVE TypeOK'
  OBVIOUS
<1> USE DEF lobby, rollback, clock
<1>1. ASSUME NEW e \in Endpoint, JoinHostSession(e) PROVE TypeOK'
  <2>1. PICK p \in IdsToAskFor, c \in Counts :
          client' = [client EXCEPT ![e].is = "asking",
                                   ![e].request = [count |-> c, prefers |-> p]]
    BY <1>1 DEF JoinHostSession
  <2>2. p \subseteq Id
    BY BoundAssumption DEF IdsToAskFor, TypeOK
  <2>3. [count |-> c, prefers |-> p] \in Request
    BY <2>2 DEF Request
  <2>4. /\ client' \in [Endpoint -> ClientType]
        /\ \A f \in Endpoint : client'[f].is = "asking" => client'[f].request \in Request
    <3>1. /\ client \in [Endpoint -> ClientType]
          /\ \A f \in Endpoint : client[f].is = "asking" => client[f].request \in Request
      BY DEF TypeOK, ClientType
    <3> DEFINE asks  == [count |-> c, prefers |-> p]
               first == [client EXCEPT ![e].is = "asking"]
    <3>2. /\ first \in [Endpoint -> ClientType]
          /\ \A f \in Endpoint : f # e => first[f] = client[f]
      BY <3>1 DEF ClientType
    <3>3. client' = [first EXCEPT ![e].request = asks]
      BY <2>1
    <3>4. asks \in Request
      BY <2>3
    <3> HIDE DEF first, asks
    <3>5. /\ client' \in [Endpoint -> ClientType]
          /\ client'[e].request = asks
          /\ \A f \in Endpoint : f # e => client'[f] = first[f]
      BY <3>2, <3>3, <3>4 DEF ClientType
    <3> QED
      BY <3>1, <3>2, <3>4, <3>5
  <2> QED
    BY <1>1, <2>4 DEF TypeOK, JoinHostSession, ClientType
<1>2. ASSUME NEW e \in Endpoint, SendJoinRequest(e) PROVE TypeOK'
  <2> DEFINE asks == [type |-> "JoinRequest", from |-> e, request |-> client[e].request]
  <2>1. net' \subseteq Packet
    <3>1. asks \in Packet
      BY <1>2 DEF TypeOK, SendJoinRequest, Packet
    <3>2. net \subseteq Packet /\ net' = net \cup {asks}
      BY <1>2 DEF TypeOK, SendJoinRequest
    <3> QED
      BY <3>1, <3>2
  <2> QED
    BY <1>2, <2>1, BoundAssumption DEF TypeOK, SendJoinRequest
<1>3. ASSUME NEW e \in Endpoint, DisconnectSession(e) PROVE TypeOK'
  <2>1. /\ client' \in [Endpoint -> ClientType]
        /\ \A f \in Endpoint : client'[f].is = "asking" => client'[f].request \in Request
    BY <1>3 DEF TypeOK, DisconnectSession, ClientType
  <2> DEFINE notice == [type |-> "LeaveNotice", ids |-> client[e].ids]
  <2>2. notice \in Packet
    BY DEF TypeOK, Packet
  <2>3. WithoutAccepts(e) \subseteq Packet
    BY DEF TypeOK, WithoutAccepts
  <2>4. net' \subseteq Packet
    <3>1. CASE client[e].ids = {}
      BY <1>3, <2>3, <3>1 DEF DisconnectSession
    <3>2. CASE client[e].ids # {}
      <4>1. net' = WithoutAccepts(e) \cup {notice}
        BY <1>3, <3>2 DEF DisconnectSession
      <4> QED
        BY <2>2, <2>3, <4>1
    <3> QED
      BY <3>1, <3>2
  <2> QED
    BY <1>3, <2>1, <2>4 DEF TypeOK, DisconnectSession, ClientType
<1>4. ASSUME NEW e \in Endpoint, Crash(e) PROVE TypeOK'
  <2>1. net' \subseteq Packet
    BY <1>4 DEF TypeOK, Crash, WithoutAccepts
  <2>2. /\ client' \in [Endpoint -> ClientType]
        /\ \A f \in Endpoint : client'[f].is = "asking" => client'[f].request \in Request
    BY <1>4 DEF TypeOK, Crash, ClientType
  <2> QED
    BY <1>4, <2>1, <2>2 DEF TypeOK, Crash, ClientType
<1>5. ASSUME NEW e \in Endpoint, DrainPendingJoinRequestsAsHost(e) PROVE TypeOK'
  <2>1. pending[e] \in Request /\ AcceptJoinRequest(e, pending[e])
    BY <1>5 DEF TypeOK, DrainPendingJoinRequestsAsHost
  <2>2. net' \subseteq Packet
    BY <1>5, <2>1, AcceptKeepsType DEF TypeOK, DrainPendingJoinRequestsAsHost, Accepts, Packet
  <2> QED
    BY <1>5, <2>1, <2>2, AcceptKeepsType DEF TypeOK, DrainPendingJoinRequestsAsHost
<1>6. ASSUME NEW e \in Endpoint, RemoveRemoteEndpoint(e) PROVE TypeOK'
  <2>1. remotes[e] \in SUBSET Id /\ RemoveRemotePlayers(remotes[e])
    BY <1>6 DEF TypeOK, RemoveRemoteEndpoint
  <2>2. cuts' \in 0 .. MaxCuts
    BY <1>6, BoundAssumption DEF TypeOK, RemoveRemoteEndpoint
  <2> QED
    BY <1>6, <2>1, <2>2, RemovalKeepsType DEF TypeOK, RemoveRemoteEndpoint
<1>7. ASSUME NEW e \in Endpoint, DropPendingJoin(e) PROVE TypeOK'
  BY <1>7 DEF TypeOK, DropPendingJoin
<1>8. ASSUME NEW m \in net, HandleJoinRequestAsHost(m) PROVE TypeOK'
  <2>1. m.from \in Endpoint /\ m.request \in Request
    BY <1>8 DEF TypeOK, Packet, HandleJoinRequestAsHost
  <2>2. CASE DeferJoinRequest(m.from, m.request)
    <3>1. net' \subseteq Packet
      BY <1>8, <2>2 DEF TypeOK, HandleJoinRequestAsHost, DeferJoinRequest
    <3> QED
      BY <1>8, <2>1, <2>2, <3>1 DEF TypeOK, HandleJoinRequestAsHost, DeferJoinRequest
  <2>3. CASE AcceptJoinRequest(m.from, m.request)
    <3>1. net' \subseteq Packet
      BY <1>8, <2>1, <2>3, AcceptKeepsType
      DEF TypeOK, HandleJoinRequestAsHost, Accepts, Packet
    <3> QED
      BY <1>8, <2>1, <2>3, <3>1, AcceptKeepsType DEF TypeOK, HandleJoinRequestAsHost
  <2> QED
    BY <1>8, <2>2, <2>3 DEF HandleJoinRequestAsHost
<1>9. ASSUME NEW m \in net, HandleLeaveNoticeAsHost(m) PROVE TypeOK'
  <2>1. m.ids \in SUBSET Id /\ RemoveRemotePlayers(m.ids)
    BY <1>9 DEF TypeOK, Packet, HandleLeaveNoticeAsHost
  <2> QED
    BY <1>9, <2>1, RemovalKeepsType DEF TypeOK, HandleLeaveNoticeAsHost
<1>10. ASSUME NEW m \in net, HandleJoinAcceptAsPeer(m) PROVE TypeOK'
  <2>1. m.to \in Endpoint /\ m.ids \in SUBSET Id
    BY <1>10 DEF TypeOK, Packet, HandleJoinAcceptAsPeer
  <2>2. net' \subseteq Packet
    BY <1>10, <2>1 DEF TypeOK, HandleJoinAcceptAsPeer, WithoutAccepts
  <2>3. /\ client' \in [Endpoint -> ClientType]
        /\ \A f \in Endpoint : client'[f].is = "asking" => client'[f].request \in Request
    BY <1>10, <2>1 DEF TypeOK, HandleJoinAcceptAsPeer, ClientType
  <2> QED
    BY <1>10, <2>2, <2>3 DEF TypeOK, HandleJoinAcceptAsPeer, ClientType
<1>11. CASE CleanupExpiredRetainedPlayerStates
  BY <1>11 DEF TypeOK, CleanupExpiredRetainedPlayerStates
<1>12. CASE Resume
  BY <1>12 DEF TypeOK, Resume
<1>13. ASSUME NEW k \in 1 .. Window, CompareLockstepHash(k) PROVE TypeOK'
  BY <1>13 DEF TypeOK, CompareLockstepHash
<1>14. CASE StepFrame
  BY <1>14, StepFrameKeepsType
<1>15. CASE LoadStage
  <2>1. world' \in World
    BY <1>15 DEF TypeOK, LoadStage, World
  <2>2. saved' \in Seq(World) /\ Len(saved') = 0 /\ calm' = 0 /\ requested' = 0
    BY <1>15 DEF LoadStage, ResetInputLockstepState
  <2>3. mode' = "Playing"
    BY <1>15 DEF LoadStage
  <2>4. stage' \in 0 .. MaxStage
    <3>1. stage \in 0 .. MaxStage /\ (mode = "StageTransition" => stage < MaxStage)
      BY DEF TypeOK
    <3>2. mode = "StageTransition" /\ stage' = stage + 1
      BY <1>15 DEF LoadStage
    <3>3. MaxStage \in Nat
      BY BoundAssumption
    <3> QED
      BY <3>1, <3>2, <3>3
  <2>5. UNCHANGED <<blocked, connected, remotes, pending, retained, nextId, spawnMode,
                    client, net, played, cuts, sent>>
    BY <1>15 DEF LoadStage
  <2>6. /\ Len(saved') <= Window /\ calm' \in 0 .. Window + 1 /\ requested' \in 0 .. Len(saved')
        /\ mode' \in {"Playing", "StageTransition"} /\ (mode' = "StageTransition" => stage' < MaxStage)
    BY <2>2, <2>3, BoundAssumption
  <2> QED
    BY <2>1, <2>2, <2>4, <2>5, <2>6 DEF TypeOK
<1>16. CASE UNCHANGED vars
  BY <1>16 DEF TypeOK, vars
<1> QED
  BY <1>1, <1>2, <1>3, <1>4, <1>5, <1>6, <1>7, <1>8, <1>9, <1>10, <1>11, <1>12, <1>13,
     <1>14, <1>15, <1>16 DEF Next, Receives

\* Every variable keeps its type, and a replay is asked for only to a frame whose
\* snapshot there is.
THEOREM LobbyIsTyped == Spec => []TypeOK
<1>1. TypeOK /\ [Next]_vars => TypeOK'
  BY StepKeepsType
<1> QED
  BY <1>1, InitIsTyped, PTL DEF Spec

-----------------------------------------------------------------------------
(* Players, their items and records                                        *)

LEMMA InitIsCore == Init => Core
BY DEF Init, Core, EveryPlayerHasAnEndpoint, SnapshotsAreSound, Sound, InOnePlace,
       RecordsAreSound, NoRecord

LEMMA NothingChanges ==
    ASSUME Core,
           UNCHANGED <<world, saved, calm, requested, connected, remotes, retained, played>>
    PROVE  Core'
<1>1. EveryPlayerHasAnEndpoint'
  BY DEF Core, EveryPlayerHasAnEndpoint
<1>2. \A w : Sound(w) => Sound(w)'
  BY DEF Sound, InOnePlace
<1>3. Sound(world)' /\ SnapshotsAreSound'
  BY DEF Core, SnapshotsAreSound, Sound, InOnePlace
<1>4. RecordsAreSound'
  BY DEF Core, RecordsAreSound
<1> QED
  BY <1>1, <1>3, <1>4 DEF Core

\* The items of the departed are in their records, and nowhere else.
LEMMA RemovalKeepsCore ==
    ASSUME TypeOK, Core, ~AcrossChanges, NEW ids \in SUBSET Id,
           RemoveRemotePlayers(ids), played' = played
    PROVE  Core'
<1>1. /\ world'.slots = world.slots \ ids /\ world'.ground = world.ground
      /\ world'.frame = world.frame
      /\ \A i \in Id : world'.carried[i] = IF i \in ids THEN {} ELSE world.carried[i]
  BY DEF RemoveRemotePlayers, DeactivateDepartingPlayerEnt, TypeOK, World
<1>2. \A i \in Id : retained'[i] =
        IF i \in ids /\ i \in world.slots
          THEN [items |-> world.carried[i], frame |-> world.frame, since |-> played]
          ELSE retained[i]
  BY DEF RemoveRemotePlayers, StoreRetainedPlayerState
<1>3. EveryPlayerHasAnEndpoint'
  <2>1. /\ connected' = connected \ ids
        /\ \A e \in Endpoint : remotes'[e] = remotes[e] \ ids
    BY DEF RemoveRemotePlayers, ForgetPlayersOfRemotes
  <2> QED
    BY <1>1, <2>1 DEF Core, EveryPlayerHasAnEndpoint
<1>4. SnapshotsAreSound'
  BY BoundAssumption DEF RemoveRemotePlayers, TopologyChanged, SnapshotsAreSound, TypeOK
<1>5. Sound(world)'
  <2>1. \A i \in Id : world'.carried[i] \cup retained'[i].items
                       \subseteq world.carried[i] \cup retained[i].items
    <3> TAKE i \in Id
    <3>1. CASE i \in ids /\ i \in world.slots
      <4>1. world'.carried[i] = {} /\ retained'[i].items = world.carried[i]
        <5>1. retained'[i] =
                [items |-> world.carried[i], frame |-> world.frame, since |-> played]
          BY <1>2, <3>1
        <5> QED
          BY <1>1, <3>1, <5>1
      <4> QED
        BY <4>1
    <3>2. CASE i \in ids /\ i \notin world.slots
      BY <1>1, <1>2, <3>2
    <3>3. CASE i \notin ids
      BY <1>1, <1>2, <3>3
    <3> QED
      BY <3>1, <3>2, <3>3
  <2>2. \A i \in Id : world'.carried[i] \cap retained'[i].items = {}
    BY <1>1, <1>2 DEF Core, Sound, InOnePlace
  <2>3. \A i, j \in Id : i # j =>
          (world.carried[i] \cup retained[i].items)
            \cap (world.carried[j] \cup retained[j].items) = {}
    BY DEF Core, Sound, InOnePlace
  <2>4. \A i \in Id : (world.carried[i] \cup retained[i].items) \cap world.ground = {}
    BY DEF Core, Sound, InOnePlace
  <2>5. \A i, j \in Id : i # j =>
          (world'.carried[i] \cup retained'[i].items)
            \cap (world'.carried[j] \cup retained'[j].items) = {}
    BY <2>1, <2>3
  <2>6. \A i \in Id : (world'.carried[i] \cup retained'[i].items) \cap world'.ground = {}
    BY <1>1, <2>1, <2>4
  <2>7. InOnePlace(world)'
    BY <2>2, <2>5, <2>6 DEF InOnePlace
  <2>8. \A i \in Id \ world'.slots : world'.carried[i] = {}
    BY <1>1 DEF Core, Sound
  <2> QED
    BY <2>7, <2>8 DEF Sound
<1>6. RecordsAreSound'
  <2> SUFFICES ASSUME NEW i \in Id, retained'[i] # NoRecord
               PROVE  /\ i \notin world'.slots
                      /\ retained'[i].since <= played
                      /\ world'.frame - retained'[i].frame <= played - retained'[i].since
    BY DEF RecordsAreSound
  <2>1. CASE i \in ids /\ i \in world.slots
    <3>1. world.frame \in Nat /\ played \in Nat
      BY BoundAssumption DEF TypeOK, World
    <3>2. retained'[i] = [items |-> world.carried[i], frame |-> world.frame, since |-> played]
      BY <1>2, <2>1
    <3> QED
      BY <1>1, <2>1, <3>1, <3>2
  <2>2. CASE ~(i \in ids /\ i \in world.slots)
    BY <1>1, <1>2, <2>2 DEF Core, RecordsAreSound
  <2> QED
    BY <2>1, <2>2
<1> QED
  BY <1>3, <1>4, <1>5, <1>6 DEF Core

LEMMA ReplayedFields ==
    ASSUME TypeOK, Core
    PROVE  /\ Replayed.slots = world.slots /\ Replayed.frame = world.frame
           /\ Sound(Replayed)
<1>1. CASE requested = 0
  BY <1>1 DEF Core, Replayed
<1>2. CASE requested # 0
  <2> DEFINE old == saved[requested]
  <2>1. old \in World /\ requested \in 1 .. Len(saved) /\ requested <= calm
    BY <1>2 DEF TypeOK, Core, SnapshotsAreSound
  <2>2. old.slots = world.slots /\ Sound(old)
    BY <2>1 DEF Core, SnapshotsAreSound
  <2>3. Replayed = [old EXCEPT !.frame = world.frame]
    BY <1>2 DEF Replayed
  <2> HIDE DEF old
  <2>4. /\ Replayed.slots = old.slots /\ Replayed.carried = old.carried
        /\ Replayed.ground = old.ground /\ Replayed.frame = world.frame
    BY <2>1, <2>3 DEF World
  <2> QED
    BY <2>2, <2>4 DEF Sound, InOnePlace
<1> QED
  BY <1>1, <1>2

\* A frame moves an item, and never from one place to two.
LEMMA MovesAreSound ==
    ASSUME NEW v \in World, Sound(v), NEW w \in Moves(v)
    PROVE  Sound(w)
<1>1. ASSUME NEW i \in v.slots, NEW x \in v.ground, w = PickUp(v, i, x)
      PROVE  Sound(w)
  <2>1. /\ w.slots = v.slots /\ w.ground = v.ground \ {x} /\ i \in Id
        /\ \A j \in Id : w.carried[j] = IF j = i THEN v.carried[j] \cup {x} ELSE v.carried[j]
    BY <1>1 DEF World, PickUp
  <2>2. \A j \in Id : x \notin v.carried[j] /\ x \notin retained[j].items
    BY DEF Sound, InOnePlace
  <2>3. InOnePlace(w)
    <3>1. \A j, k \in Id : j # k =>
            /\ v.carried[j] \cap v.carried[k] = {}
            /\ retained[j].items \cap retained[k].items = {}
      BY DEF Sound, InOnePlace
    <3>2. \A j, k \in Id : v.carried[j] \cap retained[k].items = {}
      BY DEF Sound, InOnePlace
    <3>3. \A j, k \in Id : j # k => w.carried[j] \cap w.carried[k] = {}
      <4> TAKE j, k \in Id
      <4>1. /\ w.carried[j] \subseteq v.carried[j] \cup {x}
            /\ w.carried[k] \subseteq v.carried[k] \cup {x}
            /\ j # k => x \notin w.carried[j] \/ x \notin w.carried[k]
        BY <2>1, <2>2
      <4> QED
        BY <3>1, <4>1
    <3>4. \A j, k \in Id : w.carried[j] \cap retained[k].items = {}
      BY <2>1, <2>2, <3>2
    <3>5. \A j \in Id : (w.carried[j] \cup retained[j].items) \cap w.ground = {}
      BY <2>1 DEF Sound, InOnePlace
    <3> QED
      BY <3>1, <3>3, <3>4, <3>5 DEF InOnePlace
  <2>4. \A j \in Id \ w.slots : w.carried[j] = {}
    BY <1>1, <2>1 DEF Sound
  <2> QED
    BY <2>3, <2>4 DEF Sound
<1>2. ASSUME NEW i \in v.slots, NEW x \in Item, w = Drop(v, i, x)
      PROVE  Sound(w)
  <2>1. /\ w.slots = v.slots /\ w.ground = v.ground \cup (v.carried[i] \cap {x}) /\ i \in Id
        /\ \A j \in Id : w.carried[j] = IF j = i THEN v.carried[j] \ {x} ELSE v.carried[j]
    BY <1>2 DEF World, Drop
  <2>2. \A j \in Id : /\ j # i => v.carried[i] \cap v.carried[j] = {}
                      /\ v.carried[i] \cap retained[j].items = {}
    BY <2>1 DEF Sound, InOnePlace
  <2>3. \A j \in Id : w.carried[j] \subseteq v.carried[j]
    BY <2>1
  <2>4. /\ \A j, k \in Id : j # k => /\ v.carried[j] \cap v.carried[k] = {}
                                    /\ retained[j].items \cap retained[k].items = {}
        /\ \A j, k \in Id : v.carried[j] \cap retained[k].items = {}
        /\ \A j \in Id : (v.carried[j] \cup retained[j].items) \cap v.ground = {}
        /\ \A j \in Id \ v.slots : v.carried[j] = {}
    BY DEF Sound, InOnePlace
  <2>5. \A j, k \in Id : /\ j # k => w.carried[j] \cap w.carried[k] = {}
                         /\ w.carried[j] \cap retained[k].items = {}
    BY <2>3, <2>4
  <2>6. \A j \in Id : (w.carried[j] \cup retained[j].items) \cap w.ground = {}
    <3> SUFFICES ASSUME NEW j \in Id
                 PROVE  (w.carried[j] \cup retained[j].items) \cap w.ground = {}
      OBVIOUS
    <3>1. x \in v.carried[i] => x \notin w.carried[j] /\ x \notin retained[j].items
      BY <2>1, <2>2
    <3> QED
      BY <2>1, <2>3, <2>4, <3>1
  <2>7. \A j \in Id \ w.slots : w.carried[j] = {}
    BY <2>1, <2>3, <2>4
  <2> QED
    BY <2>4, <2>5, <2>6, <2>7 DEF Sound, InOnePlace
<1> QED
  BY <1>1, <1>2, MovesAreTwo

LEMMA StepFrameKeepsCore ==
    ASSUME TypeOK, Core, StepFrame
    PROVE  Core'
<1>1. PICK w \in Moves(Replayed), ends \in BOOLEAN :
        world' = [w EXCEPT !.frame = IF ends THEN 1 ELSE @ + 1]
  BY DEF StepFrame
<1>2. /\ Replayed \in World /\ Replayed.frame = world.frame
      /\ Replayed.slots = world.slots /\ Sound(Replayed)
  BY ReplayedIsTyped, ReplayedFields
<1>3. w \in World /\ w.slots = world.slots /\ w.frame = world.frame /\ Sound(w)
  BY <1>2, MovesAreTyped, MovesAreSound
<1>4. /\ world'.slots = world.slots /\ world'.carried = w.carried /\ world'.ground = w.ground
      /\ world'.frame = IF ends THEN 1 ELSE world.frame + 1
  BY <1>1, <1>3 DEF World
<1>5. /\ retained' = retained /\ connected' = connected /\ remotes' = remotes
      /\ requested' = 0 /\ played' = played + 1
      /\ calm' = IF calm <= Window THEN calm + 1 ELSE calm
  BY DEF StepFrame, lobby
<1>6. \A v : Sound(v) => Sound(v)'
  BY <1>5 DEF Sound, InOnePlace
<1>7. EveryPlayerHasAnEndpoint'
  BY <1>4, <1>5 DEF Core, EveryPlayerHasAnEndpoint
<1>8. Sound(world)'
  BY <1>3, <1>4, <1>5 DEF Sound, InOnePlace
<1>9. RecordsAreSound'
  <2>1. world.frame \in Nat /\ played \in Nat
    BY BoundAssumption DEF TypeOK, World
  <2>2. \A i \in Id : retained[i] # NoRecord =>
            retained[i].frame \in Nat /\ retained[i].since \in Nat
    BY DEF TypeOK, Record
  <2>3. world'.frame <= world.frame + 1 /\ world'.frame \in Nat
    BY <1>4, <2>1
  <2> QED
    BY <1>4, <1>5, <2>1, <2>2, <2>3 DEF Core, RecordsAreSound
<1>10. SnapshotsAreSound'
  <2> DEFINE kept == IF Len(saved) < Window THEN Len(saved) + 1 ELSE Window
             all == <<Replayed>> \o saved
  <2>1. all \in Seq(World) /\ Len(all) = Len(saved) + 1
    BY ReplayedIsTyped DEF TypeOK
  <2>2. kept \in 0 .. Len(all) /\ saved' = SubSeq(all, 1, kept)
    <3>1. kept \in 0 .. Len(all)
      <4> HIDE DEF all
      <4> QED
        BY <2>1, BoundAssumption DEF TypeOK
    <3>2. saved' = SubSeq(all, 1, kept)
      BY DEF StepFrame
    <3> QED
      BY <3>1, <3>2
  <2>3. all[1] = Replayed /\ \A k \in 1 .. Len(saved) : all[k + 1] = saved[k]
    BY ReplayedIsTyped DEF TypeOK
  <2>4. kept <= Window /\ kept \in Nat /\ kept <= Len(saved) + 1
    <3> HIDE DEF all
    <3> QED
      BY BoundAssumption DEF TypeOK
  <2>5. /\ calm \in 0 .. Window + 1 /\ Len(saved) \in Nat /\ Window \in Nat
        /\ calm' = IF calm <= Window THEN calm + 1 ELSE calm
    BY <1>5, BoundAssumption DEF TypeOK
  <2> HIDE DEF kept, all
  <2>6. Len(saved') = kept /\ \A k \in 1 .. kept : saved'[k] = all[k]
    BY <2>1, <2>2
  <2>7. ASSUME NEW k \in 1 .. kept, k <= calm'
        PROVE  saved'[k].slots = world.slots /\ Sound(saved'[k])
    <3>1. saved'[k] = all[k]
      BY <2>6
    <3>2. CASE k = 1
      BY <1>2, <2>3, <3>1, <3>2
    <3>3. CASE k # 1
      <4>1. k - 1 \in 1 .. Len(saved) /\ k - 1 <= calm /\ k = (k - 1) + 1
        BY <2>4, <2>5, <2>7, <3>3
      <4>2. all[k] = saved[k - 1]
        BY <2>3, <4>1
      <4> QED
        BY <3>1, <4>1, <4>2 DEF Core, SnapshotsAreSound
    <3> QED
      BY <3>2, <3>3
  <2>8. requested' <= calm'
    BY <1>5, <2>5
  <2>9. \A k \in 1 .. Len(saved') :
           k <= calm' => saved'[k].slots = world'.slots /\ Sound(saved'[k])
    BY <1>4, <2>6, <2>7
  <2> QED
    BY <1>5, <2>8, <2>9 DEF SnapshotsAreSound, Sound, InOnePlace
<1> QED
  BY <1>7, <1>8, <1>9, <1>10 DEF Core

\* Who joins gets what its record holds, and the record is gone.
LEMMA AcceptKeepsCore ==
    ASSUME TypeOK, Core, ~AcrossChanges, NEW e \in Endpoint, NEW r \in Request,
           AcceptJoinRequest(e, r), played' = played
    PROVE  Core'
<1> DEFINE ids == IdsFor(e, r)
<1>0. ids \subseteq Id
  BY IdsForAreIds
<1>1. /\ GiveBodies(ids) /\ RemoveRetainedPlayerState(ids)
      /\ connected' = connected \cup ids /\ remotes' = [remotes EXCEPT ![e] = ids]
  BY DEF AcceptJoinRequest, Admit, RegisterRemoteEndpoint
<1>2. IF remotes[e] # {} THEN ids = remotes[e] ELSE ids \cap (world.slots \cup connected) = {}
  BY DEF IdsFor, Registered, PreferredIds, NewIds, Least, IsRemotePlayerIdAvailableForJoin
<1>3. saved' = saved /\ requested' = 0 /\ requested = 0 /\ calm' = 0
  BY DEF AcceptJoinRequest, TopologyChanged
<1> HIDE DEF ids
<1>4. /\ world'.slots = world.slots \cup ids /\ world'.ground = world.ground
      /\ world'.frame = world.frame
      /\ \A i \in Id : world'.carried[i] =
            IF i \in ids THEN world.carried[i] \cup GivenBack(i) ELSE world.carried[i]
  BY <1>1 DEF GiveBodies, TypeOK, World
<1>5. \A i \in Id : retained'[i] = IF i \in ids \ world.slots THEN NoRecord ELSE retained[i]
  BY <1>1 DEF RemoveRetainedPlayerState
<1>6. EveryPlayerHasAnEndpoint'
  <2>1. /\ remotes'[e] = ids
        /\ \A f \in Endpoint : f # e => remotes'[f] = remotes[f]
    BY <1>1 DEF TypeOK
  <2>2. /\ world.slots = UNION {remotes[f] : f \in Endpoint} /\ world.slots = connected
        /\ \A f, g \in Endpoint : f # g => remotes[f] \cap remotes[g] = {}
    BY DEF Core, EveryPlayerHasAnEndpoint
  <2>3. \A f \in Endpoint : remotes[f] \subseteq world.slots
    BY <2>2
  <2>4. \A f \in Endpoint : f # e => remotes[f] \cap ids = {}
    BY <1>2, <2>2, <2>3
  <2>5. remotes[e] \subseteq ids
    BY <1>2
  <2>6. world'.slots = UNION {remotes'[f] : f \in Endpoint}
    BY <1>4, <2>1, <2>2, <2>5
  <2>7. \A f, g \in Endpoint : f # g => remotes'[f] \cap remotes'[g] = {}
    BY <2>1, <2>2, <2>4
  <2> QED
    BY <1>1, <1>4, <2>2, <2>6, <2>7 DEF EveryPlayerHasAnEndpoint
<1>7. SnapshotsAreSound'
  BY <1>3 DEF SnapshotsAreSound, TypeOK
<1>8. Sound(world)'
  <2>1. \A i \in Id : world'.carried[i] \cup retained'[i].items
                       \subseteq world.carried[i] \cup retained[i].items
    <3> TAKE i \in Id
    <3>1. GivenBack(i) \subseteq retained[i].items /\ NoRecord.items = {}
      BY DEF GivenBack, NoRecord
    <3>2. world'.carried[i] \subseteq world.carried[i] \cup retained[i].items
      BY <1>4, <3>1
    <3>3. retained'[i].items \subseteq retained[i].items
      BY <1>5, <3>1
    <3> QED
      BY <3>2, <3>3
  <2>2. \A i \in Id : world'.carried[i] \cap retained'[i].items = {}
    <3> TAKE i \in Id
    <3>1. CASE i \in ids \ world.slots
      BY <1>5, <3>1 DEF NoRecord
    <3>2. CASE i \notin ids \ world.slots
      <4>1. world'.carried[i] = world.carried[i] /\ retained'[i] = retained[i]
        BY <1>4, <1>5, <3>2 DEF GivenBack
      <4> QED
        BY <4>1 DEF Core, Sound, InOnePlace
    <3> QED
      BY <3>1, <3>2
  <2>3. \A i, j \in Id : i # j =>
          (world.carried[i] \cup retained[i].items)
            \cap (world.carried[j] \cup retained[j].items) = {}
    BY DEF Core, Sound, InOnePlace
  <2>4. \A i \in Id : (world.carried[i] \cup retained[i].items) \cap world.ground = {}
    BY DEF Core, Sound, InOnePlace
  <2>5. \A i, j \in Id : i # j =>
          (world'.carried[i] \cup retained'[i].items)
            \cap (world'.carried[j] \cup retained'[j].items) = {}
    BY <2>1, <2>3
  <2>6. \A i \in Id : (world'.carried[i] \cup retained'[i].items) \cap world'.ground = {}
    BY <1>4, <2>1, <2>4
  <2>7. InOnePlace(world)'
    BY <2>2, <2>5, <2>6 DEF InOnePlace
  <2>8. \A i \in Id \ world'.slots : world'.carried[i] = {}
    BY <1>4 DEF Core, Sound
  <2> QED
    BY <2>7, <2>8 DEF Sound
<1>9. RecordsAreSound'
  BY <1>4, <1>5 DEF Core, RecordsAreSound
<1> QED
  BY <1>6, <1>7, <1>8, <1>9 DEF Core

LEMMA CleanupKeepsCore ==
    ASSUME TypeOK, Core, CleanupExpiredRetainedPlayerStates
    PROVE  Core'
<1>1. /\ UNCHANGED <<world, saved, calm, requested, connected, remotes, played>>
      /\ \A i \in Id : retained'[i] = NoRecord \/ retained'[i] = retained[i]
  BY DEF CleanupExpiredRetainedPlayerStates, rollback, clock
<1>2. \A i \in Id : retained'[i].items \subseteq retained[i].items
  BY <1>1 DEF NoRecord
<1>3. \A v : Sound(v) => Sound(v)'
  BY <1>2 DEF Sound, InOnePlace
<1>4. Sound(world)'
  BY <1>1, <1>2 DEF Core, Sound, InOnePlace
<1>5. SnapshotsAreSound'
  <2>1. \A k \in 1 .. Len(saved) : Sound(saved[k]) => Sound(saved[k])'
    BY <1>1, <1>2 DEF Sound, InOnePlace
  <2> QED
    BY <1>1, <2>1 DEF Core, SnapshotsAreSound
<1>6. EveryPlayerHasAnEndpoint' /\ RecordsAreSound'
  BY <1>1 DEF Core, EveryPlayerHasAnEndpoint, RecordsAreSound
<1> QED
  BY <1>4, <1>5, <1>6 DEF Core

LEMMA LoadStageKeepsCore ==
    ASSUME TypeOK, Core, LoadStage
    PROVE  Core'
<1>1. /\ UNCHANGED <<connected, remotes, retained, played>>
      /\ world' = [world EXCEPT !.ground = {}]
      /\ saved' = <<>> /\ calm' = 0 /\ requested' = 0
  BY DEF LoadStage, ResetInputLockstepState, lobby
<1>2. /\ world'.slots = world.slots /\ world'.carried = world.carried
      /\ world'.frame = world.frame /\ world'.ground = {}
  BY <1>1 DEF TypeOK, World
<1> QED
  BY <1>1, <1>2 DEF Core, EveryPlayerHasAnEndpoint, SnapshotsAreSound, Sound, InOnePlace,
                    RecordsAreSound

LEMMA StepKeepsCore ==
    ~AcrossChanges /\ TypeOK /\ Core /\ [Next]_vars => Core'
<1> SUFFICES ASSUME ~AcrossChanges, TypeOK, Core, [Next]_vars PROVE Core'
  OBVIOUS
<1> USE DEF lobby, rollback, clock
<1>1. ASSUME NEW e \in Endpoint,
             \/ JoinHostSession(e) \/ SendJoinRequest(e) \/ DisconnectSession(e)
             \/ Crash(e) \/ DropPendingJoin(e)
      PROVE  Core'
  <2>1. UNCHANGED <<world, saved, calm, requested, connected, remotes, retained, played>>
    BY <1>1 DEF JoinHostSession, SendJoinRequest, DisconnectSession, Crash, DropPendingJoin
  <2> QED
    BY <2>1, NothingChanges
<1>2. ASSUME NEW e \in Endpoint, DrainPendingJoinRequestsAsHost(e) PROVE Core'
  <2>1. /\ pending[e] \in Request /\ AcceptJoinRequest(e, pending[e])
        /\ played' = played
    BY <1>2 DEF TypeOK, DrainPendingJoinRequestsAsHost
  <2> QED
    BY <2>1, AcceptKeepsCore
<1>3. ASSUME NEW e \in Endpoint, RemoveRemoteEndpoint(e) PROVE Core'
  <2>1. remotes[e] \in SUBSET Id /\ RemoveRemotePlayers(remotes[e]) /\ played' = played
    BY <1>3 DEF TypeOK, RemoveRemoteEndpoint
  <2> QED
    BY <2>1, RemovalKeepsCore
<1>4. ASSUME NEW m \in net, HandleJoinRequestAsHost(m) PROVE Core'
  <2>1. m.from \in Endpoint /\ m.request \in Request /\ played' = played
    BY <1>4 DEF TypeOK, Packet, HandleJoinRequestAsHost
  <2>2. CASE DeferJoinRequest(m.from, m.request)
    BY <2>1, <2>2, NothingChanges DEF DeferJoinRequest
  <2>3. CASE AcceptJoinRequest(m.from, m.request)
    BY <2>1, <2>3, AcceptKeepsCore
  <2> QED
    BY <1>4, <2>2, <2>3 DEF HandleJoinRequestAsHost
<1>5. ASSUME NEW m \in net, HandleLeaveNoticeAsHost(m) PROVE Core'
  <2>1. m.ids \in SUBSET Id /\ RemoveRemotePlayers(m.ids) /\ played' = played
    BY <1>5 DEF TypeOK, Packet, HandleLeaveNoticeAsHost
  <2> QED
    BY <2>1, RemovalKeepsCore
<1>6. ASSUME NEW m \in net, HandleJoinAcceptAsPeer(m) PROVE Core'
  BY <1>6, NothingChanges DEF HandleJoinAcceptAsPeer
<1>7. CASE CleanupExpiredRetainedPlayerStates
  BY <1>7, CleanupKeepsCore
<1>8. CASE Resume
  BY <1>8, NothingChanges DEF Resume
<1>9. ASSUME NEW k \in 1 .. Window, CompareLockstepHash(k) PROVE Core'
  <2>1. /\ UNCHANGED <<world, saved, calm, connected, remotes, retained, played>>
        /\ requested' = k /\ k < calm /\ calm \in Nat
    BY <1>9, BoundAssumption DEF CompareLockstepHash, TypeOK
  <2>2. SnapshotsAreSound'
    BY <2>1 DEF Core, SnapshotsAreSound, Sound, InOnePlace
  <2>3. EveryPlayerHasAnEndpoint' /\ RecordsAreSound'
    BY <2>1 DEF Core, EveryPlayerHasAnEndpoint, RecordsAreSound
  <2>4. Sound(world)'
    BY <2>1 DEF Core, Sound, InOnePlace
  <2> QED
    BY <2>2, <2>3, <2>4 DEF Core
<1>10. CASE StepFrame
  BY <1>10, StepFrameKeepsCore
<1>11. CASE LoadStage
  BY <1>11, LoadStageKeepsCore
<1>12. CASE UNCHANGED vars
  BY <1>12, NothingChanges DEF vars
<1> QED
  BY <1>1, <1>2, <1>3, <1>4, <1>5, <1>6, <1>7, <1>8, <1>9, <1>10, <1>11, <1>12
  DEF Next, Receives

LEMMA CoreHolds == ~AcrossChanges /\ Spec => [](TypeOK /\ Core)
<1>1. Init => TypeOK /\ Core
  BY InitIsTyped, InitIsCore
<1>2. ~AcrossChanges /\ TypeOK /\ Core /\ [Next]_vars => (TypeOK /\ Core)'
  BY StepKeepsType, StepKeepsCore
<1>3. CASE AcrossChanges
  BY <1>3
<1>4. CASE ~AcrossChanges
  <2>1. TypeOK /\ Core /\ [Next]_vars => (TypeOK /\ Core)'
    BY <1>2, <1>4
  <2> QED
    BY <1>1, <2>1, PTL DEF Spec
<1> QED
  BY <1>3, <1>4

\* Nobody is waited for who cannot be timed out or kicked, as long as the host's
\* rollbacks stop at the last change of the players.
THEOREM PlayersHaveEndpoints == ~AcrossChanges /\ Spec => []EveryPlayerHasAnEndpoint
<1>1. Core => EveryPlayerHasAnEndpoint
  BY DEF Core
<1> QED
  BY <1>1, CoreHolds, PTL

\* Nothing carried is doubled by leaving, coming back or a rollback, with the same
\* assumption.
THEOREM ItemsStayInOnePlace == ~AcrossChanges /\ Spec => []ItemsAreInOnePlace
<1>1. Core => ItemsAreInOnePlace
  BY DEF Core, Sound, ItemsAreInOnePlace
<1> QED
  BY <1>1, CoreHolds, PTL

\* Nobody in the game has a record that a later rejoin could give out again.
THEOREM NoRecordOfThePresent == ~AcrossChanges /\ Spec => []RecordsAreOfTheAbsent
<1>1. Core => RecordsAreOfTheAbsent
  BY DEF Core, RecordsAreSound, RecordsAreOfTheAbsent
<1> QED
  BY <1>1, CoreHolds, PTL

-----------------------------------------------------------------------------
(* How long a record is kept                                               *)

GoesFor(i) ==
    \/ i \in world'.slots /\ spawnMode = "Retained"
          /\ retained[i].items \subseteq world'.carried[i]
    \/ i \in world'.slots /\ spawnMode = "Fresh"
    \/ played - retained[i].since > Lifetime

Kept == \A i \in Id : retained[i] # NoRecord /\ retained'[i] # retained[i] => GoesFor(i)

LEMMA RemovalKeepsRecords ==
    ASSUME TypeOK, Core, NEW ids \in SUBSET Id, RemoveRemotePlayers(ids)
    PROVE  Kept
<1>1. \A i \in Id : retained'[i] # retained[i] => i \in world.slots
  BY DEF RemoveRemotePlayers, StoreRetainedPlayerState, TypeOK
<1> QED
  BY <1>1 DEF Kept, Core, RecordsAreSound

LEMMA AcceptKeepsRecords ==
    ASSUME TypeOK, NEW e \in Endpoint, NEW r \in Request, AcceptJoinRequest(e, r)
    PROVE  Kept
<1> DEFINE ids == IdsFor(e, r)
<1>1. GiveBodies(ids) /\ RemoveRetainedPlayerState(ids)
  BY DEF AcceptJoinRequest, Admit
<1>2. spawnMode \in {"Retained", "Fresh"}
  BY BoundAssumption DEF TypeOK
<1> HIDE DEF ids
<1> SUFFICES ASSUME NEW i \in Id, retained'[i] # retained[i]
             PROVE  GoesFor(i)
  BY DEF Kept
<1>3. i \in ids \ world.slots
  BY <1>1 DEF RemoveRetainedPlayerState
<1>4. i \in world'.slots /\ world'.carried[i] = world.carried[i] \cup GivenBack(i)
  BY <1>1, <1>3 DEF GiveBodies, TypeOK, World
<1> QED
  BY <1>2, <1>3, <1>4 DEF GoesFor, GivenBack

LEMMA CleanupKeepsRecords ==
    ASSUME TypeOK, Core, CleanupExpiredRetainedPlayerStates
    PROVE  Kept
<1> SUFFICES ASSUME NEW i \in Id, retained[i] # NoRecord, retained'[i] # retained[i]
             PROVE  GoesFor(i)
  BY DEF Kept
<1>1. IsExpired(i)
  BY DEF CleanupExpiredRetainedPlayerStates
<1>2. world.frame - retained[i].frame <= played - retained[i].since
  BY DEF Core, RecordsAreSound
<1>3. /\ world.frame \in Nat /\ played \in Nat /\ Lifetime \in Nat
      /\ retained[i].frame \in Nat /\ retained[i].since \in Nat
  BY BoundAssumption DEF TypeOK, World, Record
<1> QED
  BY <1>1, <1>2, <1>3 DEF IsExpired, GoesFor

LEMMA StepKeepsRecords == TypeOK /\ Core /\ [Next]_vars => Kept
<1> SUFFICES ASSUME TypeOK, Core, [Next]_vars PROVE Kept
  OBVIOUS
<1> USE DEF lobby, rollback, clock
<1>1. ASSUME NEW e \in Endpoint,
             \/ JoinHostSession(e) \/ SendJoinRequest(e) \/ DisconnectSession(e)
             \/ Crash(e) \/ DropPendingJoin(e)
      PROVE  Kept
  BY <1>1 DEF JoinHostSession, SendJoinRequest, DisconnectSession, Crash, DropPendingJoin, Kept
<1>2. ASSUME NEW e \in Endpoint, DrainPendingJoinRequestsAsHost(e) PROVE Kept
  <2>1. pending[e] \in Request /\ AcceptJoinRequest(e, pending[e])
    BY <1>2 DEF TypeOK, DrainPendingJoinRequestsAsHost
  <2> QED
    BY <2>1, AcceptKeepsRecords
<1>3. ASSUME NEW e \in Endpoint, RemoveRemoteEndpoint(e) PROVE Kept
  <2>1. remotes[e] \in SUBSET Id /\ RemoveRemotePlayers(remotes[e])
    BY <1>3 DEF TypeOK, RemoveRemoteEndpoint
  <2> QED
    BY <2>1, RemovalKeepsRecords
<1>4. ASSUME NEW m \in net, HandleJoinRequestAsHost(m) PROVE Kept
  <2>1. m.from \in Endpoint /\ m.request \in Request
    BY <1>4 DEF TypeOK, Packet, HandleJoinRequestAsHost
  <2>2. CASE DeferJoinRequest(m.from, m.request)
    BY <2>2 DEF DeferJoinRequest, Kept
  <2>3. CASE AcceptJoinRequest(m.from, m.request)
    BY <2>1, <2>3, AcceptKeepsRecords
  <2> QED
    BY <1>4, <2>2, <2>3 DEF HandleJoinRequestAsHost
<1>5. ASSUME NEW m \in net, HandleLeaveNoticeAsHost(m) PROVE Kept
  <2>1. m.ids \in SUBSET Id /\ RemoveRemotePlayers(m.ids)
    BY <1>5 DEF TypeOK, Packet, HandleLeaveNoticeAsHost
  <2> QED
    BY <2>1, RemovalKeepsRecords
<1>6. ASSUME NEW m \in net, HandleJoinAcceptAsPeer(m) PROVE Kept
  BY <1>6 DEF HandleJoinAcceptAsPeer, Kept
<1>7. CASE CleanupExpiredRetainedPlayerStates
  BY <1>7, CleanupKeepsRecords
<1>8. ASSUME \/ Resume \/ StepFrame \/ LoadStage
             \/ \E k \in 1 .. Window : CompareLockstepHash(k)
             \/ UNCHANGED vars
      PROVE  Kept
  BY <1>8 DEF Resume, StepFrame, LoadStage, CompareLockstepHash, vars, Kept
<1> QED
  BY <1>1, <1>2, <1>3, <1>4, <1>5, <1>6, <1>7, <1>8 DEF Next, Receives

\* What somebody left behind waits for the whole of its lifetime, although the
\* frame counter it is measured with begins anew with every stage.
THEOREM RecordsWait == ~AcrossChanges /\ Spec => RecordsAreKeptUntilGivenBack
<1>1. TypeOK /\ Core /\ [Next]_vars => [Kept]_vars
  BY StepKeepsRecords
<1>2. ~AcrossChanges /\ Spec => [][Kept]_vars
  BY <1>1, CoreHolds, PTL DEF Spec
<1> QED
  BY <1>2 DEF RecordsAreKeptUntilGivenBack, Kept, GoesFor

-----------------------------------------------------------------------------
(* Who gets a record                                                       *)

\* Every id in use or asked for was given by this host, and a request on its way
\* is the one its process made.
IdsAreGiven ==
    /\ \A i \in Id : retained[i] # NoRecord => i < nextId
    /\ \A e \in Endpoint : /\ \A i \in remotes[e] : i < nextId
                           /\ \A i \in client[e].ids : i < nextId
                           /\ \A i \in client[e].request.prefers : i < nextId
                           /\ client[e].is = "out" => client[e].request = NoRequest
                           /\ pending[e] # NoRequest => pending[e] = client[e].request
    /\ \A m \in net : /\ m.type = "JoinAccept" => \A i \in m.ids : i < nextId
                      /\ m.type = "JoinRequest" => m.request = client[m.from].request

AsAsked ==
    \A e \in Endpoint : \A i \in remotes'[e] \ remotes[e] :
        retained[i] # NoRecord => i \in client[e].request.prefers

LEMMA InitIdsAreGiven == Init => IdsAreGiven
<1> SUFFICES ASSUME Init PROVE IdsAreGiven
  OBVIOUS
<1>1. /\ net = {} /\ \A i \in Id : retained[i] = NoRecord
      /\ \A e \in Endpoint : /\ remotes[e] = {} /\ pending[e] = NoRequest
                            /\ client[e] = [is |-> "out", request |-> NoRequest, ids |-> {}]
  BY DEF Init
<1>2. NoRequest.prefers = {}
  BY DEF NoRequest
<1> QED
  BY <1>1, <1>2 DEF IdsAreGiven

LEMMA IdsForAreGiven ==
    ASSUME TypeOK, NEW e \in Endpoint, NEW r \in Request, AcceptJoinRequest(e, r),
           \A i \in remotes[e] : i < nextId, \A i \in r.prefers : i < nextId
    PROVE  /\ nextId' \in Int /\ nextId' >= nextId /\ nextId \in Int
           /\ \A i \in IdsFor(e, r) : i \in Int /\ i < nextId'
           /\ ~Registered(e) => \A i \in IdsFor(e, r) : i \in r.prefers \/ i >= nextId
<1>1. /\ IF Registered(e) THEN nextId' = nextId ELSE nextId' \in IdsAfter(r)
      /\ nextId \in Int
  BY DEF AcceptJoinRequest, Admit, TypeOK
<1>2. nextId' \in Int /\ nextId' >= nextId
  BY <1>1, BoundAssumption DEF IdsAfter
<1>3. IdsFor(e, r) \subseteq Id
  BY IdsForAreIds
<1>4. CASE Registered(e)
  BY <1>1, <1>2, <1>3, <1>4 DEF IdsFor, Id, FirstRemotePlayerId
<1>5. CASE ~Registered(e)
  <2>1. \A i \in PreferredIds(r) : i \in r.prefers
    BY DEF PreferredIds, Least
  <2>2. \A i \in NewIds(r) : i >= nextId
    BY <1>1, BoundAssumption DEF NewIds, Least
  <2>3. \A i \in NewIds(r) : i < nextId'
    BY <1>1, <1>5 DEF IdsAfter
  <2>4. IdsFor(e, r) = PreferredIds(r) \cup NewIds(r)
    BY <1>5 DEF IdsFor
  <2>5. \A i \in PreferredIds(r) : i \in Id /\ i < nextId
    BY <1>3, <2>1, <2>4
  <2> QED
    BY <1>1, <1>2, <1>3, <2>1, <2>2, <2>3, <2>4, <2>5 DEF Id, FirstRemotePlayerId
<1> QED
  BY <1>4, <1>5

LEMMA AcceptKeepsIds ==
    ASSUME TypeOK, Core, IdsAreGiven, NEW e \in Endpoint, NEW r \in Request,
           AcceptJoinRequest(e, r), r = client[e].request,
           UNCHANGED client, net' \subseteq net \cup Accepts(e, remotes'[e])
    PROVE  IdsAreGiven' /\ AsAsked
<1> DEFINE ids == IdsFor(e, r)
<1>1. /\ nextId' \in Int /\ nextId' >= nextId /\ nextId \in Int
      /\ \A i \in ids : i \in Int /\ i < nextId'
      /\ ~Registered(e) => \A i \in ids : i \in r.prefers \/ i >= nextId
  <2>1. (\A i \in remotes[e] : i < nextId) /\ (\A i \in r.prefers : i < nextId)
    BY DEF IdsAreGiven
  <2> QED
    BY <2>1, IdsForAreGiven
<1>2. ids \subseteq Id
  BY IdsForAreIds
<1>3. /\ RemoveRetainedPlayerState(ids)
      /\ remotes' = [remotes EXCEPT ![e] = ids]
      /\ pending' = [pending EXCEPT ![e] = NoRequest]
  BY DEF AcceptJoinRequest, Admit, RegisterRemoteEndpoint
<1>4. Registered(e) => ids = remotes[e]
  BY DEF IdsFor
<1> HIDE DEF ids
<1>5. \A i \in Id : i < nextId => i < nextId'
  BY <1>1 DEF Id, FirstRemotePlayerId
<1>6. \A i \in Id : retained'[i] # NoRecord => i < nextId'
  BY <1>3, <1>5 DEF RemoveRetainedPlayerState, IdsAreGiven
<1>7. \A f \in Endpoint :
        /\ \A i \in remotes'[f] : i < nextId'
        /\ \A i \in client[f].ids : i < nextId'
        /\ \A i \in client[f].request.prefers : i < nextId'
        /\ pending'[f] # NoRequest => pending'[f] = client[f].request
  <2> TAKE f \in Endpoint
  <2>1. \A i \in remotes'[f] : i < nextId'
    <3>1. CASE f = e
      BY <1>1, <1>3, <3>1 DEF TypeOK
    <3>2. CASE f # e
      BY <1>3, <1>5, <3>2 DEF TypeOK, IdsAreGiven
    <3> QED
      BY <3>1, <3>2
  <2>2. client[f].ids \subseteq Id /\ client[f].request.prefers \subseteq Id
    BY DEF TypeOK, Request, NoRequest
  <2>3. pending'[f] # NoRequest => pending'[f] = client[f].request
    <3>1. pending'[f] = NoRequest \/ pending'[f] = pending[f]
      <4>1. DOMAIN pending = Endpoint
        BY DEF TypeOK
      <4> QED
        BY <1>3, <4>1
    <3> QED
      BY <3>1 DEF IdsAreGiven
  <2>4. /\ \A i \in client[f].ids : i < nextId
        /\ \A i \in client[f].request.prefers : i < nextId
    BY DEF IdsAreGiven
  <2>5. /\ \A i \in client[f].ids : i < nextId'
        /\ \A i \in client[f].request.prefers : i < nextId'
    BY <1>5, <2>2, <2>4
  <2> QED
    BY <2>1, <2>3, <2>5
<1>8. \A m \in net' : /\ m.type = "JoinAccept" => \A i \in m.ids : i < nextId'
                      /\ m.type = "JoinRequest" => m.request = client[m.from].request
  <2> TAKE m \in net'
  <2>1. CASE m \in net
    <3>1. m.type = "JoinAccept" => m.ids \subseteq Id
      BY <2>1 DEF TypeOK, Packet
    <3>2. /\ m.type = "JoinAccept" => \A i \in m.ids : i < nextId
          /\ m.type = "JoinRequest" => m.request = client[m.from].request
      BY <2>1 DEF IdsAreGiven
    <3> QED
      BY <1>5, <3>1, <3>2
  <2>2. CASE m \notin net
    <3>1. m = [type |-> "JoinAccept", to |-> e, ids |-> remotes'[e]]
      BY <2>2 DEF Accepts
    <3> QED
      BY <1>7, <3>1
  <2> QED
    BY <2>1, <2>2
<1>9. AsAsked
  <2> SUFFICES ASSUME NEW f \in Endpoint, NEW i \in remotes'[f] \ remotes[f],
                      retained[i] # NoRecord
               PROVE  i \in client[f].request.prefers
    BY DEF AsAsked
  <2>1. f = e /\ i \in ids
    BY <1>3 DEF TypeOK
  <2>2. ~Registered(e)
    BY <1>4, <2>1
  <2>3. i \in Id /\ i < nextId
    BY <1>2, <2>1 DEF IdsAreGiven
  <2> QED
    BY <1>1, <2>1, <2>2, <2>3 DEF Id, FirstRemotePlayerId
<1> QED
  <2>1. /\ client' = client
        /\ \A f \in Endpoint : client[f].is = "out" => client[f].request = NoRequest
    BY DEF IdsAreGiven
  <2>2. IdsAreGiven'
    BY <1>6, <1>7, <1>8, <2>1 DEF IdsAreGiven
  <2> QED
    BY <1>9, <2>2

LEMMA RemovalKeepsIds ==
    ASSUME TypeOK, Core, IdsAreGiven, NEW ids \in SUBSET Id, RemoveRemotePlayers(ids),
           UNCHANGED <<client, nextId, pending>>, net' \subseteq net
    PROVE  IdsAreGiven' /\ AsAsked
<1>1. \A e \in Endpoint : remotes'[e] \subseteq remotes[e]
  BY DEF RemoveRemotePlayers, ForgetPlayersOfRemotes
<1>2. \A i \in Id : retained'[i] # NoRecord => i \in world.slots \/ retained[i] # NoRecord
  BY DEF RemoveRemotePlayers, StoreRetainedPlayerState
<1>3. \A i \in world.slots : i < nextId
  BY DEF Core, EveryPlayerHasAnEndpoint, IdsAreGiven
<1>4. AsAsked
  BY <1>1 DEF AsAsked
<1>5. \A i \in Id : i < nextId => i < nextId'
  OBVIOUS
<1>6. \A i \in Id : retained'[i] # NoRecord => i < nextId'
  BY <1>2, <1>3, <1>5 DEF IdsAreGiven
<1>7. IdsAreGiven'
  BY <1>1, <1>6 DEF IdsAreGiven
<1> QED
  BY <1>4, <1>7

LEMMA StepKeepsIds ==
    Earlier = {} /\ TypeOK /\ Core /\ IdsAreGiven /\ [Next]_vars => IdsAreGiven' /\ [AsAsked]_vars
<1> SUFFICES ASSUME Earlier = {}, TypeOK, Core, IdsAreGiven, [Next]_vars
             PROVE  IdsAreGiven' /\ [AsAsked]_vars
  OBVIOUS
<1> USE DEF lobby, rollback, clock
<1>1. ASSUME NEW e \in Endpoint, JoinHostSession(e) PROVE IdsAreGiven' /\ AsAsked
  <2>1. PICK p \in IdsToAskFor, c \in Counts :
          client' = [client EXCEPT ![e].is = "asking",
                                   ![e].request = [count |-> c, prefers |-> p]]
    BY <1>1 DEF JoinHostSession
  <2>2. \A i \in p : i < nextId
    BY DEF IdsToAskFor, IdsAreGiven
  <2>3. client[e].request = NoRequest
    BY <1>1 DEF JoinHostSession, IdsAreGiven
  <2>4. UNCHANGED <<retained, remotes, pending, net, nextId>>
    BY <1>1 DEF JoinHostSession
  <2>5. \A m \in net : m.type = "JoinRequest" => m.from # e
    <3>1. \A m \in net : m.type = "JoinRequest" => m.request # NoRequest
      BY BoundAssumption DEF TypeOK, Packet, Request, NoRequest
    <3> QED
      BY <2>3, <3>1 DEF IdsAreGiven
  <2>6. pending[e] = NoRequest
    BY <2>3 DEF IdsAreGiven
  <2>7. /\ client'[e] = [is |-> "asking", request |-> [count |-> c, prefers |-> p],
                         ids |-> client[e].ids]
        /\ \A f \in Endpoint : f # e => client'[f] = client[f]
    BY <2>1 DEF TypeOK
  <2>8. \A f \in Endpoint :
           /\ \A i \in client'[f].ids : i < nextId
           /\ \A i \in client'[f].request.prefers : i < nextId
           /\ client'[f].is = "out" => client'[f].request = NoRequest
           /\ pending[f] # NoRequest => pending[f] = client'[f].request
    BY <2>2, <2>6, <2>7 DEF IdsAreGiven
  <2>9. \A m \in net : m.type = "JoinRequest" => m.request = client'[m.from].request
    BY <2>5, <2>7 DEF IdsAreGiven, TypeOK, Packet
  <2> QED
    BY <2>4, <2>8, <2>9 DEF IdsAreGiven, AsAsked
<1>2. ASSUME NEW e \in Endpoint, SendJoinRequest(e) PROVE IdsAreGiven' /\ AsAsked
  <2>1. /\ UNCHANGED <<retained, remotes, pending, client, nextId>>
        /\ net' = net \cup {[type |-> "JoinRequest", from |-> e, request |-> client[e].request]}
    BY <1>2 DEF SendJoinRequest
  <2> QED
    BY <2>1 DEF IdsAreGiven, AsAsked
<1>3. ASSUME NEW e \in Endpoint, DisconnectSession(e) \/ Crash(e)
      PROVE  IdsAreGiven' /\ AsAsked
  <2>1. /\ UNCHANGED <<retained, remotes, pending, nextId>>
        /\ client' = [client EXCEPT ![e].is = "gone"]
    BY <1>3 DEF DisconnectSession, Crash
  <2>2. \A m \in net' : m \in net \/ m.type = "LeaveNotice"
    BY <1>3 DEF DisconnectSession, Crash, WithoutAccepts
  <2>3. \A f \in Endpoint : /\ client'[f].ids = client[f].ids
                            /\ client'[f].request = client[f].request
                            /\ client'[f].is = "out" => client[f].is = "out"
    BY <2>1 DEF TypeOK
  <2>4. \A m \in net : m.type = "JoinRequest" => m.from \in Endpoint
    BY DEF TypeOK, Packet
  <2> QED
    BY <2>1, <2>2, <2>3, <2>4 DEF IdsAreGiven, AsAsked
<1>4. ASSUME NEW e \in Endpoint, DrainPendingJoinRequestsAsHost(e)
      PROVE  IdsAreGiven' /\ AsAsked
  <2>1. /\ pending[e] \in Request /\ AcceptJoinRequest(e, pending[e])
        /\ client' = client /\ net' = net \cup Accepts(e, remotes'[e])
        /\ pending[e] # NoRequest
    BY <1>4 DEF TypeOK, DrainPendingJoinRequestsAsHost
  <2>2. pending[e] = client[e].request
    BY <2>1 DEF IdsAreGiven
  <2> QED
    BY <2>1, <2>2, AcceptKeepsIds
<1>5. ASSUME NEW e \in Endpoint, RemoveRemoteEndpoint(e) PROVE IdsAreGiven' /\ AsAsked
  <2>1. /\ remotes[e] \in SUBSET Id /\ RemoveRemotePlayers(remotes[e])
        /\ UNCHANGED <<client, nextId, pending, net>>
    BY <1>5 DEF TypeOK, RemoveRemoteEndpoint
  <2> QED
    BY <2>1, RemovalKeepsIds
<1>6. ASSUME NEW e \in Endpoint, DropPendingJoin(e) PROVE IdsAreGiven' /\ AsAsked
  <2>1. /\ UNCHANGED <<retained, remotes, client, net, nextId>>
        /\ pending' = [pending EXCEPT ![e] = NoRequest]
    BY <1>6 DEF DropPendingJoin
  <2>2. \A f \in Endpoint : pending'[f] = NoRequest \/ pending'[f] = pending[f]
    BY <2>1 DEF TypeOK
  <2> QED
    BY <2>1, <2>2 DEF IdsAreGiven, AsAsked
<1>7. ASSUME NEW m \in net, HandleJoinRequestAsHost(m) PROVE IdsAreGiven' /\ AsAsked
  <2>1. /\ m.from \in Endpoint /\ m.request \in Request /\ client' = client
        /\ m.type = "JoinRequest"
    BY <1>7 DEF TypeOK, Packet, HandleJoinRequestAsHost
  <2>2. m.request = client[m.from].request
    BY <2>1 DEF IdsAreGiven
  <2>3. CASE DeferJoinRequest(m.from, m.request)
    <3>1. /\ UNCHANGED <<retained, remotes, client, nextId>> /\ net' \subseteq net
          /\ pending' = [pending EXCEPT ![m.from] = m.request]
      BY <1>7, <2>3 DEF DeferJoinRequest, HandleJoinRequestAsHost
    <3>2. \A f \in Endpoint : pending'[f] = client[f].request \/ pending'[f] = pending[f]
      BY <2>1, <2>2, <3>1 DEF TypeOK
    <3> QED
      BY <3>1, <3>2 DEF IdsAreGiven, AsAsked
  <2>4. CASE AcceptJoinRequest(m.from, m.request)
    <3>1. net' \subseteq net \cup Accepts(m.from, remotes'[m.from])
      BY <1>7, <2>4 DEF AcceptJoinRequest, HandleJoinRequestAsHost
    <3> QED
      BY <2>1, <2>2, <2>4, <3>1, AcceptKeepsIds
  <2> QED
    BY <1>7, <2>3, <2>4 DEF HandleJoinRequestAsHost
<1>8. ASSUME NEW m \in net, HandleLeaveNoticeAsHost(m) PROVE IdsAreGiven' /\ AsAsked
  <2>1. /\ m.ids \in SUBSET Id /\ RemoveRemotePlayers(m.ids)
        /\ UNCHANGED <<client, nextId, pending>> /\ net' \subseteq net
    BY <1>8 DEF TypeOK, Packet, HandleLeaveNoticeAsHost
  <2> QED
    BY <2>1, RemovalKeepsIds
<1>9. ASSUME NEW m \in net, HandleJoinAcceptAsPeer(m) PROVE IdsAreGiven' /\ AsAsked
  <2>1. /\ UNCHANGED <<retained, remotes, pending, nextId>> /\ net' \subseteq net
        /\ client' = [client EXCEPT ![m.to].is = "in", ![m.to].ids = m.ids]
        /\ m.to \in Endpoint /\ \A i \in m.ids : i < nextId
    BY <1>9 DEF HandleJoinAcceptAsPeer, WithoutAccepts, TypeOK, Packet, IdsAreGiven
  <2>2. \A f \in Endpoint : /\ \A i \in client'[f].ids : i < nextId
                            /\ client'[f].request = client[f].request
                            /\ client'[f].is = "out" => client[f].is = "out"
    BY <2>1 DEF TypeOK, IdsAreGiven
  <2>3. \A n \in net : n.type = "JoinRequest" => n.from \in Endpoint
    BY DEF TypeOK, Packet
  <2> QED
    BY <2>1, <2>2, <2>3 DEF IdsAreGiven, AsAsked
<1>10. CASE CleanupExpiredRetainedPlayerStates
  <2>1. /\ UNCHANGED <<remotes, pending, client, net, nextId>>
        /\ \A i \in Id : retained'[i] # NoRecord => retained[i] # NoRecord
    BY <1>10 DEF CleanupExpiredRetainedPlayerStates
  <2> QED
    BY <2>1 DEF IdsAreGiven, AsAsked
<1>11. ASSUME \/ Resume \/ StepFrame \/ LoadStage
              \/ \E k \in 1 .. Window : CompareLockstepHash(k)
              \/ UNCHANGED vars
       PROVE  IdsAreGiven' /\ AsAsked
  <2>1. UNCHANGED <<retained, remotes, pending, client, net, nextId>>
    BY <1>11 DEF Resume, StepFrame, LoadStage, CompareLockstepHash, vars
  <2> QED
    BY <2>1 DEF IdsAreGiven, AsAsked
<1> QED
  BY <1>1, <1>2, <1>3, <1>4, <1>5, <1>6, <1>7, <1>8, <1>9, <1>10, <1>11 DEF Next, Receives

\* What somebody left behind goes to nobody who did not ask for it, if no process
\* asks for an id of an earlier session.
THEOREM RecordsGoToWhoAsks ==
    ~AcrossChanges /\ Earlier = {} /\ Spec => RecordGoesToWhoAskedForIt
<1>1. CASE Earlier # {}
  BY <1>1
<1>2. CASE Earlier = {}
  <2>1. TypeOK /\ Core /\ IdsAreGiven /\ [Next]_vars => IdsAreGiven' /\ [AsAsked]_vars
    BY <1>2, StepKeepsIds
  <2>2. ~AcrossChanges /\ Spec => [][AsAsked]_vars
    BY <2>1, InitIdsAreGiven, CoreHolds, PTL DEF Spec
  <2> QED
    BY <2>2 DEF RecordGoesToWhoAskedForIt, AsAsked
<1> QED
  BY <1>1, <1>2
================================================================================
