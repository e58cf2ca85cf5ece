---------------------------- MODULE LobbyMembership ----------------------------
(***************************************************************************)
(* Who is in the host's lobby: joining, leaving and coming back            *)
(* (src/network/net_lobby_join.cpp, net_lobby_endpoint.cpp and             *)
(* net_lobby_retained_player.cpp), and how it meets the host's own         *)
(* rollbacks, which restore the player registry with the simulation.       *)
(*                                                                         *)
(* The host keeps the same fact in several places: player slots in the     *)
(* simulation, NetPeerState, the endpoints with their player ids, and for  *)
(* those who left a record of what they carried.  Of the simulation only   *)
(* the slots and the place of every item are kept.  An endpoint is used    *)
(* once: a process that joins again opens a new socket.  Time-outs are     *)
(* choices, since every packet of three seconds may be lost; the end of a  *)
(* barrier is one too (JoinBarrier has it).                                *)
(***************************************************************************)
EXTENDS Integers, Sequences, FiniteSets

CONSTANTS
    Endpoint,       \* addresses of processes that may join
    MaxId,          \* bound: ids given, from FirstRemotePlayerId
    Item,           \* what can be carried
    Counts,         \* numbers of players a process brings
    Earlier,        \* ids a process may prefer from an earlier session
    SpawnModes,     \* "Retained" and "Fresh" reconnect_spawn_mode
    Lifetime,       \* retained_player_lifetime_frames; 0 for ever
    Window,         \* rollback snapshots kept
    AcrossChanges,  \* the players may change while a rollback is asked for
    MaxPlayed,      \* bound: frames stepped
    MaxStage,       \* bound: stages loaded
    MaxRequests,    \* bound: join requests sent
    MaxCuts         \* bound: time-outs and kicks of processes that are there

FirstRemotePlayerId == 2
Id == FirstRemotePlayerId .. MaxId

ASSUME BoundAssumption ==
    /\ MaxId \in Nat \ {0} /\ Lifetime \in Nat /\ Window \in Nat /\ MaxPlayed \in Nat
    /\ MaxStage \in Nat /\ MaxCuts \in Nat /\ MaxRequests \in Nat /\ AcrossChanges \in BOOLEAN
    /\ Counts \subseteq Nat \ {0} /\ Earlier \subseteq Id
    /\ SpawnModes \subseteq {"Retained", "Fresh"}

VARIABLES
    world,      \* the simulation: slots, carried, ground, frame
    saved,      \* lockstep_rollback_snapshots, newest first
    calm,       \* frames stepped since the last change of players, to Window + 1
    requested,  \* lockstep_rollback_requested_frame, in frames back; 0 if none
    mode,       \* "Playing" or "StageTransition"
    blocked,    \* join_barrier_active
    connected,  \* ids of the connected NetPeerState
    remotes,    \* transport.remotes: endpoint to player ids
    pending,    \* pending_join_endpoints: endpoint to request
    retained,   \* retained_players: id to record
    nextId,     \* next_player_id
    spawnMode,  \* reconnect_spawn_mode
    client,     \* the processes that join
    net,        \* packets on their way
    played,     \* frames stepped in all
    stage,      \* stages loaded
    cuts,       \* processes removed that were there
    sent        \* join requests sent

lobby == <<connected, remotes, pending, retained, nextId>>
rollback == <<saved, calm, requested>>
clock == <<mode, played, stage, cuts, sent>>
vars == <<world, rollback, blocked, lobby, spawnMode, client, net, clock>>

NoRequest == [count |-> 0, prefers |-> {}]
Request == [count : Counts, prefers : SUBSET Id]
Record == [items : SUBSET Item, frame : Nat, since : Nat]
NoRecord == [items |-> {}, frame |-> 0]
Packet ==
    [type : {"JoinRequest"}, from : Endpoint, request : Request]
        \cup [type : {"LeaveNotice"}, ids : SUBSET Id]
        \cup [type : {"JoinAccept"}, to : Endpoint, ids : SUBSET Id]

Registered(e) == remotes[e] # {}

\* A packet that is lost is one never received.  An accept for a process that
\* asks no more is ignored (HandleJoinAcceptAsPeer) and left out.
Accepts(e, ids) ==
    IF client[e].is = "asking" THEN {[type |-> "JoinAccept", to |-> e, ids |-> ids]} ELSE {}
WithoutAccepts(e) == {m \in net : ~(m.type = "JoinAccept" /\ m.to = e)}

-----------------------------------------------------------------------------
(* The host removes players.                                               *)

\* StoreRetainedPlayerState and DeactivateDepartingPlayerEnt: what a departing
\* player carries goes from the world into its record.
StoreRetainedPlayerState(ids) ==
    retained' = [i \in Id |->
        IF i \in ids \cap world.slots
          THEN [items |-> world.carried[i], frame |-> world.frame, since |-> played]
          ELSE retained[i]]

\* The record kept, the items left with the body.
DeactivateOnlyTheBody(w, ids) ==
    [w EXCEPT !.slots = @ \ ids,
              !.ground = @ \cup UNION {w.carried[i] : i \in ids \cap w.slots},
              !.carried = [i \in Id |-> IF i \in ids THEN {} ELSE @[i]]]
DeactivateDepartingPlayerEnt(w, ids) ==
    [w EXCEPT !.slots = @ \ ids,
              !.carried = [i \in Id |-> IF i \in ids THEN {} ELSE @[i]]]

\* The bodies go, the ids stay registered with the endpoint that is not there.
ForgetPlayers(ids) ==
    /\ connected' = connected \ ids
    /\ UNCHANGED remotes
ForgetPlayersOfRemotes(ids) ==
    /\ connected' = connected \ ids
    /\ remotes' = [e \in Endpoint |-> remotes[e] \ ids]

\* A change of the players: nothing in the host's rollback state is touched, so
\* that a rollback asked for before is replayed after it, unless the run assumes
\* that none is.
TopologyChanged ==
    /\ AcrossChanges \/ requested = 0
    /\ blocked' = TRUE
    /\ calm' = 0
    /\ UNCHANGED <<saved, requested>>

\* RemoveRemotePlayers on the host, with BeginJoinBarrierTopologyRemoval.
RemoveRemotePlayers(ids) ==
    /\ StoreRetainedPlayerState(ids)
    /\ world' = DeactivateDepartingPlayerEnt(world, ids)
    /\ ForgetPlayersOfRemotes(ids)
    /\ TopologyChanged

-----------------------------------------------------------------------------
(* The host admits players.                                                *)

IsRemotePlayerIdAvailableForJoin(i) == i \notin world.slots \cup connected

Least(k, S) == {i \in S : Cardinality({j \in S : j < i}) < k}

\* GetPreferredJoinPlayerIds: first the ids asked for that are free, then new
\* ones; ids counted past stay behind.
PreferredIds(r) ==
    Least(r.count, {i \in r.prefers : IsRemotePlayerIdAvailableForJoin(i)})
\* The lowest id nobody uses is given, as by NextAvailablePlayerId of a registry.
LowestFreeIds(r) ==
    Least(r.count - Cardinality(PreferredIds(r)),
          {i \in Id : IsRemotePlayerIdAvailableForJoin(i)} \ PreferredIds(r))
NewIds(r) ==
    Least(r.count - Cardinality(PreferredIds(r)),
          {i \in nextId .. MaxId : IsRemotePlayerIdAvailableForJoin(i)} \ PreferredIds(r))

\* One more than the last id counted to.
IdsAfter(r) ==
    {n \in nextId .. MaxId + 1 :
        /\ \A i \in NewIds(r) : i < n
        /\ n = nextId \/ n - 1 \in NewIds(r)}

\* The player's body is there, or it gets a new one and with it what was kept.
GivenBack(i) ==
    IF i \notin world.slots /\ spawnMode = "Retained" THEN retained[i].items ELSE {}
GiveBodies(ids) ==
    world' = [world EXCEPT
        !.slots = @ \cup ids,
        !.carried = [i \in Id |-> IF i \in ids THEN @[i] \cup GivenBack(i) ELSE @[i]]]

\* The record stays after its items were given back.
KeepRecords(ids) == retained' = retained
RemoveRetainedPlayerState(ids) ==
    retained' = [i \in Id |-> IF i \in ids \ world.slots THEN NoRecord ELSE retained[i]]

\* An endpoint that asks again keeps its ids; both ways a barrier follows.
IdsFor(e, r) == IF Registered(e) THEN remotes[e] ELSE PreferredIds(r) \cup NewIds(r)

RegisterRemoteEndpoint(e, ids) == remotes' = [remotes EXCEPT ![e] = ids]

Admit(e, r, ids) ==
    /\ GiveBodies(ids)
    /\ RemoveRetainedPlayerState(ids)
    /\ connected' = connected \cup ids
    /\ RegisterRemoteEndpoint(e, ids)
    /\ IF Registered(e) THEN nextId' = nextId ELSE nextId' \in IdsAfter(r)

ShouldDeferJoinRequest == mode = "StageTransition"

\* HandleJoinRequestAsHost.
DeferJoinRequest(e, r) ==
    /\ ShouldDeferJoinRequest
    /\ pending' = [pending EXCEPT ![e] = r]
    /\ UNCHANGED <<world, rollback, blocked, connected, remotes, retained, nextId>>
AcceptJoinRequest(e, r) ==
    /\ ~ShouldDeferJoinRequest
    /\ Registered(e) \/ Cardinality(PreferredIds(r) \cup NewIds(r)) = r.count
    /\ Admit(e, r, IdsFor(e, r))
    /\ pending' = [pending EXCEPT ![e] = NoRequest]
    /\ TopologyChanged

-----------------------------------------------------------------------------
Init ==
    /\ world \in [slots : {{}}, carried : {[i \in Id |-> {}]}, ground : {Item}, frame : {0}]
    /\ saved = <<>> /\ calm = 0 /\ requested = 0
    /\ mode = "Playing" /\ blocked = FALSE /\ played = 0 /\ stage = 0 /\ cuts = 0 /\ sent = 0
    /\ connected = {} /\ remotes = [e \in Endpoint |-> {}]
    /\ pending = [e \in Endpoint |-> NoRequest]
    /\ retained = [i \in Id |-> NoRecord]
    /\ nextId = FirstRemotePlayerId
    /\ spawnMode \in SpawnModes
    /\ client = [e \in Endpoint |->
                    [is |-> "out", request |-> NoRequest, ids |-> {}]]
    /\ net = {}

(* The processes that join: external but for the packets they send.        *)

\* What a process may prefer: the ids one that is gone had (its user passes them
\* on), or ids of an earlier session.
IdsToAskFor ==
    {{}} \cup {client[e].ids : e \in {e \in Endpoint : client[e].is = "gone"}}
         \cup {{i} : i \in Earlier}

\* JoinHostSession.
JoinHostSession(e) ==
    /\ client[e].is = "out"
    /\ \E p \in IdsToAskFor, c \in Counts :
          client' = [client EXCEPT ![e].is = "asking",
                                   ![e].request = [count |-> c, prefers |-> p]]
    /\ UNCHANGED <<world, rollback, blocked, lobby, spawnMode, net, clock>>

\* SendJoinRequest, again every kJoinRetryFrames until it is answered.
SendJoinRequest(e) ==
    /\ client[e].is = "asking" /\ sent < MaxRequests
    /\ sent' = sent + 1
    /\ net' = net \cup {[type |-> "JoinRequest", from |-> e, request |-> client[e].request]}
    /\ UNCHANGED <<world, rollback, blocked, lobby, spawnMode, client,
                   mode, played, stage, cuts>>

\* HandleJoinAcceptAsPeer.
HandleJoinAcceptAsPeer(m) ==
    /\ m.type = "JoinAccept"
    /\ client' = [client EXCEPT ![m.to].is = "in", ![m.to].ids = m.ids]
    /\ net' = WithoutAccepts(m.to)
    /\ UNCHANGED <<world, rollback, blocked, lobby, spawnMode, clock>>

\* DisconnectSession, with SendLeaveNotice: the notice names the local players,
\* before the accept only the id the host has itself (left out of Id).
DisconnectSession(e) ==
    /\ client[e].is \in {"asking", "in"}
    /\ client' = [client EXCEPT ![e].is = "gone"]
    /\ net' = WithoutAccepts(e) \cup
              IF client[e].ids = {} THEN {} ELSE {[type |-> "LeaveNotice", ids |-> client[e].ids]}
    /\ UNCHANGED <<world, rollback, blocked, lobby, spawnMode, clock>>

\* The process ends without a word.
Crash(e) ==
    /\ client[e].is \in {"asking", "in"}
    /\ client' = [client EXCEPT ![e].is = "gone"]
    /\ net' = WithoutAccepts(e)
    /\ UNCHANGED <<world, rollback, blocked, lobby, spawnMode, clock>>

-----------------------------------------------------------------------------
(* The host's pump.                                                        *)

HandleJoinRequestAsHost(m) ==
    /\ m.type = "JoinRequest"
    /\ DeferJoinRequest(m.from, m.request) \/ AcceptJoinRequest(m.from, m.request)
    /\ net' = (net \ {m}) \cup
              IF ShouldDeferJoinRequest THEN {}
              ELSE Accepts(m.from, remotes'[m.from])
    /\ UNCHANGED <<spawnMode, client, clock>>

\* A notice names players, not the endpoint it comes from.
HandleLeaveNoticeAsHost(m) ==
    /\ m.type = "LeaveNotice"
    /\ RemoveRemotePlayers(m.ids)
    /\ net' = net \ {m}
    /\ UNCHANGED <<pending, nextId, spawnMode, client, clock>>

\* DrainPendingJoinRequestsAsHost, one request of those it takes.
DrainPendingJoinRequestsAsHost(e) ==
    /\ ~ShouldDeferJoinRequest
    /\ pending[e] # NoRequest
    /\ AcceptJoinRequest(e, pending[e])
    /\ net' = net \cup Accepts(e, remotes'[e])
    /\ UNCHANGED <<spawnMode, client, clock>>

\* RemoveRemoteEndpoint: a time-out of CleanupTimedOutRemoteEndpoints, or
\* KickRemoteEndpoint; nobody tells the process.
RemoveRemoteEndpoint(e) ==
    /\ Registered(e)
    /\ client[e].is = "gone" \/ cuts < MaxCuts
    /\ cuts' = IF client[e].is = "gone" THEN cuts ELSE cuts + 1
    /\ RemoveRemotePlayers(remotes[e])
    /\ UNCHANGED <<pending, nextId, spawnMode, client, net, mode, played, stage, sent>>

\* The other half of CleanupTimedOutRemoteEndpoints: a deferred request that was
\* not repeated in time.
DropPendingJoin(e) ==
    /\ pending[e] # NoRequest
    /\ pending' = [pending EXCEPT ![e] = NoRequest]
    /\ UNCHANGED <<world, rollback, blocked, connected, remotes, retained, nextId,
                   spawnMode, client, net, clock>>

\* CleanupExpiredRetainedPlayerStates.  Without the first conjunct the unsigned
\* difference wraps round.
IsExpiredUnsigned(i) == world.frame - retained[i].frame \notin 0 .. Lifetime
IsExpired(i) ==
    /\ world.frame > retained[i].frame
    /\ world.frame - retained[i].frame > Lifetime
CleanupExpiredRetainedPlayerStates ==
    LET expired == {i \in Id : retained[i] # NoRecord /\ IsExpired(i)} IN
    /\ Lifetime > 0 /\ expired # {}
    /\ retained' = [i \in Id |-> IF i \in expired THEN NoRecord ELSE retained[i]]
    /\ UNCHANGED <<world, rollback, blocked, connected, remotes, pending, nextId,
                   spawnMode, client, net, clock>>

-----------------------------------------------------------------------------
(* The host's simulation.                                                  *)

\* SendPendingJoinBarrier, once the barrier is ready to resume.
Resume ==
    /\ blocked
    /\ blocked' = FALSE
    /\ UNCHANGED <<world, rollback, lobby, spawnMode, client, net, clock>>

\* CompareLockstepHash: a peer's hash differs, and the frame after the last one
\* that was equal is k frames back.  What the host steps is canonical, so nothing
\* else asks it for a rollback.  A barrier's end forgets all hashes
\* (ClearJoinBarrier): the one that was equal is of a later frame.
CompareLockstepHash(k) ==
    /\ ~blocked
    /\ \E e \in Endpoint : Registered(e)
    /\ k \in requested + 1 .. Len(saved) /\ k < calm
    /\ played < MaxPlayed
    /\ requested' = k
    /\ UNCHANGED <<world, saved, calm, blocked, lobby, spawnMode, client, net, clock>>

\* ReplayRollbackWindow restores the simulation, with the player registry, as it
\* was before the frame, and steps on from there.
Replayed == IF requested = 0 THEN world
            ELSE [saved[requested] EXCEPT !.frame = world.frame]

\* What a frame does with the items: nothing, or a player picks one up or drops
\* one, if it has it.
PickUp(w, i, x) == [w EXCEPT !.ground = @ \ {x}, !.carried[i] = @ \cup {x}]
Drop(w, i, x) ==
    [w EXCEPT !.ground = @ \cup (w.carried[i] \cap {x}), !.carried[i] = @ \ {x}]
Moves(w) ==
    {w} \cup {PickUp(w, i, x) : i \in w.slots, x \in w.ground}
        \cup {Drop(w, i, x) : i \in w.slots, x \in Item}

\* PrepareInputLockstepFrame and StepPlaying.  A frame may end the stage.
StepFrame ==
    /\ mode = "Playing" /\ ~blocked /\ played < MaxPlayed
    /\ \E w \in Moves(Replayed), ends \in BOOLEAN :
          /\ ends => stage < MaxStage
          /\ world' = [w EXCEPT !.frame = IF ends THEN 1 ELSE @ + 1]
          /\ mode' = IF ends THEN "StageTransition" ELSE mode
    /\ saved' = SubSeq(<<Replayed>> \o saved, 1,
                       IF Len(saved) < Window THEN Len(saved) + 1 ELSE Window)
    /\ calm' = IF calm <= Window THEN calm + 1 ELSE calm
    /\ requested' = 0
    /\ played' = played + 1
    /\ UNCHANGED <<blocked, lobby, spawnMode, client, net, stage, cuts, sent>>

\* The request outlives the snapshots.
ResetSnapshotsOnly == saved' = <<>> /\ calm' = 0 /\ requested' = requested
ResetInputLockstepState == saved' = <<>> /\ calm' = 0 /\ requested' = 0

\* StepStageTransition and NotifyStageLoaded: what lies about is left behind.
LoadStage ==
    /\ mode = "StageTransition" /\ ~blocked
    /\ mode' = "Playing"
    /\ stage' = stage + 1
    /\ world' = [world EXCEPT !.ground = {}]
    /\ ResetInputLockstepState
    /\ UNCHANGED <<blocked, lobby, spawnMode, client, net, played, cuts, sent>>

Receives(m) ==
    HandleJoinRequestAsHost(m) \/ HandleLeaveNoticeAsHost(m) \/ HandleJoinAcceptAsPeer(m)

Next ==
    \/ \E e \in Endpoint :
          \/ JoinHostSession(e) \/ SendJoinRequest(e) \/ DisconnectSession(e) \/ Crash(e)
          \/ DrainPendingJoinRequestsAsHost(e) \/ RemoveRemoteEndpoint(e)
          \/ DropPendingJoin(e)
    \/ \E m \in net : Receives(m)
    \/ CleanupExpiredRetainedPlayerStates
    \/ Resume
    \/ \E k \in 1 .. Window : CompareLockstepHash(k)
    \/ StepFrame
    \/ LoadStage

Spec == Init /\ [][Next]_vars

-----------------------------------------------------------------------------
(* Properties                                                              *)

World == [slots : SUBSET Id, carried : [Id -> SUBSET Item], ground : SUBSET Item, frame : Nat]

\* Every variable keeps its type, and a rollback is asked for only to a frame
\* whose snapshot there is (RequestRollbackFromFrame, ResetInputLockstepState).
TypeOK ==
    /\ world \in World
    /\ saved \in Seq(World) /\ Len(saved) <= Window
    /\ calm \in 0 .. Window + 1 /\ requested \in 0 .. Len(saved)
    /\ mode \in {"Playing", "StageTransition"} /\ blocked \in BOOLEAN
    /\ connected \subseteq Id
    /\ remotes \in [Endpoint -> SUBSET Id]
    /\ pending \in [Endpoint -> Request \cup {NoRequest}]
    /\ retained \in [Id -> Record \cup {NoRecord}]
    /\ nextId \in FirstRemotePlayerId .. MaxId + 1
    /\ spawnMode \in SpawnModes
    /\ client \in [Endpoint -> [is : {"out", "asking", "in", "gone"},
                                request : Request \cup {NoRequest},
                                ids : SUBSET Id]]
    /\ \A e \in Endpoint : client[e].is = "asking" => client[e].request \in Request
    /\ net \subseteq Packet
    /\ played \in 0 .. MaxPlayed /\ stage \in 0 .. MaxStage
    /\ mode = "StageTransition" => stage < MaxStage
    /\ cuts \in 0 .. MaxCuts
    /\ sent \in 0 .. MaxRequests

\* The host waits for the inputs of the players in its registry
\* (GetConnectedPlayerIds), and these are the players of the endpoints it hears:
\* exactly one endpoint each, and a connected NetPeerState.  A slot without an
\* endpoint is one nobody can time out or kick, and everybody waits for it.
EveryPlayerHasAnEndpoint ==
    /\ world.slots = UNION {remotes[e] : e \in Endpoint}
    /\ world.slots = connected
    /\ \A e, f \in Endpoint : e # f => remotes[e] \cap remotes[f] = {}

\* What a player carries is in the world, or in the record of one who left, but
\* never in two places (StoreRetainedPlayerState, DeactivateDepartingPlayerEnt,
\* ApplyRetainedPlayerState), whoever leaves and comes back in whatever order.
InOnePlace(w) ==
    /\ \A i, j \in Id :
          /\ i # j => /\ w.carried[i] \cap w.carried[j] = {}
                      /\ retained[i].items \cap retained[j].items = {}
          /\ w.carried[i] \cap retained[j].items = {}
    /\ \A i \in Id : (w.carried[i] \cup retained[i].items) \cap w.ground = {}
ItemsAreInOnePlace == InOnePlace(world)

\* A record is that of somebody who is away: a player in the game has none that
\* a later rejoin could give out again (RemoveRetainedPlayerState).
RecordsAreOfTheAbsent == \A i \in Id : retained[i] # NoRecord => i \notin world.slots

\* What somebody left behind is not given to another: an id that has a record
\* is given only to an endpoint that asked for it (GetPreferredJoinPlayerIds).
RecordGoesToWhoAskedForIt ==
    [][\A e \in Endpoint : \A i \in remotes'[e] \ remotes[e] :
          retained[i] # NoRecord => i \in client[e].request.prefers]_vars

\* A record goes when its items are given back, when the host gives new bodies
\* only, or after its lifetime of frames played, however often the stage, and
\* with it the frame counter, begins anew (CleanupExpiredRetainedPlayerStates).
RecordsAreKeptUntilGivenBack ==
    [][\A i \in Id :
          retained[i] # NoRecord /\ retained'[i] # retained[i] =>
              \/ i \in world'.slots /\ spawnMode = "Retained"
                    /\ retained[i].items \subseteq world'.carried[i]
              \/ i \in world'.slots /\ spawnMode = "Fresh"
              \/ played - retained[i].since > Lifetime]_vars
================================================================================
