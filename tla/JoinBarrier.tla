----------------------------- MODULE JoinBarrier -----------------------------
(***************************************************************************)
(* The join barrier: how players enter and leave a running lockstep        *)
(* session (src/network/net_lobby_input_lockstep.cpp, net_lobby_join.cpp,  *)
(* net_lobby_endpoint.cpp).                                                *)
(*                                                                         *)
(* When the player set changes the host stops, tells every peer to stop    *)
(* (Status), sends joining peers a snapshot (Chunk), tells the others who  *)
(* was added or removed (Topology), and when all have acknowledged sends   *)
(* one Resume.                                                             *)
(*                                                                         *)
(* Every process has one player and is named by it.  A simulation is the   *)
(* list of frames stepped, in order, each marked Wrong when the inputs     *)
(* used were not the host's, and the players it simulates.  What input     *)
(* lockstep does between barriers is reduced to that: a peer may step      *)
(* ahead of the inputs it has heard, wrongly or not, and repairs a wrong   *)
(* frame from a snapshot once it hears (InputLockstep has the detail).     *)
(* The chunks of a snapshot are one packet here.                           *)
(***************************************************************************)
EXTENDS Queues, FiniteSetsExt, Functions

CONSTANTS
    Peer,           \* processes other than the host
    Host,           \* the host
    Initial,        \* the peers in the session to begin with
    MayJoin,        \* the peers that join later
    MayLeave,       \* the peers that may quit
    OtherContent,   \* the peers whose gameplay content is not the host's
    MaxRequest,     \* bound: join requests a peer sends
    Decodes,        \* outcomes of DeserializeSimSnapshotFromBytes
    InputDelay,     \* lockstep_input_delay_frames
    Ahead,          \* frames a peer may step beyond the inputs it has heard
    InOrder,        \* links deliver every packet once, in order
    MaxFrame,       \* bound: frames stepped
    MaxBarrier,     \* bound: barriers raised
    MaxTransfer,    \* bound: snapshot transfers started
    MaxInFlight,    \* bound: packets queued on an ordered link
    Nobody,         \* kInvalidPlayerId
    NoSnapshot      \* FindRollbackSnapshot returned nullptr

ASSUME PeerAssumption ==
    /\ IsFiniteSet(Peer) /\ Host \notin Peer /\ Nobody \notin Peer \cup {Host}
    /\ Initial \subseteq Peer /\ MayJoin \subseteq Peer \ Initial /\ MayLeave \subseteq Peer
    /\ OtherContent \subseteq MayJoin
ASSUME BoundAssumption ==
    /\ InputDelay \in Nat /\ Ahead \in Nat /\ MaxFrame \in Nat
    /\ MaxBarrier \in Nat \ {0} /\ MaxTransfer \in Nat \ {0} /\ MaxInFlight \in Nat
    /\ MaxRequest \in Nat
    /\ InOrder \in BOOLEAN /\ Decodes \subseteq BOOLEAN

VARIABLES
    host,       \* the host's join_barrier_* fields
    nextId,     \* lockstep_snapshot_resync_next_transfer_id
    remotes,    \* transport.remotes
    peer,       \* the peers' join_barrier_* and session fields
    frame,      \* lockstep_next_frame_to_step of every process
    sim,        \* the simulation of every process
    heard,      \* the frames whose host inputs a peer holds
    requested,  \* a peer's lockstep_rollback_requested_frame
    saved,      \* a peer's lockstep_rollback_snapshots
    toPeer,     \* packets from the host
    toHost      \* packets to the host

hostVars == <<host, nextId, remotes>>
peerVars == <<peer, heard, requested, saved>>
vars == <<hostVars, peerVars, frame, sim, toPeer, toHost>>

Process == Peer \cup {Host}
NoFrame == -1
Frame == 0 .. MaxFrame
\* The log entry of frame f stepped with inputs that were not the host's.
Wrong(f) == -1 - f

Phase == {"None", "WaitingForCatchup", "SendingSnapshot", "WaitingForAck",
          "WaitingForResume", "ReadyToResume"}

-----------------------------------------------------------------------------
(* Links: UDP loses, repeats and reorders; an ordered link is a LAN's.     *)

EmptyLink == IF InOrder THEN <<>> ELSE {}
Contents(link) == IF InOrder THEN Range(link) ELSE link
Put(link, packets) ==
    IF InOrder THEN link \o packets ELSE link \cup Range(packets)
\* The packets that may arrive next, and the link when one has.
Arriving(link) ==
    IF InOrder THEN IF link = <<>> THEN {} ELSE {Head(link)} ELSE link
Rest(link) == IF InOrder THEN Tail(link) ELSE link
Busy(link) == InOrder /\ Len(link) >= MaxInFlight

\* Each registered endpoint is sent its packets.
SendToPeers(packets) ==
    toPeer' = [p \in Peer |-> IF p \in remotes THEN Put(toPeer[p], packets[p])
                                               ELSE toPeer[p]]
\* p has received a packet, and answers with packets of its own.
ReceiveFromHost(p, answer) ==
    /\ toPeer' = [toPeer EXCEPT ![p] = Rest(@)]
    /\ toHost' = [toHost EXCEPT ![p] = Put(@, answer)]
ReceiveFromPeer(p) == toHost' = [toHost EXCEPT ![p] = Rest(@)]

-----------------------------------------------------------------------------
(* The host's barrier.                                                     *)

\* ClearJoinBarrierTransfer.
ClearJoinBarrierTransfer(h) ==
    [h EXCEPT !.target = Nobody, !.transfer = 0, !.snapshot = NoSnapshot]

\* ClearJoinBarrierFields; the barrier id survives.
ClearJoinBarrier(h) ==
    [ClearJoinBarrierTransfer(h) EXCEPT
        !.active = FALSE, !.phase = "None", !.queue = <<>>,
        !.awaited = {}, !.joined = {}, !.removed = {}]

\* Fault: QueueJoinBarrierPeer without its search of the queue.
QueueJoinBarrierPeerTwice(h, p) == [h EXCEPT !.queue = Append(@, p)]

QueueJoinBarrierPeer(h, p) ==
    IF p \in Range(h.queue) THEN h ELSE [h EXCEPT !.queue = Append(@, p)]

\* The first half of BeginJoinBarrierCatchup and of TopologyRemoval.
RaiseBarrier(h) ==
    IF h.active THEN h
    ELSE [ClearJoinBarrierTransfer(h) EXCEPT
            !.active = TRUE, !.id = @ + 1, !.phase = "WaitingForCatchup", !.queue = <<>>]

BeginJoinBarrierCatchup(h, p) == QueueJoinBarrierPeer(RaiseBarrier(h), p)

\* Fault: only the joining peers hear of each other.
BeginJoinBarrierTopologyChangeUntold(h, endpoints, p) ==
    LET raised == [QueueJoinBarrierPeer(RaiseBarrier(h), p) EXCEPT
                      !.joined = @ \cup {p}]
    IN  [raised EXCEPT !.awaited = @ \cup ({raised.target} \ {Nobody})]

\* Every endpoint that is not itself joining must acknowledge the topology,
\* and so must a peer whose snapshot is under way, as it lacks the newcomer.
BeginJoinBarrierTopologyChange(h, endpoints, p) ==
    LET raised == [QueueJoinBarrierPeer(RaiseBarrier(h), p) EXCEPT
                      !.joined = @ \cup {p}]
        joining == raised.joined \cup Range(raised.queue) \cup {raised.target}
    IN  [raised EXCEPT !.awaited =
            @ \cup ({raised.target} \ {Nobody}) \cup (endpoints \ joining)]

\* Fault: a peer that left is still waited for.
ForgetNobody(h, players) ==
    [h EXCEPT !.removed = @ \cup players, !.joined = @ \ players,
              !.queue = Without(@, players)]

\* The lists of the barrier without the players that left.
Forget(h, players) ==
    [h EXCEPT !.removed = @ \cup players, !.joined = @ \ players,
              !.queue = Without(@, players),
              !.awaited = @ \ players]

BeginJoinBarrierTopologyRemoval(h, endpoints, players) ==
    LET known == [Forget(RaiseBarrier(h), players \ {Host}) EXCEPT
                     !.awaited = @ \cup endpoints]
    IN  IF h.target \in players THEN ClearJoinBarrierTransfer(known) ELSE known

JoinBarrierReadyToResume(h) ==
    h.transfer = 0 /\ h.queue = <<>> /\ h.awaited = {}

\* Fault: the acknowledgements of the topology are not waited for.
PhaseWhenDrained(h) ==
    IF h.transfer = 0 /\ h.queue = <<>> THEN "ReadyToResume" ELSE "WaitingForCatchup"

\* Where the barrier stands when nothing is being transferred.
PhaseWhenIdle(h) ==
    IF JoinBarrierReadyToResume(h) THEN "ReadyToResume" ELSE "WaitingForCatchup"

Status(h) == [kind |-> "Status", id |-> h.id, phase |-> h.phase, transfer |-> h.transfer]
Resume(h) == [kind |-> "Resume", id |-> h.id, frame |-> frame[Host]]
Chunk(h) == [kind |-> "Chunk", transfer |-> h.transfer,
             frame |-> h.snapshot.frame, sim |-> h.snapshot.sim]
Topology(h) == [kind |-> "Topology", id |-> h.id, frame |-> frame[Host],
                joined |-> h.joined, removed |-> h.removed]

\* SendJoinBarrierTopologyPackets: to those that have not acknowledged, except
\* to the one receiving a snapshot.
TopologyFor(h, p) ==
    IF /\ p \in h.awaited
       /\ h.joined # {} \/ h.removed # {}
       /\ ~(h.transfer # 0 /\ p = h.target)
    THEN <<Topology(h)>> ELSE <<>>

-----------------------------------------------------------------------------
\* A session in play: the host and the initial peers, as the barrier that
\* let those peers in left them.
Init ==
    LET session == Initial \cup {Host}
        barriers == IF Initial = {} THEN 0 ELSE 1
    IN  /\ host = [active |-> FALSE, id |-> barriers, phase |-> "None", queue |-> <<>>,
                   awaited |-> {}, joined |-> {}, removed |-> {},
                   target |-> Nobody, transfer |-> 0, snapshot |-> NoSnapshot]
        /\ nextId = 1 + Cardinality(Initial)
        /\ remotes = Initial
        /\ peer = [p \in Peer |->
              [where |-> IF p \in Initial THEN "session" ELSE "new", active |-> FALSE,
               id |-> IF p \in Initial THEN barriers ELSE 0, phase |-> "None",
               transfer |-> 0, acked |-> 0, success |-> FALSE, fatal |-> FALSE,
               requests |-> 0]]
        /\ frame = [n \in Process |-> 0]
        /\ sim = [n \in Process |->
              [log |-> <<>>, players |-> IF n \in session THEN session ELSE {n}]]
        /\ heard = [p \in Peer |-> 0]
        /\ requested = [p \in Peer |-> NoFrame]
        /\ saved = [p \in Peer |-> [f \in Frame |-> NoSnapshot]]
        /\ toPeer = [p \in Peer |-> EmptyLink]
        /\ toHost = [p \in Peer |-> EmptyLink]

-----------------------------------------------------------------------------
(* The host's pump.                                                        *)

\* A request from an endpoint already registered is a retry: it only queues
\* that endpoint for a snapshot.  Other content is refused.
HandleJoinRequestAsHost(p) ==
    LET refusal == [kind |-> "JoinPending"]
        accept  == [kind |-> "JoinAccept", frame |-> frame[Host]]
        answer  == IF p \in OtherContent THEN refusal ELSE accept
    IN  /\ [kind |-> "JoinRequest"] \in Arriving(toHost[p])
        /\ host.active \/ host.id < MaxBarrier
        /\ toPeer' = [toPeer EXCEPT ![p] = Put(@, <<answer>>)]
        /\ ReceiveFromPeer(p)
        /\ IF p \in OtherContent THEN UNCHANGED <<host, remotes, sim>>
           ELSE /\ host' = IF p \in remotes
                             THEN BeginJoinBarrierCatchup(host, p)
                             ELSE BeginJoinBarrierTopologyChange(host, remotes, p)
                /\ remotes' = remotes \cup {p}
                /\ sim' = [sim EXCEPT ![Host].players = @ \cup {p}]
        /\ UNCHANGED <<nextId, peerVars, frame>>

\* Some players are gone.
RemoveRemotePlayers(players) ==
    /\ host.active \/ host.id < MaxBarrier
    /\ remotes' = remotes \ players
    /\ sim' = [sim EXCEPT ![Host].players = @ \ (players \ {Host})]
    /\ host' = BeginJoinBarrierTopologyRemoval(host, remotes', players)
    /\ UNCHANGED <<nextId, peerVars, frame, toPeer>>

HandleLeaveNoticeAsHost(p) ==
    \E m \in Arriving(toHost[p]) :
        /\ m.kind = "LeaveNotice"
        /\ RemoveRemotePlayers(m.players)
        /\ ReceiveFromPeer(p)

\* Nothing has been heard of p for too long: it is dead and all it sent has
\* arrived or, where packets are lost, it is out of reach.
CleanupTimedOutRemoteEndpoints(p) ==
    /\ p \in remotes /\ p \in MayLeave
    /\ InOrder => peer[p].where = "out" /\ toHost[p] = EmptyLink
    /\ RemoveRemotePlayers({p})
    /\ UNCHANGED toHost

\* Fault: an answer to any transfer ends the one under way.
AnswersAnyTransfer(m) == host.active /\ host.transfer # 0

AnswersTransfer(m) == host.active /\ m.transfer = host.transfer

\* HandleJoinBarrierSnapshotAck.
HandleSnapshotResyncAck(p) ==
    \E m \in Arriving(toHost[p]) :
        /\ m.kind = "SnapshotAck"
        /\ host' = IF ~AnswersTransfer(m) THEN host
                   ELSE LET idle == ClearJoinBarrierTransfer(host)
                        IN  IF m.success
                              THEN [idle EXCEPT !.phase = PhaseWhenIdle(idle)]
                              ELSE [QueueJoinBarrierPeer(idle, p) EXCEPT
                                       !.phase = "WaitingForCatchup"]
        /\ ReceiveFromPeer(p)
        /\ UNCHANGED <<nextId, remotes, peerVars, frame, sim, toPeer>>

HandleJoinBarrierTopologyAck(p) ==
    \E m \in Arriving(toHost[p]) :
        /\ m.kind = "TopologyAck"
        /\ LET answered == [host EXCEPT !.awaited = @ \ {p}]
           IN  host' = IF ~host.active \/ m.id # host.id THEN host
                       ELSE IF ~m.success
                         THEN [QueueJoinBarrierPeer(answered, p) EXCEPT
                                  !.phase = "WaitingForCatchup"]
                       ELSE IF JoinBarrierReadyToResume(answered)
                         THEN [answered EXCEPT !.phase = "ReadyToResume"]
                       ELSE answered
        /\ ReceiveFromPeer(p)
        /\ UNCHANGED <<nextId, remotes, peerVars, frame, sim, toPeer>>

-----------------------------------------------------------------------------
(* The rest of the host's tick: SendPendingJoinBarrier, then a frame.      *)

\* An ordered link holds few packets: a tick waits for it to drain.
CanSend == host.active /\ \A p \in Peer : ~Busy(toPeer[p]) /\ ~Busy(toHost[p])

\* Everybody is ready: one Resume, sent once, and the barrier is gone.
ResumeEverybody ==
    /\ CanSend /\ host.phase = "ReadyToResume"
    /\ SendToPeers([p \in Peer |-> <<Status(host), Resume(host)>>])
    /\ host' = ClearJoinBarrier(host)
    /\ UNCHANGED <<nextId, remotes, peerVars, frame, sim, toHost>>

\* No transfer and nobody queued: wait for acknowledgements, or be ready.
WaitForAcks ==
    /\ CanSend /\ host.phase # "ReadyToResume"
    /\ host.transfer = 0 /\ host.queue = <<>>
    /\ host' = [host EXCEPT !.phase = PhaseWhenIdle(host)]
    /\ SendToPeers([p \in Peer |-> TopologyFor(host, p) \o <<Status(host')>>])
    /\ UNCHANGED <<nextId, remotes, peerVars, frame, sim, toHost>>

\* StartJoinBarrierSnapshotTransfer for the first in the queue; one that has
\* left meanwhile is dropped.
StartNextTransfer ==
    LET p       == Head(host.queue)
        dropped == [host EXCEPT !.queue = Tail(@), !.phase = "WaitingForCatchup"]
        started == [dropped EXCEPT
                      !.target = p, !.phase = "SendingSnapshot", !.transfer = nextId,
                      !.snapshot = [frame |-> frame[Host], sim |-> sim[Host]]]
    IN  /\ CanSend /\ host.phase # "ReadyToResume"
        /\ host.transfer = 0 /\ host.queue # <<>>
        /\ nextId <= MaxTransfer
        /\ IF p \in remotes
             THEN /\ host' = started
                  /\ nextId' = nextId + 1
                  /\ SendToPeers([q \in Peer |-> TopologyFor(host, q) \o <<Status(started)>>])
             ELSE /\ host' = dropped
                  /\ SendToPeers([q \in Peer |-> TopologyFor(host, q)])
                  /\ UNCHANGED nextId
        /\ UNCHANGED <<remotes, peerVars, frame, sim, toHost>>

\* SendSnapshotResyncStoredChunks, every tick until acknowledged.
ContinueTransfer ==
    LET sent == [host EXCEPT !.phase = "WaitingForAck"]
        gone == [ClearJoinBarrierTransfer(host) EXCEPT !.phase = "WaitingForCatchup"]
    IN  /\ CanSend /\ host.phase # "ReadyToResume"
        /\ host.transfer # 0
        /\ IF host.target \in remotes
             THEN /\ host' = sent
                  /\ SendToPeers([q \in Peer |->
                        TopologyFor(host, q) \o <<Status(host)>>
                        \o (IF q = host.target THEN <<Chunk(host)>> ELSE <<>>)
                        \o <<Status(sent)>>])
             ELSE /\ host' = gone
                  /\ SendToPeers([q \in Peer |-> TopologyFor(host, q)])
        /\ UNCHANGED <<nextId, remotes, peerVars, frame, sim, toHost>>

\* Fault: only a peer that waits for Resume stands still.
IsJoinBarrierWaiting(fields) == fields.active /\ fields.phase = "WaitingForResume"

\* IsJoinBarrierBlocking, for the host's or a peer's fields.
IsJoinBarrierBlocking(fields) == fields.active /\ fields.phase # "None"

\* The host steps when it has every remote player's input for the frame.
HostSteps ==
    /\ ~IsJoinBarrierBlocking(host)
    /\ frame[Host] < MaxFrame
    /\ \A p \in remotes : frame[Host] <= frame[p] + InputDelay
    /\ frame' = [frame EXCEPT ![Host] = @ + 1]
    /\ sim' = [sim EXCEPT ![Host].log = Append(@, frame[Host])]
    /\ UNCHANGED <<hostVars, peerVars, toPeer, toHost>>

-----------------------------------------------------------------------------
(* A peer comes and goes.                                                  *)

\* JoinHostSession, and StepPeerPackets while no answer has come.
SendJoinRequest(p) ==
    /\ p \in MayJoin /\ peer[p].where \in {"new", "joining"}
    /\ peer[p].requests < MaxRequest
    /\ peer' = [peer EXCEPT ![p].where = "joining", ![p].requests = @ + 1]
    /\ toHost' = [toHost EXCEPT ![p] = Put(@, <<[kind |-> "JoinRequest"]>>)]
    /\ UNCHANGED <<hostVars, heard, requested, saved, frame, sim, toPeer>>

\* DisconnectSession, or the process dies.  The notice names the local players
\* of the peer's registry: before it is let in that is the one player of an
\* offline game, who has the id the host has.
Quit(p) ==
    /\ p \in MayLeave /\ peer[p].where \in {"joining", "refused", "session"}
    /\ peer' = [peer EXCEPT ![p].where = "out"]
    /\ LET local  == IF peer[p].where = "session" THEN {p} ELSE {Host}
           notice == <<[kind |-> "LeaveNotice", players |-> local]>>
       IN  \E sent \in {<<>>, notice} : toHost' = [toHost EXCEPT ![p] = Put(@, sent)]
    /\ UNCHANGED <<hostVars, heard, requested, saved, frame, sim, toPeer>>

\* HandleJoinAcceptAsPeer: load the stage afresh and wait for the snapshot.
HandleJoinAcceptAsPeer(p) ==
    \E m \in Arriving(toPeer[p]) :
        /\ m.kind = "JoinAccept" /\ peer[p].where = "joining"
        /\ peer' = [peer EXCEPT ![p] =
              [@ EXCEPT !.where = "session", !.active = TRUE,
                        !.phase = "WaitingForCatchup", !.transfer = 0,
                        !.acked = 0, !.success = FALSE, !.fatal = FALSE]]
        /\ frame' = [frame EXCEPT ![p] = m.frame]
        /\ sim' = [sim EXCEPT ![p] = [log |-> <<>>, players |-> {Host, p}]]
        /\ heard' = [heard EXCEPT ![p] = 0]
        /\ requested' = [requested EXCEPT ![p] = NoFrame]
        /\ saved' = [saved EXCEPT ![p] = [f \in Frame |-> NoSnapshot]]
        /\ ReceiveFromHost(p, <<>>)
        /\ UNCHANGED hostVars

\* The host's content is another: the peer stops asking.
HandleJoinPendingAsPeer(p) ==
    /\ [kind |-> "JoinPending"] \in Arriving(toPeer[p]) /\ peer[p].where = "joining"
    /\ peer' = [peer EXCEPT ![p].where = "refused"]
    /\ ReceiveFromHost(p, <<>>)
    /\ UNCHANGED <<hostVars, heard, requested, saved, frame, sim>>

\* A packet that means nothing to p: it is not in the session (its stage is
\* another one, or its socket is closed), it has joined already, or the
\* packet is of an earlier barrier.
Drop(p) ==
    \E m \in Arriving(toPeer[p]) :
        /\ \/ peer[p].where \notin {"joining", "session"}
           \/ peer[p].where = "joining" /\ m.kind \notin {"JoinAccept", "JoinPending"}
           \/ peer[p].where = "session" /\ m.kind \in {"JoinAccept", "JoinPending"}
           \/ m.kind \in {"Status", "Topology", "Resume"} /\ m.id < peer[p].id
        /\ ReceiveFromHost(p, <<>>)
        /\ UNCHANGED <<hostVars, peerVars, frame, sim>>

-----------------------------------------------------------------------------
(* A peer at the barrier.                                                  *)

\* Fault: packets of any barrier are accepted.
AcceptsAny(p, m) == peer[p].where = "session"

\* Barrier packets of an earlier barrier than the last one seen are stale.
Accepts(p, m) == peer[p].where = "session" /\ m.id >= peer[p].id

HandleJoinBarrierStatus(p) ==
    \E m \in Arriving(toPeer[p]) :
        /\ m.kind = "Status" /\ Accepts(p, m)
        /\ peer' = [peer EXCEPT ![p] =
              [@ EXCEPT !.active = TRUE, !.id = m.id, !.phase = m.phase,
                        !.transfer = m.transfer]]
        /\ ReceiveFromHost(p, <<>>)
        /\ UNCHANGED <<hostVars, heard, requested, saved, frame, sim>>

\* RestoreTopologyBarrierFrame: the simulation the peer takes to the barrier
\* frame, which is what it has when it has not stepped past that frame.
AtBarrierFrame(p, barrierFrame) ==
    IF frame[p] <= barrierFrame THEN sim[p] ELSE saved[p][barrierFrame]

\* The players of p's simulation once it has applied Topology m; p itself stays.
WithTopology(players, p, m) == (players \ (m.removed \ {p})) \cup m.joined

HandleJoinBarrierTopology(p) ==
    \E m \in Arriving(toPeer[p]) :
        LET restored == AtBarrierFrame(p, m.frame)
            ack(success) == <<[kind |-> "TopologyAck", id |-> m.id, success |-> success]>>
        IN  /\ m.kind = "Topology" /\ Accepts(p, m)
            /\ IF restored = NoSnapshot
                 THEN /\ ReceiveFromHost(p, ack(FALSE))
                      /\ UNCHANGED <<peerVars, frame, sim>>
                 ELSE /\ peer' = [peer EXCEPT ![p] =
                            [@ EXCEPT !.active = TRUE, !.id = m.id,
                                      !.phase = "WaitingForResume"]]
                      /\ frame' = [frame EXCEPT ![p] = m.frame]
                      /\ sim' = [sim EXCEPT ![p] =
                            [restored EXCEPT !.players = WithTopology(restored.players, p, m)]]
                      /\ requested' = [requested EXCEPT ![p] = NoFrame]
                      /\ saved' = [saved EXCEPT ![p] = [f \in Frame |-> NoSnapshot]]
                      /\ ReceiveFromHost(p, ack(TRUE))
                      /\ UNCHANGED heard
            /\ UNCHANGED hostVars

\* HandleSnapshotResyncChunk: a transfer already answered is answered again;
\* any other replaces the simulation.
HandleSnapshotResyncChunk(p) ==
    \E m \in Arriving(toPeer[p]), decoded \in Decodes :
        LET again   == peer[p].acked = m.transfer
            barrier == peer[p].active /\ peer[p].transfer \in {0, m.transfer}
            success == IF again THEN peer[p].success ELSE decoded
            shown   == IF ~barrier THEN peer[p].phase
                       ELSE IF decoded THEN "WaitingForResume" ELSE "WaitingForCatchup"
        IN  /\ m.kind = "Chunk" /\ peer[p].where = "session"
            /\ ReceiveFromHost(p, <<[kind |-> "SnapshotAck", transfer |-> m.transfer,
                                     success |-> success]>>)
            /\ IF again THEN UNCHANGED peer
               ELSE peer' = [peer EXCEPT ![p] =
                       [@ EXCEPT !.acked = m.transfer, !.success = decoded,
                                 !.fatal = ~decoded, !.phase = shown,
                                 !.transfer = IF barrier THEN m.transfer ELSE peer[p].transfer]]
            /\ IF again \/ ~decoded THEN UNCHANGED <<heard, requested, saved, frame, sim>>
               ELSE /\ frame' = [frame EXCEPT ![p] = m.frame]
                    /\ sim' = [sim EXCEPT ![p] = m.sim]
                    /\ heard' = [heard EXCEPT ![p] = 0]
                    /\ requested' = [requested EXCEPT ![p] = NoFrame]
                    /\ saved' = [saved EXCEPT ![p] = [f \in Frame |-> NoSnapshot]]
            /\ UNCHANGED hostVars

HandleJoinBarrierResume(p) ==
    \E m \in Arriving(toPeer[p]) :
        /\ m.kind = "Resume" /\ Accepts(p, m)
        /\ peer' = [peer EXCEPT ![p] =
              [@ EXCEPT !.active = FALSE, !.id = m.id, !.phase = "None", !.transfer = 0]]
        /\ frame' = [frame EXCEPT ![p] = m.frame]
        /\ ReceiveFromHost(p, <<>>)
        /\ UNCHANGED <<hostVars, heard, requested, saved, sim>>

-----------------------------------------------------------------------------
(* A peer's frames.                                                        *)

\* The host's inputs for some more of the frames it has stepped arrive; one
\* that shows an earlier guess wrong requests a rollback.
HearInputs(p) ==
    \E next \in (heard[p] + 1) .. frame[Host] :
        LET wrong == {f \in heard[p] .. (next - 1) :
                        f < frame[p] /\ Wrong(f) \in Range(sim[p].log)}
            asked == (wrong \cup {requested[p]}) \ {NoFrame}
        IN  /\ peer[p].where = "session"
            /\ heard' = [heard EXCEPT ![p] = next]
            /\ requested' = [requested EXCEPT ![p] =
                  IF asked = {} THEN NoFrame ELSE Min(asked)]
            /\ UNCHANGED <<hostVars, peer, saved, frame, sim, toPeer, toHost>>

\* PrepareInputLockstepFrame gets past its early returns.
MayStep(p) ==
    /\ peer[p].where = "session"
    /\ ~IsJoinBarrierBlocking(peer[p]) /\ ~peer[p].fatal
    /\ heard[p] > 0 /\ frame[p] < heard[p] + Ahead

\* The log entries for frames first, first + 1, ... stepped with the inputs
\* heard, and the others with guesses of which those in bad are wrong.
Stepped(p, first, count, bad) ==
    [i \in 1 .. count |->
        LET f == first + i - 1 IN IF f \in bad THEN Wrong(f) ELSE f]

\* Frames a guess is needed for.
Guessed(p, first, last) == {f \in first .. last : f >= heard[p]}

RollbackSnapshotMissing(p) ==
    /\ MayStep(p) /\ requested[p] # NoFrame /\ saved[p][requested[p]] = NoSnapshot
    /\ requested' = [requested EXCEPT ![p] = NoFrame]
    /\ UNCHANGED <<hostVars, peer, heard, saved, frame, sim, toPeer, toHost>>

\* ReplayRollbackWindow.
ReplayRollbackWindow(p) ==
    LET first == requested[p]
        base  == saved[p][first]
    IN  /\ MayStep(p) /\ first # NoFrame /\ base # NoSnapshot
        /\ \E bad \in SUBSET Guessed(p, first, frame[p] - 1) :
              LET before(f) == [base EXCEPT !.log = @ \o Stepped(p, first, f - first, bad)]
              IN  /\ sim' = [sim EXCEPT ![p] = before(frame[p])]
                  /\ saved' = [saved EXCEPT ![p] = [f \in Frame |->
                        IF f \in first .. (frame[p] - 1) THEN before(f) ELSE saved[p][f]]]
        /\ requested' = [requested EXCEPT ![p] = NoFrame]
        /\ UNCHANGED <<hostVars, peer, heard, frame, toPeer, toHost>>

PeerSteps(p) ==
    LET f == frame[p]
    IN  /\ MayStep(p) /\ requested[p] = NoFrame /\ f < MaxFrame
        /\ \E bad \in SUBSET Guessed(p, f, f) :
              sim' = [sim EXCEPT ![p].log = @ \o Stepped(p, f, 1, bad)]
        /\ saved' = [saved EXCEPT ![p][f] = sim[p]]
        /\ frame' = [frame EXCEPT ![p] = f + 1]
        /\ UNCHANGED <<hostVars, peer, heard, requested, toPeer, toHost>>

-----------------------------------------------------------------------------
HostTicks ==
    \/ ResumeEverybody
    \/ WaitForAcks
    \/ StartNextTransfer
    \/ ContinueTransfer

HostReceives(p) ==
    \/ HandleJoinRequestAsHost(p)
    \/ HandleLeaveNoticeAsHost(p)
    \/ HandleSnapshotResyncAck(p)
    \/ HandleJoinBarrierTopologyAck(p)

PeerReceives(p) ==
    \/ HandleJoinAcceptAsPeer(p)
    \/ HandleJoinPendingAsPeer(p)
    \/ Drop(p)
    \/ HandleJoinBarrierStatus(p)
    \/ HandleJoinBarrierTopology(p)
    \/ HandleSnapshotResyncChunk(p)
    \/ HandleJoinBarrierResume(p)

PeerAdvances(p) ==
    \/ HearInputs(p)
    \/ RollbackSnapshotMissing(p)
    \/ ReplayRollbackWindow(p)
    \/ PeerSteps(p)

Next ==
    \/ HostTicks
    \/ HostSteps
    \/ \E p \in Peer :
          \/ HostReceives(p)
          \/ CleanupTimedOutRemoteEndpoints(p)
          \/ SendJoinRequest(p)
          \/ Quit(p)
          \/ PeerReceives(p)
          \/ PeerAdvances(p)

Spec == Init /\ [][Next]_vars

TypeOK ==
    /\ host.active \in BOOLEAN /\ host.id \in 0 .. MaxBarrier
    /\ host.phase \in Phase
    /\ host.queue \in Seq(Peer) /\ IsInjective(host.queue)
    /\ host.awaited \subseteq remotes /\ host.joined \subseteq remotes
    /\ host.removed \subseteq Peer
    /\ host.target \in remotes \cup {Nobody}
    /\ (host.transfer = 0) = (host.target = Nobody)
    /\ host.transfer < nextId
    /\ remotes \subseteq Peer
    /\ sim[Host].players = remotes \cup {Host}
    /\ \A p \in Peer :
          /\ peer[p].where \in {"new", "joining", "refused", "session", "out"}
          /\ peer[p].id \in 0 .. host.id /\ peer[p].phase \in Phase
          /\ heard[p] \in 0 .. frame[Host]
          /\ requested[p] \in Frame \cup {NoFrame}
    /\ frame \in [Process -> Frame]

-----------------------------------------------------------------------------
(* Safety.                                                                 *)

InSession(p) == peer[p].where = "session" /\ p \in remotes

\* While the host's barrier stands, a peer that has heard of it stands too: no
\* packet of an earlier barrier, however late or often repeated, lets a peer
\* go on (HandleJoinBarrierResume, HandleJoinBarrierStatus).
NobodyLeavesEarly ==
    [][\A p \in Peer :
          (/\ host.active /\ host'.active
           /\ peer[p].where = "session" /\ peer[p].id = host.id)
          => peer'[p].where # "session" \/ IsJoinBarrierBlocking(peer'[p])]_vars

\* The host stops waiting for the peer a snapshot was sent to only when that
\* peer has answered this very transfer or has left: no late or repeated
\* answer, and none of another peer, ends a transfer
\* (HandleJoinBarrierSnapshotAck).
TransferIsAnswered ==
    [][(host.transfer # 0 /\ host'.transfer # host.transfer) =>
          \/ host.target \notin remotes'
          \/ \E m \in Contents(toHost[host.target]) :
                m.kind = "SnapshotAck" /\ m.transfer = host.transfer]_vars

\* The host resumes only when nobody is being sent a snapshot, nobody waits
\* for one and everybody has acknowledged the topology (SendPendingJoinBarrier).
ResumeWhenReady ==
    [][(host.active /\ ~host'.active) => JoinBarrierReadyToResume(host)]_vars

\* When it does, every registered peer simulates the players the host
\* simulates: nobody was left out of the acknowledgements waited for
\* (BeginJoinBarrierTopologyChange, BeginJoinBarrierTopologyRemoval).
ResumeWithOneTopology ==
    [][(host.active /\ ~host'.active) =>
          \A p \in remotes :
              peer[p].where = "session" => sim[p].players = sim[Host].players]_vars

\* A peer that joined has simulated exactly the frames before the one it is
\* to step next, as the host has (HandleSnapshotResyncChunk, Resume).
JoinersFollowTheHost ==
    \A p \in MayJoin :
        (peer[p].where = "session" /\ ~IsJoinBarrierBlocking(peer[p]))
        => Len(sim[p].log) = frame[p]

-----------------------------------------------------------------------------
(* Liveness.  Every process keeps ticking.  Where packets are lost, what is *)
(* sent again and again arrives; a Resume is sent once, and need not.       *)

FairSpec ==
    /\ Spec
    /\ WF_vars(HostTicks) /\ WF_vars(HostSteps)
    /\ \A p \in Peer :
          /\ WF_vars(PeerAdvances(p))
          /\ WF_vars(peer[p].where = "out" /\ CleanupTimedOutRemoteEndpoints(p))
          /\ SF_vars(peer[p].where = "joining" /\ HandleJoinRequestAsHost(p))
          /\ SF_vars(HandleJoinAcceptAsPeer(p))
          /\ SF_vars(p = host.target /\ HandleSnapshotResyncChunk(p))
          /\ SF_vars(p = host.target /\ HandleSnapshotResyncAck(p))
          /\ SF_vars(p \in host.awaited /\ HandleJoinBarrierTopology(p))
          /\ SF_vars(p \in host.awaited /\ HandleJoinBarrierTopologyAck(p))
          /\ InOrder => WF_vars(HostReceives(p)) /\ WF_vars(PeerReceives(p))

\* A peer in the session that stands at a barrier is let go: a join or a
\* departure never stalls the game for good.
BarrierEnds ==
    \A p \in Peer :
        (InSession(p) /\ IsJoinBarrierBlocking(peer[p]))
        ~> (~InSession(p) \/ ~IsJoinBarrierBlocking(peer[p]))
=============================================================================
