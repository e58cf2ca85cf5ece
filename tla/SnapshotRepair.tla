---------------------------- MODULE SnapshotRepair ----------------------------
(***************************************************************************)
(* Repair of a diverged peer by a snapshot of the host's simulation, sent  *)
(* in chunks until it is acknowledged (src/network/net_lobby_input_        *)
(* lockstep.cpp), and how a join barrier raised meanwhile disturbs it: the *)
(* barrier sends its snapshots with the same fields of NetSessionState.    *)
(*                                                                         *)
(* Of the barrier only that part is here which touches the shared fields;  *)
(* JoinBarrier has the rest.  A barrier is raised when a peer is gone, or  *)
(* by a join request retried by an endpoint that is in already.  Of the    *)
(* simulation only the frame is kept and whether it is what the host       *)
(* simulated.  When a repair is asked for is left open: LockstepHashes has *)
(* what the code does when hashes differ, and a repair can be forced.      *)
(***************************************************************************)
EXTENDS Queues, FiniteSetsExt, Functions

CONSTANTS
    Peer,           \* processes other than the host
    Host,           \* the host
    MayLeave,       \* the peers that may die
    Retrying,       \* the peers a repeated join request of which is on its way
    ChunkCount,     \* chunks of a snapshot
    ResyncPerPump,  \* kSnapshotResyncChunksPerPump
    BarrierPerPump, \* kJoinBarrierChunksPerPump
    Decodes,        \* outcomes of DeserializeSimSnapshotFromBytes
    Lossy,          \* kinds of packets that may be lost
    InOrder,        \* links deliver every packet at most once and in order
    MaxFrame,       \* bound: frames stepped
    MaxAsked,       \* bound: repairs asked for
    MaxTransfer,    \* bound: snapshot transfers started
    MaxInFlight,    \* bound: packets queued on an ordered link
    Nobody          \* kInvalidPlayerId

ASSUME PeerAssumption ==
    /\ Host \notin Peer /\ Nobody \notin Peer \cup {Host}
    /\ MayLeave \subseteq Peer /\ Retrying \subseteq Peer
ASSUME BoundAssumption ==
    /\ ChunkCount \in Nat \ {0} /\ ResyncPerPump \in Nat /\ BarrierPerPump \in Nat
    /\ MaxFrame \in Nat /\ MaxAsked \in Nat
    /\ MaxTransfer \in Nat /\ MaxInFlight \in Nat
    /\ InOrder \in BOOLEAN /\ Decodes \subseteq BOOLEAN

VARIABLES
    host,       \* the host's lockstep_snapshot_resync_* and join_barrier_*
    peer,       \* the peers'
    nextId,     \* lockstep_snapshot_resync_next_transfer_id
    remotes,    \* transport.remotes
    sim,        \* every process' frame, and whose simulation it is
    asked,      \* repairs asked for
    tick,       \* how far the host's tick is
    toPeer,     \* packets from the host
    toHost      \* packets to the host

links == <<toPeer, toHost>>
vars == <<host, peer, nextId, remotes, sim, asked, tick, links>>

Process == Peer \cup {Host}
Chunk == 0 .. ChunkCount - 1
Mode == {"None", "SnapshotCatchup", "RollbackRepaired", "FatalDesync"}
NoChunks == [c \in Chunk |-> 0]

-----------------------------------------------------------------------------
(* Links: UDP loses, repeats and reorders; an ordered link only loses.     *)

Put(link, packets) ==
    IF InOrder THEN link \o packets ELSE link \cup Range(packets)
Arriving(link) ==
    IF InOrder THEN IF link = <<>> THEN {} ELSE {Head(link)} ELSE link
Rest(link) == IF InOrder THEN Tail(link) ELSE link
Busy(link) == InOrder /\ Len(link) > MaxInFlight
Full(link) == InOrder /\ Len(link) > MaxInFlight + 1

SendToPeers(packets) ==
    toPeer' = [p \in Peer |-> IF p \in remotes THEN Put(toPeer[p], packets[p])
                                               ELSE toPeer[p]]
ReceiveFromHost(p, answer) ==
    /\ ~Full(toHost[p])
    /\ toPeer' = [toPeer EXCEPT ![p] = Rest(@)]
    /\ toHost' = [toHost EXCEPT ![p] = Put(@, answer)]
ReceiveFromPeer(p) ==
    /\ toHost' = [toHost EXCEPT ![p] = Rest(@)]
    /\ UNCHANGED toPeer

-----------------------------------------------------------------------------
(* The fields of a process.                                                *)

\* SnapshotResyncTransferInProgress, on the host and on a peer.
HostTransferInProgress(h) == h.pending \/ h.waiting \/ h.active # 0
PeerTransferInProgress(r) == r.pending \/ r.active # 0

\* Fault: only what is still to be sent makes a process stand still.
IsSnapshotResyncPending(n) == (n = Host /\ host.pending) \/ (n # Host /\ peer[n].pending)

\* IsSnapshotResyncBlocking; a peer never waits for an acknowledgement.
IsSnapshotResyncBlocking(n) ==
    IF n = Host
    THEN host.pending \/ host.waiting \/ host.mode = "SnapshotCatchup"
    ELSE peer[n].pending \/ peer[n].mode = "SnapshotCatchup"

QueueSnapshotResyncTarget(h, p) ==
    IF p = h.target \/ p \in Range(h.queue) THEN h ELSE [h EXCEPT !.queue = Append(@, p)]

\* StartOrQueueHostSnapshotResync on the host: one transfer at a time.
StartOrQueueAsHost(h, p) ==
    IF h.mode = "SnapshotCatchup" /\ HostTransferInProgress(h)
      THEN IF h.target = Nobody THEN h ELSE QueueSnapshotResyncTarget(h, p)
      ELSE [h EXCEPT !.mode = "SnapshotCatchup", !.pending = TRUE, !.target = p,
                     !.active = 0, !.next = 0, !.waiting = FALSE]

\* The same on a peer, which only ever asks for itself.
StartAsPeer(r) ==
    IF r.mode = "SnapshotCatchup" /\ PeerTransferInProgress(r) THEN r
      ELSE [r EXCEPT !.mode = "SnapshotCatchup", !.pending = TRUE,
                     !.active = 0, !.got = NoChunks]

\* The fields a transfer starts with, for a repair or for the barrier.
BeginTransfer(h, p) ==
    [h EXCEPT !.pending = FALSE, !.target = p, !.active = nextId, !.next = 0,
              !.frame = sim[Host].frame, !.waiting = TRUE]

\* ClearJoinBarrierTransfer: the barrier's fields and those it shares.
ClearJoinBarrierTransfer(h) ==
    [h EXCEPT !.barrierPeer = Nobody, !.barrierTransfer = 0,
              !.target = Nobody, !.active = 0, !.next = 0, !.waiting = FALSE]

ClearJoinBarrier(h) ==
    [ClearJoinBarrierTransfer(h) EXCEPT
        !.standing = FALSE, !.ready = FALSE, !.barrierQueue = <<>>, !.awaited = {}]

\* ClearJoinBarrier on a peer.
ClearPeerBarrier(r) ==
    [r EXCEPT !.standing = FALSE, !.transfer = 0, !.active = 0, !.got = NoChunks]

\* The first half of BeginJoinBarrierCatchup and of TopologyRemoval.
RaiseBarrier(h) ==
    IF h.standing THEN h
    ELSE [ClearJoinBarrierTransfer(h) EXCEPT
            !.standing = TRUE, !.id = @ + 1, !.ready = FALSE, !.barrierQueue = <<>>]

QueueJoinBarrierPeer(h, p) ==
    IF p \in Range(h.barrierQueue) THEN h ELSE [h EXCEPT !.barrierQueue = Append(@, p)]

\* The transfer under way is the barrier's.
ReadyToResume(h) == h.barrierTransfer = 0 /\ h.barrierQueue = <<>> /\ h.awaited = {}

\* SendSnapshotResyncStoredChunks: n chunks from where the last pump stopped,
\* and none when no transfer is active.
Chunks(h, n) ==
    IF h.active = 0 THEN <<>>
    ELSE [i \in 1 .. n |-> [kind |-> "Chunk", transfer |-> h.active,
                            index |-> (h.next + i - 1) % ChunkCount, frame |-> h.frame]]
AfterChunks(h, n) == IF h.active = 0 THEN h ELSE [h EXCEPT !.next = (@ + n) % ChunkCount]

Status(h) == [kind |-> "Status", id |-> h.id, transfer |-> h.barrierTransfer]
Topology(h) == [kind |-> "Topology", id |-> h.id, frame |-> sim[Host].frame]
Resume(h) == [kind |-> "Resume", id |-> h.id, frame |-> sim[Host].frame]

-----------------------------------------------------------------------------
Init ==
    /\ host = [mode |-> "None", pending |-> FALSE, target |-> Nobody, active |-> 0,
               next |-> 0, frame |-> 0, waiting |-> FALSE, queue |-> <<>>,
               standing |-> FALSE, ready |-> FALSE, id |-> 1, barrierQueue |-> <<>>,
               awaited |-> {}, barrierPeer |-> Nobody, barrierTransfer |-> 0]
    /\ peer = [p \in Peer |->
          [mode |-> "None", pending |-> FALSE, active |-> 0, got |-> NoChunks,
           acked |-> 0, success |-> FALSE, standing |-> FALSE, id |-> 1,
           transfer |-> 0, alive |-> TRUE]]
    /\ nextId = 1
    /\ remotes = Peer
    /\ sim = [n \in Process |-> [frame |-> 0, of |-> "host"]]
    /\ asked = 0
    /\ tick = "pump"
    /\ toPeer = [p \in Peer |-> IF InOrder THEN <<>> ELSE {}]
    /\ toHost = [p \in Peer |-> Put(IF InOrder THEN <<>> ELSE {},
          IF p \in Retrying THEN <<[kind |-> "JoinRequest"]>> ELSE <<>>)]

-----------------------------------------------------------------------------
(* The request for a repair.                                               *)

\* A hash differs or the user forces it: CompareLockstepHash,
\* ForceLockstepSnapshotResync.
HostAsksForRepair(p) ==
    /\ tick = "pump" /\ p \in remotes /\ asked < MaxAsked
    /\ host' = StartOrQueueAsHost(host, p)
    /\ asked' = asked + 1
    /\ UNCHANGED <<peer, nextId, remotes, sim, tick, links>>

PeerAsksForRepair(p) ==
    /\ peer[p].alive /\ asked < MaxAsked
    /\ peer' = [peer EXCEPT ![p] = StartAsPeer(@)]
    /\ asked' = asked + 1
    /\ UNCHANGED <<host, nextId, remotes, sim, tick, links>>

-----------------------------------------------------------------------------
(* The host's pump.                                                        *)

\* While a transfer is under way the sender waits its turn, unless it is the
\* very peer that is being sent one; else its transfer starts now.
HandleSnapshotResyncRequest(p) ==
    LET started == [BeginTransfer(host, p) EXCEPT !.mode = "SnapshotCatchup"]
    IN  /\ tick = "pump"
        /\ [kind |-> "Request"] \in Arriving(toHost[p])
        /\ IF HostTransferInProgress(host)
             THEN /\ host' = QueueSnapshotResyncTarget(host, p)
                  /\ ReceiveFromPeer(p)
                  /\ UNCHANGED nextId
             ELSE /\ nextId <= MaxTransfer
                  /\ host' = AfterChunks(started, ResyncPerPump)
                  /\ nextId' = nextId + 1
                  /\ toHost' = [toHost EXCEPT ![p] = Rest(@)]
                  /\ toPeer' = [toPeer EXCEPT ![p] = Put(@, Chunks(started, ResyncPerPump))]
        /\ UNCHANGED <<peer, remotes, sim, asked, tick>>

\* Fault: the next peer in the queue is forgotten.
RepairDoneForgetful(h) ==
    [h EXCEPT !.waiting = FALSE, !.pending = FALSE, !.active = 0, !.next = 0,
              !.target = Nobody, !.queue = <<>>, !.mode = "RollbackRepaired"]

\* A repair is over: the next peer in the queue has its turn.
RepairDone(h) ==
    LET idle == [h EXCEPT !.waiting = FALSE, !.pending = FALSE, !.active = 0,
                          !.next = 0, !.target = Nobody]
    IN  IF h.queue = <<>> THEN [idle EXCEPT !.mode = "RollbackRepaired"]
        ELSE StartOrQueueAsHost([idle EXCEPT !.queue = Tail(@)], Head(h.queue))

\* The snapshot did not decode: FatalDesync, and nobody else has a turn.
RepairFailed(h) ==
    [h EXCEPT !.waiting = FALSE, !.pending = FALSE, !.active = 0, !.next = 0,
              !.target = Nobody, !.queue = <<>>, !.mode = "FatalDesync"]

\* Fault: the peer to be queued again is read after the transfer is cleared.
BarrierTransferDoneReadsLate(h, p, success) ==
    LET idle == ClearJoinBarrierTransfer(h)
    IN  IF success THEN [idle EXCEPT !.ready = ReadyToResume(idle)]
        ELSE [QueueJoinBarrierPeer(idle, idle.barrierPeer) EXCEPT !.ready = FALSE]

\* HandleJoinBarrierSnapshotAck.
BarrierTransferDone(h, p, success) ==
    LET idle == ClearJoinBarrierTransfer(h)
    IN  IF success THEN [idle EXCEPT !.ready = ReadyToResume(idle)]
        ELSE [QueueJoinBarrierPeer(idle, p) EXCEPT !.ready = FALSE]

\* Fault: the answer to an earlier transfer ends this one.
AnswersAnyTransfer(m) == host.active # 0

AnswersTransfer(m) == m.transfer = host.active

\* HandleSnapshotResyncAck: the barrier's transfer comes first.
HandleSnapshotResyncAck(p) ==
    \E m \in Arriving(toHost[p]) :
        /\ tick = "pump"
        /\ m.kind = "Ack"
        /\ host' = IF host.standing /\ m.transfer = host.barrierTransfer
                     THEN BarrierTransferDone(host, p, m.success)
                   ELSE IF ~AnswersTransfer(m) THEN host
                   ELSE IF m.success THEN RepairDone(host) ELSE RepairFailed(host)
        /\ ReceiveFromPeer(p)
        /\ UNCHANGED <<peer, nextId, remotes, sim, asked, tick>>

\* HandleJoinBarrierTopologyAck.
HandleTopologyAck(p) ==
    \E m \in Arriving(toHost[p]) :
        /\ tick = "pump"
        /\ m.kind = "TopologyAck"
        /\ LET answered == [host EXCEPT !.awaited = @ \ {p}]
           IN  host' = IF ~host.standing \/ m.id # host.id THEN host
                       ELSE [answered EXCEPT !.ready = @ \/ ReadyToResume(answered)]
        /\ ReceiveFromPeer(p)
        /\ UNCHANGED <<peer, nextId, remotes, sim, asked, tick>>

\* HandleJoinRequestAsHost for an endpoint that is registered already, then
\* BeginJoinBarrierCatchup.
HandleRetriedJoinRequest(p) ==
    /\ tick = "pump"
    /\ [kind |-> "JoinRequest"] \in Arriving(toHost[p])
    /\ p \in remotes
    /\ host' = QueueJoinBarrierPeer(RaiseBarrier(host), p)
    /\ ReceiveFromPeer(p)
    /\ UNCHANGED <<peer, nextId, remotes, sim, asked, tick>>

\* CleanupTimedOutRemoteEndpoints, RemoveRemotePlayers and
\* BeginJoinBarrierTopologyRemoval.
CleanupTimedOutRemoteEndpoint(p) ==
    LET raised == RaiseBarrier(host)
        told   == [raised EXCEPT
                     !.barrierQueue = Without(@, {p}),
                     !.awaited = (@ \cup remotes) \ {p}]
    IN  /\ tick = "pump"
        /\ p \in remotes /\ ~peer[p].alive
        /\ remotes' = remotes \ {p}
        /\ host' = IF raised.barrierPeer = p
                     THEN ClearJoinBarrierTransfer(told) ELSE told
        /\ UNCHANGED <<peer, nextId, sim, asked, tick, links>>

-----------------------------------------------------------------------------
(* The rest of the host's tick: SendPendingJoinBarrier.                    *)

BarrierTurn ==
    tick = "pump" /\ host.standing /\ \A p \in remotes : ~Busy(toPeer[p])

\* Topology packets go to those that have not acknowledged, but not to the
\* one being sent a snapshot.
TopologyFor(p) ==
    IF p \in host.awaited /\ ~(host.barrierTransfer # 0 /\ p = host.barrierPeer)
    THEN <<Topology(host)>> ELSE <<>>

ResumeEverybody ==
    /\ BarrierTurn /\ host.ready
    /\ SendToPeers([p \in Peer |-> <<Status(host), Resume(host)>>])
    /\ host' = ClearJoinBarrier(host)
    /\ tick' = "resync"
    /\ UNCHANGED <<peer, nextId, remotes, sim, asked, toHost>>

WaitForTopologyAcks ==
    /\ BarrierTurn /\ ~host.ready
    /\ host.barrierTransfer = 0 /\ host.barrierQueue = <<>>
    /\ host' = [host EXCEPT !.ready = ReadyToResume(host)]
    /\ SendToPeers([p \in Peer |-> TopologyFor(p) \o <<Status(host)>>])
    /\ tick' = "resync"
    /\ UNCHANGED <<peer, nextId, remotes, sim, asked, toHost>>

\* StartJoinBarrierSnapshotTransfer for the first in the queue, whatever
\* transfer the shared fields were of.
StartBarrierTransfer ==
    LET p       == Head(host.barrierQueue)
        popped  == [host EXCEPT !.barrierQueue = Tail(@)]
        started == [BeginTransfer(popped, p) EXCEPT
                      !.barrierPeer = p, !.barrierTransfer = nextId]
    IN  /\ BarrierTurn /\ ~host.ready
        /\ host.barrierTransfer = 0 /\ host.barrierQueue # <<>>
        /\ nextId <= MaxTransfer
        /\ IF p \in remotes
             THEN /\ host' = started
                  /\ nextId' = nextId + 1
                  /\ SendToPeers([q \in Peer |-> TopologyFor(q) \o <<Status(started)>>])
             ELSE /\ host' = popped
                  /\ SendToPeers([q \in Peer |-> TopologyFor(q)])
                  /\ UNCHANGED nextId
        /\ tick' = "resync"
        /\ UNCHANGED <<peer, remotes, sim, asked, toHost>>

\* The chunks of whatever transfer is active go to the barrier's peer.
ContinueBarrierTransfer ==
    /\ BarrierTurn /\ ~host.ready
    /\ host.barrierTransfer # 0
    /\ IF host.barrierPeer \in remotes
         THEN /\ SendToPeers([q \in Peer |-> TopologyFor(q) \o <<Status(host)>>
                    \o (IF q = host.barrierPeer THEN Chunks(host, BarrierPerPump) ELSE <<>>)])
              /\ host' = AfterChunks(host, BarrierPerPump)
         ELSE /\ SendToPeers([q \in Peer |-> TopologyFor(q)])
              /\ host' = ClearJoinBarrierTransfer(host)
    /\ tick' = "resync"
    /\ UNCHANGED <<peer, nextId, remotes, sim, asked, toHost>>

-----------------------------------------------------------------------------
(* Then SendPendingSnapshotResync.                                         *)

ResyncTurn ==
    \/ tick = "resync"
    \/ tick = "pump" /\ ~host.standing /\ (host.target \in remotes => ~Busy(toPeer[host.target]))

\* Nothing is pending and nothing awaits an answer: the host does nothing,
\* even when its mode says that a repair is under way.
NothingToSend ==
    /\ tick = "resync"
    /\ ~host.pending /\ ~(host.mode = "SnapshotCatchup" /\ host.waiting)
    /\ tick' = "pump"
    /\ UNCHANGED <<host, peer, nextId, remotes, sim, asked, links>>

\* The peer to be sent the snapshot is gone.
TargetIsGone ==
    /\ ResyncTurn
    /\ host.pending \/ (host.mode = "SnapshotCatchup" /\ host.waiting)
    /\ host.target \notin remotes
    /\ host' = [host EXCEPT !.mode = "FatalDesync", !.pending = FALSE,
                            !.waiting = IF host.pending THEN @ ELSE FALSE]
    /\ tick' = "pump"
    /\ UNCHANGED <<peer, nextId, remotes, sim, asked, links>>

ResendChunks ==
    /\ ResyncTurn
    /\ ~host.pending /\ host.mode = "SnapshotCatchup" /\ host.waiting
    /\ host.target \in remotes
    /\ toPeer' = [toPeer EXCEPT ![host.target] = Put(@, Chunks(host, ResyncPerPump))]
    /\ host' = AfterChunks(host, ResyncPerPump)
    /\ tick' = "pump"
    /\ UNCHANGED <<peer, nextId, remotes, sim, asked, toHost>>

\* SendSnapshotResyncChunksToEndpoint.
StartRepair ==
    LET started == [BeginTransfer(host, host.target) EXCEPT !.mode = "SnapshotCatchup"]
    IN  /\ ResyncTurn
        /\ host.pending /\ host.target \in remotes
        /\ nextId <= MaxTransfer
        /\ host' = AfterChunks(started, ResyncPerPump)
        /\ nextId' = nextId + 1
        /\ toPeer' = [toPeer EXCEPT ![host.target] = Put(@, Chunks(started, ResyncPerPump))]
        /\ tick' = "pump"
        /\ UNCHANGED <<peer, remotes, sim, asked, toHost>>

HostSteps ==
    /\ tick = "pump"
    /\ ~host.standing /\ host.mode # "FatalDesync" /\ ~IsSnapshotResyncBlocking(Host)
    /\ sim[Host].frame < MaxFrame
    /\ \A p \in remotes : sim[Host].frame <= sim[p].frame
    /\ sim' = [sim EXCEPT ![Host].frame = @ + 1]
    /\ UNCHANGED <<host, peer, nextId, remotes, asked, tick, links>>

-----------------------------------------------------------------------------
(* A peer.                                                                 *)

Die(p) ==
    /\ p \in MayLeave /\ peer[p].alive
    /\ peer' = [peer EXCEPT ![p].alive = FALSE]
    /\ UNCHANGED <<host, nextId, remotes, sim, asked, tick, links>>

\* Fault: a request that is lost is not repeated.
AsksOnce(r) == FALSE

\* A peer that has heard nothing for kSnapshotResyncRetryTicks asks again,
\* unless chunks have begun to arrive.
AsksAgain(r) == r.mode = "SnapshotCatchup" /\ r.active = 0

\* SendPendingSnapshotResync on a peer.
SendSnapshotResyncRequest(p) ==
    /\ peer[p].alive /\ ~Busy(toHost[p])
    /\ peer[p].pending \/ AsksAgain(peer[p])
    /\ peer' = [peer EXCEPT ![p] = [@ EXCEPT !.pending = FALSE, !.mode = "SnapshotCatchup"]]
    /\ toHost' = [toHost EXCEPT ![p] = Put(@, <<[kind |-> "Request"]>>)]
    /\ UNCHANGED <<host, nextId, remotes, sim, asked, tick, toPeer>>

\* Fault: chunks of another transfer are added to those that are there.
AssembledAnyhow(r, m) == [r.got EXCEPT ![m.index] = m.transfer]

\* The chunks a peer has when m has come: another transfer starts afresh.
Assembled(r, m) ==
    [(IF r.active = m.transfer THEN r.got ELSE NoChunks) EXCEPT ![m.index] = m.transfer]

\* The bytes assembled are those of transfer t, all of them.
Snapshot(got, m) ==
    [frame |-> m.frame, of |-> IF \A c \in Chunk : got[c] = m.transfer THEN "host" ELSE "mixed"]

\* HandleSnapshotResyncChunk: the transfer acknowledged last is acknowledged
\* again, a chunk that completes a snapshot installs it.
HandleSnapshotResyncChunk(p) ==
    \E m \in Arriving(toPeer[p]), decoded \in Decodes :
        LET r        == peer[p]
            again    == r.acked = m.transfer
            got      == Assembled(r, m)
            complete == \A c \in Chunk : got[c] # 0
            barrier  == r.standing /\ r.transfer \in {0, m.transfer}
            success  == IF again THEN r.success ELSE decoded
            started  == [r EXCEPT
                !.active = m.transfer, !.got = got,
                !.transfer = IF barrier THEN m.transfer ELSE @,
                !.mode = IF barrier \/ r.active = m.transfer THEN @ ELSE "SnapshotCatchup"]
            ended    == [started EXCEPT
                !.active = 0, !.got = NoChunks, !.acked = m.transfer, !.success = decoded,
                !.mode = IF ~decoded THEN "FatalDesync"
                         ELSE IF barrier THEN "None" ELSE "RollbackRepaired"]
        IN  /\ peer[p].alive /\ m.kind = "Chunk"
            /\ ReceiveFromHost(p, IF again \/ complete
                  THEN <<[kind |-> "Ack", transfer |-> m.transfer, success |-> success]>>
                  ELSE <<>>)
            /\ peer' = [peer EXCEPT ![p] =
                  IF again THEN r ELSE IF complete THEN ended ELSE started]
            /\ sim' = IF ~again /\ complete /\ decoded
                        THEN [sim EXCEPT ![p] = Snapshot(got, m)] ELSE sim
            /\ UNCHANGED <<host, nextId, remotes, asked, tick>>

HandleJoinBarrierStatus(p) ==
    \E m \in Arriving(toPeer[p]) :
        /\ peer[p].alive /\ m.kind = "Status" /\ m.id >= peer[p].id
        /\ peer' = [peer EXCEPT ![p] =
              [@ EXCEPT !.standing = TRUE, !.id = m.id, !.transfer = m.transfer]]
        /\ ReceiveFromHost(p, <<>>)
        /\ UNCHANGED <<host, nextId, remotes, sim, asked, tick>>

\* The peer goes to the barrier frame and acknowledges; the rollback
\* snapshot of that frame is at hand (JoinBarrier has the case of none).
HandleJoinBarrierTopology(p) ==
    \E m \in Arriving(toPeer[p]) :
        /\ peer[p].alive /\ m.kind = "Topology" /\ m.id >= peer[p].id
        /\ peer' = [peer EXCEPT ![p] = [@ EXCEPT !.standing = TRUE, !.id = m.id]]
        /\ sim' = [sim EXCEPT ![p].frame = m.frame]
        /\ ReceiveFromHost(p, <<[kind |-> "TopologyAck", id |-> m.id]>>)
        /\ UNCHANGED <<host, nextId, remotes, asked, tick>>

HandleJoinBarrierResume(p) ==
    \E m \in Arriving(toPeer[p]) :
        /\ peer[p].alive /\ m.kind = "Resume" /\ m.id >= peer[p].id
        /\ peer' = [peer EXCEPT ![p] = [ClearPeerBarrier(@) EXCEPT !.id = m.id]]
        /\ sim' = [sim EXCEPT ![p].frame = m.frame]
        /\ ReceiveFromHost(p, <<>>)
        /\ UNCHANGED <<host, nextId, remotes, asked, tick>>

PeerSteps(p) ==
    /\ peer[p].alive /\ ~peer[p].standing /\ peer[p].mode # "FatalDesync"
    /\ ~IsSnapshotResyncBlocking(p)
    /\ sim[p].frame < MaxFrame /\ sim[p].frame <= sim[Host].frame
    /\ sim' = [sim EXCEPT ![p].frame = @ + 1]
    /\ UNCHANGED <<host, peer, nextId, remotes, asked, tick, links>>

\* A packet is lost, arrives at a process that is gone, or is stale.
Lose(p) ==
    /\ \/ /\ InOrder
          /\ \E m \in Arriving(toPeer[p]) : ~peer[p].alive \/ m.kind \in Lossy
          /\ toPeer' = [toPeer EXCEPT ![p] = Rest(@)]
          /\ UNCHANGED toHost
       \/ /\ InOrder
          /\ \E m \in Arriving(toHost[p]) : p \notin remotes \/ m.kind \in Lossy
          /\ toHost' = [toHost EXCEPT ![p] = Rest(@)]
          /\ UNCHANGED toPeer
    /\ UNCHANGED <<host, peer, nextId, remotes, sim, asked, tick>>

-----------------------------------------------------------------------------
HostReceives(p) ==
    \/ HandleSnapshotResyncRequest(p)
    \/ HandleSnapshotResyncAck(p)
    \/ HandleTopologyAck(p)
    \/ HandleRetriedJoinRequest(p)

HostTicks ==
    \/ ResumeEverybody
    \/ WaitForTopologyAcks
    \/ StartBarrierTransfer
    \/ ContinueBarrierTransfer
    \/ NothingToSend
    \/ TargetIsGone
    \/ ResendChunks
    \/ StartRepair

PeerReceives(p) ==
    \/ HandleSnapshotResyncChunk(p)
    \/ HandleJoinBarrierStatus(p)
    \/ HandleJoinBarrierTopology(p)
    \/ HandleJoinBarrierResume(p)

Next ==
    \/ HostTicks
    \/ HostSteps
    \/ \E p \in Peer :
          \/ HostAsksForRepair(p)
          \/ PeerAsksForRepair(p)
          \/ HostReceives(p)
          \/ CleanupTimedOutRemoteEndpoint(p)
          \/ Die(p)
          \/ SendSnapshotResyncRequest(p)
          \/ PeerReceives(p)
          \/ PeerSteps(p)
          \/ Lose(p)

Spec == Init /\ [][Next]_vars

ReceivesChunk(p, c) ==
    /\ \E m \in Arriving(toPeer[p]) : m.kind = "Chunk" /\ m.index = c
    /\ HandleSnapshotResyncChunk(p)

\* The game loops tick; what is sent again and again gets through.
Fairness ==
    /\ WF_vars(HostTicks)
    /\ \A p \in Peer :
          /\ WF_vars(SendSnapshotResyncRequest(p))
          /\ SF_vars(HandleSnapshotResyncRequest(p))
          /\ SF_vars(HandleSnapshotResyncAck(p))
          /\ \A c \in Chunk : SF_vars(ReceivesChunk(p, c))
          /\ WF_vars(CleanupTimedOutRemoteEndpoint(p))
          /\ WF_vars(HandleTopologyAck(p))
          /\ WF_vars(HandleRetriedJoinRequest(p))
          /\ WF_vars(HandleJoinBarrierStatus(p))
          /\ WF_vars(HandleJoinBarrierTopology(p))
          /\ WF_vars(HandleJoinBarrierResume(p))

FairSpec == Spec /\ Fairness

-----------------------------------------------------------------------------
HostFields == [
    mode : Mode, pending : BOOLEAN, target : Peer \cup {Nobody}, active : Nat,
    next : Nat, frame : Nat, waiting : BOOLEAN, queue : Seq(Peer),
    standing : BOOLEAN, ready : BOOLEAN, id : Nat, barrierQueue : Seq(Peer),
    awaited : SUBSET Peer, barrierPeer : Peer \cup {Nobody}, barrierTransfer : Nat]
PeerFields == [
    mode : Mode, pending : BOOLEAN, active : Nat, got : [Chunk -> Nat],
    acked : Nat, success : BOOLEAN, standing : BOOLEAN, id : Nat,
    transfer : Nat, alive : BOOLEAN]
FromHost ==
    [kind : {"Chunk"}, transfer : Nat, index : Chunk, frame : Nat]
    \cup [kind : {"Status"}, id : Nat, transfer : Nat]
    \cup [kind : {"Topology", "Resume"}, id : Nat, frame : Nat]
FromPeer ==
    [kind : {"Request", "JoinRequest"}]
    \cup [kind : {"Ack"}, transfer : Nat, success : BOOLEAN]
    \cup [kind : {"TopologyAck"}, id : Nat]
Link(packets) == IF InOrder THEN Seq(packets) ELSE SUBSET packets

\* The variables have the types of the code's fields.
TypeOK ==
    /\ host \in HostFields
    /\ peer \in [Peer -> PeerFields]
    /\ nextId \in Nat \ {0}
    /\ remotes \subseteq Peer
    /\ sim \in [Process -> [frame : Nat, of : {"host", "mixed"}]]
    /\ asked \in Nat
    /\ tick \in {"pump", "resync"}
    /\ toPeer \in [Peer -> Link(FromHost)]
    /\ toHost \in [Peer -> Link(FromPeer)]

\* A peer never runs a simulation put together from two snapshots, whatever
\* the links do and although repair and barrier share one buffer
\* (HandleSnapshotResyncChunk).
InstalledSnapshotIsWhole == \A p \in Peer : sim[p].of # "mixed"

\* While the host sends a snapshot its own simulation stays at the frame the
\* snapshot is of, for a repair as for the barrier: a repaired peer goes on
\* where the host is (IsInputLockstepCatchupBlocking).
HostStandsStillDuringTransfer ==
    host.active # 0 => sim[Host].frame = host.frame

\* The answer to a repair's transfer, and not to a barrier's, ends it well:
\* HandleSnapshotResyncAck.
EndsRepair ==
    /\ host.mode = "SnapshotCatchup" /\ host.active \notin {0, host.barrierTransfer}
    /\ host'.active = 0
    /\ host'.mode = "RollbackRepaired" \/ host'.pending

\* The peers sent the chunks of the active transfer: the one that is to be
\* repaired, and, while a barrier awaits an answer, the peer of that barrier,
\* whatever transfer is active (SendPendingJoinBarrier).
SentTo(h) ==
    {p \in Peer : p = h.target \/ (h.barrierTransfer # 0 /\ p = h.barrierPeer)}

\* A repair that ends well, in a barrier or not, leaves a peer it was sent to
\* with the snapshot of this very transfer, at no frame before it: neither the
\* answer to an earlier transfer nor one that failed ends it
\* (HandleSnapshotResyncAck).
RepairEndsWhenInstalled ==
    [][EndsRepair =>
          \E p \in SentTo(host) :
              /\ peer[p].acked = host.active /\ peer[p].success
              /\ sim[p].frame >= host.frame]_vars

\* A repair that ends well leaves its target with the snapshot of this very
\* transfer: the host sends chunks until "the peer" acknowledges, as the plan
\* says.  The code does not keep to it when the repair is asked for while a
\* barrier's transfer awaits an answer (SendPendingJoinBarrier,
\* HandleSnapshotResyncAck).
RepairReachesItsTarget ==
    [][EndsRepair => peer[host.target].acked = host.active /\ peer[host.target].success]_vars

Present(n) == n = Host \/ peer[n].alive

\* A repair ends and the game goes on, unless a join barrier is raised: the
\* request, each chunk or the answer may be lost any number of times.
RepairEnds ==
    \A n \in Process :
        (IsSnapshotResyncBlocking(n) /\ Present(n)) ~> ~(IsSnapshotResyncBlocking(n) /\ Present(n))

\* A peer that has to wait for another's repair has its own in the end.
QueuedRepairStarts ==
    \A p \in Peer :
        p \in Range(host.queue) ~> (host.target = p \/ host.mode = "FatalDesync")
=============================================================================
