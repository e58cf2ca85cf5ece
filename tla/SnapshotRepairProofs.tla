------------------------- MODULE SnapshotRepairProofs -------------------------
(***************************************************************************)
(* Proofs about SnapshotRepair, for every set of peers, size of snapshot   *)
(* and outcome of decoding.  Where links matter the theorem says which.    *)
(***************************************************************************)
EXTENDS SnapshotRepair, QueueProofs

-----------------------------------------------------------------------------
(* Links.                                                                  *)

\* What is put on a link has the type of its packets.
LEMMA PutIsLink ==
    ASSUME NEW packets, NEW link \in Link(packets), NEW s \in Seq(packets)
    PROVE  Put(link, s) \in Link(packets)
<1>1. CASE InOrder
  BY <1>1 DEF Put, Link
<1>2. CASE ~InOrder
  <2>1. Range(s) \subseteq packets
    BY DEF Range
  <2> QED
    BY <1>2, <2>1 DEF Put, Link
<1> QED
  BY <1>1, <1>2

\* What arrives was on the link, the rest stays there.
LEMMA RestIsLink ==
    ASSUME NEW packets, NEW link \in Link(packets), NEW m \in Arriving(link)
    PROVE  /\ m \in packets /\ Rest(link) \in Link(packets)
           /\ InOrder => link # <<>> /\ m = Head(link)
<1>1. CASE InOrder
  BY <1>1 DEF Arriving, Rest, Link
<1>2. CASE ~InOrder
  BY <1>2 DEF Arriving, Rest, Link
<1> QED
  BY <1>1, <1>2

-----------------------------------------------------------------------------
(* Types.  The queues and the target of the host are left out: what is     *)
(* proved here does not depend on them.                                    *)

HostNames == {
    "mode", "pending", "target", "active", "next", "frame", "waiting", "queue", "standing",
    "ready", "id", "barrierQueue", "awaited", "barrierPeer", "barrierTransfer"}

IsHost(h) ==
    /\ DOMAIN h = HostNames
    /\ h.mode \in Mode
    /\ h.pending \in BOOLEAN /\ h.waiting \in BOOLEAN /\ h.standing \in BOOLEAN
    /\ h.active \in Nat /\ h.next \in Nat /\ h.frame \in Nat /\ h.id \in Nat
    /\ h.barrierTransfer \in Nat

Typed ==
    /\ IsHost(host)
    /\ peer \in [Peer -> PeerFields]
    /\ nextId \in Nat \ {0} /\ remotes \subseteq Peer
    /\ sim \in [Process -> [frame : Nat, of : {"host", "mixed"}]]
    /\ toPeer \in [Peer -> Link(FromHost)]
    /\ toHost \in [Peer -> Link(FromPeer)]

\* Packets of the host.
LEMMA PacketsOfHost ==
    ASSUME NEW h, IsHost(h), Typed
    PROVE  /\ Status(h) \in FromHost
           /\ Topology(h) \in FromHost /\ Resume(h) \in FromHost
<1>1. Status(h) \in FromHost
  BY DEF Status, FromHost, IsHost
<1>2. sim[Host].frame \in Nat
  BY DEF Typed, Process
<1>3. Topology(h) \in FromHost /\ Resume(h) \in FromHost
  BY <1>2 DEF Topology, Resume, FromHost, IsHost
<1> QED
  BY <1>1, <1>3

\* Its chunks are of the active transfer, wherever the last pump stopped.
LEMMA ChunksOfHost ==
    ASSUME NEW h, IsHost(h), NEW n \in Nat
    PROVE  /\ Chunks(h, n) \in Seq(FromHost)
           /\ \A i \in 1 .. Len(Chunks(h, n)) :
                 LET m == Chunks(h, n)[i]
                 IN  m.kind = "Chunk" /\ m.transfer = h.active /\ m.frame = h.frame
<1>1. CASE h.active = 0
  BY <1>1 DEF Chunks
<1>2. CASE h.active # 0
  <2> DEFINE chunk(i) == [kind |-> "Chunk", transfer |-> h.active,
                          index |-> (h.next + i - 1) % ChunkCount, frame |-> h.frame]
  <2>1. ASSUME NEW i \in 1 .. n PROVE chunk(i) \in FromHost
    <3>1. h.next + i - 1 \in Nat /\ ChunkCount \in Nat \ {0}
      BY BoundAssumption DEF IsHost
    <3>2. (h.next + i - 1) % ChunkCount \in Chunk
      BY <3>1 DEF Chunk
    <3> QED
      BY <3>2 DEF FromHost, IsHost
  <2>2. Chunks(h, n) = [i \in 1 .. n |-> chunk(i)]
    BY <1>2 DEF Chunks
  <2>3. \A i \in 1 .. n :
           chunk(i).kind = "Chunk" /\ chunk(i).transfer = h.active /\ chunk(i).frame = h.frame
    OBVIOUS
  <2> HIDE DEF chunk
  <2>4. Chunks(h, n) \in Seq(FromHost) /\ Len(Chunks(h, n)) = n
    BY <2>1, <2>2
  <2> QED
    BY <2>2, <2>3, <2>4
<1> QED
  BY <1>1, <1>2

-----------------------------------------------------------------------------
(* The host's operations on its fields.                                    *)

\* A transfer goes on, or none does.
Continues(h, g) ==
    g.active = h.active /\ g.frame = h.frame /\ SentTo(h) \subseteq SentTo(g)
\* The host waits for an answer only while it sends a snapshot, and one that
\* it sends without waiting has failed.
Waits(h) == h.waiting => h.active # 0
Stands(h) == h.active # 0 => h.waiting \/ h.mode = "FatalDesync"
\* A repair that is to start has no transfer yet.
Fresh(h) == h.pending => h.active = 0

Keeps(h, g) ==
    /\ IsHost(g)
    /\ Waits(h) => Waits(g)
    /\ Stands(h) => Stands(g)
    /\ Fresh(h) => Fresh(g)
    /\ g.active = 0 \/ Continues(h, g)

LEMMA KeepsKept ==
    ASSUME NEW h, NEW g, NEW k, Keeps(h, g), Keeps(g, k)
    PROVE  Keeps(h, k)
  BY DEF Keeps, Continues

LEMMA QueueKeeps ==
    ASSUME NEW h, IsHost(h), NEW p
    PROVE  /\ Keeps(h, QueueSnapshotResyncTarget(h, p))
           /\ Keeps(h, QueueJoinBarrierPeer(h, p))
           /\ Continues(h, QueueJoinBarrierPeer(h, p))
  BY DEF Keeps, Waits, Stands, Fresh, Continues, SentTo, IsHost, HostNames, QueueSnapshotResyncTarget,
         QueueJoinBarrierPeer

LEMMA StartOrQueueKeeps ==
    ASSUME NEW h, IsHost(h), NEW p
    PROVE  Keeps(h, StartOrQueueAsHost(h, p))
<1>1. CASE StartOrQueueAsHost(h, p) = QueueSnapshotResyncTarget(h, p)
  BY <1>1, QueueKeeps
<1>2. CASE StartOrQueueAsHost(h, p) = h
  BY <1>2 DEF Keeps, Continues
<1>3. CASE StartOrQueueAsHost(h, p) =
              [h EXCEPT !.mode = "SnapshotCatchup", !.pending = TRUE, !.target = p,
                        !.active = 0, !.next = 0, !.waiting = FALSE]
  BY <1>3 DEF Keeps, Waits, Stands, Fresh, Continues, SentTo, IsHost, HostNames, Mode
<1> QED
  BY <1>1, <1>2, <1>3 DEF StartOrQueueAsHost

LEMMA ClearKeeps ==
    ASSUME NEW h, IsHost(h)
    PROVE  /\ Keeps(h, ClearJoinBarrierTransfer(h))
           /\ ClearJoinBarrierTransfer(h).active = 0
           /\ ClearJoinBarrierTransfer(h).standing = h.standing
           /\ Keeps(h, ClearJoinBarrier(h)) /\ ClearJoinBarrier(h).active = 0
           /\ Keeps(h, RaiseBarrier(h))
<1> DEFINE idle == ClearJoinBarrierTransfer(h)
<1>1. Keeps(h, idle) /\ idle.active = 0 /\ idle.standing = h.standing
  BY DEF Keeps, Waits, Stands, Fresh, Continues, SentTo, IsHost, HostNames, ClearJoinBarrierTransfer
<1>2. /\ ClearJoinBarrier(h) = [idle EXCEPT
            !.standing = FALSE, !.ready = FALSE, !.barrierQueue = <<>>, !.awaited = {}]
      /\ RaiseBarrier(h) = IF h.standing THEN h ELSE [idle EXCEPT
            !.standing = TRUE, !.id = @ + 1, !.ready = FALSE, !.barrierQueue = <<>>]
  BY DEF ClearJoinBarrier, RaiseBarrier
<1> HIDE DEF idle
<1>3. Keeps(h, ClearJoinBarrier(h)) /\ ClearJoinBarrier(h).active = 0
  BY <1>1, <1>2 DEF Keeps, Waits, Stands, Fresh, Continues, SentTo, IsHost, HostNames
<1>4. Keeps(h, RaiseBarrier(h))
  <2>1. CASE h.standing
    BY <1>2, <2>1 DEF Keeps, Continues
  <2>2. CASE ~h.standing
    <3> DEFINE raised == [idle EXCEPT
            !.standing = TRUE, !.id = @ + 1, !.ready = FALSE, !.barrierQueue = <<>>]
    <3>1. IsHost(raised)
      BY <1>1 DEF Keeps, IsHost, HostNames
    <3>2. /\ raised.active = 0 /\ raised.waiting = idle.waiting /\ raised.mode = idle.mode
          /\ raised.pending = idle.pending
      BY <1>1 DEF Keeps, IsHost, HostNames
    <3> HIDE DEF raised
    <3>3. Keeps(h, raised)
      BY <1>1, <3>1, <3>2 DEF Keeps, Waits, Stands, Fresh
    <3> QED
      BY <1>2, <2>2, <3>3 DEF raised
  <2> QED
    BY <2>1, <2>2
<1> QED
  BY <1>1, <1>3, <1>4 DEF idle

\* The end of a repair.
LEMMA RepairDoneKeeps ==
    ASSUME NEW h, IsHost(h)
    PROVE  Keeps(h, RepairDone(h)) /\ Keeps(h, RepairFailed(h))
<1> DEFINE idle == [h EXCEPT !.waiting = FALSE, !.pending = FALSE, !.active = 0,
                             !.next = 0, !.target = Nobody]
           rest == [idle EXCEPT !.queue = Tail(@)]
           done == [idle EXCEPT !.mode = "RollbackRepaired"]
<1>1. Keeps(h, rest) /\ Keeps(h, done) /\ IsHost(rest)
  BY DEF Keeps, Waits, Stands, Fresh, Continues, SentTo, IsHost, HostNames, Mode
<1>2. RepairDone(h) = IF h.queue = <<>> THEN done ELSE StartOrQueueAsHost(rest, Head(h.queue))
  BY DEF RepairDone
<1> HIDE DEF rest, done
<1>3. Keeps(rest, StartOrQueueAsHost(rest, Head(h.queue)))
  BY <1>1, StartOrQueueKeeps
<1>4. Keeps(h, RepairDone(h))
  BY <1>1, <1>2, <1>3, KeepsKept
<1>5. Keeps(h, RepairFailed(h))
  BY DEF Keeps, Waits, Stands, Fresh, Continues, SentTo, IsHost, HostNames, Mode, RepairFailed
<1> QED
  BY <1>4, <1>5

\* The end of a transfer of the barrier.
LEMMA BarrierTransferDoneKeeps ==
    ASSUME NEW h, IsHost(h), NEW p, NEW success
    PROVE  Keeps(h, BarrierTransferDone(h, p, success))
<1> DEFINE idle == ClearJoinBarrierTransfer(h)
           again == QueueJoinBarrierPeer(idle, p)
<1>1. Keeps(h, idle) /\ IsHost(idle)
  BY ClearKeeps DEF Keeps
<1>2. Keeps(idle, again) /\ IsHost(again)
  BY <1>1, QueueKeeps DEF Keeps
<1>3. BarrierTransferDone(h, p, success) =
         IF success THEN [idle EXCEPT !.ready = ReadyToResume(idle)]
                    ELSE [again EXCEPT !.ready = FALSE]
  BY DEF BarrierTransferDone
<1> HIDE DEF idle, again
<1>4. Keeps(h, again)
  BY <1>1, <1>2, KeepsKept
<1>5. Keeps(h, [idle EXCEPT !.ready = ReadyToResume(idle)])
  BY <1>1 DEF Keeps, Waits, Stands, Fresh, Continues, SentTo, IsHost, HostNames
<1>6. Keeps(h, [again EXCEPT !.ready = FALSE])
  BY <1>2, <1>4 DEF Keeps, Waits, Stands, Fresh, Continues, SentTo, IsHost, HostNames
<1> QED
  BY <1>3, <1>5, <1>6

\* A transfer starts: it has a number of its own, and the host waits.
Begins(g) ==
    /\ IsHost(g) /\ g.active = nextId /\ g.frame = sim[Host].frame
    /\ g.waiting /\ ~g.pending
    /\ nextId' = nextId + 1

LEMMA BeginTransferBegins ==
    ASSUME NEW h, IsHost(h), Typed, NEW p, nextId' = nextId + 1
    PROVE  /\ LET g == [BeginTransfer(h, p) EXCEPT !.barrierPeer = p, !.barrierTransfer = nextId]
              IN  Begins(g) /\ g.target = p
           /\ LET g == [BeginTransfer(h, p) EXCEPT !.mode = "SnapshotCatchup"]
              IN  Begins(g) /\ g.target = p
<1>1. sim[Host].frame \in Nat /\ nextId \in Nat
  BY DEF Typed, Process
<1>2. Begins(BeginTransfer(h, p)) /\ BeginTransfer(h, p).target = p
  BY <1>1 DEF Begins, BeginTransfer, IsHost, HostNames
<1>3. LET g == [BeginTransfer(h, p) EXCEPT !.barrierPeer = p, !.barrierTransfer = nextId]
      IN  Begins(g) /\ g.target = p
  BY <1>1, <1>2 DEF Begins, IsHost, HostNames
<1>4. LET g == [BeginTransfer(h, p) EXCEPT !.mode = "SnapshotCatchup"]
      IN  Begins(g) /\ g.target = p
  BY <1>2 DEF Begins, IsHost, HostNames, Mode
<1> QED
  BY <1>3, <1>4

\* Sending chunks moves the cursor only.
LEMMA ChunksMoveTheCursor ==
    ASSUME NEW h, IsHost(h), NEW n \in Nat
    PROVE  /\ Keeps(h, AfterChunks(h, n))
           /\ AfterChunks(h, n).active = h.active /\ AfterChunks(h, n).frame = h.frame
           /\ SentTo(AfterChunks(h, n)) = SentTo(h)
           /\ Begins(h) => Begins(AfterChunks(h, n))
<1>1. CASE h.active = 0
  BY <1>1 DEF AfterChunks, Keeps
<1>2. CASE h.active # 0
  <2> DEFINE next == (h.next + n) % ChunkCount
             g    == [h EXCEPT !.next = next]
  <2>1. h.next + n \in Nat /\ ChunkCount \in Nat \ {0}
    BY BoundAssumption DEF IsHost
  <2>2. next \in Nat
    BY <2>1
  <2>3. AfterChunks(h, n) = g
    BY <1>2 DEF AfterChunks
  <2> HIDE DEF next
  <2>4. IsHost(g) /\ \A f \in HostNames \ {"next"} : g[f] = h[f]
    BY <2>2 DEF IsHost, HostNames
  <2>5. /\ g.active = h.active /\ g.frame = h.frame /\ g.waiting = h.waiting
        /\ g.mode = h.mode /\ g.pending = h.pending /\ g.target = h.target
        /\ g.barrierPeer = h.barrierPeer /\ g.barrierTransfer = h.barrierTransfer
    BY DEF IsHost, HostNames
  <2> HIDE DEF g
  <2> QED
    BY <2>3, <2>4, <2>5 DEF Keeps, Waits, Stands, Fresh, Continues, SentTo, Begins
<1> QED
  BY <1>1, <1>2

-----------------------------------------------------------------------------
(* What a step of the host does.                                           *)

HostMoves ==
    \/ Keeps(host, host') /\ nextId' = nextId
    \/ Begins(host')

\* A packet the host says to p, when its fields are h.
Said(m, p, h) ==
    /\ m \in FromHost
    /\ m.kind = "Chunk" => m.transfer = h.active /\ m.frame = h.frame /\ p \in SentTo(h)
    /\ m.kind \in {"Topology", "Resume"} => m.frame = sim[Host].frame

SaysAll(s, p, h) == s \in Seq(FromHost) /\ \A i \in 1 .. Len(s) : Said(s[i], p, h)

HostSays ==
    /\ toPeer' = [p \in Peer |-> toPeer'[p]]
    /\ \A p \in Peer : \E s : SaysAll(s, p, host') /\ toPeer'[p] = Put(toPeer[p], s)

HostHears ==
    \/ toHost' = toHost
    \/ \E p \in Peer : /\ Arriving(toHost[p]) # {}
                       /\ toHost' = [toHost EXCEPT ![p] = Rest(@)]

HostActs == HostMoves /\ HostSays /\ HostHears /\ UNCHANGED <<peer, sim>>

LEMMA PutNothing ==
    ASSUME NEW packets, NEW link \in Link(packets)
    PROVE  Put(link, <<>>) = link
<1>1. Range(<<>>) = {}
  BY DEF Range
<1>2. CASE InOrder
  BY <1>2 DEF Put, Link
<1>3. CASE ~InOrder
  BY <1>1, <1>3 DEF Put, Link
<1> QED
  BY <1>2, <1>3

LEMMA NothingSaid ==
    ASSUME Typed, toPeer' = toPeer
    PROVE  HostSays
<1> SUFFICES ASSUME NEW p \in Peer
             PROVE  \E s : SaysAll(s, p, host') /\ toPeer'[p] = Put(toPeer[p], s)
  BY DEF HostSays, Typed
<1>1. toPeer[p] \in Link(FromHost)
  BY DEF Typed
<1>2. SaysAll(<<>>, p, host') /\ toPeer'[p] = Put(toPeer[p], <<>>)
  BY <1>1, PutNothing DEF SaysAll
<1> QED
  BY <1>2

LEMMA SaidToOne ==
    ASSUME Typed, NEW q \in Peer, NEW s, SaysAll(s, q, host'),
           toPeer' = [toPeer EXCEPT ![q] = Put(@, s)]
    PROVE  HostSays
<1> SUFFICES ASSUME NEW p \in Peer
             PROVE  \E t : SaysAll(t, p, host') /\ toPeer'[p] = Put(toPeer[p], t)
  BY DEF HostSays, Typed
<1>1. toPeer[p] \in Link(FromHost)
  BY DEF Typed
<1>2. SaysAll(<<>>, p, host') /\ toPeer[p] = Put(toPeer[p], <<>>)
  BY <1>1, PutNothing DEF SaysAll
<1> QED
  BY <1>2 DEF Typed

LEMMA SaidToAll ==
    ASSUME Typed, NEW said, SendToPeers(said), \A p \in Peer : SaysAll(said[p], p, host')
    PROVE  HostSays
<1> SUFFICES ASSUME NEW p \in Peer
             PROVE  \E t : SaysAll(t, p, host') /\ toPeer'[p] = Put(toPeer[p], t)
  BY DEF HostSays, SendToPeers
<1>1. toPeer[p] \in Link(FromHost)
  BY DEF Typed
<1>2. SaysAll(<<>>, p, host') /\ toPeer[p] = Put(toPeer[p], <<>>)
  BY <1>1, PutNothing DEF SaysAll
<1>3. toPeer'[p] = IF p \in remotes THEN Put(toPeer[p], said[p]) ELSE toPeer[p]
  BY DEF SendToPeers
<1> QED
  BY <1>2, <1>3

LEMMA SaysBoth ==
    ASSUME NEW s, NEW t, NEW p, NEW h, SaysAll(s, p, h), SaysAll(t, p, h)
    PROVE  SaysAll(s \o t, p, h)
<1> DEFINE u == s \o t
<1>1. /\ u \in Seq(FromHost) /\ Len(u) = Len(s) + Len(t)
      /\ \A i \in 1 .. Len(u) : u[i] = IF i <= Len(s) THEN s[i] ELSE t[i - Len(s)]
  BY DEF SaysAll
<1>2. Len(s) \in Nat /\ Len(t) \in Nat
  BY DEF SaysAll
<1> HIDE DEF u
<1>3. ASSUME NEW i \in 1 .. Len(u) PROVE Said(u[i], p, h)
  <2>1. CASE i <= Len(s)
    BY <1>1, <1>2, <2>1 DEF SaysAll
  <2>2. CASE i > Len(s)
    <3>1. i - Len(s) \in 1 .. Len(t) /\ u[i] = t[i - Len(s)]
      BY <1>1, <1>2, <2>2
    <3> QED
      BY <3>1 DEF SaysAll
  <2> QED
    BY <1>1, <1>2, <2>1, <2>2
<1> QED
  BY <1>1, <1>3 DEF SaysAll, u

\* What the host may say.
LEMMA SaidByHost ==
    ASSUME Typed, NEW h, IsHost(h), NEW p, NEW g, IsHost(g)
    PROVE  /\ SaysAll(<<Status(g)>>, p, h)
           /\ SaysAll(TopologyFor(p), p, h)
           /\ SaysAll(<<Status(g), Resume(g)>>, p, h)
<1>1. Status(g) \in FromHost /\ Topology(host) \in FromHost /\ Resume(g) \in FromHost
  BY PacketsOfHost DEF Typed
<1>2. Said(Status(g), p, h)
  BY <1>1 DEF Said, Status
<1>3. Said(Topology(host), p, h) /\ Said(Resume(g), p, h)
  BY <1>1 DEF Said, Topology, Resume
<1>4. SaysAll(<<Status(g)>>, p, h) /\ SaysAll(<<Topology(host)>>, p, h) /\ SaysAll(<<>>, p, h)
  BY <1>1, <1>2, <1>3 DEF SaysAll
<1>5. SaysAll(<<Status(g), Resume(g)>>, p, h)
  BY <1>1, <1>2, <1>3 DEF SaysAll
<1> QED
  BY <1>4, <1>5 DEF TopologyFor

\* The chunks of h are said rightly, also when the cursor has moved on.
LEMMA ChunksSaid ==
    ASSUME NEW h, IsHost(h), NEW n \in Nat, NEW p \in SentTo(h)
    PROVE  SaysAll(Chunks(h, n), p, AfterChunks(h, n))
<1> DEFINE s == Chunks(h, n)
           g == AfterChunks(h, n)
<1>1. /\ s \in Seq(FromHost)
      /\ \A i \in 1 .. Len(s) :
            s[i].kind = "Chunk" /\ s[i].transfer = h.active /\ s[i].frame = h.frame
  BY ChunksOfHost
<1>2. g.active = h.active /\ g.frame = h.frame /\ p \in SentTo(g)
  BY ChunksMoveTheCursor
<1> HIDE DEF s, g
<1>3. \A i \in 1 .. Len(s) : s[i] \in FromHost
  BY <1>1
<1>4. SaysAll(s, p, g)
  BY <1>1, <1>2, <1>3 DEF SaysAll, Said
<1> QED
  BY <1>4 DEF s, g

\* Hears: the packet received is taken off the link.
LEMMA Heard ==
    ASSUME Typed, NEW p \in Peer, NEW m \in Arriving(toHost[p]), ReceiveFromPeer(p)
    PROVE  HostHears /\ HostSays /\ m \in FromPeer
<1>1. HostHears /\ toPeer' = toPeer
  BY DEF ReceiveFromPeer, HostHears
<1>2. m \in FromPeer
  BY RestIsLink DEF Typed
<1> QED
  BY <1>1, <1>2, NothingSaid

LEMMA KeepsMoves ==
    ASSUME Keeps(host, host'), nextId' = nextId
    PROVE  HostMoves
  BY DEF HostMoves

LEMMA AsksActs ==
    ASSUME Typed, NEW p \in Peer, HostAsksForRepair(p)
    PROVE  HostActs
<1>1. Keeps(host, host')
  BY StartOrQueueKeeps DEF HostAsksForRepair, Typed
<1>2. HostSays
  BY NothingSaid DEF HostAsksForRepair, links
<1> QED
  BY <1>1, <1>2 DEF HostActs, HostMoves, HostHears, HostAsksForRepair, links

LEMMA RequestActs ==
    ASSUME Typed, NEW p \in Peer, HandleSnapshotResyncRequest(p)
    PROVE  HostActs
<1> DEFINE started == [BeginTransfer(host, p) EXCEPT !.mode = "SnapshotCatchup"]
<1>1. UNCHANGED <<peer, sim>>
  BY DEF HandleSnapshotResyncRequest
<1>2. CASE HostTransferInProgress(host)
  <2>1. /\ host' = QueueSnapshotResyncTarget(host, p) /\ ReceiveFromPeer(p)
        /\ nextId' = nextId /\ [kind |-> "Request"] \in Arriving(toHost[p])
    BY <1>2 DEF HandleSnapshotResyncRequest
  <2>2. Keeps(host, host')
    BY <2>1, QueueKeeps DEF Typed
  <2>3. HostHears /\ HostSays
    BY <2>1, Heard
  <2> QED
    BY <1>1, <2>1, <2>2, <2>3 DEF HostActs, HostMoves
<1>3. CASE ~HostTransferInProgress(host)
  <2>1. /\ host' = AfterChunks(started, ResyncPerPump) /\ nextId' = nextId + 1
        /\ [kind |-> "Request"] \in Arriving(toHost[p])
        /\ toHost' = [toHost EXCEPT ![p] = Rest(@)]
        /\ toPeer' = [toPeer EXCEPT ![p] = Put(@, Chunks(started, ResyncPerPump))]
        /\ ResyncPerPump \in Nat
    BY <1>3, BoundAssumption DEF HandleSnapshotResyncRequest
  <2>2. Begins(started) /\ started.target = p
    BY <2>1, BeginTransferBegins DEF Typed
  <2> HIDE DEF started
  <2>3. Begins(host')
    BY <2>1, <2>2, ChunksMoveTheCursor DEF Begins
  <2>4. SaysAll(Chunks(started, ResyncPerPump), p, host')
    BY <2>1, <2>2, ChunksSaid DEF Begins, SentTo
  <2>5. HostSays
    BY <2>1, <2>4, SaidToOne
  <2>6. HostHears
    BY <2>1 DEF HostHears
  <2> QED
    BY <1>1, <2>1, <2>3, <2>5, <2>6 DEF HostActs, HostMoves
<1> QED
  BY <1>2, <1>3

LEMMA AckActs ==
    ASSUME Typed, NEW p \in Peer, HandleSnapshotResyncAck(p)
    PROVE  HostActs
<1>1. PICK m \in Arriving(toHost[p]) :
         /\ host' = IF host.standing /\ m.transfer = host.barrierTransfer
                      THEN BarrierTransferDone(host, p, m.success)
                    ELSE IF ~AnswersTransfer(m) THEN host
                    ELSE IF m.success THEN RepairDone(host) ELSE RepairFailed(host)
         /\ ReceiveFromPeer(p)
         /\ UNCHANGED <<peer, nextId, sim>>
  BY DEF HandleSnapshotResyncAck
<1>2. Keeps(host, host')
  <2>1. Keeps(host, BarrierTransferDone(host, p, m.success)) /\ Keeps(host, host)
    BY BarrierTransferDoneKeeps DEF Typed, Keeps, Continues
  <2>2. Keeps(host, RepairDone(host)) /\ Keeps(host, RepairFailed(host))
    BY RepairDoneKeeps DEF Typed
  <2> QED
    BY <1>1, <2>1, <2>2
<1>3. HostHears /\ HostSays
  BY <1>1, Heard
<1> QED
  BY <1>1, <1>2, <1>3 DEF HostActs, HostMoves

LEMMA TopologyAckActs ==
    ASSUME Typed, NEW p \in Peer, HandleTopologyAck(p)
    PROVE  HostActs
<1> DEFINE answered == [host EXCEPT !.awaited = @ \ {p}]
           told == [answered EXCEPT !.ready = @ \/ ReadyToResume(answered)]
<1>1. PICK m \in Arriving(toHost[p]) :
         /\ host' = host \/ host' = told
         /\ ReceiveFromPeer(p)
         /\ UNCHANGED <<peer, nextId, sim>>
  BY DEF HandleTopologyAck
<1>2. Keeps(host, answered) /\ IsHost(answered)
  BY DEF Typed, Keeps, Waits, Stands, Fresh, Continues, SentTo, IsHost, HostNames
<1> HIDE DEF answered
<1>3. Keeps(host, told) /\ Keeps(host, host)
  BY <1>2 DEF Typed, Keeps, Waits, Stands, Fresh, Continues, SentTo, IsHost, HostNames
<1>4. HostHears /\ HostSays
  BY <1>1, Heard
<1> QED
  BY <1>1, <1>3, <1>4 DEF HostActs, HostMoves

LEMMA JoinRequestActs ==
    ASSUME Typed, NEW p \in Peer, HandleRetriedJoinRequest(p)
    PROVE  HostActs
<1>1. /\ host' = QueueJoinBarrierPeer(RaiseBarrier(host), p)
      /\ ReceiveFromPeer(p) /\ Arriving(toHost[p]) # {}
      /\ UNCHANGED <<peer, nextId, sim>>
  BY DEF HandleRetriedJoinRequest
<1>2. Keeps(host, RaiseBarrier(host))
  BY ClearKeeps DEF Typed
<1>3. Keeps(RaiseBarrier(host), host')
  BY <1>1, <1>2, QueueKeeps DEF Keeps
<1>4. Keeps(host, host')
  BY <1>2, <1>3, KeepsKept
<1>5. HostHears /\ HostSays
  BY <1>1, Heard
<1> QED
  BY <1>1, <1>4, <1>5 DEF HostActs, HostMoves

LEMMA CleanupActs ==
    ASSUME Typed, NEW p \in Peer, CleanupTimedOutRemoteEndpoint(p)
    PROVE  HostActs
<1> DEFINE raised == RaiseBarrier(host)
           told   == [raised EXCEPT
                        !.barrierQueue = Without(@, {p}),
                        !.awaited = (@ \cup remotes) \ {p}]
<1>1. /\ host' = told \/ host' = ClearJoinBarrierTransfer(told)
      /\ UNCHANGED <<peer, nextId, sim, links>>
  BY DEF CleanupTimedOutRemoteEndpoint
<1>2. Keeps(host, raised)
  BY ClearKeeps DEF Typed
<1> HIDE DEF raised
<1>3. Keeps(raised, told) /\ IsHost(told)
  BY <1>2 DEF Keeps, Waits, Stands, Fresh, Continues, SentTo, IsHost, HostNames
<1> HIDE DEF told
<1>4. Keeps(told, ClearJoinBarrierTransfer(told))
  BY <1>3, ClearKeeps
<1>5. Keeps(host, host')
  BY <1>1, <1>2, <1>3, <1>4, KeepsKept
<1>6. HostSays /\ toHost' = toHost
  BY <1>1, NothingSaid DEF links
<1> QED
  BY <1>1, <1>5, <1>6 DEF HostActs, HostMoves, HostHears

LEMMA ResumeActs ==
    ASSUME Typed, ResumeEverybody
    PROVE  HostActs
<1> DEFINE said == [p \in Peer |-> <<Status(host), Resume(host)>>]
<1>1. /\ SendToPeers(said) /\ host' = ClearJoinBarrier(host)
      /\ UNCHANGED <<peer, nextId, sim, toHost>>
  BY DEF ResumeEverybody
<1>2. Keeps(host, host') /\ IsHost(host')
  BY <1>1, ClearKeeps DEF Typed, Keeps
<1>3. \A p \in Peer : SaysAll(said[p], p, host')
  BY <1>2, SaidByHost DEF Typed
<1> HIDE DEF said
<1>4. HostSays
  BY <1>1, <1>3, SaidToAll
<1> QED
  BY <1>1, <1>2, <1>4 DEF HostActs, HostMoves, HostHears

LEMMA WaitActs ==
    ASSUME Typed, WaitForTopologyAcks
    PROVE  HostActs
<1> DEFINE said == [p \in Peer |-> TopologyFor(p) \o <<Status(host)>>]
<1>1. /\ SendToPeers(said) /\ host' = [host EXCEPT !.ready = ReadyToResume(host)]
      /\ UNCHANGED <<peer, nextId, sim, toHost>>
  BY DEF WaitForTopologyAcks
<1>2. Keeps(host, host') /\ IsHost(host')
  BY <1>1 DEF Typed, Keeps, Waits, Stands, Fresh, Continues, SentTo, IsHost, HostNames
<1>3. \A p \in Peer : SaysAll(said[p], p, host')
  BY <1>2, SaidByHost, SaysBoth DEF Typed
<1> HIDE DEF said
<1>4. HostSays
  BY <1>1, <1>3, SaidToAll
<1> QED
  BY <1>1, <1>2, <1>4 DEF HostActs, HostMoves, HostHears

LEMMA StartBarrierActs ==
    ASSUME Typed, StartBarrierTransfer
    PROVE  HostActs
<1> DEFINE p       == Head(host.barrierQueue)
           popped  == [host EXCEPT !.barrierQueue = Tail(@)]
           started == [BeginTransfer(popped, p) EXCEPT
                         !.barrierPeer = p, !.barrierTransfer = nextId]
           one     == [q \in Peer |-> TopologyFor(q) \o <<Status(started)>>]
           none    == [q \in Peer |-> TopologyFor(q)]
<1>1. UNCHANGED <<peer, sim, toHost>>
  BY DEF StartBarrierTransfer
<1>2. \/ host' = started /\ nextId' = nextId + 1 /\ SendToPeers(one)
      \/ host' = popped /\ nextId' = nextId /\ SendToPeers(none)
  BY DEF StartBarrierTransfer
<1>3. IsHost(popped) /\ Keeps(host, popped)
  BY DEF Typed, Keeps, Waits, Stands, Fresh, Continues, SentTo, IsHost, HostNames
<1> HIDE DEF p, popped
<1>4. CASE host' = started /\ nextId' = nextId + 1 /\ SendToPeers(one)
  <2>1. nextId \in Nat
    BY DEF Typed
  <2>2. Begins(started)
    BY <1>3, <1>4, <2>1, BeginTransferBegins
  <2> HIDE DEF started
  <2>3. \A q \in Peer : SaysAll(one[q], q, host')
    BY <1>4, <2>2, SaidByHost, SaysBoth DEF Begins
  <2> HIDE DEF one
  <2>4. HostSays
    BY <1>4, <2>3, SaidToAll
  <2> QED
    BY <1>1, <1>4, <2>2, <2>4 DEF HostActs, HostMoves, HostHears
<1>5. CASE host' = popped /\ nextId' = nextId /\ SendToPeers(none)
  <2>1. \A q \in Peer : SaysAll(none[q], q, host')
    BY <1>3, <1>5, SaidByHost
  <2> HIDE DEF none
  <2>2. HostSays
    BY <1>5, <2>1, SaidToAll
  <2> QED
    BY <1>1, <1>3, <1>5, <2>2 DEF HostActs, HostMoves, HostHears
<1> QED
  BY <1>2, <1>4, <1>5

LEMMA ContinueBarrierActs ==
    ASSUME Typed, ContinueBarrierTransfer
    PROVE  HostActs
<1> DEFINE chunks(q) == IF q = host.barrierPeer THEN Chunks(host, BarrierPerPump) ELSE <<>>
           both == [q \in Peer |-> TopologyFor(q) \o <<Status(host)>> \o chunks(q)]
           none == [q \in Peer |-> TopologyFor(q)]
<1>1. UNCHANGED <<peer, nextId, sim, toHost>> /\ host.barrierTransfer # 0
  BY DEF ContinueBarrierTransfer
<1>2. \/ host' = AfterChunks(host, BarrierPerPump) /\ SendToPeers(both)
      \/ host' = ClearJoinBarrierTransfer(host) /\ SendToPeers(none)
  BY DEF ContinueBarrierTransfer
<1>3. IsHost(host) /\ BarrierPerPump \in Nat
  BY BoundAssumption DEF Typed
<1>4. CASE host' = AfterChunks(host, BarrierPerPump) /\ SendToPeers(both)
  <2>1. Keeps(host, host') /\ IsHost(host')
    BY <1>3, <1>4, ChunksMoveTheCursor DEF Keeps
  <2>2. ASSUME NEW q \in Peer PROVE SaysAll(both[q], q, host')
    <3>1. SaysAll(TopologyFor(q), q, host') /\ SaysAll(<<Status(host)>>, q, host')
      BY <1>3, <2>1, SaidByHost
    <3>2. CASE q = host.barrierPeer
      <4>1. q \in SentTo(host)
        BY <1>1, <3>2 DEF SentTo
      <4>2. SaysAll(Chunks(host, BarrierPerPump), q, host')
        BY <1>3, <1>4, <4>1, ChunksSaid
      <4> QED
        BY <3>1, <3>2, <4>2, SaysBoth
    <3>3. CASE q # host.barrierPeer
      <4>1. SaysAll(<<>>, q, host')
        BY DEF SaysAll
      <4> QED
        BY <3>1, <3>3, <4>1, SaysBoth
    <3> QED
      BY <3>2, <3>3
  <2> HIDE DEF both
  <2>3. HostSays
    BY <1>4, <2>2, SaidToAll
  <2> QED
    BY <1>1, <2>1, <2>3 DEF HostActs, HostMoves, HostHears
<1>5. CASE host' = ClearJoinBarrierTransfer(host) /\ SendToPeers(none)
  <2>1. Keeps(host, host') /\ IsHost(host')
    BY <1>3, <1>5, ClearKeeps DEF Keeps
  <2>2. \A q \in Peer : SaysAll(none[q], q, host')
    BY <1>3, <2>1, SaidByHost
  <2> HIDE DEF none
  <2>3. HostSays
    BY <1>5, <2>2, SaidToAll
  <2> QED
    BY <1>1, <2>1, <2>3 DEF HostActs, HostMoves, HostHears
<1> QED
  BY <1>2, <1>4, <1>5

LEMMA ResyncActs ==
    ASSUME Typed, NothingToSend \/ TargetIsGone \/ ResendChunks \/ StartRepair
    PROVE  HostActs
<1>1. IsHost(host) /\ Keeps(host, host)
  BY DEF Typed, Keeps, Continues
<1>2. CASE NothingToSend
  BY <1>1, <1>2, NothingSaid DEF NothingToSend, HostActs, HostMoves, HostHears, links
<1>3. CASE TargetIsGone
  <2>1. Keeps(host, host')
    BY <1>1, <1>3 DEF TargetIsGone, Keeps, Waits, Stands, Fresh, Continues, SentTo, IsHost, HostNames, Mode
  <2> QED
    BY <1>3, <2>1, NothingSaid DEF TargetIsGone, HostActs, HostMoves, HostHears, links
<1>4. CASE ResendChunks
  <2>1. /\ host' = AfterChunks(host, ResyncPerPump) /\ ResyncPerPump \in Nat
        /\ host.target \in Peer /\ UNCHANGED <<peer, nextId, sim, toHost>>
        /\ toPeer' = [toPeer EXCEPT ![host.target] = Put(@, Chunks(host, ResyncPerPump))]
    BY <1>4, BoundAssumption DEF ResendChunks, Typed
  <2>2. Keeps(host, host')
    BY <1>1, <2>1, ChunksMoveTheCursor
  <2>3. SaysAll(Chunks(host, ResyncPerPump), host.target, host')
    BY <1>1, <2>1, ChunksSaid DEF SentTo
  <2>4. HostSays
    BY <2>1, <2>3, SaidToOne
  <2> QED
    BY <2>1, <2>2, <2>4 DEF HostActs, HostMoves, HostHears
<1>5. CASE StartRepair
  <2> DEFINE started == [BeginTransfer(host, host.target) EXCEPT !.mode = "SnapshotCatchup"]
  <2>1. /\ host' = AfterChunks(started, ResyncPerPump) /\ ResyncPerPump \in Nat
        /\ nextId' = nextId + 1 /\ host.target \in Peer
        /\ toPeer' = [toPeer EXCEPT ![host.target] = Put(@, Chunks(started, ResyncPerPump))]
        /\ UNCHANGED <<peer, sim, toHost>>
    BY <1>5, BoundAssumption DEF StartRepair, Typed
  <2>2. Begins(started) /\ started.target = host.target
    BY <1>1, <2>1, BeginTransferBegins
  <2> HIDE DEF started
  <2>3. Begins(host')
    BY <2>1, <2>2, ChunksMoveTheCursor DEF Begins
  <2>4. SaysAll(Chunks(started, ResyncPerPump), host.target, host')
    BY <2>1, <2>2, ChunksSaid DEF Begins, SentTo
  <2>5. HostSays
    BY <2>1, <2>4, SaidToOne
  <2> QED
    BY <2>1, <2>3, <2>5 DEF HostActs, HostMoves, HostHears
<1> QED
  BY <1>2, <1>3, <1>4, <1>5

HostPacketActs(p) ==
    HostAsksForRepair(p) \/ HostReceives(p) \/ CleanupTimedOutRemoteEndpoint(p)

LEMMA HostTurnsAct ==
    ASSUME Typed,
           HostTicks \/ \E p \in Peer : HostPacketActs(p)
    PROVE  HostActs
<1>1. CASE HostTicks
  BY <1>1, ResumeActs, WaitActs, StartBarrierActs, ContinueBarrierActs, ResyncActs DEF HostTicks
<1>2. ASSUME NEW p \in Peer, HostPacketActs(p) PROVE HostActs
  BY <1>2, AsksActs, RequestActs, AckActs, TopologyAckActs, JoinRequestActs, CleanupActs
     DEF HostPacketActs, HostReceives
<1> QED
  BY <1>1, <1>2

-----------------------------------------------------------------------------
(* What a step of a peer does.                                             *)

SimFields == [frame : Nat, of : {"host", "mixed"}]

\* The chunks a peer has are of the transfer it receives.
WholeOf(r) == \A c \in Chunk : r.got[c] \in {0, r.active}

\* It acknowledges a transfer other than the last only with a chunk of it.
Learns(p, r, v) ==
    \/ /\ r.acked = peer[p].acked /\ r.success = peer[p].success
       /\ \/ v.frame >= sim[p].frame
          \/ \E m \in Arriving(toPeer[p]) :
                m.kind \in {"Topology", "Resume"} /\ v.frame = m.frame
    \/ /\ toPeer' = [toPeer EXCEPT ![p] = Rest(@)]
       /\ \E m \in Arriving(toPeer[p]) :
             /\ m.kind = "Chunk" /\ m.transfer # 0
             /\ r.acked = m.transfer /\ peer[p].acked # m.transfer
             /\ r.success => v.frame = m.frame

PeerBecomes(p, r, v, s) ==
    /\ UNCHANGED <<host, nextId, remotes>>
    /\ r \in PeerFields /\ peer' = [peer EXCEPT ![p] = r]
    /\ v \in SimFields /\ sim' = [sim EXCEPT ![p] = v]
    /\ s \in Seq(FromPeer) /\ toHost' = [toHost EXCEPT ![p] = Put(@, s)]
    /\ \/ toPeer' = toPeer
       \/ Arriving(toPeer[p]) # {} /\ toPeer' = [toPeer EXCEPT ![p] = Rest(@)]
    /\ WholeOf(r) /\ v.of # "mixed"
    /\ \A i \in 1 .. Len(s) :
          s[i].kind = "Ack" => s[i].transfer = r.acked /\ s[i].success = r.success
    /\ Learns(p, r, v)

PeerActs(p) == \E r, v, s : PeerBecomes(p, r, v, s)

Wholes == Typed /\ InstalledSnapshotIsWhole /\ \A p \in Peer : WholeOf(peer[p])

LEMMA Same ==
    ASSUME Typed, NEW p \in Peer
    PROVE  /\ peer[p] \in PeerFields /\ peer = [peer EXCEPT ![p] = peer[p]]
           /\ sim[p] \in SimFields /\ sim = [sim EXCEPT ![p] = sim[p]]
           /\ toHost = [toHost EXCEPT ![p] = Put(@, <<>>)]
<1>1. toHost[p] \in Link(FromPeer)
  BY DEF Typed
<1>2. Put(toHost[p], <<>>) = toHost[p]
  BY <1>1, PutNothing
<1> QED
  BY <1>2 DEF Typed, SimFields, Process

LEMMA PeerAsksActs ==
    ASSUME Wholes, NEW p \in Peer, PeerAsksForRepair(p)
    PROVE  PeerActs(p)
<1> DEFINE r == StartAsPeer(peer[p])
<1>1. /\ UNCHANGED <<host, nextId, remotes, sim, links>>
      /\ peer' = [peer EXCEPT ![p] = r]
  BY DEF PeerAsksForRepair
<1>2. peer[p] \in PeerFields /\ WholeOf(peer[p])
  BY DEF Wholes, Typed
<1>3. /\ r \in PeerFields /\ WholeOf(r)
      /\ r.acked = peer[p].acked /\ r.success = peer[p].success
  BY <1>2 DEF StartAsPeer, PeerFields, WholeOf, NoChunks, Mode
<1> HIDE DEF r
<1>4. PeerBecomes(p, r, sim[p], <<>>)
  BY <1>1, <1>3, Same DEF PeerBecomes, Learns, Wholes, InstalledSnapshotIsWhole, links, SimFields
<1> QED
  BY <1>4 DEF PeerActs

LEMMA DieActs ==
    ASSUME Wholes, NEW p \in Peer, Die(p)
    PROVE  PeerActs(p)
<1> DEFINE r == [peer[p] EXCEPT !.alive = FALSE]
<1>1. /\ UNCHANGED <<host, nextId, remotes, sim, links>>
      /\ peer' = [peer EXCEPT ![p] = r]
  BY DEF Die, Wholes, Typed
<1>2. peer[p] \in PeerFields /\ WholeOf(peer[p])
  BY DEF Wholes, Typed
<1>3. /\ r \in PeerFields /\ WholeOf(r)
      /\ r.acked = peer[p].acked /\ r.success = peer[p].success
  BY <1>2 DEF PeerFields, WholeOf
<1> HIDE DEF r
<1>4. PeerBecomes(p, r, sim[p], <<>>)
  BY <1>1, <1>3, Same DEF PeerBecomes, Learns, Wholes, InstalledSnapshotIsWhole, links, SimFields
<1> QED
  BY <1>4 DEF PeerActs

LEMMA PeerRequestActs ==
    ASSUME Wholes, NEW p \in Peer, SendSnapshotResyncRequest(p)
    PROVE  PeerActs(p)
<1> DEFINE r == [peer[p] EXCEPT !.pending = FALSE, !.mode = "SnapshotCatchup"]
           s == <<[kind |-> "Request"]>>
<1>1. /\ UNCHANGED <<host, nextId, remotes, sim, toPeer>>
      /\ peer' = [peer EXCEPT ![p] = r]
      /\ toHost' = [toHost EXCEPT ![p] = Put(@, s)]
  BY DEF SendSnapshotResyncRequest
<1>2. peer[p] \in PeerFields /\ WholeOf(peer[p])
  BY DEF Wholes, Typed
<1>3. /\ r \in PeerFields /\ WholeOf(r)
      /\ r.acked = peer[p].acked /\ r.success = peer[p].success
  BY <1>2 DEF PeerFields, WholeOf, Mode
<1>4. /\ s \in Seq(FromPeer)
      /\ \A i \in 1 .. Len(s) : s[i].kind # "Ack"
  BY DEF FromPeer
<1> HIDE DEF r, s
<1>5. PeerBecomes(p, r, sim[p], s)
  BY <1>1, <1>3, <1>4, Same DEF PeerBecomes, Learns, Wholes, InstalledSnapshotIsWhole, SimFields
<1> QED
  BY <1>5 DEF PeerActs

LEMMA PeerStepsActs ==
    ASSUME Wholes, NEW p \in Peer, PeerSteps(p)
    PROVE  PeerActs(p)
<1> DEFINE v == [sim[p] EXCEPT !.frame = @ + 1]
<1>1. /\ UNCHANGED <<host, nextId, remotes, peer, links>>
      /\ sim' = [sim EXCEPT ![p] = v]
  BY DEF PeerSteps
<1>2. sim[p] \in SimFields /\ sim[p].of # "mixed" /\ WholeOf(peer[p])
  BY Same DEF Wholes, InstalledSnapshotIsWhole
<1>3. v \in SimFields /\ v.of # "mixed" /\ v.frame >= sim[p].frame
  BY <1>2 DEF SimFields
<1> HIDE DEF v
<1>4. PeerBecomes(p, peer[p], v, <<>>)
  BY <1>1, <1>2, <1>3, Same DEF PeerBecomes, Learns, Wholes, links
<1> QED
  BY <1>4 DEF PeerActs

\* A packet of the host arrives at p.
LEMMA Arrived ==
    ASSUME Typed, NEW p \in Peer, NEW m \in Arriving(toPeer[p])
    PROVE  /\ m \in FromHost
           /\ m.kind = "Chunk" => m.transfer \in Nat /\ m.index \in Chunk /\ m.frame \in Nat
           /\ m.kind = "Status" => m.id \in Nat /\ m.transfer \in Nat
           /\ m.kind \in {"Topology", "Resume"} => m.id \in Nat /\ m.frame \in Nat
<1>1. m \in FromHost
  BY RestIsLink DEF Typed
<1> QED
  BY <1>1 DEF FromHost

LEMMA Silence ==
    <<>> \in Seq(FromPeer) /\ \A i \in 1 .. Len(<<>>) : FALSE
  OBVIOUS

LEMMA StatusActs ==
    ASSUME Wholes, NEW p \in Peer, HandleJoinBarrierStatus(p)
    PROVE  PeerActs(p)
<1>1. PICK m \in Arriving(toPeer[p]) :
         /\ m.kind = "Status"
         /\ peer' = [peer EXCEPT ![p] =
               [@ EXCEPT !.standing = TRUE, !.id = m.id, !.transfer = m.transfer]]
         /\ ReceiveFromHost(p, <<>>)
         /\ UNCHANGED <<host, nextId, remotes, sim>>
  BY DEF HandleJoinBarrierStatus
<1> DEFINE r == [peer[p] EXCEPT !.standing = TRUE, !.id = m.id, !.transfer = m.transfer]
<1>2. peer[p] \in PeerFields /\ WholeOf(peer[p]) /\ Typed
  BY DEF Wholes, Typed
<1>3. m.id \in Nat /\ m.transfer \in Nat
  BY <1>1, <1>2, Arrived
<1>4. /\ r \in PeerFields /\ WholeOf(r)
      /\ r.acked = peer[p].acked /\ r.success = peer[p].success
  BY <1>2, <1>3 DEF PeerFields, WholeOf
<1>5. peer' = [peer EXCEPT ![p] = r]
  BY <1>1
<1> HIDE DEF r
<1>6. PeerBecomes(p, r, sim[p], <<>>)
  <2>1. Learns(p, r, sim[p]) /\ sim[p] \in SimFields /\ sim[p].of # "mixed"
    BY <1>4, Same DEF Learns, SimFields, Wholes, InstalledSnapshotIsWhole
  <2>2. sim' = [sim EXCEPT ![p] = sim[p]]
    BY <1>1, <1>2, Same
  <2> QED
    BY <1>1, <1>4, <1>5, <2>1, <2>2, Silence DEF PeerBecomes, ReceiveFromHost
<1> QED
  BY <1>6 DEF PeerActs

LEMMA TopologyActs ==
    ASSUME Wholes, NEW p \in Peer, HandleJoinBarrierTopology(p)
    PROVE  PeerActs(p)
<1>1. PICK m \in Arriving(toPeer[p]) :
         /\ m.kind = "Topology"
         /\ peer' = [peer EXCEPT ![p] = [@ EXCEPT !.standing = TRUE, !.id = m.id]]
         /\ sim' = [sim EXCEPT ![p].frame = m.frame]
         /\ ReceiveFromHost(p, <<[kind |-> "TopologyAck", id |-> m.id]>>)
         /\ UNCHANGED <<host, nextId, remotes>>
  BY DEF HandleJoinBarrierTopology
<1> DEFINE r == [peer[p] EXCEPT !.standing = TRUE, !.id = m.id]
           v == [sim[p] EXCEPT !.frame = m.frame]
           s == <<[kind |-> "TopologyAck", id |-> m.id]>>
<1>2. /\ peer[p] \in PeerFields /\ WholeOf(peer[p]) /\ Typed
      /\ sim[p] \in SimFields /\ sim[p].of # "mixed"
  BY Same DEF Wholes, InstalledSnapshotIsWhole
<1>3. m.id \in Nat /\ m.frame \in Nat
  BY <1>1, <1>2, Arrived
<1>4. /\ r \in PeerFields /\ WholeOf(r)
      /\ r.acked = peer[p].acked /\ r.success = peer[p].success
  BY <1>2, <1>3 DEF PeerFields, WholeOf
<1>5. v \in SimFields /\ v.of # "mixed" /\ v.frame = m.frame
  BY <1>2, <1>3 DEF SimFields
<1>6. s \in Seq(FromPeer) /\ \A i \in 1 .. Len(s) : s[i].kind # "Ack"
  BY <1>3 DEF FromPeer
<1>7. /\ peer' = [peer EXCEPT ![p] = r] /\ sim' = [sim EXCEPT ![p] = v]
      /\ ReceiveFromHost(p, s)
  BY <1>1
<1> HIDE DEF r, v, s
<1>8. Learns(p, r, v)
  BY <1>1, <1>4, <1>5 DEF Learns
<1>9. PeerBecomes(p, r, v, s)
  BY <1>1, <1>4, <1>5, <1>6, <1>7, <1>8 DEF PeerBecomes, ReceiveFromHost
<1> QED
  BY <1>9 DEF PeerActs

LEMMA ResumedActs ==
    ASSUME Wholes, NEW p \in Peer, HandleJoinBarrierResume(p)
    PROVE  PeerActs(p)
<1>1. PICK m \in Arriving(toPeer[p]) :
         /\ m.kind = "Resume"
         /\ peer' = [peer EXCEPT ![p] = [ClearPeerBarrier(@) EXCEPT !.id = m.id]]
         /\ sim' = [sim EXCEPT ![p].frame = m.frame]
         /\ ReceiveFromHost(p, <<>>)
         /\ UNCHANGED <<host, nextId, remotes>>
  BY DEF HandleJoinBarrierResume
<1> DEFINE r == [ClearPeerBarrier(peer[p]) EXCEPT !.id = m.id]
           v == [sim[p] EXCEPT !.frame = m.frame]
<1>2. /\ peer[p] \in PeerFields /\ WholeOf(peer[p]) /\ Typed
      /\ sim[p] \in SimFields /\ sim[p].of # "mixed"
  BY Same DEF Wholes, InstalledSnapshotIsWhole
<1>3. m.id \in Nat /\ m.frame \in Nat
  BY <1>1, <1>2, Arrived
<1>4. /\ r \in PeerFields /\ WholeOf(r)
      /\ r.acked = peer[p].acked /\ r.success = peer[p].success
  BY <1>2, <1>3 DEF PeerFields, WholeOf, ClearPeerBarrier, NoChunks
<1>5. v \in SimFields /\ v.of # "mixed" /\ v.frame = m.frame
  BY <1>2, <1>3 DEF SimFields
<1>6. /\ peer' = [peer EXCEPT ![p] = r] /\ sim' = [sim EXCEPT ![p] = v]
  BY <1>1
<1> HIDE DEF r, v
<1>7. Learns(p, r, v)
  BY <1>1, <1>4, <1>5 DEF Learns
<1>8. PeerBecomes(p, r, v, <<>>)
  BY <1>1, <1>4, <1>5, <1>6, <1>7, Silence DEF PeerBecomes, ReceiveFromHost
<1> QED
  BY <1>8 DEF PeerActs

\* The chunks assembled are of the transfer the last one came from, so that a
\* complete set is one snapshot.
LEMMA AssembledIsWhole ==
    ASSUME NEW r \in PeerFields, WholeOf(r), NEW m, m.transfer \in Nat, m.index \in Chunk
    PROVE  /\ Assembled(r, m) \in [Chunk -> Nat]
           /\ \A c \in Chunk : Assembled(r, m)[c] \in {0, m.transfer}
           /\ (\A c \in Chunk : Assembled(r, m)[c] # 0) =>
                  /\ m.transfer # 0 /\ Snapshot(Assembled(r, m), m).of = "host"
                  /\ Snapshot(Assembled(r, m), m).frame = m.frame
<1> DEFINE base == IF r.active = m.transfer THEN r.got ELSE NoChunks
           got == Assembled(r, m)
<1>1. base \in [Chunk -> Nat] /\ \A c \in Chunk : base[c] \in {0, m.transfer}
  BY DEF PeerFields, WholeOf, NoChunks
<1>2. got = [base EXCEPT ![m.index] = m.transfer]
  BY DEF Assembled
<1> HIDE DEF base, got
<1>3. got \in [Chunk -> Nat] /\ \A c \in Chunk : got[c] \in {0, m.transfer}
  BY <1>1, <1>2
<1>4. ASSUME \A c \in Chunk : got[c] # 0
      PROVE  m.transfer # 0 /\ \A c \in Chunk : got[c] = m.transfer
  BY <1>3, <1>4
<1>5. (\A c \in Chunk : got[c] # 0) =>
         m.transfer # 0 /\ Snapshot(got, m).of = "host" /\ Snapshot(got, m).frame = m.frame
  BY <1>4 DEF Snapshot
<1> QED
  BY <1>3, <1>5 DEF got

LEMMA ChunkActs ==
    ASSUME Wholes, NEW p \in Peer, HandleSnapshotResyncChunk(p)
    PROVE  PeerActs(p)
<1>0. /\ peer[p] \in PeerFields /\ WholeOf(peer[p]) /\ Typed
      /\ sim[p] \in SimFields /\ sim[p].of # "mixed"
  BY Same DEF Wholes, InstalledSnapshotIsWhole
<1>1. PICK m \in Arriving(toPeer[p]), decoded \in Decodes :
        LET r        == peer[p]
            again    == r.acked = m.transfer
            got      == Assembled(r, m)
            complete == \A c \in Chunk : got[c] # 0
            barrier  == r.standing /\ r.transfer \in {0, m.transfer}
            success  == IF again THEN r.success ELSE decoded
            started  == [r EXCEPT
                !.active = m.transfer, !.got = got,
                !.transfer = IF barrier THEN m.transfer ELSE @,
                !.mode = IF barrier \/ r.active = m.transfer THEN @ ELSE "SnapshotCatchup"]
            ended    == [started EXCEPT
                !.active = 0, !.got = NoChunks, !.acked = m.transfer, !.success = decoded,
                !.mode = IF ~decoded THEN "FatalDesync"
                         ELSE IF barrier THEN "None" ELSE "RollbackRepaired"]
        IN  /\ m.kind = "Chunk"
            /\ ReceiveFromHost(p, IF again \/ complete
                  THEN <<[kind |-> "Ack", transfer |-> m.transfer, success |-> success]>>
                  ELSE <<>>)
            /\ peer' = [peer EXCEPT ![p] =
                  IF again THEN r ELSE IF complete THEN ended ELSE started]
            /\ sim' = IF ~again /\ complete /\ decoded
                        THEN [sim EXCEPT ![p] = Snapshot(got, m)] ELSE sim
            /\ UNCHANGED <<host, nextId, remotes>>
  BY DEF HandleSnapshotResyncChunk
<1> DEFINE got      == Assembled(peer[p], m)
           complete == \A c \in Chunk : got[c] # 0
           barrier  == peer[p].standing /\ peer[p].transfer \in {0, m.transfer}
           started  == [peer[p] EXCEPT
                !.active = m.transfer, !.got = got,
                !.transfer = IF barrier THEN m.transfer ELSE @,
                !.mode = IF barrier \/ peer[p].active = m.transfer THEN @
                         ELSE "SnapshotCatchup"]
           ended    == [started EXCEPT
                !.active = 0, !.got = NoChunks, !.acked = m.transfer, !.success = decoded,
                !.mode = IF ~decoded THEN "FatalDesync"
                         ELSE IF barrier THEN "None" ELSE "RollbackRepaired"]
           ack(b)   == <<[kind |-> "Ack", transfer |-> m.transfer, success |-> b]>>
           v        == IF decoded THEN Snapshot(got, m) ELSE sim[p]
<1>2. m.transfer \in Nat /\ m.index \in Chunk /\ m.frame \in Nat /\ decoded \in BOOLEAN
  BY <1>0, <1>1, Arrived, BoundAssumption
<1>3. /\ got \in [Chunk -> Nat] /\ \A c \in Chunk : got[c] \in {0, m.transfer}
      /\ complete => /\ m.transfer # 0 /\ Snapshot(got, m).of = "host"
                     /\ Snapshot(got, m).frame = m.frame
  BY <1>0, <1>2, AssembledIsWhole
<1>4. Arriving(toPeer[p]) # {} /\ UNCHANGED <<host, nextId, remotes>>
  BY <1>1
<1>5. \A b \in BOOLEAN : /\ ack(b) \in Seq(FromPeer) /\ Len(ack(b)) = 1
                          /\ ack(b)[1].transfer = m.transfer /\ ack(b)[1].success = b
  BY <1>2 DEF FromPeer
<1>6. CASE peer[p].acked = m.transfer
  <2>1. peer[p].success \in BOOLEAN
    BY <1>0 DEF PeerFields
  <2>2. /\ peer' = [peer EXCEPT ![p] = peer[p]] /\ sim' = [sim EXCEPT ![p] = sim[p]]
        /\ ReceiveFromHost(p, ack(peer[p].success))
    BY <1>0, <1>1, <1>6, Same
  <2>3. \A i \in 1 .. Len(ack(peer[p].success)) :
           /\ ack(peer[p].success)[i].transfer = peer[p].acked
           /\ ack(peer[p].success)[i].success = peer[p].success
    BY <1>5, <1>6, <2>1
  <2>4. Learns(p, peer[p], sim[p])
    BY <1>0 DEF Learns, SimFields
  <2> HIDE DEF ack
  <2>5. PeerBecomes(p, peer[p], sim[p], ack(peer[p].success))
    BY <1>0, <1>4, <1>5, <2>1, <2>2, <2>3, <2>4 DEF PeerBecomes, ReceiveFromHost
  <2> QED
    BY <2>5 DEF PeerActs
<1>7. CASE peer[p].acked # m.transfer /\ complete
  <2>1. started \in PeerFields
    BY <1>0, <1>2, <1>3 DEF PeerFields, Mode
  <2>2. /\ peer' = [peer EXCEPT ![p] = ended] /\ ReceiveFromHost(p, ack(decoded))
        /\ sim' = IF decoded THEN [sim EXCEPT ![p] = Snapshot(got, m)] ELSE sim
    BY <1>1, <1>7
  <2> HIDE DEF started, got
  <2>3. /\ ended \in PeerFields /\ WholeOf(ended)
        /\ ended.acked = m.transfer /\ ended.success = decoded
    BY <1>2, <2>1 DEF PeerFields, WholeOf, NoChunks, Mode
  <2>4. Snapshot(got, m) \in SimFields
    BY <1>2 DEF Snapshot, SimFields
  <2>5. v \in SimFields /\ v.of # "mixed" /\ (decoded => v.frame = m.frame)
    BY <1>0, <1>3, <1>7, <2>4
  <2>6. sim' = [sim EXCEPT ![p] = v]
    BY <1>0, <2>2, Same
  <2>7. \A i \in 1 .. Len(ack(decoded)) :
           ack(decoded)[i].transfer = m.transfer /\ ack(decoded)[i].success = decoded
    BY <1>2, <1>5
  <2> HIDE DEF ended, v, ack
  <2>8. Learns(p, ended, v)
    BY <1>1, <1>3, <1>7, <2>2, <2>3, <2>5 DEF Learns, ReceiveFromHost
  <2>9. PeerBecomes(p, ended, v, ack(decoded))
    BY <1>2, <1>4, <1>5, <2>2, <2>3, <2>5, <2>6, <2>7, <2>8 DEF PeerBecomes, ReceiveFromHost
  <2> QED
    BY <2>9 DEF PeerActs
<1>8. CASE peer[p].acked # m.transfer /\ ~complete
  <2>1. /\ started \in PeerFields /\ WholeOf(started)
        /\ started.acked = peer[p].acked /\ started.success = peer[p].success
    <3> HIDE DEF got
    <3> QED
      BY <1>0, <1>2, <1>3 DEF PeerFields, Mode, WholeOf
  <2>2. /\ peer' = [peer EXCEPT ![p] = started] /\ ReceiveFromHost(p, <<>>)
        /\ sim' = [sim EXCEPT ![p] = sim[p]]
    BY <1>0, <1>1, <1>8, Same
  <2> HIDE DEF started
  <2>3. Learns(p, started, sim[p])
    BY <1>0, <2>1 DEF Learns, SimFields
  <2>4. PeerBecomes(p, started, sim[p], <<>>)
    BY <1>0, <1>4, <2>1, <2>2, <2>3, Silence DEF PeerBecomes, ReceiveFromHost
  <2> QED
    BY <2>4 DEF PeerActs
<1> QED
  BY <1>6, <1>7, <1>8

-----------------------------------------------------------------------------
(* Every step is one of the host, of a peer, or of a link.                 *)

HostTurn == HostActs /\ remotes' \subseteq remotes

LEMMA NextActs ==
    ASSUME Wholes, Next
    PROVE  HostTurn \/ HostSteps \/ \E p \in Peer : PeerActs(p) \/ Lose(p)
<1>0. Typed
  BY DEF Wholes
<1>1. CASE HostTicks
  <2>1. remotes' = remotes
    BY <1>1 DEF HostTicks, ResumeEverybody, WaitForTopologyAcks, StartBarrierTransfer,
       ContinueBarrierTransfer, NothingToSend, TargetIsGone, ResendChunks, StartRepair
  <2> QED
    BY <1>0, <1>1, <2>1, HostTurnsAct DEF HostTurn
<1>2. ASSUME NEW p \in Peer, HostPacketActs(p) PROVE HostTurn
  <2>1. remotes' \subseteq remotes
    BY <1>2 DEF HostPacketActs, HostReceives, HostAsksForRepair, CleanupTimedOutRemoteEndpoint,
       HandleSnapshotResyncRequest, HandleSnapshotResyncAck, HandleTopologyAck,
       HandleRetriedJoinRequest
  <2> QED
    BY <1>0, <1>2, <2>1, HostTurnsAct DEF HostTurn
<1>3. ASSUME NEW p \in Peer,
             \/ PeerAsksForRepair(p) \/ Die(p) \/ SendSnapshotResyncRequest(p)
             \/ PeerReceives(p) \/ PeerSteps(p)
      PROVE  PeerActs(p)
  BY <1>3, PeerAsksActs, DieActs, PeerRequestActs, PeerStepsActs, StatusActs, TopologyActs,
     ResumedActs, ChunkActs DEF PeerReceives
<1> QED
  BY <1>1, <1>2, <1>3 DEF Next, HostPacketActs

LEMMA InitWholes == Init => Wholes
<1> SUFFICES ASSUME Init PROVE Wholes
  OBVIOUS
<1>1. IsHost(host)
  BY DEF Init, IsHost, HostNames, Mode
<1>2. /\ peer \in [Peer -> PeerFields] /\ \A p \in Peer : WholeOf(peer[p])
  BY DEF Init, PeerFields, WholeOf, NoChunks, Mode
<1>3. /\ nextId \in Nat \ {0} /\ remotes \subseteq Peer
      /\ sim \in [Process -> [frame : Nat, of : {"host", "mixed"}]]
      /\ InstalledSnapshotIsWhole
  BY DEF Init, InstalledSnapshotIsWhole, Process
<1>4. ASSUME NEW packets PROVE (IF InOrder THEN <<>> ELSE {}) \in Link(packets)
  <2>1. CASE InOrder
    BY <2>1 DEF Link
  <2>2. CASE ~InOrder
    BY <2>2 DEF Link
  <2> QED
    BY <2>1, <2>2
<1>5. toPeer \in [Peer -> Link(FromHost)]
  BY <1>4 DEF Init
<1>6. toHost \in [Peer -> Link(FromPeer)]
  <2> SUFFICES ASSUME NEW p \in Peer
               PROVE  Put(IF InOrder THEN <<>> ELSE {},
                          IF p \in Retrying THEN <<[kind |-> "JoinRequest"]>> ELSE <<>>)
                        \in Link(FromPeer)
    BY DEF Init
  <2>1. [kind |-> "JoinRequest"] \in FromPeer
    BY DEF FromPeer
  <2>2. <<[kind |-> "JoinRequest"]>> \in Seq(FromPeer) /\ <<>> \in Seq(FromPeer)
    BY <2>1
  <2> QED
    BY <1>4, <2>2, PutIsLink
<1> QED
  BY <1>1, <1>2, <1>3, <1>5, <1>6 DEF Wholes, Typed

LEMMA HostTurnTyped ==
    ASSUME Typed, HostTurn
    PROVE  Typed'
<1>1. IsHost(host)' /\ nextId' \in Nat \ {0} /\ remotes' \subseteq Peer
  BY DEF HostTurn, HostActs, HostMoves, Keeps, Begins, Typed, IsHost
<1>2. toPeer' \in [Peer -> Link(FromHost)]
  <2>1. ASSUME NEW p \in Peer PROVE toPeer'[p] \in Link(FromHost)
    <3>1. PICK s : SaysAll(s, p, host') /\ toPeer'[p] = Put(toPeer[p], s)
      BY DEF HostTurn, HostActs, HostSays
    <3>2. toPeer[p] \in Link(FromHost) /\ s \in Seq(FromHost)
      BY <3>1 DEF Typed, SaysAll
    <3> QED
      BY <3>1, <3>2, PutIsLink
  <2>2. toPeer' = [p \in Peer |-> toPeer'[p]]
    BY DEF HostTurn, HostActs, HostSays
  <2> QED
    BY <2>1, <2>2
<1>3. toHost' \in [Peer -> Link(FromPeer)]
  <2>1. CASE toHost' = toHost
    BY <2>1 DEF Typed
  <2>2. ASSUME NEW p \in Peer, Arriving(toHost[p]) # {},
               toHost' = [toHost EXCEPT ![p] = Rest(@)]
        PROVE  toHost' \in [Peer -> Link(FromPeer)]
    <3>1. toHost[p] \in Link(FromPeer)
      BY DEF Typed
    <3>2. Rest(toHost[p]) \in Link(FromPeer)
      BY <2>2, <3>1, RestIsLink
    <3> QED
      BY <2>2, <3>2 DEF Typed
  <2> QED
    BY <2>1, <2>2 DEF HostTurn, HostActs, HostHears
<1> QED
  BY <1>1, <1>2, <1>3 DEF HostTurn, HostActs, Typed

LEMMA PeerActsWhole ==
    ASSUME Wholes, NEW p \in Peer, PeerActs(p)
    PROVE  Wholes'
<1>1. PICK r, v, s : PeerBecomes(p, r, v, s)
  BY DEF PeerActs
<1>2. /\ peer' = [peer EXCEPT ![p] = r] /\ r \in PeerFields /\ WholeOf(r)
      /\ sim' = [sim EXCEPT ![p] = v] /\ v \in SimFields /\ v.of # "mixed"
      /\ host' = host /\ nextId' = nextId /\ remotes' = remotes
  BY <1>1 DEF PeerBecomes
<1>3. Typed
  BY DEF Wholes
<1>4. toHost' \in [Peer -> Link(FromPeer)]
  <2>1. toHost' = [toHost EXCEPT ![p] = Put(@, s)] /\ s \in Seq(FromPeer)
    BY <1>1 DEF PeerBecomes
  <2>2. Put(toHost[p], s) \in Link(FromPeer)
    BY <1>3, <2>1, PutIsLink DEF Typed
  <2> QED
    BY <1>3, <2>1, <2>2 DEF Typed
<1>5. toPeer' \in [Peer -> Link(FromHost)]
  <2>1. CASE toPeer' = toPeer
    BY <1>3, <2>1 DEF Typed
  <2>2. CASE Arriving(toPeer[p]) # {} /\ toPeer' = [toPeer EXCEPT ![p] = Rest(@)]
    <3>1. Rest(toPeer[p]) \in Link(FromHost)
      BY <1>3, <2>2, RestIsLink DEF Typed
    <3> QED
      BY <1>3, <2>2, <3>1 DEF Typed
  <2> QED
    BY <1>1, <2>1, <2>2 DEF PeerBecomes
<1>6. Typed'
  BY <1>2, <1>3, <1>4, <1>5 DEF Typed, SimFields, IsHost
<1>7. InstalledSnapshotIsWhole' /\ \A q \in Peer : WholeOf(peer'[q])
  BY <1>2, <1>3 DEF Wholes, Typed, InstalledSnapshotIsWhole, Process
<1> QED
  BY <1>6, <1>7 DEF Wholes

LEMMA LoseTyped ==
    ASSUME Typed, NEW p \in Peer, Lose(p)
    PROVE  /\ Typed' /\ UNCHANGED <<host, peer, nextId, remotes, sim>>
           /\ \/ toPeer' = toPeer
              \/ Arriving(toPeer[p]) # {} /\ toPeer' = [toPeer EXCEPT ![p] = Rest(@)]
           /\ \/ toHost' = toHost
              \/ Arriving(toHost[p]) # {} /\ toHost' = [toHost EXCEPT ![p] = Rest(@)]
<1>1. /\ UNCHANGED <<host, peer, nextId, remotes, sim>>
      /\ \/ /\ Arriving(toPeer[p]) # {} /\ toPeer' = [toPeer EXCEPT ![p] = Rest(@)]
            /\ toHost' = toHost
         \/ /\ Arriving(toHost[p]) # {} /\ toHost' = [toHost EXCEPT ![p] = Rest(@)]
            /\ toPeer' = toPeer
  BY DEF Lose
<1>2. Arriving(toPeer[p]) # {} => Rest(toPeer[p]) \in Link(FromHost)
  BY RestIsLink DEF Typed
<1>3. Arriving(toHost[p]) # {} => Rest(toHost[p]) \in Link(FromPeer)
  BY RestIsLink DEF Typed
<1> QED
  BY <1>1, <1>2, <1>3 DEF Typed, IsHost

LEMMA HostStepsTyped ==
    ASSUME Typed, HostSteps
    PROVE  /\ Typed' /\ UNCHANGED <<host, peer, nextId, links>>
           /\ \A p \in Peer : sim'[p] = sim[p]
<1>1. /\ UNCHANGED <<host, peer, nextId, remotes, links>>
      /\ sim' = [sim EXCEPT ![Host].frame = @ + 1]
  BY DEF HostSteps
<1>2. sim' \in [Process -> [frame : Nat, of : {"host", "mixed"}]]
  BY <1>1 DEF Typed, Process
<1>3. \A p \in Peer : sim'[p] = sim[p]
  BY <1>1, PeerAssumption DEF Typed, Process
<1> QED
  BY <1>1, <1>2, <1>3 DEF Typed, IsHost, links

LEMMA WholesKept ==
    ASSUME Wholes, [Next]_vars
    PROVE  Wholes'
<1>0. Typed
  BY DEF Wholes
<1>1. CASE HostTurn
  <2>1. Typed' /\ UNCHANGED <<peer, sim>>
    BY <1>0, <1>1, HostTurnTyped DEF HostTurn, HostActs
  <2> QED
    BY <2>1 DEF Wholes, InstalledSnapshotIsWhole
<1>2. CASE HostSteps
  <2>1. Typed' /\ peer' = peer /\ \A p \in Peer : sim'[p] = sim[p]
    BY <1>0, <1>2, HostStepsTyped
  <2> QED
    BY <2>1 DEF Wholes, InstalledSnapshotIsWhole
<1>3. ASSUME NEW p \in Peer, Lose(p) PROVE Wholes'
  <2>1. Typed' /\ UNCHANGED <<peer, sim>>
    BY <1>0, <1>3, LoseTyped
  <2> QED
    BY <2>1 DEF Wholes, InstalledSnapshotIsWhole
<1>4. CASE UNCHANGED vars
  BY <1>4 DEF vars, links, Wholes, Typed, InstalledSnapshotIsWhole, IsHost
<1> QED
  BY <1>1, <1>2, <1>3, <1>4, NextActs, PeerActsWhole

LEMMA WholesInvariant == Spec => []Wholes
  BY InitWholes, WholesKept, PTL DEF Spec

-----------------------------------------------------------------------------
\* No process ever runs a simulation put together of two snapshots, for any
\* peers, losses, repetitions and reorderings, and whatever repair and barrier
\* do to the buffer they share (HandleSnapshotResyncChunk).
THEOREM SnapshotsAreWhole == Spec => []InstalledSnapshotIsWhole
<1>1. Wholes => InstalledSnapshotIsWhole
  BY DEF Wholes
<1> QED
  BY <1>1, WholesInvariant, PTL

-----------------------------------------------------------------------------
(* The host while it sends a snapshot.                                     *)

StillInv ==
    /\ Waits(host) /\ Stands(host) /\ Fresh(host) /\ host.active < nextId
    /\ HostStandsStillDuringTransfer

LEMMA HostTurnStill ==
    ASSUME Typed, StillInv, HostTurn
    PROVE  StillInv'
<1>1. CASE Keeps(host, host') /\ nextId' = nextId
  BY <1>1 DEF HostTurn, HostActs, Keeps, Continues, StillInv, HostStandsStillDuringTransfer, Typed
<1>2. CASE Begins(host')
  BY <1>2 DEF HostTurn, HostActs, Begins, StillInv, HostStandsStillDuringTransfer, Typed,
     Waits, Stands, Fresh
<1> QED
  BY <1>1, <1>2 DEF HostTurn, HostActs, HostMoves

\* The host steps only when it sends nothing.
LEMMA HostStepsFree ==
    ASSUME Typed, StillInv, HostSteps
    PROVE  host.active = 0
  BY DEF HostSteps, IsSnapshotResyncBlocking, StillInv, Stands, Typed, IsHost

LEMMA StillKept ==
    ASSUME Wholes, StillInv, [Next]_vars
    PROVE  StillInv'
<1>0. Typed
  BY DEF Wholes
<1>1. CASE HostTurn
  BY <1>0, <1>1, HostTurnStill
<1>2. CASE HostSteps
  BY <1>0, <1>2, HostStepsFree, HostStepsTyped
     DEF StillInv, HostStandsStillDuringTransfer, Waits, Stands, Fresh
<1>3. ASSUME NEW p \in Peer, PeerActs(p) PROVE StillInv'
  <2>1. PICK r, v, s : PeerBecomes(p, r, v, s)
    BY <1>3 DEF PeerActs
  <2>2. host' = host /\ nextId' = nextId /\ sim' = [sim EXCEPT ![p] = v]
    BY <2>1 DEF PeerBecomes
  <2>3. sim'[Host] = sim[Host]
    BY <1>0, <2>2, PeerAssumption DEF Typed, Process
  <2> QED
    BY <2>2, <2>3 DEF StillInv, HostStandsStillDuringTransfer, Waits, Stands, Fresh
<1>4. ASSUME NEW p \in Peer, Lose(p) PROVE StillInv'
  BY <1>0, <1>4, LoseTyped DEF StillInv, HostStandsStillDuringTransfer, Waits, Stands, Fresh
<1>5. CASE UNCHANGED vars
  BY <1>5 DEF vars, StillInv, HostStandsStillDuringTransfer, Waits, Stands, Fresh
<1> QED
  BY <1>1, <1>2, <1>3, <1>4, <1>5, NextActs

LEMMA StillInvariant == Spec => [](Wholes /\ StillInv)
<1>1. Init => StillInv
  BY DEF Init, StillInv, HostStandsStillDuringTransfer, Waits, Stands, Fresh
<1>2. Wholes /\ StillInv /\ [Next]_vars => (Wholes /\ StillInv)'
  BY WholesKept, StillKept
<1> QED
  BY <1>1, <1>2, InitWholes, PTL DEF Spec

\* While the host sends a snapshot its own simulation stays at the frame the
\* snapshot is of, whoever asks for what meanwhile: it waits, or its session
\* has failed (IsInputLockstepCatchupBlocking, SendPendingSnapshotResync).
THEOREM HostStandsStill == Spec => []HostStandsStillDuringTransfer
<1>1. StillInv => HostStandsStillDuringTransfer
  BY DEF StillInv
<1> QED
  BY <1>1, StillInvariant, PTL

-----------------------------------------------------------------------------
(* Links that deliver in order, and the transfer that is under way.        *)

\* What may come after a chunk of h's transfer.
Follows(m, h) ==
    /\ m.kind = "Chunk" => m.transfer \in {0, h.active}
    /\ m.kind \in {"Topology", "Resume"} => m.frame >= h.frame

\* Its chunks go to whom it is sent, and nothing older comes after them.
Ordered(link, p, h) ==
    \A i \in 1 .. Len(link) :
        link[i].kind = "Chunk" /\ link[i].transfer = h.active =>
            /\ p \in SentTo(h) /\ link[i].frame = h.frame
            /\ \A j \in 1 .. Len(link) : i < j => Follows(link[j], h)

\* Whoever has acknowledged it was sent it, and is at or past its frame.
Acknowledged(link, p, r, v, h) ==
    r.acked = h.active =>
        /\ p \in SentTo(h)
        /\ \A i \in 1 .. Len(link) : Follows(link[i], h)
        /\ r.success => v.frame >= h.frame

\* An answer to it says what its sender made of it.
Truthful(link, r, h) ==
    \A i \in 1 .. Len(link) :
        link[i].kind = "Ack" /\ link[i].transfer = h.active =>
            r.acked = h.active /\ r.success = link[i].success

UnderWay(p, h) ==
    h.active # 0 =>
        /\ Ordered(toPeer[p], p, h)
        /\ Acknowledged(toPeer[p], p, peer[p], sim[p], h)
        /\ Truthful(toHost[p], peer[p], h)

\* No transfer has a number that was not given out yet.
Numbered(p, n) ==
    /\ peer[p].acked < n
    /\ \A i \in 1 .. Len(toPeer[p]) : toPeer[p][i].kind = "Chunk" => toPeer[p][i].transfer < n
    /\ \A i \in 1 .. Len(toHost[p]) : toHost[p][i].kind = "Ack" => toHost[p][i].transfer < n

FifoInv == \A p \in Peer : UnderWay(p, host) /\ Numbered(p, nextId)

\* Links that are sequences.
LEMMA LinksAreSequences ==
    ASSUME InOrder, Typed, NEW p \in Peer
    PROVE  toPeer[p] \in Seq(FromHost) /\ toHost[p] \in Seq(FromPeer)
  BY DEF Typed, Link

LEMMA Joined ==
    ASSUME NEW S, NEW s \in Seq(S), NEW t \in Seq(S)
    PROVE  /\ Len(s) \in Nat /\ Len(t) \in Nat /\ Len(s \o t) = Len(s) + Len(t)
           /\ \A i \in 1 .. Len(s \o t) :
                 \/ i \in 1 .. Len(s) /\ (s \o t)[i] = s[i]
                 \/ /\ i > Len(s) /\ i - Len(s) \in 1 .. Len(t)
                    /\ (s \o t)[i] = t[i - Len(s)]
  OBVIOUS

LEMMA Shortened ==
    ASSUME NEW S, NEW s \in Seq(S), s # <<>>
    PROVE  /\ Len(s) \in Nat /\ Len(Tail(s)) = Len(s) - 1 /\ Head(s) = s[1]
           /\ 1 \in 1 .. Len(s)
           /\ \A i \in 1 .. Len(Tail(s)) : i + 1 \in 1 .. Len(s) /\ Tail(s)[i] = s[i + 1]
  OBVIOUS

\* What the host says is ordered after what it said before.
LEMMA OrderedJoined ==
    ASSUME NEW s \in Seq(FromHost), NEW t \in Seq(FromHost), NEW p, NEW h,
           Ordered(s, p, h),
           \A i \in 1 .. Len(t) : /\ Follows(t[i], h)
                                  /\ t[i].kind = "Chunk" => p \in SentTo(h) /\ t[i].frame = h.frame
    PROVE  /\ Ordered(s \o t, p, h)
           /\ (\A i \in 1 .. Len(s) : Follows(s[i], h)) =>
                  \A i \in 1 .. Len(s \o t) : Follows((s \o t)[i], h)
<1> DEFINE u == s \o t
<1>1. /\ Len(s) \in Nat /\ Len(t) \in Nat /\ Len(u) = Len(s) + Len(t)
      /\ \A i \in 1 .. Len(u) :
            \/ i \in 1 .. Len(s) /\ u[i] = s[i]
            \/ i > Len(s) /\ i - Len(s) \in 1 .. Len(t) /\ u[i] = t[i - Len(s)]
  BY Joined
<1> HIDE DEF u
<1>2. ASSUME NEW i \in 1 .. Len(u), u[i].kind = "Chunk", u[i].transfer = h.active
      PROVE  /\ p \in SentTo(h) /\ u[i].frame = h.frame
             /\ \A j \in 1 .. Len(u) : i < j => Follows(u[j], h)
  <2>1. p \in SentTo(h) /\ u[i].frame = h.frame
    BY <1>1, <1>2 DEF Ordered
  <2>2. ASSUME NEW j \in 1 .. Len(u), i < j PROVE Follows(u[j], h)
    <3>1. CASE j > Len(s) /\ j - Len(s) \in 1 .. Len(t) /\ u[j] = t[j - Len(s)]
      BY <3>1
    <3>2. CASE j \in 1 .. Len(s) /\ u[j] = s[j]
      <4>1. i \in 1 .. Len(s) /\ u[i] = s[i]
        BY <1>1, <2>2, <3>2
      <4> QED
        BY <1>2, <2>2, <3>2, <4>1 DEF Ordered
    <3> QED
      BY <1>1, <3>1, <3>2
  <2> QED
    BY <2>1, <2>2
<1>3. ASSUME \A i \in 1 .. Len(s) : Follows(s[i], h), NEW i \in 1 .. Len(u)
      PROVE  Follows(u[i], h)
  BY <1>1, <1>3
<1> QED
  BY <1>2, <1>3 DEF Ordered, u

LEMMA OrderedTail ==
    ASSUME NEW s \in Seq(FromHost), s # <<>>, NEW p, NEW h, Ordered(s, p, h)
    PROVE  /\ Ordered(Tail(s), p, h)
           /\ Head(s).kind = "Chunk" /\ Head(s).transfer = h.active =>
                 /\ p \in SentTo(h) /\ Head(s).frame = h.frame
                 /\ \A i \in 1 .. Len(Tail(s)) : Follows(Tail(s)[i], h)
           /\ (\A i \in 1 .. Len(s) : Follows(s[i], h)) =>
                  /\ Follows(Head(s), h)
                  /\ \A i \in 1 .. Len(Tail(s)) : Follows(Tail(s)[i], h)
<1> DEFINE u == Tail(s)
<1>1. /\ Len(s) \in Nat /\ Len(u) = Len(s) - 1 /\ Head(s) = s[1] /\ 1 \in 1 .. Len(s)
      /\ \A i \in 1 .. Len(u) : i + 1 \in 1 .. Len(s) /\ u[i] = s[i + 1]
  BY Shortened
<1> HIDE DEF u
<1>2. Ordered(u, p, h)
  <2> SUFFICES ASSUME NEW i \in 1 .. Len(u), u[i].kind = "Chunk", u[i].transfer = h.active
               PROVE  /\ p \in SentTo(h) /\ u[i].frame = h.frame
                      /\ \A j \in 1 .. Len(u) : i < j => Follows(u[j], h)
    BY DEF Ordered
  <2>1. i + 1 \in 1 .. Len(s) /\ u[i] = s[i + 1]
    BY <1>1
  <2>2. /\ p \in SentTo(h) /\ u[i].frame = h.frame
        /\ \A j \in 1 .. Len(s) : i + 1 < j => Follows(s[j], h)
    BY <2>1 DEF Ordered
  <2>3. ASSUME NEW j \in 1 .. Len(u), i < j PROVE Follows(u[j], h)
    BY <1>1, <2>2, <2>3
  <2> QED
    BY <2>2, <2>3
<1>3. ASSUME Head(s).kind = "Chunk", Head(s).transfer = h.active
      PROVE  /\ p \in SentTo(h) /\ Head(s).frame = h.frame
             /\ \A i \in 1 .. Len(u) : Follows(u[i], h)
  <2>1. /\ p \in SentTo(h) /\ Head(s).frame = h.frame
        /\ \A j \in 1 .. Len(s) : 1 < j => Follows(s[j], h)
    BY <1>1, <1>3 DEF Ordered
  <2>2. ASSUME NEW i \in 1 .. Len(u) PROVE Follows(u[i], h)
    BY <1>1, <2>1
  <2> QED
    BY <2>1, <2>2
<1>4. ASSUME \A i \in 1 .. Len(s) : Follows(s[i], h)
      PROVE  Follows(Head(s), h) /\ \A i \in 1 .. Len(u) : Follows(u[i], h)
  BY <1>1, <1>4
<1> QED
  BY <1>2, <1>3, <1>4 DEF u

\* What is true of the transfer stays true while it goes on.
LEMMA StillUnderWay ==
    ASSUME NEW h, NEW g, Continues(h, g), NEW p, NEW link, NEW r, NEW v, NEW answers
    PROVE  /\ Ordered(link, p, h) => Ordered(link, p, g)
           /\ Acknowledged(link, p, r, v, h) => Acknowledged(link, p, r, v, g)
           /\ Truthful(answers, r, h) => Truthful(answers, r, g)
  BY DEF Continues, Ordered, Acknowledged, Truthful, Follows

\* Nothing there is of a transfer that is only starting.
LEMMA NothingUnderWay ==
    ASSUME NEW p \in Peer, Numbered(p, nextId), NEW h, h.active = nextId,
           InOrder, Typed
    PROVE  /\ Ordered(toPeer[p], p, h) /\ Truthful(toHost[p], peer[p], h)
           /\ peer[p].acked # h.active
<1>1. /\ toPeer[p] \in Seq(FromHost) /\ toHost[p] \in Seq(FromPeer) /\ nextId \in Nat
  BY LinksAreSequences DEF Typed
<1>2. peer[p].acked \in Nat
  BY DEF Typed, PeerFields
<1>3. ASSUME NEW m \in FromHost, m.kind = "Chunk" PROVE m.transfer \in Nat
  BY <1>3 DEF FromHost
<1>4. ASSUME NEW m \in FromPeer, m.kind = "Ack" PROVE m.transfer \in Nat
  BY <1>4 DEF FromPeer
<1>5. \A n \in Nat : n < nextId => n # nextId
  BY <1>1
<1>6. Ordered(toPeer[p], p, h)
  BY <1>1, <1>3, <1>5 DEF Ordered, Numbered
<1>7. Truthful(toHost[p], peer[p], h)
  BY <1>1, <1>4, <1>5 DEF Truthful, Numbered
<1> QED
  BY <1>2, <1>5, <1>6, <1>7 DEF Numbered

LEMMA AnswersTail ==
    ASSUME NEW s \in Seq(FromPeer), s # <<>>, NEW r, NEW h, NEW n
    PROVE  /\ Truthful(s, r, h) => Truthful(Tail(s), r, h)
           /\ (\A i \in 1 .. Len(s) : s[i].kind = "Ack" => s[i].transfer < n) =>
                  \A i \in 1 .. Len(Tail(s)) : Tail(s)[i].kind = "Ack" => Tail(s)[i].transfer < n
<1> DEFINE u == Tail(s)
<1>1. \A i \in 1 .. Len(u) : i + 1 \in 1 .. Len(s) /\ u[i] = s[i + 1]
  BY Shortened
<1> HIDE DEF u
<1>2. Truthful(s, r, h) => Truthful(u, r, h)
  BY <1>1 DEF Truthful
<1>3. (\A i \in 1 .. Len(s) : s[i].kind = "Ack" => s[i].transfer < n) =>
         \A i \in 1 .. Len(u) : u[i].kind = "Ack" => u[i].transfer < n
  BY <1>1
<1> QED
  BY <1>2, <1>3 DEF u

\* The answers the host has not read yet, after a step of the host.
LEMMA AnswersLeft ==
    ASSUME InOrder, Typed, HostHears, NEW p \in Peer, NEW r, NEW h, NEW n
    PROVE  /\ Truthful(toHost[p], r, h) => Truthful(toHost'[p], r, h)
           /\ (\A i \in 1 .. Len(toHost[p]) :
                  toHost[p][i].kind = "Ack" => toHost[p][i].transfer < n) =>
                 \A i \in 1 .. Len(toHost'[p]) :
                     toHost'[p][i].kind = "Ack" => toHost'[p][i].transfer < n
<1>1. toHost[p] \in Seq(FromPeer)
  BY LinksAreSequences
<1>2. CASE toHost'[p] = toHost[p]
  BY <1>2
<1>3. CASE toHost[p] # <<>> /\ toHost'[p] = Tail(toHost[p])
  BY <1>1, <1>3, AnswersTail
<1>4. toHost'[p] = toHost[p] \/ (toHost[p] # <<>> /\ toHost'[p] = Tail(toHost[p]))
  BY DEF HostHears, Arriving, Rest, Typed
<1> QED
  BY <1>2, <1>3, <1>4

LEMMA HostTurnFifo ==
    ASSUME InOrder, Typed, StillInv, FifoInv, HostTurn
    PROVE  FifoInv'
<1>1. Typed' /\ StillInv' /\ UNCHANGED <<peer, sim>>
  BY HostTurnTyped, HostTurnStill DEF HostTurn, HostActs
<1> SUFFICES ASSUME NEW p \in Peer PROVE UnderWay(p, host)' /\ Numbered(p, nextId)'
  BY DEF FifoInv
<1>2. PICK s : SaysAll(s, p, host') /\ toPeer'[p] = Put(toPeer[p], s)
  BY DEF HostTurn, HostActs, HostSays
<1>3. /\ toPeer[p] \in Seq(FromHost) /\ s \in Seq(FromHost) /\ toPeer'[p] = toPeer[p] \o s
      /\ HostHears /\ Numbered(p, nextId) /\ UnderWay(p, host)
  BY <1>2, LinksAreSequences DEF SaysAll, Put, HostTurn, HostActs, FifoInv
<1>4. /\ nextId \in Nat /\ nextId' \in Nat /\ nextId <= nextId' /\ host'.active < nextId'
      /\ host'.active \in Nat /\ host'.frame \in Nat
  BY <1>1 DEF HostTurn, HostActs, HostMoves, Begins, Typed, StillInv, IsHost
<1>5. Numbered(p, nextId)'
  <2>1. peer'[p].acked < nextId'
    BY <1>1, <1>3, <1>4 DEF Numbered, Typed, PeerFields
  <2>2. ASSUME NEW i \in 1 .. Len(toPeer'[p]), toPeer'[p][i].kind = "Chunk"
        PROVE  toPeer'[p][i].transfer < nextId'
    <3>1. \/ i \in 1 .. Len(toPeer[p]) /\ toPeer'[p][i] = toPeer[p][i]
          \/ i - Len(toPeer[p]) \in 1 .. Len(s) /\ toPeer'[p][i] = s[i - Len(toPeer[p])]
      BY <1>3, <2>2, Joined
    <3>2. CASE i \in 1 .. Len(toPeer[p]) /\ toPeer'[p][i] = toPeer[p][i]
      <4>1. toPeer[p][i] \in FromHost /\ toPeer[p][i].kind = "Chunk"
        BY <1>3, <2>2, <3>2
      <4>2. toPeer[p][i].transfer \in Nat
        BY <4>1 DEF FromHost
      <4> QED
        BY <1>3, <1>4, <3>2, <4>1, <4>2 DEF Numbered
    <3>3. CASE i - Len(toPeer[p]) \in 1 .. Len(s) /\ toPeer'[p][i] = s[i - Len(toPeer[p])]
      BY <1>2, <1>4, <2>2, <3>3 DEF SaysAll, Said
    <3> QED
      BY <3>1, <3>2, <3>3
  <2>3. \A i \in 1 .. Len(toHost'[p]) :
           toHost'[p][i].kind = "Ack" => toHost'[p][i].transfer < nextId
    BY <1>3, AnswersLeft DEF Numbered
  <2>4. ASSUME NEW i \in 1 .. Len(toHost'[p]), toHost'[p][i].kind = "Ack"
        PROVE  toHost'[p][i].transfer < nextId'
    <3>1. toHost'[p] \in Seq(FromPeer)
      BY <1>1 DEF Typed, Link
    <3>2. toHost'[p][i] \in FromPeer
      BY <3>1
    <3>3. toHost'[p][i].transfer \in Nat
      BY <2>4, <3>2 DEF FromPeer
    <3> QED
      BY <1>4, <2>3, <2>4, <3>3
  <2> QED
    BY <2>1, <2>2, <2>4 DEF Numbered
<1>6. ASSUME host'.active # 0,
             Ordered(toPeer[p], p, host'), Truthful(toHost[p], peer[p], host'),
             Acknowledged(toPeer[p], p, peer[p], sim[p], host')
      PROVE  UnderWay(p, host)'
  <2>1. sim[Host].frame = host'.frame
    BY <1>1, <1>6 DEF StillInv, HostStandsStillDuringTransfer
  <2>2. ASSUME NEW i \in 1 .. Len(s)
        PROVE  /\ Follows(s[i], host')
               /\ s[i].kind = "Chunk" => p \in SentTo(host') /\ s[i].frame = host'.frame
    BY <1>2, <1>4, <2>1 DEF SaysAll, Said, Follows
  <2>3. /\ Ordered(toPeer'[p], p, host')
        /\ (\A i \in 1 .. Len(toPeer[p]) : Follows(toPeer[p][i], host')) =>
               \A i \in 1 .. Len(toPeer'[p]) : Follows(toPeer'[p][i], host')
    BY <1>3, <1>6, <2>2, OrderedJoined
  <2>4. Acknowledged(toPeer'[p], p, peer'[p], sim'[p], host')
    BY <1>1, <1>6, <2>3 DEF Acknowledged
  <2>5. Truthful(toHost'[p], peer'[p], host')
    BY <1>1, <1>3, <1>6, AnswersLeft
  <2> QED
    BY <2>3, <2>4, <2>5 DEF UnderWay
<1>7. CASE host'.active = 0
  BY <1>5, <1>7 DEF UnderWay
<1>8. CASE host'.active # 0 /\ Continues(host, host')
  <2>1. host.active # 0
    BY <1>8 DEF Continues
  <2> QED
    BY <1>3, <1>5, <1>6, <1>8, <2>1, StillUnderWay DEF UnderWay
<1>9. CASE host'.active # 0 /\ Begins(host')
  <2>1. /\ Ordered(toPeer[p], p, host') /\ Truthful(toHost[p], peer[p], host')
        /\ peer[p].acked # host'.active
    BY <1>3, <1>9, NothingUnderWay DEF Begins
  <2> QED
    BY <1>5, <1>6, <1>9, <2>1 DEF Acknowledged
<1> QED
  BY <1>7, <1>8, <1>9 DEF HostTurn, HostActs, HostMoves, Keeps

\* The chunks still to come, after a step of a peer.
LEMMA ChunksLeft ==
    ASSUME NEW s \in Seq(FromHost), s # <<>>, NEW n
    PROVE  (\A i \in 1 .. Len(s) : s[i].kind = "Chunk" => s[i].transfer < n) =>
              /\ Head(s).kind = "Chunk" => Head(s).transfer < n
              /\ \A i \in 1 .. Len(Tail(s)) : Tail(s)[i].kind = "Chunk" => Tail(s)[i].transfer < n
<1> DEFINE u == Tail(s)
<1>1. /\ 1 \in 1 .. Len(s) /\ Head(s) = s[1]
      /\ \A i \in 1 .. Len(u) : i + 1 \in 1 .. Len(s) /\ u[i] = s[i + 1]
  BY Shortened
<1> HIDE DEF u
<1> QED
  BY <1>1 DEF u

LEMMA PeerActsFifo ==
    ASSUME InOrder, Wholes, FifoInv, NEW q \in Peer, PeerActs(q)
    PROVE  FifoInv'
<1>0. PICK r, v, s : PeerBecomes(q, r, v, s)
  BY DEF PeerActs
<1>1. /\ host' = host /\ nextId' = nextId /\ Typed /\ r \in PeerFields /\ v \in SimFields
      /\ peer' = [peer EXCEPT ![q] = r] /\ sim' = [sim EXCEPT ![q] = v]
      /\ toHost' = [toHost EXCEPT ![q] = Put(@, s)] /\ s \in Seq(FromPeer)
  BY <1>0 DEF PeerBecomes, Wholes
<1>2. \/ toPeer' = toPeer
      \/ Arriving(toPeer[q]) # {} /\ toPeer' = [toPeer EXCEPT ![q] = Rest(@)]
  BY <1>0 DEF PeerBecomes
<1>3. ASSUME NEW p \in Peer, p # q PROVE UnderWay(p, host)' /\ Numbered(p, nextId)'
  <2>1. /\ toPeer'[p] = toPeer[p] /\ toHost'[p] = toHost[p] /\ peer'[p] = peer[p]
        /\ sim'[p] = sim[p]
    BY <1>1, <1>2, <1>3 DEF Typed, Process
  <2> QED
    BY <1>1, <2>1 DEF FifoInv, UnderWay, Numbered
<1> DEFINE link == toPeer[q]
           after == toPeer'[q]
<1>4. /\ link \in Seq(FromHost) /\ toHost[q] \in Seq(FromPeer)
      /\ peer'[q] = r /\ sim'[q] = v /\ toHost'[q] = toHost[q] \o s
      /\ Numbered(q, nextId) /\ UnderWay(q, host)
      /\ nextId \in Nat /\ host.active \in Nat /\ host.frame \in Nat
      /\ sim[q].frame \in Nat /\ v.frame \in Nat /\ peer[q].acked \in Nat
  BY <1>1, LinksAreSequences DEF Typed, IsHost, Put, FifoInv, Process, SimFields, PeerFields
<1>5. after = link \/ (link # <<>> /\ after = Tail(link))
  BY <1>1, <1>2 DEF Arriving, Rest, Typed
<1>6. \A m \in Arriving(link) : m = Head(link) /\ link # <<>>
  BY DEF Arriving
<1>7. Learns(q, r, v)
  BY <1>0 DEF PeerBecomes
<1>8. \A i \in 1 .. Len(s) :
         s[i].kind = "Ack" => s[i].transfer = r.acked /\ s[i].success = r.success
  BY <1>0 DEF PeerBecomes
<1> DEFINE Quiet == /\ r.acked = peer[q].acked /\ r.success = peer[q].success
                    /\ \/ v.frame >= sim[q].frame
                       \/ /\ link # <<>> /\ Head(link).kind \in {"Topology", "Resume"}
                          /\ v.frame = Head(link).frame
           Installs == /\ link # <<>> /\ after = Tail(link)
                       /\ Head(link).kind = "Chunk" /\ Head(link).transfer # 0
                       /\ r.acked = Head(link).transfer /\ peer[q].acked # r.acked
                       /\ r.success => v.frame = Head(link).frame
<1>9. Quiet \/ Installs
  <2>1. toPeer' = [toPeer EXCEPT ![q] = Rest(@)] => after = Tail(link)
    BY <1>1 DEF Rest, Typed
  <2> QED
    BY <1>6, <1>7, <2>1 DEF Learns
<1>10. r.acked < nextId
  <2>1. CASE Quiet
    BY <1>4, <2>1 DEF Numbered
  <2>2. CASE Installs
    <3> HIDE DEF link
    <3> QED
      BY <1>4, <2>2, ChunksLeft DEF Numbered, link
  <2> QED
    BY <1>9, <2>1, <2>2
<1>11. Numbered(q, nextId)'
  <2>1. ASSUME NEW i \in 1 .. Len(toHost'[q]), toHost'[q][i].kind = "Ack"
        PROVE  toHost'[q][i].transfer < nextId
    <3> DEFINE answers == toHost[q] \o s
    <3>1. \/ i \in 1 .. Len(toHost[q]) /\ answers[i] = toHost[q][i]
          \/ i - Len(toHost[q]) \in 1 .. Len(s) /\ answers[i] = s[i - Len(toHost[q])]
      BY <1>1, <1>4, <2>1, Joined
    <3>2. answers[i].kind = "Ack" /\ toHost'[q] = answers
      BY <1>4, <2>1
    <3> HIDE DEF answers
    <3>3. answers[i].transfer < nextId
      BY <1>4, <1>8, <1>10, <3>1, <3>2 DEF Numbered
    <3> QED
      BY <3>2, <3>3
  <2>2. \A i \in 1 .. Len(after) : after[i].kind = "Chunk" => after[i].transfer < nextId
    BY <1>4, <1>5, ChunksLeft DEF Numbered
  <2> QED
    BY <1>1, <1>4, <1>10, <2>1, <2>2 DEF Numbered
<1>12. ASSUME host.active # 0 PROVE UnderWay(q, host)'
  <2>1. /\ Ordered(link, q, host) /\ Acknowledged(link, q, peer[q], sim[q], host)
        /\ Truthful(toHost[q], peer[q], host)
    BY <1>4, <1>12 DEF UnderWay
  <2> DEFINE Followed(l) == \A i \in 1 .. Len(l) : Follows(l[i], host)
  <2>2. link # <<>> =>
           /\ Ordered(Tail(link), q, host)
           /\ Head(link).kind = "Chunk" /\ Head(link).transfer = host.active =>
                 /\ q \in SentTo(host) /\ Head(link).frame = host.frame /\ Followed(Tail(link))
           /\ Followed(link) => Follows(Head(link), host) /\ Followed(Tail(link))
    BY <1>4, <2>1, OrderedTail
  <2>3. peer[q].acked = host.active =>
           /\ q \in SentTo(host) /\ Followed(link)
           /\ peer[q].success => sim[q].frame >= host.frame
    BY <2>1 DEF Acknowledged
  <2> HIDE DEF link, after, Followed
  <2>4. Ordered(after, q, host)
    BY <1>5, <2>1, <2>2
  <2>5. ASSUME r.acked = host.active
        PROVE  q \in SentTo(host) /\ Followed(after) /\ (r.success => v.frame >= host.frame)
    <3>1. CASE Quiet
      <4>1. q \in SentTo(host) /\ Followed(link) /\ (r.success => sim[q].frame >= host.frame)
        BY <2>3, <2>5, <3>1
      <4>2. Followed(after)
        BY <1>5, <2>2, <4>1
      <4>3. link # <<>> /\ Head(link).kind \in {"Topology", "Resume"} =>
               Head(link).frame >= host.frame
        BY <2>2, <4>1 DEF Follows
      <4>4. r.success => v.frame >= host.frame
        BY <1>4, <3>1, <4>1, <4>3
      <4> QED
        BY <4>1, <4>2, <4>4
    <3>2. CASE Installs
      BY <1>4, <2>2, <2>5, <3>2
    <3> QED
      BY <1>9, <3>1, <3>2
  <2>6. Acknowledged(after, q, r, v, host)
    BY <2>5 DEF Acknowledged, Followed
  <2>7. ASSUME NEW i \in 1 .. Len(toHost[q] \o s),
               (toHost[q] \o s)[i].kind = "Ack", (toHost[q] \o s)[i].transfer = host.active
        PROVE  r.acked = host.active /\ r.success = (toHost[q] \o s)[i].success
    <3> DEFINE m == (toHost[q] \o s)[i]
    <3>1. \/ i \in 1 .. Len(toHost[q]) /\ m = toHost[q][i]
          \/ i - Len(toHost[q]) \in 1 .. Len(s) /\ m = s[i - Len(toHost[q])]
      BY <1>1, <1>4, Joined
    <3>2. m.kind = "Ack" /\ m.transfer = host.active
      BY <2>7
    <3> HIDE DEF m
    <3>3. CASE i \in 1 .. Len(toHost[q]) /\ m = toHost[q][i]
      <4>1. peer[q].acked = host.active /\ peer[q].success = m.success
        BY <2>1, <3>2, <3>3 DEF Truthful
      <4>2. Quiet
        <5>1. Followed(link)
          BY <2>3, <4>1
        <5>2. Installs => Head(link).transfer = host.active
          BY <2>2, <5>1 DEF Follows
        <5> QED
          BY <1>9, <4>1, <5>2
      <4> QED
        BY <4>1, <4>2 DEF m
    <3>4. CASE i - Len(toHost[q]) \in 1 .. Len(s) /\ m = s[i - Len(toHost[q])]
      BY <1>8, <3>2, <3>4 DEF m
    <3> QED
      BY <3>1, <3>3, <3>4
  <2>8. Truthful(toHost[q] \o s, r, host)
    BY <2>7 DEF Truthful
  <2> QED
    BY <1>1, <1>4, <2>4, <2>6, <2>8 DEF UnderWay, after
<1>13. UnderWay(q, host)'
  BY <1>1, <1>12 DEF UnderWay
<1> QED
  BY <1>3, <1>11, <1>13 DEF FifoInv

LEMMA LoseFifo ==
    ASSUME InOrder, Typed, FifoInv, NEW q \in Peer, Lose(q)
    PROVE  FifoInv'
<1> SUFFICES ASSUME NEW p \in Peer PROVE UnderWay(p, host)' /\ Numbered(p, nextId)'
  BY DEF FifoInv
<1>1. /\ UNCHANGED <<host, peer, nextId, sim>>
      /\ toPeer[p] \in Seq(FromHost) /\ toHost[p] \in Seq(FromPeer)
      /\ UnderWay(p, host) /\ Numbered(p, nextId)
  BY LoseTyped, LinksAreSequences DEF FifoInv
<1>2. toPeer'[p] = toPeer[p] \/ (toPeer[p] # <<>> /\ toPeer'[p] = Tail(toPeer[p]))
  BY LoseTyped DEF Typed, Arriving, Rest
<1>3. toHost'[p] = toHost[p] \/ (toHost[p] # <<>> /\ toHost'[p] = Tail(toHost[p]))
  BY LoseTyped DEF Typed, Arriving, Rest
<1>4. \A r : /\ Truthful(toHost[p], r, host) => Truthful(toHost'[p], r, host)
             /\ (\A i \in 1 .. Len(toHost[p]) :
                    toHost[p][i].kind = "Ack" => toHost[p][i].transfer < nextId) =>
                   \A i \in 1 .. Len(toHost'[p]) :
                       toHost'[p][i].kind = "Ack" => toHost'[p][i].transfer < nextId
  BY <1>1, <1>3, AnswersTail
<1>5. /\ \A i \in 1 .. Len(toPeer'[p]) :
            toPeer'[p][i].kind = "Chunk" => toPeer'[p][i].transfer < nextId
      /\ Ordered(toPeer[p], p, host) => Ordered(toPeer'[p], p, host)
      /\ Ordered(toPeer[p], p, host) /\ (\A i \in 1 .. Len(toPeer[p]) : Follows(toPeer[p][i], host))
            => \A i \in 1 .. Len(toPeer'[p]) : Follows(toPeer'[p][i], host)
  <2>1. CASE toPeer'[p] = toPeer[p]
    BY <1>1, <2>1 DEF Numbered
  <2>2. CASE toPeer[p] # <<>> /\ toPeer'[p] = Tail(toPeer[p])
    BY <1>1, <2>2, OrderedTail, ChunksLeft DEF Numbered
  <2> QED
    BY <1>2, <2>1, <2>2
<1>6. Numbered(p, nextId)'
  BY <1>1, <1>4, <1>5 DEF Numbered
<1>7. ASSUME host.active # 0 PROVE UnderWay(p, host)'
  BY <1>1, <1>4, <1>5, <1>7 DEF UnderWay, Acknowledged
<1> QED
  BY <1>1, <1>6, <1>7 DEF UnderWay

LEMMA FifoKept ==
    ASSUME InOrder, Wholes, StillInv, FifoInv, [Next]_vars
    PROVE  FifoInv'
<1>0. Typed
  BY DEF Wholes
<1>1. CASE HostTurn
  BY <1>0, <1>1, HostTurnFifo
<1>2. CASE HostSteps
  BY <1>0, <1>2, HostStepsFree, HostStepsTyped DEF FifoInv, UnderWay, Numbered, links
<1>3. ASSUME NEW p \in Peer, Lose(p) PROVE FifoInv'
  BY <1>0, <1>3, LoseFifo
<1>4. CASE UNCHANGED vars
  BY <1>4 DEF vars, links, FifoInv, UnderWay, Numbered
<1> QED
  BY <1>1, <1>2, <1>3, <1>4, NextActs, PeerActsFifo

LEMMA InitFifo ==
    ASSUME InOrder, Init
    PROVE  FifoInv
<1> SUFFICES ASSUME NEW p \in Peer PROVE Numbered(p, nextId)
  BY DEF FifoInv, UnderWay, Init
<1>1. peer[p].acked = 0 /\ nextId = 1 /\ toPeer[p] = <<>>
  BY DEF Init
<1>2. toHost[p] = <<>> \/ toHost[p] = <<>> \o <<[kind |-> "JoinRequest"]>>
      \/ toHost[p] = <<>> \o <<>>
  BY DEF Init, Put
<1>3. \A i \in 1 .. Len(toHost[p]) : toHost[p][i].kind # "Ack"
  <2>1. <<>> \o <<[kind |-> "JoinRequest"]>> = <<[kind |-> "JoinRequest"]>> /\ <<>> \o <<>> = <<>>
    OBVIOUS
  <2> QED
    BY <1>2, <2>1
<1> QED
  BY <1>1, <1>3 DEF Numbered

\* Only the answer to the transfer, and one that says yes, ends it well.
LEMMA EndsByAnswer ==
    ASSUME Wholes, StillInv, Next, EndsRepair
    PROVE  \E q \in Peer : \E m \in Arriving(toHost[q]) :
              m.kind = "Ack" /\ m.transfer = host.active /\ m.success
<1>1. /\ host.active # 0 /\ host.active # host.barrierTransfer
      /\ host.mode = "SnapshotCatchup" /\ ~host.pending
      /\ host'.active = 0 /\ (host'.mode = "RollbackRepaired" \/ host'.pending)
      /\ IsHost(host) /\ nextId # 0
  BY DEF EndsRepair, Wholes, Typed, StillInv, Fresh
<1> DEFINE Untouched(g) == g.mode = host.mode /\ g.pending = host.pending
<1>2. ~Untouched(host')
  BY <1>1
<1>3. /\ Untouched(ClearJoinBarrierTransfer(host)) /\ Untouched(ClearJoinBarrier(host))
      /\ Untouched(RaiseBarrier(host))
      /\ \A b : Untouched(BarrierTransferDone(host, b, TRUE))
      /\ \A b : Untouched(BarrierTransferDone(host, b, FALSE))
  BY <1>1 DEF ClearJoinBarrierTransfer, ClearJoinBarrier, RaiseBarrier, BarrierTransferDone,
     QueueJoinBarrierPeer, IsHost, HostNames
<1>4. \A h, n : IsHost(h) => AfterChunks(h, n).active = h.active
  BY DEF AfterChunks, IsHost, HostNames
<1>5. ~HostTicks
  <2>1. ~ResumeEverybody /\ ~ContinueBarrierTransfer
    BY <1>1, <1>2, <1>3, <1>4 DEF ResumeEverybody, ContinueBarrierTransfer
  <2>2. ~WaitForTopologyAcks /\ ~NothingToSend /\ ~TargetIsGone
    BY <1>1 DEF WaitForTopologyAcks, NothingToSend, TargetIsGone, IsHost, HostNames
  <2>3. ~ResendChunks
    BY <1>1, <1>4 DEF ResendChunks
  <2>4. ~StartBarrierTransfer
    BY <1>1 DEF StartBarrierTransfer, BeginTransfer, IsHost, HostNames
  <2>5. ~StartRepair
    BY <1>1 DEF StartRepair
  <2> QED
    BY <2>1, <2>2, <2>4, <2>5, <2>3 DEF HostTicks
<1>6. ASSUME NEW p \in Peer, HostAsksForRepair(p) PROVE FALSE
  BY <1>1, <1>6 DEF HostAsksForRepair, StartOrQueueAsHost, HostTransferInProgress,
     QueueSnapshotResyncTarget, IsHost, HostNames
<1>7. ASSUME NEW p \in Peer, HandleSnapshotResyncRequest(p) PROVE FALSE
  BY <1>1, <1>7 DEF HandleSnapshotResyncRequest, HostTransferInProgress,
     QueueSnapshotResyncTarget, IsHost, HostNames
<1>8. ASSUME NEW p \in Peer, HandleTopologyAck(p) PROVE FALSE
  BY <1>1, <1>8 DEF HandleTopologyAck, IsHost, HostNames
<1>9. ASSUME NEW p \in Peer, HandleRetriedJoinRequest(p) PROVE FALSE
  <2>1. IsHost(RaiseBarrier(host))
    BY <1>1, ClearKeeps DEF Keeps
  <2>2. host' = QueueJoinBarrierPeer(RaiseBarrier(host), p)
    BY <1>9 DEF HandleRetriedJoinRequest
  <2> QED
    BY <1>2, <1>3, <2>1, <2>2 DEF QueueJoinBarrierPeer, IsHost, HostNames
<1>10. ASSUME NEW p \in Peer, CleanupTimedOutRemoteEndpoint(p) PROVE FALSE
  <2> DEFINE raised == RaiseBarrier(host)
             told   == [raised EXCEPT
                          !.barrierQueue = Without(@, {p}),
                          !.awaited = (@ \cup remotes) \ {p}]
  <2>1. host' = told \/ host' = ClearJoinBarrierTransfer(told)
    BY <1>10 DEF CleanupTimedOutRemoteEndpoint
  <2>2. IsHost(raised) /\ Untouched(raised)
    BY <1>1, <1>3, ClearKeeps DEF Keeps
  <2> HIDE DEF raised
  <2>3. IsHost(told) /\ Untouched(told)
    BY <2>2 DEF IsHost, HostNames
  <2> HIDE DEF told
  <2> QED
    BY <1>2, <2>1, <2>3 DEF ClearJoinBarrierTransfer, IsHost, HostNames
<1>11. host' # host
  BY <1>1
<1>12. ASSUME NEW p \in Peer,
              \/ PeerAsksForRepair(p) \/ Die(p) \/ SendSnapshotResyncRequest(p)
              \/ PeerReceives(p) \/ PeerSteps(p) \/ Lose(p)
       PROVE  FALSE
  <2>1. ~PeerActs(p)
    BY <1>11 DEF PeerActs, PeerBecomes
  <2>2. ~Lose(p)
    BY <1>11 DEF Lose
  <2> QED
    BY <1>12, <2>1, <2>2, PeerAsksActs, DieActs, PeerRequestActs, PeerStepsActs, StatusActs,
       TopologyActs, ResumedActs, ChunkActs DEF PeerReceives
<1>13. ~HostSteps
  BY <1>11 DEF HostSteps
<1>14. PICK q \in Peer : HandleSnapshotResyncAck(q)
  BY <1>5, <1>6, <1>7, <1>8, <1>9, <1>10, <1>12, <1>13 DEF Next, HostReceives
<1>15. PICK m \in Arriving(toHost[q]) :
          /\ m.kind = "Ack"
          /\ host' = IF host.standing /\ m.transfer = host.barrierTransfer
                       THEN BarrierTransferDone(host, q, m.success)
                     ELSE IF ~AnswersTransfer(m) THEN host
                     ELSE IF m.success THEN RepairDone(host) ELSE RepairFailed(host)
  BY <1>14 DEF HandleSnapshotResyncAck
<1>16. m.success \in BOOLEAN
  <2>1. m \in FromPeer
    BY <1>15, RestIsLink DEF Wholes, Typed
  <2> QED
    BY <1>15, <2>1 DEF FromPeer
<1>17. ~(host.standing /\ m.transfer = host.barrierTransfer)
  <2>1. Untouched(BarrierTransferDone(host, q, m.success))
    BY <1>3, <1>16
  <2> QED
    BY <1>2, <1>15, <2>1
<1>18. m.transfer = host.active /\ host' = IF m.success THEN RepairDone(host) ELSE RepairFailed(host)
  BY <1>11, <1>15, <1>17 DEF AnswersTransfer
<1>19. RepairFailed(host).mode = "FatalDesync" /\ ~RepairFailed(host).pending
  BY <1>1 DEF RepairFailed, IsHost, HostNames
<1> QED
  BY <1>1, <1>15, <1>18, <1>19

\* Where links deliver in order, a repair that ends well leaves a peer it was
\* sent to with the snapshot of this very transfer and at no frame before it,
\* for any number of peers, repairs, barriers and lost packets, also when a
\* barrier sends the chunks of the repair to a peer of its own
\* (HandleSnapshotResyncAck, SendPendingJoinBarrier).
THEOREM RepairsEndInstalled ==
    ASSUME InOrder
    PROVE  Spec => RepairEndsWhenInstalled
<1>1. Init => Wholes /\ StillInv /\ FifoInv
  BY InitWholes, InitFifo DEF Init, StillInv, HostStandsStillDuringTransfer, Waits, Stands, Fresh
<1>2. Wholes /\ StillInv /\ FifoInv /\ [Next]_vars => (Wholes /\ StillInv /\ FifoInv)'
  BY WholesKept, StillKept, FifoKept
<1> DEFINE Installed == EndsRepair =>
              \E p \in SentTo(host) :
                  /\ peer[p].acked = host.active /\ peer[p].success
                  /\ sim[p].frame >= host.frame
<1>3. ASSUME Wholes, StillInv, FifoInv, [Next]_vars PROVE [Installed]_vars
  <2> SUFFICES ASSUME Next, EndsRepair
               PROVE  \E p \in SentTo(host) :
                         /\ peer[p].acked = host.active /\ peer[p].success
                         /\ sim[p].frame >= host.frame
    BY <1>3
  <2>1. PICK q \in Peer : \E m \in Arriving(toHost[q]) :
           m.kind = "Ack" /\ m.transfer = host.active /\ m.success
    BY <1>3, EndsByAnswer
  <2>2. host.active # 0
    BY DEF EndsRepair
  <2>3. toHost[q] \in Seq(FromPeer) /\ UnderWay(q, host)
    BY <1>3, LinksAreSequences DEF Wholes, FifoInv
  <2>4. PICK m \in Arriving(toHost[q]) : m.kind = "Ack" /\ m.transfer = host.active /\ m.success
    BY <2>1
  <2>5. toHost[q] # <<>> /\ m = toHost[q][1] /\ 1 \in 1 .. Len(toHost[q])
    BY <2>3, <2>4 DEF Arriving
  <2>6. peer[q].acked = host.active /\ peer[q].success
    BY <2>2, <2>3, <2>4, <2>5 DEF UnderWay, Truthful
  <2>7. q \in SentTo(host) /\ sim[q].frame >= host.frame
    BY <2>2, <2>3, <2>6 DEF UnderWay, Acknowledged
  <2> QED
    BY <2>6, <2>7
<1> QED
  BY <1>1, <1>2, <1>3, PTL DEF Spec, RepairEndsWhenInstalled

-----------------------------------------------------------------------------
(* Types.  What is left after Wholes is the host: its queues and the one   *)
(* its transfer is for name peers only.                                    *)

LEMMA QueueKeepsFields ==
    ASSUME NEW h \in HostFields, NEW p \in Peer
    PROVE  /\ QueueSnapshotResyncTarget(h, p) \in HostFields
           /\ QueueJoinBarrierPeer(h, p) \in HostFields
<1>1. h.queue \in Seq(Peer) /\ h.barrierQueue \in Seq(Peer)
  BY DEF HostFields
<1>2. Append(h.queue, p) \in Seq(Peer) /\ Append(h.barrierQueue, p) \in Seq(Peer)
  BY <1>1
<1>3. /\ [h EXCEPT !.queue = Append(@, p)] \in HostFields
      /\ [h EXCEPT !.barrierQueue = Append(@, p)] \in HostFields
  BY <1>2 DEF HostFields
<1> QED
  BY <1>3 DEF QueueSnapshotResyncTarget, QueueJoinBarrierPeer

LEMMA StartKeepsFields ==
    ASSUME NEW h \in HostFields, NEW p \in Peer
    PROVE  StartOrQueueAsHost(h, p) \in HostFields
<1>1. [h EXCEPT !.mode = "SnapshotCatchup", !.pending = TRUE, !.target = p,
                !.active = 0, !.next = 0, !.waiting = FALSE] \in HostFields
  BY DEF HostFields, Mode
<1> QED
  BY <1>1, QueueKeepsFields DEF StartOrQueueAsHost

LEMMA BeginKeepsFields ==
    ASSUME NEW h \in HostFields, NEW p \in Peer, nextId \in Nat, sim[Host].frame \in Nat
    PROVE  /\ [BeginTransfer(h, p) EXCEPT !.mode = "SnapshotCatchup"] \in HostFields
           /\ [BeginTransfer(h, p) EXCEPT !.barrierPeer = p, !.barrierTransfer = nextId]
                 \in HostFields
<1>1. BeginTransfer(h, p) \in HostFields
  BY DEF BeginTransfer, HostFields
<1> QED
  BY <1>1 DEF HostFields, Mode

LEMMA ChunksKeepFields ==
    ASSUME NEW h \in HostFields, NEW n \in Nat
    PROVE  AfterChunks(h, n) \in HostFields
<1>1. h.next + n \in Nat /\ ChunkCount \in Nat \ {0}
  BY BoundAssumption DEF HostFields
<1>2. (h.next + n) % ChunkCount \in Nat
  BY <1>1
<1> QED
  BY <1>2 DEF AfterChunks, HostFields

LEMMA ClearKeepsFields ==
    ASSUME NEW h \in HostFields
    PROVE  /\ ClearJoinBarrierTransfer(h) \in HostFields
           /\ ClearJoinBarrier(h) \in HostFields
           /\ RaiseBarrier(h) \in HostFields
<1> DEFINE idle == ClearJoinBarrierTransfer(h)
<1>1. idle \in HostFields
  BY DEF ClearJoinBarrierTransfer, HostFields
<1>2. <<>> \in Seq(Peer)
  OBVIOUS
<1> HIDE DEF idle
<1>3. [idle EXCEPT !.standing = FALSE, !.ready = FALSE, !.barrierQueue = <<>>,
                   !.awaited = {}] \in HostFields
  BY <1>1, <1>2 DEF HostFields
<1>4. [idle EXCEPT !.standing = TRUE, !.id = @ + 1, !.ready = FALSE,
                   !.barrierQueue = <<>>] \in HostFields
  <2>1. idle.id + 1 \in Nat
    BY <1>1 DEF HostFields
  <2> QED
    BY <1>1, <1>2, <2>1 DEF HostFields
<1> QED
  BY <1>1, <1>3, <1>4 DEF idle, ClearJoinBarrier, RaiseBarrier

LEMMA RepairDoneKeepsFields ==
    ASSUME NEW h \in HostFields
    PROVE  RepairDone(h) \in HostFields /\ RepairFailed(h) \in HostFields
<1> DEFINE idle == [h EXCEPT !.waiting = FALSE, !.pending = FALSE, !.active = 0,
                             !.next = 0, !.target = Nobody]
           rest == [idle EXCEPT !.queue = Tail(@)]
           done == [idle EXCEPT !.mode = "RollbackRepaired"]
<1>1. idle \in HostFields /\ idle.queue = h.queue /\ h.queue \in Seq(Peer)
  BY DEF HostFields
<1>2. RepairDone(h) = IF h.queue = <<>> THEN done ELSE StartOrQueueAsHost(rest, Head(h.queue))
  BY DEF RepairDone
<1> HIDE DEF idle
<1>3. done \in HostFields
  BY <1>1 DEF HostFields, Mode
<1>4. ASSUME h.queue # <<>>
      PROVE  rest \in HostFields /\ Head(h.queue) \in Peer
  <2>1. Tail(idle.queue) \in Seq(Peer) /\ Head(h.queue) \in Peer
    BY <1>1, <1>4
  <2> QED
    BY <1>1, <2>1 DEF HostFields
<1> HIDE DEF rest, done
<1>5. RepairDone(h) \in HostFields
  BY <1>2, <1>3, <1>4, StartKeepsFields
<1>6. RepairFailed(h) \in HostFields
  <2>1. <<>> \in Seq(Peer)
    OBVIOUS
  <2> QED
    BY <2>1 DEF RepairFailed, HostFields, Mode
<1> QED
  BY <1>5, <1>6

LEMMA BarrierTransferDoneKeepsFields ==
    ASSUME NEW h \in HostFields, NEW p \in Peer, NEW success
    PROVE  BarrierTransferDone(h, p, success) \in HostFields
<1> DEFINE idle == ClearJoinBarrierTransfer(h)
           again == QueueJoinBarrierPeer(idle, p)
<1>1. idle \in HostFields
  BY ClearKeepsFields
<1>2. again \in HostFields
  BY <1>1, QueueKeepsFields
<1>3. BarrierTransferDone(h, p, success) =
         IF success THEN [idle EXCEPT !.ready = ReadyToResume(idle)]
                    ELSE [again EXCEPT !.ready = FALSE]
  BY DEF BarrierTransferDone
<1> HIDE DEF idle, again
<1>4. ReadyToResume(idle) \in BOOLEAN
  BY DEF ReadyToResume
<1>5. [idle EXCEPT !.ready = ReadyToResume(idle)] \in HostFields
  BY <1>1, <1>4 DEF HostFields
<1>6. [again EXCEPT !.ready = FALSE] \in HostFields
  BY <1>2 DEF HostFields
<1> QED
  BY <1>3, <1>5, <1>6

\* What the host receives.
LEMMA ReceivedKeepsFields ==
    ASSUME TypeOK, NEW p \in Peer, HostReceives(p)
    PROVE  host' \in HostFields
<1>0. /\ host \in HostFields /\ nextId \in Nat /\ sim[Host].frame \in Nat
  BY DEF TypeOK, Process
<1>1. CASE HandleSnapshotResyncRequest(p)
  <2> DEFINE started == [BeginTransfer(host, p) EXCEPT !.mode = "SnapshotCatchup"]
  <2>1. started \in HostFields
    BY <1>0, BeginKeepsFields
  <2>2. host' = QueueSnapshotResyncTarget(host, p) \/ host' = AfterChunks(started, ResyncPerPump)
    BY <1>1 DEF HandleSnapshotResyncRequest
  <2> HIDE DEF started
  <2> QED
    BY <1>0, <2>1, <2>2, QueueKeepsFields, ChunksKeepFields, BoundAssumption
<1>2. CASE HandleSnapshotResyncAck(p)
  BY <1>0, <1>2, BarrierTransferDoneKeepsFields, RepairDoneKeepsFields
     DEF HandleSnapshotResyncAck
<1>3. CASE HandleTopologyAck(p)
  <2> DEFINE answered == [host EXCEPT !.awaited = @ \ {p}]
             told == [answered EXCEPT !.ready = @ \/ ReadyToResume(answered)]
  <2>1. host' = host \/ host' = told
    BY <1>3 DEF HandleTopologyAck
  <2>2. answered \in HostFields
    BY <1>0 DEF HostFields
  <2> HIDE DEF answered
  <2>3. (answered.ready \/ ReadyToResume(answered)) \in BOOLEAN
    OBVIOUS
  <2>4. told \in HostFields
    BY <2>2, <2>3 DEF HostFields
  <2> QED
    BY <1>0, <2>1, <2>4
<1>4. CASE HandleRetriedJoinRequest(p)
  <2>1. RaiseBarrier(host) \in HostFields
    BY <1>0, ClearKeepsFields
  <2> QED
    BY <1>4, <2>1, QueueKeepsFields DEF HandleRetriedJoinRequest
<1> QED
  BY <1>1, <1>2, <1>3, <1>4 DEF HostReceives

LEMMA CleanupKeepsFields ==
    ASSUME TypeOK, NEW p \in Peer, CleanupTimedOutRemoteEndpoint(p)
    PROVE  host' \in HostFields
<1> DEFINE raised == RaiseBarrier(host)
           told   == [raised EXCEPT
                        !.barrierQueue = Without(@, {p}),
                        !.awaited = (@ \cup remotes) \ {p}]
<1>1. host' = told \/ host' = ClearJoinBarrierTransfer(told)
  BY DEF CleanupTimedOutRemoteEndpoint
<1>2. raised \in HostFields /\ remotes \subseteq Peer
  BY ClearKeepsFields DEF TypeOK
<1> HIDE DEF raised
<1>3. raised.barrierQueue \in Seq(Peer) /\ raised.awaited \subseteq Peer
  BY <1>2 DEF HostFields
<1>4. Without(raised.barrierQueue, {p}) \in Seq(Peer)
  BY <1>3, WithoutProperties
<1>5. told \in HostFields
  BY <1>2, <1>3, <1>4 DEF HostFields
<1> HIDE DEF told
<1> QED
  BY <1>1, <1>5, ClearKeepsFields

\* The rest of the host's tick.
LEMMA TickKeepsFields ==
    ASSUME TypeOK, HostTicks
    PROVE  host' \in HostFields
<1>0. /\ host \in HostFields /\ nextId \in Nat /\ sim[Host].frame \in Nat
      /\ remotes \subseteq Peer
  BY DEF TypeOK, Process
<1>1. CASE ResumeEverybody
  BY <1>0, <1>1, ClearKeepsFields DEF ResumeEverybody
<1>2. CASE WaitForTopologyAcks
  <2>1. host' = [host EXCEPT !.ready = ReadyToResume(host)]
    BY <1>2 DEF WaitForTopologyAcks
  <2>2. ReadyToResume(host) \in BOOLEAN
    BY DEF ReadyToResume
  <2> QED
    BY <1>0, <2>1, <2>2 DEF HostFields
<1>3. CASE StartBarrierTransfer
  <2> DEFINE p       == Head(host.barrierQueue)
             popped  == [host EXCEPT !.barrierQueue = Tail(@)]
             started == [BeginTransfer(popped, p) EXCEPT
                           !.barrierPeer = p, !.barrierTransfer = nextId]
  <2>1. host.barrierQueue # <<>> /\ (host' = started \/ host' = popped)
    BY <1>3 DEF StartBarrierTransfer
  <2>2. host.barrierQueue \in Seq(Peer)
    BY <1>0 DEF HostFields
  <2>3. p \in Peer /\ Tail(host.barrierQueue) \in Seq(Peer)
    BY <2>1, <2>2
  <2>4. popped \in HostFields
    BY <1>0, <2>3 DEF HostFields
  <2> HIDE DEF p, popped
  <2>5. started \in HostFields
    BY <1>0, <2>3, <2>4, BeginKeepsFields
  <2> QED
    BY <2>1, <2>4, <2>5
<1>4. CASE ContinueBarrierTransfer
  BY <1>0, <1>4, ClearKeepsFields, ChunksKeepFields, BoundAssumption DEF ContinueBarrierTransfer
<1>5. CASE NothingToSend \/ ResendChunks
  BY <1>0, <1>5, ChunksKeepFields, BoundAssumption DEF NothingToSend, ResendChunks
<1>6. CASE TargetIsGone
  <2>1. host' = [host EXCEPT !.mode = "FatalDesync", !.pending = FALSE,
                             !.waiting = IF host.pending THEN @ ELSE FALSE]
    BY <1>6 DEF TargetIsGone
  <2> QED
    BY <1>0, <2>1 DEF HostFields, Mode
<1>7. CASE StartRepair
  <2>1. /\ host.target \in remotes
        /\ host' = AfterChunks([BeginTransfer(host, host.target) EXCEPT
                                  !.mode = "SnapshotCatchup"], ResyncPerPump)
    BY <1>7 DEF StartRepair
  <2> QED
    BY <1>0, <2>1, BeginKeepsFields, ChunksKeepFields, BoundAssumption
<1> QED
  BY <1>1, <1>2, <1>3, <1>4, <1>5, <1>6, <1>7 DEF HostTicks

\* What is counted is a number, and every action says where the tick is.
LEMMA CountersTyped ==
    ASSUME TypeOK, [Next]_vars
    PROVE  asked' \in Nat /\ tick' \in {"pump", "resync"}
<1>0. asked \in Nat /\ asked + 1 \in Nat /\ tick \in {"pump", "resync"}
  BY DEF TypeOK
<1>1. CASE HostTicks
  BY <1>0, <1>1 DEF HostTicks, ResumeEverybody, WaitForTopologyAcks, StartBarrierTransfer,
     ContinueBarrierTransfer, NothingToSend, TargetIsGone, ResendChunks, StartRepair
<1>2. CASE HostSteps \/ UNCHANGED vars
  BY <1>0, <1>2 DEF HostSteps, vars
<1>3. ASSUME NEW p \in Peer,
             \/ HostAsksForRepair(p) \/ PeerAsksForRepair(p) \/ HostReceives(p)
             \/ CleanupTimedOutRemoteEndpoint(p) \/ Die(p)
      PROVE  asked' \in Nat /\ tick' \in {"pump", "resync"}
  BY <1>0, <1>3 DEF HostAsksForRepair, PeerAsksForRepair, CleanupTimedOutRemoteEndpoint, Die,
     HostReceives, HandleSnapshotResyncRequest, HandleSnapshotResyncAck, HandleTopologyAck,
     HandleRetriedJoinRequest
<1>4. ASSUME NEW p \in Peer,
             SendSnapshotResyncRequest(p) \/ PeerReceives(p) \/ PeerSteps(p) \/ Lose(p)
      PROVE  asked' \in Nat /\ tick' \in {"pump", "resync"}
  BY <1>0, <1>4 DEF SendSnapshotResyncRequest, PeerSteps, Lose, PeerReceives,
     HandleSnapshotResyncChunk, HandleJoinBarrierStatus, HandleJoinBarrierTopology,
     HandleJoinBarrierResume
<1> QED
  BY <1>1, <1>2, <1>3, <1>4 DEF Next

LEMMA FieldsKept ==
    ASSUME TypeOK, [Next]_vars
    PROVE  host' \in HostFields
<1>0. host \in HostFields
  BY DEF TypeOK
<1>1. CASE HostTicks
  BY <1>1, TickKeepsFields
<1>2. CASE HostSteps \/ UNCHANGED vars
  BY <1>0, <1>2 DEF HostSteps, vars
<1>3. ASSUME NEW p \in Peer, HostAsksForRepair(p) PROVE host' \in HostFields
  BY <1>0, <1>3, StartKeepsFields DEF HostAsksForRepair
<1>4. ASSUME NEW p \in Peer,
             \/ PeerAsksForRepair(p) \/ Die(p) \/ SendSnapshotResyncRequest(p)
             \/ PeerReceives(p) \/ PeerSteps(p) \/ Lose(p)
      PROVE  host' \in HostFields
  BY <1>0, <1>4 DEF PeerAsksForRepair, Die, SendSnapshotResyncRequest, PeerSteps, Lose,
     PeerReceives, HandleSnapshotResyncChunk, HandleJoinBarrierStatus,
     HandleJoinBarrierTopology, HandleJoinBarrierResume
<1> QED
  BY <1>1, <1>2, <1>3, <1>4, ReceivedKeepsFields, CleanupKeepsFields DEF Next

\* Every field, counter, simulation and packet of the repair keeps its type:
\* the queues of repair and barrier and the target the two share name peers
\* only, for any peers, links, losses and bounds.
THEOREM RepairIsTyped == Spec => []TypeOK
<1>1. Init => TypeOK
  <2>1. Init => host \in HostFields
    BY DEF Init, HostFields, Mode
  <2>2. Init => asked \in Nat /\ tick \in {"pump", "resync"}
    BY DEF Init
  <2> QED
    BY <2>1, <2>2, InitWholes DEF TypeOK, Wholes, Typed
<1>2. TypeOK /\ Wholes' /\ [Next]_vars => TypeOK'
  <2> SUFFICES ASSUME TypeOK, Wholes', [Next]_vars PROVE TypeOK'
    OBVIOUS
  <2>1. host' \in HostFields /\ asked' \in Nat /\ tick' \in {"pump", "resync"}
    BY FieldsKept, CountersTyped
  <2> QED
    BY <2>1 DEF TypeOK, Wholes, Typed
<1> QED
  BY <1>1, <1>2, WholesInvariant, PTL DEF Spec
=============================================================================
