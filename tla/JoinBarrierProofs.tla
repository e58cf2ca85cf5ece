-------------------------- MODULE JoinBarrierProofs --------------------------
(***************************************************************************)
(* Proofs about JoinBarrier, for every set of peers, whatever the links    *)
(* lose, repeat or reorder.                                                *)
(***************************************************************************)
EXTENDS JoinBarrier, QueueProofs, FiniteSetTheorems

-----------------------------------------------------------------------------
(* Links.                                                                  *)

IsSequence(s) == s \in Seq(Range(s))
IsLink(link) == InOrder => IsSequence(link)

\* Appending two sequences.
LEMMA RangeOfConcatenation ==
    ASSUME NEW s, NEW t, IsSequence(s), IsSequence(t)
    PROVE  IsSequence(s \o t) /\ Range(s \o t) = Range(s) \cup Range(t)
<1> DEFINE S == Range(s) \cup Range(t)
           u == s \o t
<1>1. s \in Seq(S) /\ t \in Seq(S)
  BY DEF IsSequence
<1>2. /\ u \in Seq(S) /\ Len(u) = Len(s) + Len(t)
      /\ \A i \in 1 .. Len(u) : u[i] = IF i <= Len(s) THEN s[i] ELSE t[i - Len(s)]
  BY <1>1
<1>3. /\ Range(s) = {s[i] : i \in 1 .. Len(s)} /\ Range(t) = {t[i] : i \in 1 .. Len(t)}
      /\ Range(u) = {u[i] : i \in 1 .. Len(u)}
  <2> HIDE DEF u
  <2>1. DOMAIN s = 1 .. Len(s) /\ DOMAIN t = 1 .. Len(t)
    BY <1>1
  <2>2. DOMAIN u = 1 .. Len(u)
    BY <1>2
  <2>3. Range(s) = {s[i] : i \in 1 .. Len(s)}
    BY <2>1 DEF Range
  <2>4. Range(t) = {t[i] : i \in 1 .. Len(t)}
    BY <2>1 DEF Range
  <2>5. Range(u) = {u[i] : i \in 1 .. Len(u)}
    BY <2>2 DEF Range
  <2> QED
    BY <2>3, <2>4, <2>5
<1>4. Len(s) \in Nat /\ Len(t) \in Nat
  BY <1>1
<1> HIDE DEF u
<1>5. ASSUME NEW i \in 1 .. Len(s) PROVE s[i] = u[i] /\ i \in 1 .. Len(u)
  BY <1>2, <1>4
<1>6. ASSUME NEW i \in 1 .. Len(t)
      PROVE  t[i] = u[i + Len(s)] /\ i + Len(s) \in 1 .. Len(u)
  BY <1>2, <1>4
<1>7. ASSUME NEW i \in 1 .. Len(u) PROVE u[i] \in Range(s) \cup Range(t)
  BY <1>2, <1>3, <1>4
<1>8. Range(u) = Range(s) \cup Range(t)
  BY <1>3, <1>5, <1>6, <1>7
<1>9. u \in Seq(Range(u))
  BY <1>2, <1>8
<1> QED
  BY <1>8, <1>9 DEF IsSequence, u

\* Removing the head.
LEMMA RangeOfTail ==
    ASSUME NEW s, IsSequence(s), s # <<>>
    PROVE  /\ IsSequence(Tail(s)) /\ Range(Tail(s)) \subseteq Range(s)
           /\ Head(s) \in Range(s)
<1> DEFINE u == Tail(s)
<1>1. s \in Seq(Range(s)) /\ Len(s) \in Nat /\ Len(s) > 0 /\ DOMAIN s = 1 .. Len(s)
  BY DEF IsSequence
<1>2. /\ u \in Seq(Range(s)) /\ Len(u) = Len(s) - 1
      /\ \A i \in 1 .. Len(u) : u[i] = s[i + 1]
  BY <1>1
<1>3. DOMAIN u = 1 .. Len(u) /\ Head(s) = s[1]
  BY <1>1, <1>2
<1> HIDE DEF u
<1>4. \A i \in 1 .. Len(u) : i \in DOMAIN u /\ i + 1 \in DOMAIN s
  BY <1>1, <1>2, <1>3
<1>5. Range(u) \subseteq Range(s)
  BY <1>2, <1>3, <1>4 DEF Range
<1>6. u \in Seq(Range(u))
  BY <1>2, <1>3 DEF Range
<1>7. Head(s) \in Range(s)
  BY <1>1, <1>3 DEF Range
<1> QED
  BY <1>5, <1>6, <1>7 DEF IsSequence, u

\* What a link contains after packets are put on it.
LEMMA ContentsOfPut ==
    ASSUME NEW link, IsLink(link), NEW packets, IsSequence(packets)
    PROVE  /\ IsLink(Put(link, packets))
           /\ Contents(Put(link, packets)) = Contents(link) \cup Range(packets)
  BY RangeOfConcatenation DEF IsLink, Put, Contents

\* What a link contains after a packet has arrived.
LEMMA ContentsOfRest ==
    ASSUME NEW link, IsLink(link), NEW m \in Arriving(link)
    PROVE  /\ m \in Contents(link)
           /\ IsLink(Rest(link)) /\ Contents(Rest(link)) \subseteq Contents(link)
  BY RangeOfTail DEF IsLink, Rest, Contents, Arriving

\* Short sequences of packets.
LEMMA RangeOfTuples ==
    /\ IsSequence(<<>>) /\ Range(<<>>) = {}
    /\ \A a : IsSequence(<<a>>) /\ Range(<<a>>) = {a}
    /\ \A a, b : IsSequence(<<a, b>>) /\ Range(<<a, b>>) = {a, b}
<1>1. IsSequence(<<>>) /\ Range(<<>>) = {}
  BY DEF IsSequence, Range
<1>2. ASSUME NEW a PROVE IsSequence(<<a>>) /\ Range(<<a>>) = {a}
  BY DEF IsSequence, Range
<1>3. ASSUME NEW a, NEW b PROVE IsSequence(<<a, b>>) /\ Range(<<a, b>>) = {a, b}
  <2>1. DOMAIN <<a, b>> = {1, 2}
    OBVIOUS
  <2>2. Range(<<a, b>>) = {a, b}
    BY <2>1 DEF Range
  <2> QED
    BY <2>2 DEF IsSequence
<1> QED
  BY <1>1, <1>2, <1>3

-----------------------------------------------------------------------------
(* The inductive invariant.                                                *)

HostFields == {"active", "id", "phase", "queue", "awaited", "joined", "removed",
               "target", "transfer", "snapshot"}
PeerFields == {"where", "active", "id", "phase", "transfer", "acked", "success",
               "fatal", "requests"}
BarrierKind == {"Status", "Topology", "Resume"}

\* The host's fields h: a barrier that stands has a phase, one that does not
\* has no transfer, and neither has one that is ready to resume.
HostOK(h) ==
    /\ DOMAIN h = HostFields
    /\ h.active \in BOOLEAN /\ h.id \in Nat /\ h.transfer \in Nat
    /\ h.active => h.phase # "None"
    /\ ~h.active => h.transfer = 0
    /\ h.phase = "ReadyToResume" => h.transfer = 0

LinksTyped ==
    /\ DOMAIN toPeer = Peer /\ DOMAIN toHost = Peer
    /\ \A p \in Peer : IsLink(toPeer[p]) /\ IsLink(toHost[p])

VariablesTyped ==
    /\ HostOK(host) /\ nextId \in Nat \ {0} /\ host.transfer < nextId
    /\ DOMAIN peer = Peer
    /\ \A p \in Peer : DOMAIN peer[p] = PeerFields /\ peer[p].id \in Nat
    /\ LinksTyped

\* A barrier packet on its way belongs to the last barrier raised or an earlier
\* one, a Resume to one that is over; Status always names a phase.
PacketOfBarrier(h, m) ==
    m.kind \in BarrierKind =>
        /\ m.id \in Nat /\ m.id <= h.id
        /\ m.kind = "Resume" => (h.active => m.id < h.id)
        /\ m.kind = "Status" => m.phase # "None"

\* A chunk for p, or an answer from p, is of p's own transfer.
PacketOfTransfer(h, next, p, m) ==
    m.kind \in {"Chunk", "SnapshotAck"} =>
        /\ m.transfer \in Nat \ {0} /\ m.transfer < next
        /\ m.transfer = h.transfer => p = h.target

PacketsInPlace ==
    /\ \A p \in Peer : \A m \in Contents(toPeer[p]) :
          PacketOfBarrier(host, m) /\ PacketOfTransfer(host, nextId, p, m)
    /\ \A p \in Peer : \A m \in Contents(toHost[p]) :
          m.kind \notin BarrierKind /\ PacketOfTransfer(host, nextId, p, m)

\* A peer that knows of the host's barrier stands at it.
PeersInPlace ==
    \A p \in Peer :
        /\ peer[p].id <= host.id
        /\ (/\ host.active /\ peer[p].where = "session" /\ peer[p].id = host.id)
              => IsJoinBarrierBlocking(peer[p])

IInv == VariablesTyped /\ PacketsInPlace /\ PeersInPlace

-----------------------------------------------------------------------------
(* What a step may do to the host's fields.                                *)

\* From h to h2 a new barrier has a new id, and a transfer that is not h's is
\* a new one, next.
Moves(h, h2, next) ==
    /\ h2.id >= h.id
    /\ h2.active => IF h.active THEN h2.id = h.id ELSE h2.id > h.id
    /\ \/ h2.transfer = 0
       \/ h2.transfer = h.transfer /\ h2.target = h.target
       \/ h2.transfer = next

\* Clearing the transfer leaves the barrier standing (ClearJoinBarrierTransfer).
LEMMA MovesOfClearTransfer ==
    ASSUME NEW h, HostOK(h)
    PROVE  LET h2 == ClearJoinBarrierTransfer(h)
           IN  HostOK(h2) /\ h2.active = h.active /\ h2.id = h.id /\ h2.transfer = 0
               /\ h2.phase = h.phase
  BY DEF HostOK, HostFields, ClearJoinBarrierTransfer

\* Clearing the barrier keeps its id (ClearJoinBarrierFields).
LEMMA MovesOfClear ==
    ASSUME NEW h, HostOK(h)
    PROVE  LET h2 == ClearJoinBarrier(h)
           IN  HostOK(h2) /\ ~h2.active /\ h2.id = h.id /\ h2.transfer = 0
  BY DEF HostOK, HostFields, ClearJoinBarrier, ClearJoinBarrierTransfer

\* Only the lists of the barrier change.
SameBarrier(h, h2) ==
    /\ HostOK(h2)
    /\ h2.active = h.active /\ h2.id = h.id /\ h2.phase = h.phase
    /\ h2.transfer = h.transfer /\ h2.target = h.target

\* Setting a list of the barrier.
LEMMA MovesOfLists ==
    ASSUME NEW h, HostOK(h), NEW x
    PROVE  /\ SameBarrier(h, [h EXCEPT !.queue = x])
           /\ SameBarrier(h, [h EXCEPT !.awaited = x])
           /\ SameBarrier(h, [h EXCEPT !.joined = x])
           /\ SameBarrier(h, [h EXCEPT !.removed = x])
  BY DEF SameBarrier, HostOK, HostFields

\* Queueing a peer (QueueJoinBarrierPeer).
LEMMA MovesOfQueue ==
    ASSUME NEW h, HostOK(h), NEW p
    PROVE  SameBarrier(h, QueueJoinBarrierPeer(h, p))
<1>1. SameBarrier(h, h)
  BY DEF SameBarrier
<1> QED
  BY <1>1, MovesOfLists DEF QueueJoinBarrierPeer

\* A barrier is raised or found raised, and a transfer stays.
Raised(h, h2) ==
    /\ HostOK(h2) /\ h2.active /\ h2.id >= h.id
    /\ IF h.active THEN h2.id = h.id ELSE h2.id > h.id
    /\ h2.transfer = h.transfer
    /\ h.transfer # 0 => h2.target = h.target

\* Raising a barrier, or finding one raised.
LEMMA MovesOfRaise ==
    ASSUME NEW h, HostOK(h)
    PROVE  Raised(h, RaiseBarrier(h))
<1>1. CASE h.active
  <2>1. RaiseBarrier(h) = h
    BY <1>1 DEF RaiseBarrier
  <2>2. h.id >= h.id
    BY DEF HostOK
  <2> QED
    BY <1>1, <2>1, <2>2, Zenon DEF Raised
<1>2. CASE ~h.active
  <2> DEFINE c  == ClearJoinBarrierTransfer(h)
             h2 == [c EXCEPT !.active = TRUE, !.id = @ + 1,
                             !.phase = "WaitingForCatchup", !.queue = <<>>]
  <2>1. /\ DOMAIN c = HostFields /\ c.id = h.id /\ c.id \in Nat /\ c.transfer = 0
    BY MovesOfClearTransfer DEF HostOK
  <2>2. RaiseBarrier(h) = h2
    BY <1>2 DEF RaiseBarrier
  <2> HIDE DEF c
  <2>3. /\ DOMAIN h2 = HostFields /\ h2.active = TRUE /\ h2.id = c.id + 1
        /\ h2.phase = "WaitingForCatchup" /\ h2.transfer = 0
    BY <2>1 DEF HostFields
  <2>4. h.transfer = 0
    BY <1>2 DEF HostOK
  <2> HIDE DEF h2
  <2>5. h2.active /\ h2.active \in BOOLEAN
    BY <2>3, Zenon
  <2>6. h2.id \in Nat /\ h2.id > h.id /\ h2.id >= h.id
    BY <2>1, <2>3
  <2>7. h2.phase # "None" /\ h2.phase # "ReadyToResume" /\ h2.transfer \in Nat
    BY <2>3
  <2>8. HostOK(h2)
    BY <2>3, <2>5, <2>6, <2>7, Zenon DEF HostOK
  <2> QED
    BY <1>2, <2>2, <2>3, <2>4, <2>5, <2>6, <2>8, Zenon DEF Raised
<1> QED
  BY <1>1, <1>2 DEF HostOK

\* A barrier raised whose lists then change.
LEMMA RaisedThenSame ==
    ASSUME NEW h, NEW h1, NEW h2, Raised(h, h1), SameBarrier(h1, h2)
    PROVE  Raised(h, h2)
  BY DEF Raised, SameBarrier

\* A peer asks again (BeginJoinBarrierCatchup).
LEMMA MovesOfCatchup ==
    ASSUME NEW h, HostOK(h), NEW p
    PROVE  Raised(h, BeginJoinBarrierCatchup(h, p))
<1>1. Raised(h, RaiseBarrier(h)) /\ HostOK(RaiseBarrier(h))
  BY MovesOfRaise DEF Raised
<1> QED
  BY <1>1, MovesOfQueue, RaisedThenSame DEF BeginJoinBarrierCatchup

\* A peer joins (BeginJoinBarrierTopologyChange).
LEMMA MovesOfTopologyChange ==
    ASSUME NEW h, HostOK(h), NEW p, NEW endpoints
    PROVE  Raised(h, BeginJoinBarrierTopologyChange(h, endpoints, p))
<1> DEFINE h1 == RaiseBarrier(h)
           h2 == QueueJoinBarrierPeer(h1, p)
           h3 == [h2 EXCEPT !.joined = @ \cup {p}]
           joining == h3.joined \cup Range(h3.queue) \cup {h3.target}
           h4 == [h3 EXCEPT !.awaited =
                    @ \cup ({h3.target} \ {Nobody}) \cup (endpoints \ joining)]
<1>1. Raised(h, h1) /\ HostOK(h1)
  BY MovesOfRaise DEF Raised
<1>2. Raised(h, h2) /\ HostOK(h2)
  <2> HIDE DEF h1
  <2>1. SameBarrier(h1, h2)
    BY <1>1, MovesOfQueue
  <2>2. Raised(h, h2)
    BY <1>1, <2>1, RaisedThenSame
  <2> QED
    BY <2>2 DEF Raised
<1>3. Raised(h, h3) /\ HostOK(h3)
  <2> HIDE DEF h2
  <2>1. SameBarrier(h2, h3)
    BY <1>2, MovesOfLists
  <2>2. Raised(h, h3)
    BY <1>2, <2>1, RaisedThenSame
  <2> QED
    BY <2>2 DEF Raised
<1>4. Raised(h, h4)
  <2> HIDE DEF h3
  <2>1. SameBarrier(h3, h4)
    BY <1>3, MovesOfLists
  <2>2. Raised(h, h4)
    BY <1>3, <2>1, RaisedThenSame
  <2> QED
    BY <2>2 DEF Raised
<1> QED
  BY <1>4 DEF BeginJoinBarrierTopologyChange

\* Players are taken out of the barrier's lists.
LEMMA MovesOfForget ==
    ASSUME NEW h, HostOK(h), NEW players
    PROVE  SameBarrier(h, Forget(h, players))
  BY DEF SameBarrier, HostOK, HostFields, Forget

\* A transfer to a player that is gone is dropped.
LEMMA MovesOfTopologyRemoval ==
    ASSUME NEW h, HostOK(h), NEW players, NEW endpoints
    PROVE  LET h2 == BeginJoinBarrierTopologyRemoval(h, endpoints, players)
           IN  \/ Raised(h, h2)
               \/ /\ h.target \in players
                  /\ HostOK(h2) /\ h2.active /\ h2.id >= h.id
                  /\ IF h.active THEN h2.id = h.id ELSE h2.id > h.id
                  /\ h2.transfer = 0
<1> DEFINE h1 == RaiseBarrier(h)
           h2 == Forget(h1, players \ {Host})
           h3 == [h2 EXCEPT !.awaited = @ \cup endpoints]
<1>1. Raised(h, h1) /\ HostOK(h1)
  BY MovesOfRaise DEF Raised
<1>2. Raised(h, h2) /\ HostOK(h2)
  <2> HIDE DEF h1
  <2>1. SameBarrier(h1, h2)
    BY <1>1, MovesOfForget
  <2>2. Raised(h, h2)
    BY <1>1, <2>1, RaisedThenSame
  <2> QED
    BY <2>2 DEF Raised
<1>3. Raised(h, h3) /\ HostOK(h3)
  <2> HIDE DEF h2
  <2>1. SameBarrier(h2, h3)
    BY <1>2, MovesOfLists
  <2>2. Raised(h, h3)
    BY <1>2, <2>1, RaisedThenSame
  <2> QED
    BY <2>2 DEF Raised
<1>4. BeginJoinBarrierTopologyRemoval(h, endpoints, players) =
        IF h.target \in players THEN ClearJoinBarrierTransfer(h3) ELSE h3
  BY DEF BeginJoinBarrierTopologyRemoval
<1> HIDE DEF h3
<1>5. LET h4 == ClearJoinBarrierTransfer(h3)
      IN  HostOK(h4) /\ h4.active = h3.active /\ h4.id = h3.id /\ h4.transfer = 0
  BY <1>3, MovesOfClearTransfer
<1>6. /\ h3.active /\ h3.id >= h.id
      /\ IF h.active THEN h3.id = h.id ELSE h3.id > h.id
  BY <1>3 DEF Raised
<1> QED
  BY <1>3, <1>4, <1>5, <1>6, Zenon

-----------------------------------------------------------------------------
(* Steps.                                                                  *)

\* Barrier ids only grow, and a standing barrier keeps its id.
IdsGrow ==
    /\ host'.id >= host.id
    /\ host.active /\ host'.active => host'.id = host.id
    /\ \A p \in Peer : peer[p].where = "session" => peer'[p].id >= peer[p].id

\* The action of TransferIsAnswered.
Answered ==
    (host.transfer # 0 /\ host'.transfer # host.transfer) =>
        \/ host.target \notin remotes'
        \/ \E m \in Contents(toHost[host.target]) :
              m.kind = "SnapshotAck" /\ m.transfer = host.transfer

\* What every step does.
Keeps == IInv' /\ IdsGrow /\ Answered

\* Packets put on the links are in place where those already there are.
NewPacketsInPlace ==
    /\ \A p \in Peer : \A m \in Contents(toPeer'[p]) :
          \/ m \in Contents(toPeer[p])
          \/ PacketOfBarrier(host', m) /\ PacketOfTransfer(host', nextId', p, m)
    /\ \A p \in Peer : \A m \in Contents(toHost'[p]) :
          \/ m \in Contents(toHost[p])
          \/ m.kind \notin BarrierKind /\ PacketOfTransfer(host', nextId', p, m)

\* The host's fields move: packets under way stay in place.
LEMMA PacketsStayInPlace ==
    ASSUME IInv, HostOK(host'), Moves(host, host', nextId),
           nextId' \in Nat, nextId' >= nextId, NewPacketsInPlace
    PROVE  PacketsInPlace'
<1> USE DEF IInv, VariablesTyped
<1>1. /\ host.id \in Nat /\ host'.id \in Nat /\ host'.id >= host.id
      /\ host'.active => IF host.active THEN host'.id = host.id ELSE host'.id > host.id
  BY DEF HostOK, Moves
<1>2. ASSUME NEW m, PacketOfBarrier(host, m) PROVE PacketOfBarrier(host', m)
  BY <1>1, <1>2 DEF PacketOfBarrier
<1>3. ASSUME NEW p, NEW m, PacketOfTransfer(host, nextId, p, m)
      PROVE  PacketOfTransfer(host', nextId', p, m)
  BY <1>3 DEF PacketOfTransfer, Moves
<1> QED
  BY <1>2, <1>3 DEF PacketsInPlace, NewPacketsInPlace

\* A step of the host.
LEMMA HostMoves ==
    ASSUME IInv, HostOK(host'), Moves(host, host', nextId),
           nextId' \in Nat, nextId' >= nextId, host'.transfer < nextId',
           LinksTyped', NewPacketsInPlace, Answered, peer' = peer
    PROVE  Keeps
<1>1. PacketsInPlace'
  BY PacketsStayInPlace
<1>2. VariablesTyped'
  BY DEF IInv, VariablesTyped
<1>3. /\ host.id \in Nat /\ host'.id \in Nat /\ host'.id >= host.id
      /\ host'.active => IF host.active THEN host'.id = host.id ELSE host'.id > host.id
  BY DEF HostOK, Moves, IInv, VariablesTyped
<1>4. PeersInPlace'
  BY <1>3 DEF IInv, PeersInPlace, VariablesTyped, IsJoinBarrierBlocking
<1>5. IdsGrow
  BY <1>3 DEF IdsGrow, IInv, VariablesTyped
<1> QED
  BY <1>1, <1>2, <1>4, <1>5 DEF Keeps, IInv

-----------------------------------------------------------------------------
(* Packets that leave a link, packets that are put on one.                 *)

\* The host takes a packet from p's link.
LEMMA ReceiveFromPeerLinks ==
    ASSUME LinksTyped, NEW p \in Peer, NEW m \in Arriving(toHost[p]), ReceiveFromPeer(p)
    PROVE  /\ m \in Contents(toHost[p])
           /\ DOMAIN toHost' = Peer
           /\ \A q \in Peer : /\ IsLink(toHost'[q])
                              /\ Contents(toHost'[q]) \subseteq Contents(toHost[q])
<1>1. /\ m \in Contents(toHost[p])
      /\ IsLink(Rest(toHost[p])) /\ Contents(Rest(toHost[p])) \subseteq Contents(toHost[p])
  BY ContentsOfRest DEF LinksTyped
<1>2. toHost' = [toHost EXCEPT ![p] = Rest(toHost[p])] /\ DOMAIN toHost = Peer
  BY DEF ReceiveFromPeer, LinksTyped
<1>3. \A q \in Peer : IsLink(toHost[q])
  BY DEF LinksTyped
<1> QED
  BY <1>1, <1>2, <1>3

\* p takes a packet from its link and puts its answer on the other.
LEMMA ReceiveFromHostLinks ==
    ASSUME LinksTyped, NEW p \in Peer, NEW m \in Arriving(toPeer[p]),
           NEW answer, IsSequence(answer), ReceiveFromHost(p, answer)
    PROVE  /\ m \in Contents(toPeer[p])
           /\ LinksTyped'
           /\ \A q \in Peer : Contents(toPeer'[q]) \subseteq Contents(toPeer[q])
           /\ \A q \in Peer : Contents(toHost'[q]) \subseteq
                 IF q = p THEN Contents(toHost[q]) \cup Range(answer)
                          ELSE Contents(toHost[q])
<1>1. /\ m \in Contents(toPeer[p])
      /\ IsLink(Rest(toPeer[p])) /\ Contents(Rest(toPeer[p])) \subseteq Contents(toPeer[p])
  BY ContentsOfRest DEF LinksTyped
<1>2. /\ IsLink(Put(toHost[p], answer))
      /\ Contents(Put(toHost[p], answer)) = Contents(toHost[p]) \cup Range(answer)
  BY ContentsOfPut DEF LinksTyped
<1>3. /\ toPeer' = [toPeer EXCEPT ![p] = Rest(toPeer[p])]
      /\ toHost' = [toHost EXCEPT ![p] = Put(toHost[p], answer)]
      /\ DOMAIN toPeer = Peer /\ DOMAIN toHost = Peer
  BY DEF ReceiveFromHost, LinksTyped
<1>4. \A q \in Peer : IsLink(toPeer[q]) /\ IsLink(toHost[q])
  BY DEF LinksTyped
<1>5. LinksTyped'
  BY <1>1, <1>2, <1>3, <1>4 DEF LinksTyped
<1>6. \A q \in Peer : Contents(toPeer'[q]) \subseteq Contents(toPeer[q])
  BY <1>1, <1>3
<1>7. \A q \in Peer : Contents(toHost'[q]) \subseteq
         IF q = p THEN Contents(toHost[q]) \cup Range(answer) ELSE Contents(toHost[q])
  BY <1>2, <1>3
<1> QED
  BY <1>1, <1>5, <1>6, <1>7

\* The host sends packets to the registered endpoints.
LEMMA SendToPeersLinks ==
    ASSUME LinksTyped, NEW packets, DOMAIN packets = Peer,
           \A p \in Peer : IsSequence(packets[p]),
           SendToPeers(packets), toHost' = toHost
    PROVE  /\ LinksTyped'
           /\ \A p \in Peer : Contents(toPeer'[p]) \subseteq
                                 Contents(toPeer[p]) \cup Range(packets[p])
<1>1. ASSUME NEW p \in Peer
      PROVE  /\ IsLink(toPeer'[p])
             /\ Contents(toPeer'[p]) \subseteq Contents(toPeer[p]) \cup Range(packets[p])
  <2>1. toPeer'[p] = IF p \in remotes THEN Put(toPeer[p], packets[p]) ELSE toPeer[p]
    BY DEF SendToPeers
  <2> QED
    BY <2>1, ContentsOfPut DEF LinksTyped
<1>2. DOMAIN toPeer' = Peer
  BY DEF SendToPeers
<1> QED
  BY <1>1, <1>2 DEF LinksTyped

-----------------------------------------------------------------------------
(* The host's pump.                                                        *)

\* The host has received a packet and perhaps answered it.
LEMMA HostReceivesOne ==
    ASSUME IInv, NEW p \in Peer, NEW m \in Arriving(toHost[p]), ReceiveFromPeer(p),
           HostOK(host'), Moves(host, host', nextId), nextId' = nextId,
           host'.transfer < nextId, Answered, peer' = peer,
           \/ toPeer' = toPeer
           \/ \E answer : /\ answer.kind \notin BarrierKind \cup {"Chunk"}
                          /\ answer.kind # "SnapshotAck"
                          /\ toPeer' = [toPeer EXCEPT ![p] = Put(@, <<answer>>)]
    PROVE  Keeps
<1>1. LinksTyped /\ nextId \in Nat \ {0} /\ host.transfer < nextId
  BY DEF IInv, VariablesTyped
<1>2. /\ DOMAIN toHost' = Peer
      /\ \A q \in Peer : /\ IsLink(toHost'[q])
                         /\ Contents(toHost'[q]) \subseteq Contents(toHost[q])
  BY <1>1, ReceiveFromPeerLinks
<1>3. /\ LinksTyped'
      /\ \A q \in Peer : \A k \in Contents(toPeer'[q]) :
            \/ k \in Contents(toPeer[q])
            \/ k.kind \notin BarrierKind \cup {"Chunk", "SnapshotAck"}
  <2>1. CASE toPeer' = toPeer
    BY <1>1, <1>2, <2>1 DEF LinksTyped
  <2>2. ASSUME NEW answer, answer.kind \notin BarrierKind \cup {"Chunk"},
               answer.kind # "SnapshotAck",
               toPeer' = [toPeer EXCEPT ![p] = Put(@, <<answer>>)]
        PROVE  <1>3!1 /\ <1>3!2
    <3>1. IsSequence(<<answer>>) /\ Range(<<answer>>) = {answer}
      BY RangeOfTuples
    <3>2. /\ IsLink(Put(toPeer[p], <<answer>>))
          /\ Contents(Put(toPeer[p], <<answer>>)) = Contents(toPeer[p]) \cup {answer}
      BY <1>1, <3>1, ContentsOfPut DEF LinksTyped
    <3>3. LinksTyped'
      BY <1>1, <1>2, <2>2, <3>2 DEF LinksTyped
    <3>4. ASSUME NEW q \in Peer, NEW k \in Contents(toPeer'[q])
          PROVE  k \in Contents(toPeer[q]) \/ k = answer
      BY <1>1, <2>2, <3>2, <3>4 DEF LinksTyped
    <3> QED
      BY <2>2, <3>3, <3>4
  <2> QED
    BY <2>1, <2>2
<1>4. NewPacketsInPlace
  BY <1>2, <1>3 DEF NewPacketsInPlace, PacketOfBarrier, PacketOfTransfer
<1> QED
  BY <1>1, <1>3, <1>4, HostMoves

\* A barrier raised, or found raised, with the transfer under way.
LEMMA RaisedMoves ==
    ASSUME IInv, Raised(host, host')
    PROVE  /\ HostOK(host') /\ Moves(host, host', nextId)
           /\ host'.transfer < nextId /\ Answered
  BY DEF IInv, VariablesTyped, Raised, Moves, Answered

\* The barrier stays, with other lists.
LEMMA SameMoves ==
    ASSUME IInv, SameBarrier(host, host')
    PROVE  /\ HostOK(host') /\ Moves(host, host', nextId)
           /\ host'.transfer < nextId /\ Answered
<1>1. HostOK(host) /\ host.id \in Nat /\ host.id >= host.id
  BY DEF IInv, VariablesTyped, HostOK
<1> QED
  BY <1>1 DEF IInv, VariablesTyped, SameBarrier, Moves, Answered

\* A join request, refused or answered.
LEMMA JoinRequestKeeps ==
    ASSUME IInv, NEW p \in Peer, HandleJoinRequestAsHost(p)
    PROVE  Keeps
<1> DEFINE request == [kind |-> "JoinRequest"]
           refusal == [kind |-> "JoinPending"]
           accept  == [kind |-> "JoinAccept", frame |-> frame[Host]]
           answer  == IF p \in OtherContent THEN refusal ELSE accept
<1>1. /\ request \in Arriving(toHost[p]) /\ ReceiveFromPeer(p)
      /\ toPeer' = [toPeer EXCEPT ![p] = Put(@, <<answer>>)]
      /\ nextId' = nextId /\ peer' = peer
  BY DEF HandleJoinRequestAsHost, peerVars
<1>2. /\ answer.kind \notin BarrierKind \cup {"Chunk"}
      /\ answer.kind # "SnapshotAck"
  BY DEF BarrierKind
<1>3. HostOK(host)
  BY DEF IInv, VariablesTyped
<1>4. \/ SameBarrier(host, host')
      \/ Raised(host, host')
  <2>1. CASE p \in OtherContent
    BY <1>3, <2>1 DEF HandleJoinRequestAsHost, SameBarrier
  <2>2. CASE p \notin OtherContent
    <3>1. \/ host' = BeginJoinBarrierCatchup(host, p)
          \/ host' = BeginJoinBarrierTopologyChange(host, remotes, p)
      BY <2>2 DEF HandleJoinRequestAsHost
    <3> QED
      BY <1>3, <3>1, MovesOfCatchup, MovesOfTopologyChange
  <2> QED
    BY <2>1, <2>2
<1>5. /\ HostOK(host') /\ Moves(host, host', nextId)
      /\ host'.transfer < nextId /\ Answered
  BY <1>4, RaisedMoves, SameMoves
<1> HIDE DEF answer, request
<1> QED
  BY <1>1, <1>2, <1>5, HostReceivesOne

\* Players removed: a transfer to one of them ends with its endpoint.
LEMMA RemovalMoves ==
    ASSUME IInv, NEW players, RemoveRemotePlayers(players)
    PROVE  /\ HostOK(host') /\ Moves(host, host', nextId)
           /\ host'.transfer < nextId /\ Answered
           /\ nextId' = nextId /\ peer' = peer /\ toPeer' = toPeer
<1>1. /\ remotes' = remotes \ players
      /\ host' = BeginJoinBarrierTopologyRemoval(host, remotes', players)
      /\ nextId' = nextId /\ peer' = peer /\ toPeer' = toPeer
  BY DEF RemoveRemotePlayers, peerVars
<1>2. HostOK(host) /\ nextId \in Nat \ {0}
  BY DEF IInv, VariablesTyped
<1>3. \/ Raised(host, host')
      \/ /\ host.target \in players
         /\ HostOK(host') /\ host'.active /\ host'.id >= host.id
         /\ IF host.active THEN host'.id = host.id ELSE host'.id > host.id
         /\ host'.transfer = 0
  BY <1>1, <1>2, MovesOfTopologyRemoval
<1>4. CASE Raised(host, host')
  BY <1>1, <1>4, RaisedMoves
<1>5. CASE ~Raised(host, host')
  BY <1>1, <1>2, <1>3, <1>5 DEF Moves, Answered
<1> QED
  BY <1>4, <1>5

\* A leave notice.
LEMMA LeaveNoticeKeeps ==
    ASSUME IInv, NEW p \in Peer, HandleLeaveNoticeAsHost(p)
    PROVE  Keeps
<1>1. PICK m \in Arriving(toHost[p]) :
         RemoveRemotePlayers(m.players) /\ ReceiveFromPeer(p)
  BY DEF HandleLeaveNoticeAsHost
<1> QED
  BY <1>1, RemovalMoves, HostReceivesOne

\* An endpoint that is silent for too long.
LEMMA TimeOutKeeps ==
    ASSUME IInv, NEW p \in Peer, CleanupTimedOutRemoteEndpoints(p)
    PROVE  Keeps
<1>1. RemoveRemotePlayers({p}) /\ toHost' = toHost
  BY DEF CleanupTimedOutRemoteEndpoints
<1>2. /\ HostOK(host') /\ Moves(host, host', nextId)
      /\ host'.transfer < nextId /\ Answered
      /\ nextId' = nextId /\ peer' = peer /\ toPeer' = toPeer
  BY <1>1, RemovalMoves
<1>3. LinksTyped' /\ NewPacketsInPlace /\ nextId \in Nat
  BY <1>1, <1>2 DEF IInv, VariablesTyped, LinksTyped, NewPacketsInPlace
<1> QED
  BY <1>2, <1>3, HostMoves

\* A phase is set.
LEMMA MovesOfPhase ==
    ASSUME NEW h, HostOK(h), NEW x, x # "None", x = "ReadyToResume" => h.transfer = 0
    PROVE  LET h2 == [h EXCEPT !.phase = x]
           IN  /\ HostOK(h2) /\ h2.phase = x
               /\ h2.active = h.active /\ h2.id = h.id
               /\ h2.transfer = h.transfer /\ h2.target = h.target
  BY DEF HostOK, HostFields

\* An acknowledgement of a snapshot, of this transfer or another.
LEMMA SnapshotAckKeeps ==
    ASSUME IInv, NEW p \in Peer, HandleSnapshotResyncAck(p)
    PROVE  Keeps
<1> DEFINE idle == ClearJoinBarrierTransfer(host)
<1>1. PICK m \in Arriving(toHost[p]) :
         /\ m.kind = "SnapshotAck"
         /\ host' = IF ~AnswersTransfer(m) THEN host
                    ELSE IF m.success THEN [idle EXCEPT !.phase = PhaseWhenIdle(idle)]
                    ELSE [QueueJoinBarrierPeer(idle, p) EXCEPT !.phase = "WaitingForCatchup"]
         /\ ReceiveFromPeer(p)
         /\ nextId' = nextId /\ peer' = peer /\ toPeer' = toPeer
  BY DEF HandleSnapshotResyncAck, peerVars
<1>2. HostOK(host) /\ nextId \in Nat \ {0}
  BY DEF IInv, VariablesTyped
<1>3. m \in Contents(toHost[p])
  BY <1>1, ReceiveFromPeerLinks DEF IInv, VariablesTyped
<1>4. CASE ~AnswersTransfer(m)
  <2>1. SameBarrier(host, host')
    BY <1>1, <1>2, <1>4 DEF SameBarrier
  <2> QED
    BY <1>1, <2>1, SameMoves, HostReceivesOne
<1>5. CASE AnswersTransfer(m)
  <2>1. /\ HostOK(idle) /\ idle.active = host.active /\ idle.id = host.id
        /\ idle.transfer = 0
    BY <1>2, MovesOfClearTransfer
  <2> HIDE DEF idle
  <2>2. HostOK(host') /\ host'.active = host.active /\ host'.id = host.id /\ host'.transfer = 0
    <3>1. CASE m.success
      BY <1>1, <1>5, <2>1, <3>1, MovesOfPhase DEF PhaseWhenIdle
    <3>2. CASE ~m.success
      <4> DEFINE queued == QueueJoinBarrierPeer(idle, p)
      <4>1. SameBarrier(idle, queued)
        BY <2>1, MovesOfQueue
      <4>2. /\ HostOK(queued) /\ queued.active = host.active /\ queued.id = host.id
            /\ queued.transfer = 0
        BY <2>1, <4>1 DEF SameBarrier
      <4>3. host' = [queued EXCEPT !.phase = "WaitingForCatchup"]
        BY <1>1, <1>5, <3>2
      <4> HIDE DEF queued
      <4> QED
        BY <4>2, <4>3, MovesOfPhase
    <3> QED
      BY <3>1, <3>2
  <2>3. p = host.target /\ m.transfer = host.transfer
    BY <1>1, <1>3, <1>5 DEF IInv, PacketsInPlace, PacketOfTransfer, AnswersTransfer
  <2>4. Answered
    BY <1>1, <1>3, <2>3 DEF Answered
  <2>5. Moves(host, host', nextId) /\ host'.transfer < nextId
    BY <1>2, <2>2 DEF Moves, HostOK
  <2> QED
    BY <1>1, <2>2, <2>4, <2>5, HostReceivesOne
<1> QED
  BY <1>4, <1>5

\* An acknowledgement of a topology, of this barrier or another.
LEMMA TopologyAckKeeps ==
    ASSUME IInv, NEW p \in Peer, HandleJoinBarrierTopologyAck(p)
    PROVE  Keeps
<1> DEFINE answered == [host EXCEPT !.awaited = @ \ {p}]
           queued   == QueueJoinBarrierPeer(answered, p)
<1>1. PICK m \in Arriving(toHost[p]) :
         /\ host' = IF ~host.active \/ m.id # host.id THEN host
                    ELSE IF ~m.success THEN [queued EXCEPT !.phase = "WaitingForCatchup"]
                    ELSE IF JoinBarrierReadyToResume(answered)
                      THEN [answered EXCEPT !.phase = "ReadyToResume"]
                    ELSE answered
         /\ ReceiveFromPeer(p)
         /\ nextId' = nextId /\ peer' = peer /\ toPeer' = toPeer
  BY DEF HandleJoinBarrierTopologyAck, peerVars
<1>2. HostOK(host) /\ host.id \in Nat /\ nextId \in Nat \ {0} /\ host.transfer < nextId
  BY DEF IInv, VariablesTyped, HostOK
<1>3. SameBarrier(host, answered)
  BY <1>2, MovesOfLists
<1>4. HostOK(answered)
  BY <1>3 DEF SameBarrier
<1> HIDE DEF answered
<1>5. SameBarrier(answered, queued) /\ HostOK(queued)
  BY <1>4, MovesOfQueue DEF SameBarrier
<1> HIDE DEF queued
<1>6. JoinBarrierReadyToResume(answered) => answered.transfer = 0
  BY DEF JoinBarrierReadyToResume
<1>7. /\ HostOK(host') /\ host'.active = host.active /\ host'.id = host.id
      /\ host'.transfer = host.transfer /\ host'.target = host.target
  <2>1. CASE host' = host
    BY <1>2, <2>1
  <2>2. CASE host' = [queued EXCEPT !.phase = "WaitingForCatchup"]
    BY <1>3, <1>5, <2>2, MovesOfPhase DEF SameBarrier
  <2>3. CASE /\ JoinBarrierReadyToResume(answered)
             /\ host' = [answered EXCEPT !.phase = "ReadyToResume"]
    BY <1>3, <1>4, <1>6, <2>3, MovesOfPhase DEF SameBarrier
  <2>4. CASE host' = answered
    BY <1>3, <2>4 DEF SameBarrier
  <2> QED
    BY <1>1, <2>1, <2>2, <2>3, <2>4
<1>8. /\ Moves(host, host', nextId) /\ Answered /\ host'.transfer < nextId
  BY <1>2, <1>7 DEF Moves, Answered
<1> QED
  BY <1>1, <1>7, <1>8, HostReceivesOne

-----------------------------------------------------------------------------
(* The host's tick.                                                        *)

InPlaceAfter(p, m) == PacketOfBarrier(host', m) /\ PacketOfTransfer(host', nextId', p, m)

\* A tick of the host that sends packets which are in place.
LEMMA TickKeeps ==
    ASSUME IInv, HostOK(host'), Moves(host, host', nextId),
           nextId' \in Nat, nextId' >= nextId, host'.transfer < nextId',
           Answered, peer' = peer, toHost' = toHost,
           NEW packets, DOMAIN packets = Peer, SendToPeers(packets),
           \A p \in Peer : /\ IsSequence(packets[p])
                           /\ \A m \in Range(packets[p]) : InPlaceAfter(p, m)
    PROVE  Keeps
<1>1. /\ LinksTyped'
      /\ \A p \in Peer : Contents(toPeer'[p]) \subseteq
                            Contents(toPeer[p]) \cup Range(packets[p])
  BY SendToPeersLinks DEF IInv, VariablesTyped
<1>2. NewPacketsInPlace
  BY <1>1 DEF NewPacketsInPlace, InPlaceAfter
<1> QED
  BY <1>1, <1>2, HostMoves

\* Packets of this barrier, sent by a host whose barrier still stands.
LEMMA BarrierPacketsInPlace ==
    ASSUME IInv, host.active, host'.id \in Nat, host'.id >= host.id, NEW p
    PROVE  /\ InPlaceAfter(p, Topology(host)) /\ InPlaceAfter(p, Status(host))
           /\ ~host'.active => InPlaceAfter(p, Resume(host))
<1>1. host.id \in Nat /\ host.phase # "None"
  BY DEF IInv, VariablesTyped, HostOK
<1> QED
  BY <1>1 DEF InPlaceAfter, PacketOfBarrier, PacketOfTransfer, BarrierKind,
              Topology, Status, Resume

\* A new status of it.
LEMMA StatusInPlace ==
    ASSUME NEW h, h.id \in Nat, h.id <= host'.id, host'.id \in Nat, h.phase # "None", NEW p
    PROVE  InPlaceAfter(p, Status(h))
  BY DEF InPlaceAfter, PacketOfBarrier, PacketOfTransfer, BarrierKind, Status

\* What the host sends p about the topology.
LEMMA TopologyForPackets ==
    ASSUME NEW h, NEW p
    PROVE  IsSequence(TopologyFor(h, p)) /\ Range(TopologyFor(h, p)) \subseteq {Topology(h)}
  BY RangeOfTuples DEF TopologyFor

\* The host resumes: no transfer is under way.
LEMMA ResumeKeeps ==
    ASSUME IInv, ResumeEverybody
    PROVE  Keeps
<1> DEFINE packets == [p \in Peer |-> <<Status(host), Resume(host)>>]
<1>1. /\ host.active /\ host.phase = "ReadyToResume" /\ SendToPeers(packets)
      /\ host' = ClearJoinBarrier(host)
      /\ nextId' = nextId /\ peer' = peer /\ toHost' = toHost
  BY DEF ResumeEverybody, CanSend, peerVars
<1>2. HostOK(host) /\ host.transfer = 0 /\ host.id \in Nat /\ nextId \in Nat \ {0}
  BY <1>1 DEF IInv, VariablesTyped, HostOK
<1>3. HostOK(host') /\ ~host'.active /\ host'.id = host.id /\ host'.transfer = 0
  BY <1>1, <1>2, MovesOfClear
<1>4. Moves(host, host', nextId) /\ Answered /\ host'.transfer < nextId'
  BY <1>1, <1>2, <1>3 DEF Moves, Answered
<1>5. ASSUME NEW p \in Peer
      PROVE  /\ IsSequence(packets[p])
             /\ \A m \in Range(packets[p]) : InPlaceAfter(p, m)
  <2>1. InPlaceAfter(p, Status(host)) /\ InPlaceAfter(p, Resume(host))
    BY <1>1, <1>2, <1>3, BarrierPacketsInPlace
  <2> QED
    BY <2>1, RangeOfTuples
<1>6. DOMAIN packets = Peer
  OBVIOUS
<1> HIDE DEF packets
<1> QED
  BY <1>1, <1>2, <1>3, <1>4, <1>5, <1>6, TickKeeps

\* The host waits for acknowledgements.
LEMMA WaitForAcksKeeps ==
    ASSUME IInv, WaitForAcks
    PROVE  Keeps
<1> DEFINE packets == [p \in Peer |-> TopologyFor(host, p) \o <<Status(host')>>]
<1>1. /\ host.active /\ host.transfer = 0 /\ SendToPeers(packets)
      /\ host' = [host EXCEPT !.phase = PhaseWhenIdle(host)]
      /\ nextId' = nextId /\ peer' = peer /\ toHost' = toHost
  BY DEF WaitForAcks, CanSend, peerVars
<1>2. HostOK(host) /\ host.id \in Nat /\ nextId \in Nat \ {0}
  BY <1>1 DEF IInv, VariablesTyped, HostOK
<1>3. PhaseWhenIdle(host) # "None"
  BY DEF PhaseWhenIdle
<1>4. /\ HostOK(host') /\ host'.phase # "None"
      /\ host'.active = host.active /\ host'.id = host.id
      /\ host'.transfer = host.transfer /\ host'.target = host.target
  <2> DEFINE x == PhaseWhenIdle(host)
  <2> HIDE DEF x
  <2>1. x # "None" /\ (x = "ReadyToResume" => host.transfer = 0)
    BY <1>1, <1>3 DEF x
  <2>2. host' = [host EXCEPT !.phase = x]
    BY <1>1 DEF x
  <2> QED
    BY <1>2, <2>1, <2>2, MovesOfPhase
<1>5. Moves(host, host', nextId) /\ Answered /\ host'.transfer < nextId'
  BY <1>1, <1>2, <1>4 DEF Moves, Answered
<1>6. ASSUME NEW p \in Peer
      PROVE  /\ IsSequence(packets[p])
             /\ \A m \in Range(packets[p]) : InPlaceAfter(p, m)
  <2>1. InPlaceAfter(p, Topology(host)) /\ InPlaceAfter(p, Status(host'))
    <3>1. host'.id \in Nat /\ host'.id >= host.id /\ host'.id <= host'.id
      BY <1>2, <1>4
    <3>2. InPlaceAfter(p, Topology(host))
      BY <1>1, <3>1, BarrierPacketsInPlace
    <3>3. InPlaceAfter(p, Status(host'))
      BY <1>4, <3>1, StatusInPlace
    <3> QED
      BY <3>2, <3>3
  <2>2. /\ IsSequence(TopologyFor(host, p)) /\ IsSequence(<<Status(host')>>)
        /\ Range(TopologyFor(host, p)) \subseteq {Topology(host)}
        /\ Range(<<Status(host')>>) = {Status(host')}
    BY RangeOfTuples, TopologyForPackets
  <2> QED
    BY <2>1, <2>2, RangeOfConcatenation
<1>7. DOMAIN packets = Peer
  OBVIOUS
<1> HIDE DEF packets
<1> QED
  BY <1>1, <1>2, <1>4, <1>5, <1>6, <1>7, TickKeeps

\* A transfer starts with an id that no packet has.
LEMMA StartNextTransferKeeps ==
    ASSUME IInv, StartNextTransfer
    PROVE  Keeps
<1> DEFINE p       == Head(host.queue)
           dropped == [host EXCEPT !.queue = Tail(@), !.phase = "WaitingForCatchup"]
           started == [dropped EXCEPT
                         !.target = p, !.phase = "SendingSnapshot", !.transfer = nextId,
                         !.snapshot = [frame |-> frame[Host], sim |-> sim[Host]]]
           toStart == [q \in Peer |-> TopologyFor(host, q) \o <<Status(started)>>]
           toDrop  == [q \in Peer |-> TopologyFor(host, q)]
<1>1. /\ host.active /\ host.transfer = 0 /\ peer' = peer /\ toHost' = toHost
      /\ \/ host' = started /\ nextId' = nextId + 1 /\ SendToPeers(toStart)
         \/ host' = dropped /\ nextId' = nextId /\ SendToPeers(toDrop)
  BY DEF StartNextTransfer, CanSend, peerVars
<1>2. /\ HostOK(host) /\ host.id \in Nat /\ host.id >= host.id /\ host.id <= host.id
      /\ nextId \in Nat \ {0}
  BY <1>1 DEF IInv, VariablesTyped, HostOK
<1>3. /\ HostOK(dropped) /\ dropped.active = host.active /\ dropped.id = host.id
      /\ dropped.transfer = 0
  BY <1>1, <1>2 DEF HostOK, HostFields
<1>4. /\ HostOK(started) /\ started.active = host.active /\ started.id = host.id
      /\ started.transfer = nextId /\ started.phase = "SendingSnapshot"
  BY <1>1, <1>2 DEF HostOK, HostFields
<1> HIDE DEF p, started, dropped
<1>5. ASSUME NEW q
      PROVE  /\ IsSequence(TopologyFor(host, q)) /\ IsSequence(<<Status(started)>>)
             /\ Range(TopologyFor(host, q)) \subseteq {Topology(host)}
             /\ Range(<<Status(started)>>) = {Status(started)}
  BY RangeOfTuples, TopologyForPackets
<1>6. CASE host' = started /\ nextId' = nextId + 1 /\ SendToPeers(toStart)
  <2>1. /\ Moves(host, host', nextId) /\ Answered
        /\ nextId' \in Nat /\ nextId' >= nextId /\ host'.transfer < nextId'
    BY <1>1, <1>2, <1>4, <1>6 DEF Moves, Answered
  <2>2. ASSUME NEW q \in Peer
        PROVE  /\ IsSequence(toStart[q])
               /\ \A m \in Range(toStart[q]) : InPlaceAfter(q, m)
    <3>1. InPlaceAfter(q, Topology(host))
      BY <1>1, <1>2, <1>4, <1>6, BarrierPacketsInPlace
    <3>2. InPlaceAfter(q, Status(started))
      BY <1>2, <1>4, <1>6, StatusInPlace
    <3> QED
      BY <1>5, <3>1, <3>2, RangeOfConcatenation
  <2>3. DOMAIN toStart = Peer
    OBVIOUS
  <2> HIDE DEF toStart
  <2> QED
    BY <1>1, <1>4, <1>6, <2>1, <2>2, <2>3, TickKeeps
<1>7. CASE host' = dropped /\ nextId' = nextId /\ SendToPeers(toDrop)
  <2>1. /\ Moves(host, host', nextId) /\ Answered
        /\ nextId' \in Nat /\ nextId' >= nextId /\ host'.transfer < nextId'
    BY <1>1, <1>2, <1>3, <1>7 DEF Moves, Answered
  <2>2. ASSUME NEW q \in Peer
        PROVE  /\ IsSequence(toDrop[q])
               /\ \A m \in Range(toDrop[q]) : InPlaceAfter(q, m)
    <3>1. InPlaceAfter(q, Topology(host))
      BY <1>1, <1>2, <1>3, <1>7, BarrierPacketsInPlace
    <3> QED
      BY <1>5, <3>1
  <2>3. DOMAIN toDrop = Peer
    OBVIOUS
  <2> HIDE DEF toDrop
  <2> QED
    BY <1>1, <1>3, <1>7, <2>1, <2>2, <2>3, TickKeeps
<1> QED
  BY <1>1, <1>6, <1>7

\* The snapshot is sent again, or its target has gone.
LEMMA ContinueTransferKeeps ==
    ASSUME IInv, ContinueTransfer
    PROVE  Keeps
<1> DEFINE sent    == [host EXCEPT !.phase = "WaitingForAck"]
           idle    == ClearJoinBarrierTransfer(host)
           gone    == [idle EXCEPT !.phase = "WaitingForCatchup"]
           last(q) == IF q = host.target THEN <<Chunk(host)>> ELSE <<>>
           toSend  == [q \in Peer |-> TopologyFor(host, q) \o <<Status(host)>>
                                       \o last(q) \o <<Status(sent)>>]
           toDrop  == [q \in Peer |-> TopologyFor(host, q)]
<1>1. /\ host.active /\ host.transfer # 0 /\ peer' = peer /\ toHost' = toHost
      /\ nextId' = nextId /\ remotes' = remotes
      /\ \/ host' = sent /\ SendToPeers(toSend)
         \/ host.target \notin remotes /\ host' = gone /\ SendToPeers(toDrop)
  BY DEF ContinueTransfer, CanSend, peerVars
<1>2. /\ HostOK(host) /\ host.id \in Nat /\ host.id >= host.id /\ host.id <= host.id
      /\ nextId \in Nat \ {0} /\ host.transfer < nextId /\ host.transfer \in Nat \ {0}
      /\ nextId \in Nat /\ nextId >= nextId
  BY <1>1 DEF IInv, VariablesTyped, HostOK
<1>3. /\ HostOK(sent) /\ sent.phase = "WaitingForAck"
      /\ sent.active = host.active /\ sent.id = host.id
      /\ sent.transfer = host.transfer /\ sent.target = host.target
  BY <1>2, MovesOfPhase
<1>4. /\ HostOK(gone) /\ gone.active = host.active /\ gone.id = host.id
      /\ gone.transfer = 0
  <2>1. /\ HostOK(idle) /\ idle.active = host.active /\ idle.id = host.id
        /\ idle.transfer = 0
    BY <1>2, MovesOfClearTransfer
  <2> HIDE DEF idle
  <2> QED
    BY <2>1, MovesOfPhase
<1> HIDE DEF sent, gone
<1>5. ASSUME NEW q
      PROVE  /\ IsSequence(TopologyFor(host, q))
             /\ Range(TopologyFor(host, q)) \subseteq {Topology(host)}
  BY TopologyForPackets
<1>6. CASE host' = sent /\ SendToPeers(toSend)
  <2>1. Moves(host, host', nextId) /\ Answered /\ host'.transfer < nextId'
    BY <1>1, <1>2, <1>3, <1>6 DEF Moves, Answered
  <2>2. ASSUME NEW q \in Peer
        PROVE  /\ IsSequence(toSend[q])
               /\ \A m \in Range(toSend[q]) : InPlaceAfter(q, m)
    <3>1. InPlaceAfter(q, Topology(host)) /\ InPlaceAfter(q, Status(host))
      BY <1>1, <1>2, <1>3, <1>6, BarrierPacketsInPlace
    <3>2. InPlaceAfter(q, Status(sent))
      BY <1>2, <1>3, <1>6, StatusInPlace
    <3>3. q = host.target => InPlaceAfter(q, Chunk(host))
      BY <1>1, <1>2, <1>3, <1>6
         DEF InPlaceAfter, PacketOfBarrier, PacketOfTransfer, BarrierKind, Chunk
    <3>4. /\ IsSequence(<<Status(host)>>) /\ Range(<<Status(host)>>) = {Status(host)}
          /\ IsSequence(<<Status(sent)>>) /\ Range(<<Status(sent)>>) = {Status(sent)}
      BY RangeOfTuples
    <3>5. IsSequence(last(q)) /\ \A m \in Range(last(q)) : InPlaceAfter(q, m)
      BY <3>3, RangeOfTuples
    <3> HIDE DEF last
    <3>6. LET s == TopologyFor(host, q) \o <<Status(host)>>
          IN  IsSequence(s) /\ \A m \in Range(s) : InPlaceAfter(q, m)
      BY <1>5, <3>1, <3>4, RangeOfConcatenation
    <3>7. LET s == TopologyFor(host, q) \o <<Status(host)>> \o last(q)
          IN  IsSequence(s) /\ \A m \in Range(s) : InPlaceAfter(q, m)
      BY <3>5, <3>6, RangeOfConcatenation
    <3>8. LET s == TopologyFor(host, q) \o <<Status(host)>> \o last(q) \o <<Status(sent)>>
          IN  IsSequence(s) /\ \A m \in Range(s) : InPlaceAfter(q, m)
      BY <3>2, <3>4, <3>7, RangeOfConcatenation
    <3> QED
      BY <3>8
  <2>3. DOMAIN toSend = Peer
    OBVIOUS
  <2> HIDE DEF toSend
  <2> QED
    BY <1>1, <1>2, <1>3, <1>6, <2>1, <2>2, <2>3, TickKeeps
<1>7. CASE host.target \notin remotes /\ host' = gone /\ SendToPeers(toDrop)
  <2>1. Moves(host, host', nextId) /\ Answered /\ host'.transfer < nextId'
    BY <1>1, <1>2, <1>4, <1>7 DEF Moves, Answered
  <2>2. ASSUME NEW q \in Peer
        PROVE  /\ IsSequence(toDrop[q])
               /\ \A m \in Range(toDrop[q]) : InPlaceAfter(q, m)
    <3>1. InPlaceAfter(q, Topology(host))
      BY <1>1, <1>2, <1>4, <1>7, BarrierPacketsInPlace
    <3> QED
      BY <1>5, <3>1
  <2>3. DOMAIN toDrop = Peer
    OBVIOUS
  <2> HIDE DEF toDrop
  <2> QED
    BY <1>1, <1>2, <1>4, <1>7, <2>1, <2>2, <2>3, TickKeeps
<1> QED
  BY <1>1, <1>6, <1>7

-----------------------------------------------------------------------------
(* The peers.                                                              *)

\* Peer p's fields after a step: its id is one it had or a packet's, and it
\* stands at the host's barrier if it knows of it.
PeerOK(p, fields) ==
    /\ DOMAIN fields = PeerFields
    /\ fields.id \in Nat /\ fields.id <= host.id
    /\ peer[p].where = "session" => fields.id >= peer[p].id
    /\ (host.active /\ fields.where = "session" /\ fields.id = host.id)
          => IsJoinBarrierBlocking(fields)

\* A step of peer p.
LEMMA PeerMoves ==
    ASSUME IInv, UNCHANGED hostVars, NEW p \in Peer,
           NEW fields, peer' = [peer EXCEPT ![p] = fields], PeerOK(p, fields),
           LinksTyped', NewPacketsInPlace
    PROVE  Keeps
<1>1. /\ host' = host /\ nextId' = nextId /\ HostOK(host) /\ nextId \in Nat \ {0}
      /\ host.id \in Nat /\ host.transfer < nextId /\ DOMAIN peer = Peer
  BY DEF hostVars, IInv, VariablesTyped, HostOK
<1>2. PacketsInPlace'
  <2>1. Moves(host, host', nextId) /\ HostOK(host') /\ nextId' \in Nat /\ nextId' >= nextId
    BY <1>1 DEF Moves
  <2> QED
    BY <2>1, PacketsStayInPlace
<1>3. \A q \in Peer : peer'[q] = IF q = p THEN fields ELSE peer[q]
  BY <1>1
<1>4. DOMAIN peer' = Peer
  BY <1>1
<1>5. VariablesTyped'
  BY <1>1, <1>3, <1>4 DEF IInv, VariablesTyped, PeerOK
<1>6. PeersInPlace'
  BY <1>1, <1>3 DEF IInv, PeersInPlace, PeerOK, IsJoinBarrierBlocking
<1>7. IdsGrow /\ Answered
  BY <1>1, <1>3 DEF IdsGrow, Answered, PeerOK, IInv, VariablesTyped
<1> QED
  BY <1>2, <1>5, <1>6, <1>7 DEF Keeps, IInv

\* The same fields, or fields in which nothing about the barrier changed.
LEMMA PeerStays ==
    ASSUME IInv, NEW p \in Peer, NEW fields, DOMAIN fields = PeerFields,
           fields.id = peer[p].id,
           fields.where = "session" => /\ peer[p].where = "session"
                                       /\ fields.active = peer[p].active
                                       /\ peer[p].phase # "None" => fields.phase # "None"
    PROVE  PeerOK(p, fields)
  BY DEF IInv, VariablesTyped, HostOK, PeersInPlace, PeerOK, IsJoinBarrierBlocking

\* p has received a packet of the host and answered it.
LEMMA PeerReceivesOne ==
    ASSUME IInv, UNCHANGED hostVars, NEW p \in Peer, NEW m \in Arriving(toPeer[p]),
           NEW answer, IsSequence(answer), ReceiveFromHost(p, answer),
           \A k \in Range(answer) :
              k.kind \notin BarrierKind /\ PacketOfTransfer(host, nextId, p, k),
           NEW fields, peer' = [peer EXCEPT ![p] = fields], PeerOK(p, fields)
    PROVE  Keeps
<1>1. /\ LinksTyped'
      /\ \A q \in Peer : Contents(toPeer'[q]) \subseteq Contents(toPeer[q])
      /\ \A q \in Peer : Contents(toHost'[q]) \subseteq
            IF q = p THEN Contents(toHost[q]) \cup Range(answer) ELSE Contents(toHost[q])
  BY ReceiveFromHostLinks DEF IInv, VariablesTyped
<1>2. host' = host /\ nextId' = nextId
  BY DEF hostVars
<1>3. NewPacketsInPlace
  BY <1>1, <1>2 DEF NewPacketsInPlace
<1> QED
  BY <1>1, <1>3, PeerMoves

\* A packet that arrives from the host is in place.
LEMMA ArrivingInPlace ==
    ASSUME IInv, NEW p \in Peer, NEW m \in Arriving(toPeer[p])
    PROVE  PacketOfBarrier(host, m) /\ PacketOfTransfer(host, nextId, p, m)
<1>1. m \in Contents(toPeer[p])
  BY ContentsOfRest DEF IInv, VariablesTyped, LinksTyped
<1> QED
  BY <1>1 DEF IInv, PacketsInPlace

\* A status of the last barrier p has seen or a later one.
LEMMA StatusKeeps ==
    ASSUME IInv, NEW p \in Peer, HandleJoinBarrierStatus(p)
    PROVE  Keeps
<1>1. PICK m \in Arriving(toPeer[p]) :
         /\ m.kind = "Status" /\ Accepts(p, m)
         /\ peer' = [peer EXCEPT ![p] =
               [peer[p] EXCEPT !.active = TRUE, !.id = m.id, !.phase = m.phase,
                               !.transfer = m.transfer]]
         /\ ReceiveFromHost(p, <<>>) /\ UNCHANGED hostVars
  BY DEF HandleJoinBarrierStatus
<1> DEFINE fields == [peer[p] EXCEPT !.active = TRUE, !.id = m.id, !.phase = m.phase,
                                     !.transfer = m.transfer]
<1>2. /\ m.id \in Nat /\ m.id <= host.id /\ m.phase # "None" /\ m.id >= peer[p].id
  BY <1>1, ArrivingInPlace DEF PacketOfBarrier, BarrierKind, Accepts
<1>3. DOMAIN peer[p] = PeerFields
  BY DEF IInv, VariablesTyped
<1>4. PeerOK(p, fields)
  BY <1>2, <1>3 DEF PeerOK, PeerFields, IsJoinBarrierBlocking
<1> HIDE DEF fields
<1>5. peer' = [peer EXCEPT ![p] = fields]
  BY <1>1 DEF fields
<1> QED
  BY <1>1, <1>4, <1>5, RangeOfTuples, PeerReceivesOne

\* A resume that p accepts is not of a barrier that stands.
LEMMA ResumeReceivedKeeps ==
    ASSUME IInv, NEW p \in Peer, HandleJoinBarrierResume(p)
    PROVE  Keeps
<1>1. PICK m \in Arriving(toPeer[p]) :
         /\ m.kind = "Resume" /\ Accepts(p, m)
         /\ peer' = [peer EXCEPT ![p] =
               [peer[p] EXCEPT !.active = FALSE, !.id = m.id, !.phase = "None",
                               !.transfer = 0]]
         /\ ReceiveFromHost(p, <<>>) /\ UNCHANGED hostVars
  BY DEF HandleJoinBarrierResume
<1> DEFINE fields == [peer[p] EXCEPT !.active = FALSE, !.id = m.id, !.phase = "None",
                                     !.transfer = 0]
<1>2. /\ m.id \in Nat /\ m.id <= host.id /\ m.id >= peer[p].id
      /\ host.active => m.id # host.id
  <2>1. /\ m.id \in Nat /\ m.id <= host.id /\ m.id >= peer[p].id
        /\ host.active => m.id < host.id
    BY <1>1, ArrivingInPlace DEF PacketOfBarrier, BarrierKind, Accepts
  <2>2. host.id \in Nat
    BY DEF IInv, VariablesTyped, HostOK
  <2> QED
    BY <2>1, <2>2
<1>3. DOMAIN peer[p] = PeerFields
  BY DEF IInv, VariablesTyped
<1>4. PeerOK(p, fields)
  BY <1>2, <1>3 DEF PeerOK, PeerFields, IsJoinBarrierBlocking
<1> HIDE DEF fields
<1>5. peer' = [peer EXCEPT ![p] = fields]
  BY <1>1 DEF fields
<1> QED
  BY <1>1, <1>4, <1>5, RangeOfTuples, PeerReceivesOne

\* The host's fields and the peers' do not change.
LEMMA NobodyMoves ==
    ASSUME IInv, UNCHANGED hostVars, peer' = peer, LinksTyped', NewPacketsInPlace
    PROVE  Keeps
<1>1. /\ host' = host /\ nextId' = nextId /\ HostOK(host) /\ nextId \in Nat \ {0}
      /\ host.id \in Nat /\ host.transfer < nextId
  BY DEF hostVars, IInv, VariablesTyped, HostOK
<1>2. Moves(host, host', nextId) /\ Answered
  BY <1>1 DEF Moves, Answered
<1> QED
  BY <1>1, <1>2, HostMoves

\* p has received a packet of the host, changed nothing, and answered it.
LEMMA PeerAnswersOnly ==
    ASSUME IInv, UNCHANGED hostVars, peer' = peer, NEW p \in Peer,
           NEW m \in Arriving(toPeer[p]),
           NEW answer, IsSequence(answer), ReceiveFromHost(p, answer),
           \A k \in Range(answer) :
              k.kind \notin BarrierKind /\ PacketOfTransfer(host, nextId, p, k)
    PROVE  Keeps
<1>1. /\ LinksTyped'
      /\ \A q \in Peer : Contents(toPeer'[q]) \subseteq Contents(toPeer[q])
      /\ \A q \in Peer : Contents(toHost'[q]) \subseteq
            IF q = p THEN Contents(toHost[q]) \cup Range(answer) ELSE Contents(toHost[q])
  BY ReceiveFromHostLinks DEF IInv, VariablesTyped
<1>2. host' = host /\ nextId' = nextId
  BY DEF hostVars
<1>3. NewPacketsInPlace
  BY <1>1, <1>2 DEF NewPacketsInPlace
<1> QED
  BY <1>1, <1>3, NobodyMoves

\* The topology: refused for want of a snapshot, or applied.
LEMMA TopologyKeeps ==
    ASSUME IInv, NEW p \in Peer, HandleJoinBarrierTopology(p)
    PROVE  Keeps
<1> DEFINE ack(m, success) ==
              [kind |-> "TopologyAck", id |-> m.id, success |-> success]
           fields(m) == [peer[p] EXCEPT !.active = TRUE, !.id = m.id,
                                        !.phase = "WaitingForResume"]
<1>1. PICK m \in Arriving(toPeer[p]) :
         /\ m.kind = "Topology" /\ Accepts(p, m) /\ UNCHANGED hostVars
         /\ \/ ReceiveFromHost(p, <<ack(m, FALSE)>>) /\ peer' = peer
            \/ /\ ReceiveFromHost(p, <<ack(m, TRUE)>>)
               /\ peer' = [peer EXCEPT ![p] = fields(m)]
  BY DEF HandleJoinBarrierTopology, peerVars
<1>2. /\ m.id \in Nat /\ m.id <= host.id /\ m.id >= peer[p].id
  BY <1>1, ArrivingInPlace DEF PacketOfBarrier, BarrierKind, Accepts
<1>3. DOMAIN peer[p] = PeerFields
  BY DEF IInv, VariablesTyped
<1>4. PeerOK(p, fields(m))
  BY <1>2, <1>3 DEF PeerOK, PeerFields, IsJoinBarrierBlocking
<1>5. ASSUME NEW success \in BOOLEAN
      PROVE  /\ IsSequence(<<ack(m, success)>>)
             /\ Range(<<ack(m, success)>>) = {ack(m, success)}
             /\ ack(m, success).kind \notin BarrierKind
             /\ PacketOfTransfer(host, nextId, p, ack(m, success))
  BY RangeOfTuples DEF BarrierKind, PacketOfTransfer
<1> HIDE DEF ack, fields
<1>6. CASE ReceiveFromHost(p, <<ack(m, FALSE)>>) /\ peer' = peer
  BY <1>1, <1>5, <1>6, PeerAnswersOnly
<1>7. CASE /\ ReceiveFromHost(p, <<ack(m, TRUE)>>)
           /\ peer' = [peer EXCEPT ![p] = fields(m)]
  BY <1>1, <1>4, <1>5, <1>7, PeerReceivesOne
<1> QED
  BY <1>1, <1>6, <1>7

\* A chunk, new or repeated: the answer is of the chunk's transfer, and a peer
\* that stands keeps a phase.
LEMMA ChunkKeeps ==
    ASSUME IInv, NEW p \in Peer, HandleSnapshotResyncChunk(p)
    PROVE  Keeps
<1> DEFINE ack(m, success) ==
              [kind |-> "SnapshotAck", transfer |-> m.transfer, success |-> success]
           fields(m, decoded, shown, transfer) ==
              [peer[p] EXCEPT !.acked = m.transfer, !.success = decoded,
                              !.fatal = ~decoded, !.phase = shown,
                              !.transfer = transfer]
<1>1. PICK m, success, decoded, shown, transfer :
         /\ m \in Arriving(toPeer[p]) /\ m.kind = "Chunk" /\ UNCHANGED hostVars
         /\ ReceiveFromHost(p, <<ack(m, success)>>)
         /\ shown = peer[p].phase \/ shown # "None"
         /\ \/ peer' = peer
            \/ peer' = [peer EXCEPT ![p] = fields(m, decoded, shown, transfer)]
  <2>1. PICK m \in Arriving(toPeer[p]), decoded \in Decodes :
           HandleSnapshotResyncChunk(p)!(m, decoded)
    BY DEF HandleSnapshotResyncChunk
  <2> DEFINE again   == peer[p].acked = m.transfer
             barrier == peer[p].active /\ peer[p].transfer \in {0, m.transfer}
             success == IF again THEN peer[p].success ELSE decoded
             shown   == IF ~barrier THEN peer[p].phase
                        ELSE IF decoded THEN "WaitingForResume" ELSE "WaitingForCatchup"
             transfer == IF barrier THEN m.transfer ELSE peer[p].transfer
  <2>2. /\ m.kind = "Chunk" /\ UNCHANGED hostVars
        /\ ReceiveFromHost(p, <<ack(m, success)>>)
        /\ \/ peer' = peer
           \/ peer' = [peer EXCEPT ![p] = fields(m, decoded, shown, transfer)]
    BY <2>1
  <2>3. shown = peer[p].phase \/ shown # "None"
    OBVIOUS
  <2> HIDE DEF again, barrier, success, shown, transfer, ack, fields
  <2> QED
    BY <2>2, <2>3
<1>2. PacketOfTransfer(host, nextId, p, m)
  BY <1>1, ArrivingInPlace
<1>3. DOMAIN peer[p] = PeerFields
  BY DEF IInv, VariablesTyped
<1>4. PeerOK(p, fields(m, decoded, shown, transfer))
  <2> DEFINE f == fields(m, decoded, shown, transfer)
  <2>1. /\ DOMAIN f = PeerFields /\ f.id = peer[p].id /\ f.where = peer[p].where
        /\ f.active = peer[p].active /\ f.phase = shown
    BY <1>3 DEF PeerFields
  <2> HIDE DEF f
  <2>2. PeerOK(p, f)
    BY <1>1, <2>1, PeerStays
  <2> QED
    BY <2>2 DEF f
<1>5. /\ IsSequence(<<ack(m, success)>>)
      /\ Range(<<ack(m, success)>>) = {ack(m, success)}
      /\ ack(m, success).kind \notin BarrierKind
      /\ PacketOfTransfer(host, nextId, p, ack(m, success))
  BY <1>1, <1>2, RangeOfTuples DEF BarrierKind, PacketOfTransfer
<1> HIDE DEF ack, fields
<1>6. CASE peer' = peer
  BY <1>1, <1>5, <1>6, PeerAnswersOnly
<1>7. CASE peer' = [peer EXCEPT ![p] = fields(m, decoded, shown, transfer)]
  BY <1>1, <1>4, <1>5, <1>7, PeerReceivesOne
<1> QED
  BY <1>1, <1>6, <1>7

\* Let in: a peer that is new to the session stands from the first moment.
LEMMA JoinAcceptKeeps ==
    ASSUME IInv, NEW p \in Peer, HandleJoinAcceptAsPeer(p)
    PROVE  Keeps
<1> DEFINE fields == [peer[p] EXCEPT !.where = "session", !.active = TRUE,
                        !.phase = "WaitingForCatchup", !.transfer = 0,
                        !.acked = 0, !.success = FALSE, !.fatal = FALSE]
<1>1. PICK m \in Arriving(toPeer[p]) :
         /\ peer[p].where = "joining" /\ peer' = [peer EXCEPT ![p] = fields]
         /\ ReceiveFromHost(p, <<>>) /\ UNCHANGED hostVars
  BY DEF HandleJoinAcceptAsPeer
<1>2. /\ DOMAIN peer[p] = PeerFields /\ peer[p].id \in Nat /\ peer[p].id <= host.id
  BY DEF IInv, VariablesTyped, PeersInPlace
<1>3. PeerOK(p, fields)
  BY <1>1, <1>2 DEF PeerOK, PeerFields, IsJoinBarrierBlocking
<1> HIDE DEF fields
<1> QED
  BY <1>1, <1>3, RangeOfTuples, PeerReceivesOne

\* A peer whose whereabouts change to one outside the session.
LEMMA OutsideIsOK ==
    ASSUME IInv, NEW p \in Peer, NEW where, where # "session", NEW requests
    PROVE  /\ PeerOK(p, [peer[p] EXCEPT !.where = where])
           /\ PeerOK(p, [peer[p] EXCEPT !.where = where, !.requests = requests])
<1>1. DOMAIN peer[p] = PeerFields
  BY DEF IInv, VariablesTyped
<1> DEFINE f == [peer[p] EXCEPT !.where = where]
           g == [peer[p] EXCEPT !.where = where, !.requests = requests]
<1>2. /\ DOMAIN f = PeerFields /\ f.id = peer[p].id /\ f.where = where
      /\ DOMAIN g = PeerFields /\ g.id = peer[p].id /\ g.where = where
  BY <1>1 DEF PeerFields
<1> HIDE DEF f, g
<1>3. PeerOK(p, f) /\ PeerOK(p, g)
  BY <1>2, PeerStays
<1> QED
  BY <1>3 DEF f, g

\* Refused.
LEMMA JoinPendingKeeps ==
    ASSUME IInv, NEW p \in Peer, HandleJoinPendingAsPeer(p)
    PROVE  Keeps
<1> DEFINE fields == [peer[p] EXCEPT !.where = "refused"]
           pending == [kind |-> "JoinPending"]
<1>1. /\ pending \in Arriving(toPeer[p]) /\ peer' = [peer EXCEPT ![p] = fields]
      /\ ReceiveFromHost(p, <<>>) /\ UNCHANGED hostVars
  BY DEF HandleJoinPendingAsPeer
<1>2. PeerOK(p, fields)
  BY OutsideIsOK
<1> HIDE DEF fields, pending
<1> QED
  BY <1>1, <1>2, RangeOfTuples, PeerReceivesOne

\* A packet that means nothing.
LEMMA DropKeeps ==
    ASSUME IInv, NEW p \in Peer, Drop(p)
    PROVE  Keeps
<1>1. PICK m \in Arriving(toPeer[p]) : ReceiveFromHost(p, <<>>)
  BY DEF Drop
<1>2. UNCHANGED hostVars /\ peer' = peer
  BY DEF Drop, peerVars
<1> QED
  BY <1>1, <1>2, RangeOfTuples, PeerAnswersOnly

\* A peer sends packets of its own accord.
LEMMA PeerSends ==
    ASSUME IInv, UNCHANGED hostVars, NEW p \in Peer,
           NEW packets, IsSequence(packets),
           \A k \in Range(packets) : k.kind \in {"JoinRequest", "LeaveNotice"},
           toHost' = [toHost EXCEPT ![p] = Put(@, packets)], toPeer' = toPeer,
           NEW fields, peer' = [peer EXCEPT ![p] = fields], PeerOK(p, fields)
    PROVE  Keeps
<1>1. LinksTyped
  BY DEF IInv, VariablesTyped
<1>2. /\ IsLink(Put(toHost[p], packets))
      /\ Contents(Put(toHost[p], packets)) = Contents(toHost[p]) \cup Range(packets)
  BY <1>1, ContentsOfPut DEF LinksTyped
<1>3. LinksTyped'
  BY <1>1, <1>2 DEF LinksTyped
<1>4. \A q \in Peer : \A k \in Contents(toHost'[q]) :
         k \in Contents(toHost[q]) \/ k.kind \in {"JoinRequest", "LeaveNotice"}
  BY <1>1, <1>2 DEF LinksTyped
<1>5. NewPacketsInPlace
  BY <1>4 DEF NewPacketsInPlace, PacketOfTransfer, BarrierKind
<1> QED
  BY <1>3, <1>5, PeerMoves

\* Asking to be let in.
LEMMA SendJoinRequestKeeps ==
    ASSUME IInv, NEW p \in Peer, SendJoinRequest(p)
    PROVE  Keeps
<1> DEFINE fields  == [peer[p] EXCEPT !.where = "joining", !.requests = peer[p].requests + 1]
           packets == <<[kind |-> "JoinRequest"]>>
<1>1. /\ peer' = [peer EXCEPT ![p] = fields] /\ toPeer' = toPeer /\ UNCHANGED hostVars
      /\ toHost' = [toHost EXCEPT ![p] = Put(@, packets)]
  BY DEF SendJoinRequest
<1>2. PeerOK(p, fields)
  BY OutsideIsOK
<1>3. IsSequence(packets) /\ Range(packets) = {[kind |-> "JoinRequest"]}
  BY RangeOfTuples
<1>4. \A k \in Range(packets) : k.kind \in {"JoinRequest", "LeaveNotice"}
  BY <1>3
<1> HIDE DEF fields, packets
<1> QED
  BY <1>1, <1>2, <1>3, <1>4, PeerSends

\* Leaving, with a notice or without.
LEMMA QuitKeeps ==
    ASSUME IInv, NEW p \in Peer, Quit(p)
    PROVE  Keeps
<1> DEFINE fields == [peer[p] EXCEPT !.where = "out"]
           local  == IF peer[p].where = "session" THEN {p} ELSE {Host}
           leave  == [kind |-> "LeaveNotice", players |-> local]
<1>1. /\ peer' = [peer EXCEPT ![p] = fields] /\ toPeer' = toPeer /\ UNCHANGED hostVars
  BY DEF Quit
<1>2. PICK sent \in {<<>>, <<leave>>} : toHost' = [toHost EXCEPT ![p] = Put(@, sent)]
  BY DEF Quit
<1>3. PeerOK(p, fields)
  BY OutsideIsOK
<1>4. leave.kind = "LeaveNotice"
  OBVIOUS
<1> HIDE DEF fields, leave
<1>5. IsSequence(sent) /\ \A k \in Range(sent) : k.kind \in {"JoinRequest", "LeaveNotice"}
  BY <1>4, RangeOfTuples
<1> QED
  BY <1>1, <1>2, <1>3, <1>5, PeerSends

-----------------------------------------------------------------------------
(* All steps.                                                              *)

\* Frames are stepped and inputs heard: nothing about the barrier changes.
LEMMA BarrierUntouched ==
    ASSUME IInv, UNCHANGED <<hostVars, peer, toPeer, toHost>>
    PROVE  Keeps
<1>1. LinksTyped' /\ NewPacketsInPlace
  BY DEF IInv, VariablesTyped, LinksTyped, NewPacketsInPlace
<1> QED
  BY <1>1, NobodyMoves

\* Every step.
LEMMA NextKeeps ==
    ASSUME IInv, [Next]_vars
    PROVE  Keeps
<1>1. CASE HostTicks
  BY <1>1, ResumeKeeps, WaitForAcksKeeps, StartNextTransferKeeps,
     ContinueTransferKeeps DEF HostTicks
<1>2. CASE HostSteps
  BY <1>2, BarrierUntouched DEF HostSteps, peerVars
<1>3. ASSUME NEW p \in Peer, HostReceives(p) PROVE Keeps
  BY <1>3, JoinRequestKeeps, LeaveNoticeKeeps, SnapshotAckKeeps,
     TopologyAckKeeps DEF HostReceives
<1>4. ASSUME NEW p \in Peer, PeerReceives(p) PROVE Keeps
  BY <1>4, JoinAcceptKeeps, JoinPendingKeeps, DropKeeps, StatusKeeps,
     TopologyKeeps, ChunkKeeps, ResumeReceivedKeeps DEF PeerReceives
<1>5. ASSUME NEW p \in Peer, PeerAdvances(p) PROVE Keeps
  BY <1>5, BarrierUntouched
     DEF PeerAdvances, HearInputs, RollbackSnapshotMissing, ReplayRollbackWindow, PeerSteps
<1>6. CASE UNCHANGED vars
  BY <1>6, BarrierUntouched DEF vars, peerVars
<1> QED
  BY <1>1, <1>2, <1>3, <1>4, <1>5, <1>6, TimeOutKeeps, SendJoinRequestKeeps,
     QuitKeeps DEF Next

\* A session in play is in order.
LEMMA InitOK == Init => IInv
<1> SUFFICES ASSUME Init PROVE IInv
  OBVIOUS
<1>1. PICK barriers \in {0, 1} :
         /\ host = [active |-> FALSE, id |-> barriers, phase |-> "None", queue |-> <<>>,
                    awaited |-> {}, joined |-> {}, removed |-> {},
                    target |-> Nobody, transfer |-> 0, snapshot |-> NoSnapshot]
         /\ peer = [p \in Peer |->
               [where |-> IF p \in Initial THEN "session" ELSE "new", active |-> FALSE,
                id |-> IF p \in Initial THEN barriers ELSE 0, phase |-> "None",
                transfer |-> 0, acked |-> 0, success |-> FALSE, fatal |-> FALSE,
                requests |-> 0]]
  BY DEF Init
<1>2. HostOK(host) /\ host.transfer = 0 /\ ~host.active /\ host.id = barriers
  BY <1>1 DEF HostOK, HostFields
<1>3. nextId \in Nat \ {0}
  <2>1. Cardinality(Initial) \in Nat
    BY PeerAssumption, FS_Subset, FS_CardinalityType
  <2> QED
    BY <2>1 DEF Init
<1>4. /\ DOMAIN peer = Peer
      /\ \A p \in Peer : /\ DOMAIN peer[p] = PeerFields
                         /\ peer[p].id \in Nat /\ peer[p].id <= barriers
  BY <1>1 DEF PeerFields
<1>5. /\ DOMAIN toPeer = Peer /\ DOMAIN toHost = Peer
      /\ \A p \in Peer : toPeer[p] = EmptyLink /\ toHost[p] = EmptyLink
  BY DEF Init
<1>6. IsLink(EmptyLink) /\ Contents(EmptyLink) = {}
  BY RangeOfTuples DEF IsLink, Contents, EmptyLink
<1>7. VariablesTyped
  BY <1>2, <1>3, <1>4, <1>5, <1>6 DEF VariablesTyped, LinksTyped
<1>8. PacketsInPlace
  BY <1>5, <1>6 DEF PacketsInPlace
<1>9. PeersInPlace
  BY <1>2, <1>4 DEF PeersInPlace
<1> QED
  BY <1>7, <1>8, <1>9 DEF IInv

\* In every reachable state the packets under way are of barriers and
\* transfers known to the host, and a peer that knows of its barrier stands.
THEOREM Invariance == Spec => []IInv
<1>1. IInv /\ [Next]_vars => IInv'
  BY NextKeeps DEF Keeps
<1> QED
  BY <1>1, InitOK, PTL DEF Spec

\* While the host's barrier stands, a peer that has heard of it stands, however
\* late, often or disordered the packets of earlier barriers arrive
\* (HandleJoinBarrierResume, HandleJoinBarrierStatus).
THEOREM PeersStandAtTheBarrier == Spec => NobodyLeavesEarly
<1> DEFINE StandsStill ==
       \A p \in Peer :
          (/\ host.active /\ host'.active
           /\ peer[p].where = "session" /\ peer[p].id = host.id)
          => peer'[p].where # "session" \/ IsJoinBarrierBlocking(peer'[p])
<1>1. ASSUME IInv, [Next]_vars PROVE StandsStill
  <2>1. Keeps
    BY <1>1, NextKeeps
  <2>2. SUFFICES ASSUME NEW p \in Peer, host.active, host'.active,
                        peer[p].where = "session", peer[p].id = host.id,
                        peer'[p].where = "session"
                 PROVE  IsJoinBarrierBlocking(peer'[p])
    OBVIOUS
  <2>3. host'.id = host.id /\ peer'[p].id >= host.id
    BY <2>1, <2>2 DEF Keeps, IdsGrow
  <2>4. /\ host'.id \in Nat /\ peer'[p].id \in Nat /\ peer'[p].id <= host'.id
        /\ host'.active /\ peer'[p].where = "session" /\ peer'[p].id = host'.id
              => IsJoinBarrierBlocking(peer'[p])
    BY <2>1 DEF Keeps, IInv, VariablesTyped, HostOK, PeersInPlace
  <2> QED
    BY <2>2, <2>3, <2>4
<1>2. IInv /\ [Next]_vars => [StandsStill]_vars
  BY <1>1
<1> QED
  BY <1>2, Invariance, PTL DEF Spec, NobodyLeavesEarly

\* The host stops waiting for the peer a snapshot was sent to only when that
\* peer has answered this very transfer or has left
\* (HandleJoinBarrierSnapshotAck).
THEOREM TransfersAreAnswered == Spec => TransferIsAnswered
<1>1. IInv /\ [Next]_vars => [Answered]_vars
  BY NextKeeps DEF Keeps
<1>2. Spec => [][Answered]_vars
  BY <1>1, Invariance, PTL DEF Spec
<1> QED
  BY <1>2 DEF TransferIsAnswered, Answered

-----------------------------------------------------------------------------
(* Types.  A transfer, a place in a list of the barrier and an             *)
(* acknowledgement waited for are of registered endpoints; frames and      *)
(* players come with packets.                                              *)

\* The host's fields h when rem are its endpoints.
HostTyped(h, rem) ==
    /\ HostOK(h)
    /\ h.id <= MaxBarrier /\ h.phase \in Phase
    /\ h.queue \in Seq(Peer) /\ IsInjective(h.queue)
    /\ h.awaited \subseteq rem /\ h.joined \subseteq rem /\ h.removed \subseteq Peer
    /\ h.target \in rem \cup {Nobody}
    /\ h.transfer = 0 <=> h.target = Nobody
    /\ h.transfer # 0 => h.snapshot.frame \in Frame

\* What a packet says of frames, phases and players.
PacketTyped(m) ==
    /\ m.kind \in {"JoinAccept", "Chunk", "Topology", "Resume"} => m.frame \in Frame
    /\ m.kind = "Status" => m.phase \in Phase
    /\ m.kind = "LeaveNotice" => m.players \subseteq Process
PacketsTyped ==
    \A p \in Peer : /\ \A m \in Contents(toPeer[p]) : PacketTyped(m)
                    /\ \A m \in Contents(toHost[p]) : PacketTyped(m)

HostSimTyped ==
    /\ Host \in DOMAIN sim /\ DOMAIN sim[Host] = {"log", "players"}
    /\ sim[Host].players = remotes \cup {Host}
FramesTyped ==
    /\ frame \in [Process -> Frame]
    /\ DOMAIN heard = Peer /\ DOMAIN requested = Peer
    /\ \A p \in Peer : /\ heard[p] \in 0 .. frame[Host]
                       /\ requested[p] \in Frame \cup {NoFrame}
PeersTyped ==
    \A p \in Peer :
        /\ peer[p].where \in {"new", "joining", "refused", "session", "out"}
        /\ peer[p].phase \in Phase

TInv ==
    /\ HostTyped(host, remotes) /\ remotes \subseteq Peer
    /\ HostSimTyped /\ FramesTyped /\ PeersTyped /\ PacketsTyped

LEMMA TInvImplies == IInv /\ TInv => TypeOK
  BY DEF IInv, TInv, VariablesTyped, PeersInPlace, HostTyped, HostOK, HostSimTyped,
         FramesTyped, PeersTyped, TypeOK


\* Queues of endpoints to be sent a snapshot.
LEMMA NoRepeatsIsInjective ==
    ASSUME NEW q \in Seq(Peer)
    PROVE  IsInjective(q) <=> NoRepeats(q)
  BY DEF IsInjective, NoRepeats

LEMMA TypedQueues ==
    /\ <<>> \in Seq(Peer) /\ IsInjective(<<>>)
    /\ \A q \in Seq(Peer) : IsInjective(q) =>
          /\ \A p \in Peer : p \notin Range(q) =>
                Append(q, p) \in Seq(Peer) /\ IsInjective(Append(q, p))
          /\ q # <<>> => /\ Head(q) \in Peer
                         /\ Tail(q) \in Seq(Peer) /\ IsInjective(Tail(q))
          /\ \A gone : Without(q, gone) \in Seq(Peer) /\ IsInjective(Without(q, gone))
<1>1. <<>> \in Seq(Peer) /\ IsInjective(<<>>)
  BY DEF IsInjective
<1> SUFFICES ASSUME NEW q \in Seq(Peer), IsInjective(q)
             PROVE  /\ \A p \in Peer : p \notin Range(q) =>
                          Append(q, p) \in Seq(Peer) /\ IsInjective(Append(q, p))
                    /\ q # <<>> => /\ Head(q) \in Peer
                                   /\ Tail(q) \in Seq(Peer) /\ IsInjective(Tail(q))
                    /\ \A gone : /\ Without(q, gone) \in Seq(Peer)
                                 /\ IsInjective(Without(q, gone))
  BY <1>1
<1>2. /\ DOMAIN q = 1 .. Len(q) /\ Len(q) \in Nat
      /\ \A i \in 1 .. Len(q) : q[i] \in Peer
      /\ \A i, j \in 1 .. Len(q) : q[i] = q[j] => i = j
  BY DEF IsInjective
<1>3. ASSUME NEW p \in Peer, p \notin Range(q)
      PROVE  Append(q, p) \in Seq(Peer) /\ IsInjective(Append(q, p))
  <2> DEFINE t == Append(q, p)
  <2>1. /\ t \in Seq(Peer) /\ DOMAIN t = 1 .. Len(q) + 1
        /\ \A k \in 1 .. Len(q) : t[k] = q[k]
        /\ t[Len(q) + 1] = p
    BY <1>2
  <2> HIDE DEF t
  <2>2. \A k \in 1 .. Len(q) : q[k] # p
    BY <1>2, <1>3 DEF Range
  <2>3. ASSUME NEW k \in 1 .. Len(q) + 1, NEW l \in 1 .. Len(q) + 1, t[k] = t[l]
        PROVE  k = l
    <3>1. /\ k \in 1 .. Len(q) \/ k = Len(q) + 1
          /\ l \in 1 .. Len(q) \/ l = Len(q) + 1
      BY <1>2
    <3>2. CASE k \in 1 .. Len(q) /\ l \in 1 .. Len(q)
      BY <1>2, <2>1, <2>3, <3>2
    <3>3. CASE k = Len(q) + 1 /\ l \in 1 .. Len(q)
      BY <2>1, <2>2, <2>3, <3>3
    <3>4. CASE k \in 1 .. Len(q) /\ l = Len(q) + 1
      BY <2>1, <2>2, <2>3, <3>4
    <3> QED
      BY <3>1, <3>2, <3>3, <3>4
  <2>4. IsInjective(t)
    BY <2>1, <2>3 DEF IsInjective
  <2> QED
    BY <2>1, <2>4 DEF t
<1>4. ASSUME q # <<>>
      PROVE  Head(q) \in Peer /\ Tail(q) \in Seq(Peer) /\ IsInjective(Tail(q))
  <2> DEFINE t == Tail(q)
  <2>1. /\ t \in Seq(Peer) /\ Len(t) = Len(q) - 1 /\ DOMAIN t = 1 .. Len(t)
        /\ \A i \in 1 .. Len(t) : t[i] = q[i + 1]
        /\ Head(q) \in Peer
    BY <1>2, <1>4
  <2> HIDE DEF t
  <2>2. ASSUME NEW k \in 1 .. Len(t), NEW l \in 1 .. Len(t), t[k] = t[l]
        PROVE  k = l
    <3>1. k + 1 \in 1 .. Len(q) /\ l + 1 \in 1 .. Len(q)
      BY <1>2, <2>1
    <3>2. q[k + 1] = q[l + 1]
      BY <2>1, <2>2
    <3>3. k + 1 = l + 1
      BY <1>2, <3>1, <3>2
    <3> QED
      BY <3>3
  <2>3. IsInjective(t)
    BY <2>1, <2>2 DEF IsInjective
  <2> QED
    BY <2>1, <2>3 DEF t
<1>5. ASSUME NEW gone
      PROVE  Without(q, gone) \in Seq(Peer) /\ IsInjective(Without(q, gone))
  <2>1. NoRepeats(q)
    BY NoRepeatsIsInjective
  <2>2. Without(q, gone) \in Seq(Peer) /\ NoRepeats(Without(q, gone))
    BY <2>1, WithoutProperties, WithoutRepeatsNothing
  <2> QED
    BY <2>2, NoRepeatsIsInjective
<1> QED
  BY <1>3, <1>4, <1>5

\* Clearing the transfer, or the whole barrier.
LEMMA ClearTyped ==
    ASSUME NEW h, NEW rem, HostTyped(h, rem)
    PROVE  /\ HostTyped(ClearJoinBarrierTransfer(h), rem)
           /\ ClearJoinBarrierTransfer(h).target = Nobody
           /\ HostTyped(ClearJoinBarrier(h), rem)
<1> DEFINE c == ClearJoinBarrierTransfer(h)
           d == ClearJoinBarrier(h)
<1>1. DOMAIN h = HostFields
  BY DEF HostTyped, HostOK
<1>2. /\ HostOK(c) /\ HostOK(d) /\ d.id = h.id /\ d.transfer = 0
  BY MovesOfClearTransfer, MovesOfClear DEF HostTyped
<1>3. /\ c.id = h.id /\ c.phase = h.phase /\ c.queue = h.queue /\ c.awaited = h.awaited
      /\ c.joined = h.joined /\ c.removed = h.removed
      /\ c.target = Nobody /\ c.transfer = 0
      /\ d.phase = "None" /\ d.queue = <<>> /\ d.awaited = {} /\ d.joined = {}
      /\ d.removed = {} /\ d.target = Nobody
  BY <1>1 DEF HostFields, ClearJoinBarrierTransfer, ClearJoinBarrier
<1> HIDE DEF c, d
<1>4. HostTyped(c, rem)
  BY <1>2, <1>3 DEF HostTyped
<1>5. HostTyped(d, rem)
  BY <1>2, <1>3, TypedQueues DEF HostTyped, Phase
<1> QED
  BY <1>3, <1>4, <1>5 DEF c, d

\* The lists of the barrier change.
LEMMA ListsTyped ==
    ASSUME NEW h, NEW rem, HostTyped(h, rem), NEW h2, SameBarrier(h, h2),
           h2.snapshot = h.snapshot,
           h2.queue \in Seq(Peer), IsInjective(h2.queue),
           NEW rem2, h2.awaited \subseteq rem2, h2.joined \subseteq rem2,
           h2.removed \subseteq Peer, h2.target \in rem2 \cup {Nobody}
    PROVE  HostTyped(h2, rem2)
  BY DEF HostTyped, SameBarrier

\* Queueing a peer (QueueJoinBarrierPeer).
LEMMA QueueTyped ==
    ASSUME NEW h, NEW rem, HostTyped(h, rem), NEW p \in Peer
    PROVE  HostTyped(QueueJoinBarrierPeer(h, p), rem)
<1> DEFINE h2 == [h EXCEPT !.queue = Append(@, p)]
<1>1. CASE p \in Range(h.queue)
  BY <1>1 DEF QueueJoinBarrierPeer
<1>2. CASE p \notin Range(h.queue)
  <2>1. DOMAIN h = HostFields /\ HostOK(h)
    BY DEF HostTyped, HostOK
  <2>2. h2.queue = Append(h.queue, p) /\ SameBarrier(h, h2)
    BY <2>1, MovesOfLists DEF HostFields
  <2>3. /\ h2.awaited = h.awaited /\ h2.joined = h.joined /\ h2.removed = h.removed
        /\ h2.snapshot = h.snapshot /\ h2.target = h.target
    BY <2>1 DEF HostFields
  <2>4. h2 = QueueJoinBarrierPeer(h, p)
    BY <1>2 DEF QueueJoinBarrierPeer
  <2> HIDE DEF h2
  <2>5. h2.queue \in Seq(Peer) /\ IsInjective(h2.queue)
    BY <1>2, <2>2, TypedQueues DEF HostTyped
  <2>6. HostTyped(h2, rem)
    BY <2>2, <2>3, <2>5, ListsTyped DEF HostTyped
  <2> QED
    BY <2>4, <2>6
<1> QED
  BY <1>1, <1>2

\* Raising a barrier, or finding one raised.
LEMMA RaiseTyped ==
    ASSUME NEW h, NEW rem, HostTyped(h, rem), h.active \/ h.id < MaxBarrier
    PROVE  HostTyped(RaiseBarrier(h), rem)
<1> DEFINE c  == ClearJoinBarrierTransfer(h)
           h2 == [c EXCEPT !.active = TRUE, !.id = @ + 1,
                           !.phase = "WaitingForCatchup", !.queue = <<>>]
<1>1. CASE h.active
  BY <1>1 DEF RaiseBarrier
<1>2. CASE ~h.active
  <2>1. HostTyped(c, rem) /\ c.target = Nobody
    BY ClearTyped
  <2>2. /\ DOMAIN c = HostFields /\ c.id = h.id /\ c.id \in Nat /\ c.transfer = 0
    BY MovesOfClearTransfer DEF HostOK, HostTyped
  <2>3. RaiseBarrier(h) = h2
    BY <1>2 DEF RaiseBarrier
  <2>4. HostOK(RaiseBarrier(h))
    BY MovesOfRaise DEF Raised, HostTyped
  <2> HIDE DEF c
  <2>5. /\ h2.id = c.id + 1 /\ h2.phase = "WaitingForCatchup" /\ h2.queue = <<>>
        /\ h2.awaited = c.awaited /\ h2.joined = c.joined /\ h2.removed = c.removed
        /\ h2.target = c.target /\ h2.transfer = 0
    BY <2>2 DEF HostFields
  <2> HIDE DEF h2
  <2>6. h2.id <= MaxBarrier
    BY <1>2, <2>2, <2>5, BoundAssumption
  <2>7. HostTyped(h2, rem)
    BY <2>1, <2>3, <2>4, <2>5, <2>6, TypedQueues DEF HostTyped, Phase
  <2> QED
    BY <2>3, <2>7
<1> QED
  BY <1>1, <1>2

\* A peer asks again (BeginJoinBarrierCatchup).
LEMMA CatchupTyped ==
    ASSUME NEW h, NEW rem, HostTyped(h, rem), h.active \/ h.id < MaxBarrier, NEW p \in Peer
    PROVE  HostTyped(BeginJoinBarrierCatchup(h, p), rem)
  BY RaiseTyped, QueueTyped DEF BeginJoinBarrierCatchup

\* A peer joins, and the others are to hear of it
\* (BeginJoinBarrierTopologyChange).
LEMMA TopologyChangeTyped ==
    ASSUME NEW h, NEW rem, HostTyped(h, rem), h.active \/ h.id < MaxBarrier, NEW p \in Peer
    PROVE  HostTyped(BeginJoinBarrierTopologyChange(h, rem, p), rem \cup {p})
<1> DEFINE h1 == RaiseBarrier(h)
           h2 == QueueJoinBarrierPeer(h1, p)
           h3 == [h2 EXCEPT !.joined = @ \cup {p}]
           joining == h3.joined \cup Range(h3.queue) \cup {h3.target}
           told == ({h3.target} \ {Nobody}) \cup (rem \ joining)
           h4 == [h3 EXCEPT !.awaited = @ \cup told]
<1>1. HostTyped(h2, rem)
  BY RaiseTyped, QueueTyped
<1>2. BeginJoinBarrierTopologyChange(h, rem, p) = h4
  <2>1. h4 = [h3 EXCEPT !.awaited = h3.awaited \cup ({h3.target} \ {Nobody}) \cup (rem \ joining)]
    <3> HIDE DEF h3, joining
    <3>1. h3.awaited \cup told = h3.awaited \cup ({h3.target} \ {Nobody}) \cup (rem \ joining)
      OBVIOUS
    <3> QED
      BY <3>1
  <2> QED
    BY <2>1 DEF BeginJoinBarrierTopologyChange
<1> HIDE DEF h2
<1>3. DOMAIN h2 = HostFields /\ HostOK(h2)
  BY <1>1 DEF HostTyped, HostOK
<1>4. SameBarrier(h2, h3)
  BY <1>3, MovesOfLists
<1>5. /\ h3.joined = h2.joined \cup {p} /\ h3.queue = h2.queue /\ h3.awaited = h2.awaited
      /\ h3.removed = h2.removed /\ h3.snapshot = h2.snapshot /\ h3.target = h2.target
  BY <1>3 DEF HostFields
<1> HIDE DEF h3
<1>6. HostTyped(h3, rem \cup {p})
  <2>1. h3.queue \in Seq(Peer) /\ IsInjective(h3.queue)
    BY <1>1, <1>5 DEF HostTyped
  <2>2. /\ h3.awaited \subseteq rem \cup {p} /\ h3.joined \subseteq rem \cup {p}
        /\ h3.removed \subseteq Peer /\ h3.target \in rem \cup {p} \cup {Nobody}
    BY <1>1, <1>5 DEF HostTyped
  <2> QED
    BY <1>1, <1>4, <1>5, <2>1, <2>2, ListsTyped
<1>7. DOMAIN h3 = HostFields /\ HostOK(h3)
  BY <1>6 DEF HostTyped, HostOK
<1>8. told \subseteq rem \cup {p}
  BY <1>6 DEF HostTyped
<1> HIDE DEF told
<1>9. SameBarrier(h3, h4)
  BY <1>7, MovesOfLists
<1>10. /\ h4.joined = h3.joined /\ h4.queue = h3.queue /\ h4.awaited = h3.awaited \cup told
       /\ h4.removed = h3.removed /\ h4.snapshot = h3.snapshot /\ h4.target = h3.target
  BY <1>7 DEF HostFields
<1> HIDE DEF h4
<1>11. HostTyped(h4, rem \cup {p})
  <2>1. h4.queue \in Seq(Peer) /\ IsInjective(h4.queue)
    BY <1>6, <1>10 DEF HostTyped
  <2>2. /\ h4.awaited \subseteq rem \cup {p} /\ h4.joined \subseteq rem \cup {p}
        /\ h4.removed \subseteq Peer /\ h4.target \in rem \cup {p} \cup {Nobody}
    BY <1>6, <1>8, <1>10 DEF HostTyped
  <2> QED
    BY <1>6, <1>9, <1>10, <2>1, <2>2, ListsTyped
<1> QED
  BY <1>2, <1>11

\* Players leave, and the others are to hear of it
\* (BeginJoinBarrierTopologyRemoval).
LEMMA TopologyRemovalTyped ==
    ASSUME NEW h, NEW rem, HostTyped(h, rem), h.active \/ h.id < MaxBarrier,
           rem \subseteq Peer, NEW players, players \subseteq Process
    PROVE  HostTyped(BeginJoinBarrierTopologyRemoval(h, rem \ players, players),
                     rem \ players)
<1> DEFINE h1 == RaiseBarrier(h)
           left == players \ {Host}
           rest == rem \ players
           h2 == Forget(h1, left)
           h3 == [h2 EXCEPT !.awaited = @ \cup rest]
<1>1. HostTyped(h1, rem) /\ h1.target = h.target
  <2>1. CASE h.active
    BY <2>1 DEF RaiseBarrier
  <2>2. CASE ~h.active
    <3>1. h.transfer = 0 /\ h.target = Nobody
      BY <2>2 DEF HostTyped, HostOK
    <3>2. HostTyped(h1, rem) /\ h1.transfer = h.transfer
      BY RaiseTyped, MovesOfRaise DEF HostTyped, Raised
    <3>3. h1.target = Nobody
      BY <3>1, <3>2 DEF HostTyped
    <3> QED
      BY <3>1, <3>2, <3>3
  <2> QED
    BY <2>1, <2>2
<1>2. BeginJoinBarrierTopologyRemoval(h, rest, players) =
         IF h.target \in players THEN ClearJoinBarrierTransfer(h3) ELSE h3
  BY DEF BeginJoinBarrierTopologyRemoval
<1>3. left \subseteq Peer /\ rest \subseteq rem /\ rem \ left \subseteq rest
  BY PeerAssumption DEF Process
<1> HIDE DEF h1, left, rest
<1>4. DOMAIN h1 = HostFields /\ HostOK(h1)
  BY <1>1 DEF HostTyped, HostOK
<1>5. SameBarrier(h1, h2)
  BY <1>4, MovesOfForget
<1>6. /\ h2.removed = h1.removed \cup left /\ h2.joined = h1.joined \ left
      /\ h2.queue = Without(h1.queue, left) /\ h2.awaited = h1.awaited \ left
      /\ h2.snapshot = h1.snapshot
  BY <1>4 DEF Forget, HostFields
<1> HIDE DEF h2
<1>7. HostTyped(h2, rem)
  <2>1. h2.queue \in Seq(Peer) /\ IsInjective(h2.queue)
    BY <1>1, <1>6, TypedQueues DEF HostTyped
  <2>2. /\ h2.awaited \subseteq rem /\ h2.joined \subseteq rem /\ h2.removed \subseteq Peer
        /\ h2.target \in rem \cup {Nobody}
    BY <1>1, <1>3, <1>5, <1>6 DEF HostTyped, SameBarrier
  <2> QED
    BY <1>1, <1>5, <1>6, <2>1, <2>2, ListsTyped
<1>8. DOMAIN h2 = HostFields /\ HostOK(h2)
  BY <1>7 DEF HostTyped, HostOK
<1>9. SameBarrier(h2, h3)
  BY <1>8, MovesOfLists
<1>10. /\ h3.removed = h2.removed /\ h3.joined = h2.joined /\ h3.queue = h2.queue
       /\ h3.awaited = h2.awaited \cup rest /\ h3.snapshot = h2.snapshot
  BY <1>8 DEF HostFields
<1> HIDE DEF h3
<1>11. h3.awaited \subseteq rest /\ h3.joined \subseteq rest
  BY <1>1, <1>3, <1>6, <1>10 DEF HostTyped
<1>12. HostTyped(h3, rem) /\ h3.target = h.target
  <2>1. h3.queue \in Seq(Peer) /\ IsInjective(h3.queue)
    BY <1>7, <1>10 DEF HostTyped
  <2>2. h3.target = h.target
    BY <1>1, <1>5, <1>9 DEF SameBarrier
  <2>3. /\ h3.awaited \subseteq rem /\ h3.joined \subseteq rem /\ h3.removed \subseteq Peer
        /\ h3.target \in rem \cup {Nobody}
    BY <1>3, <1>7, <1>10, <1>11, <2>2 DEF HostTyped, SameBarrier
  <2> QED
    BY <1>7, <1>9, <1>10, <2>1, <2>2, <2>3, ListsTyped
<1>13. CASE h.target \in players
  <2> DEFINE c == ClearJoinBarrierTransfer(h3)
  <2>1. HostTyped(c, rem) /\ c.target = Nobody
    BY <1>12, ClearTyped
  <2>2. DOMAIN h3 = HostFields
    BY <1>12 DEF HostTyped, HostOK
  <2>3. c.awaited = h3.awaited /\ c.joined = h3.joined
    BY <2>2 DEF ClearJoinBarrierTransfer, HostFields
  <2> HIDE DEF c
  <2>4. HostTyped(c, rest)
    BY <1>11, <2>1, <2>3 DEF HostTyped
  <2> QED
    BY <1>2, <1>13, <2>4 DEF c, rest
<1>14. CASE h.target \notin players
  <2>1. h3.target \in rest \cup {Nobody}
    BY <1>12, <1>14 DEF HostTyped, rest
  <2>2. HostTyped(h3, rest)
    BY <1>11, <1>12, <2>1 DEF HostTyped
  <2> QED
    BY <1>2, <1>14, <2>2 DEF rest
<1> QED
  BY <1>13, <1>14

-----------------------------------------------------------------------------
(* Packets stay typed when they are taken from links and put on them.      *)

\* The host takes a packet of p, and perhaps answers.
LEMMA HostReceivesTyped ==
    ASSUME LinksTyped, PacketsTyped, NEW p \in Peer, NEW m \in Arriving(toHost[p]),
           ReceiveFromPeer(p),
           \/ toPeer' = toPeer
           \/ \E answer : /\ PacketTyped(answer)
                          /\ toPeer' = [toPeer EXCEPT ![p] = Put(@, <<answer>>)]
    PROVE  PacketTyped(m) /\ PacketsTyped'
<1>1. /\ m \in Contents(toHost[p])
      /\ \A q \in Peer : Contents(toHost'[q]) \subseteq Contents(toHost[q])
  BY ReceiveFromPeerLinks
<1>2. ASSUME NEW q \in Peer, NEW k \in Contents(toPeer'[q]) PROVE PacketTyped(k)
  <2>1. CASE toPeer' = toPeer
    BY <1>2, <2>1 DEF PacketsTyped
  <2>2. ASSUME NEW answer, PacketTyped(answer),
               toPeer' = [toPeer EXCEPT ![p] = Put(@, <<answer>>)]
        PROVE  PacketTyped(k)
    <3>1. IsSequence(<<answer>>) /\ Range(<<answer>>) = {answer}
      BY RangeOfTuples
    <3>2. Contents(Put(toPeer[p], <<answer>>)) = Contents(toPeer[p]) \cup {answer}
      BY <3>1, ContentsOfPut DEF LinksTyped
    <3>3. k \in Contents(toPeer[q]) \/ k = answer
      BY <1>2, <2>2, <3>2 DEF LinksTyped
    <3> QED
      BY <2>2, <3>3 DEF PacketsTyped
  <2> QED
    BY <2>1, <2>2
<1> QED
  BY <1>1, <1>2 DEF PacketsTyped

\* p takes a packet of the host, and answers it.
LEMMA PeerReceivesTyped ==
    ASSUME LinksTyped, PacketsTyped, NEW p \in Peer, NEW m \in Arriving(toPeer[p]),
           NEW answer, IsSequence(answer), ReceiveFromHost(p, answer),
           \A k \in Range(answer) : PacketTyped(k)
    PROVE  PacketTyped(m) /\ PacketsTyped'
<1>1. /\ m \in Contents(toPeer[p])
      /\ \A q \in Peer : Contents(toPeer'[q]) \subseteq Contents(toPeer[q])
      /\ \A q \in Peer : Contents(toHost'[q]) \subseteq
            IF q = p THEN Contents(toHost[q]) \cup Range(answer) ELSE Contents(toHost[q])
  BY ReceiveFromHostLinks
<1>2. ASSUME NEW q \in Peer, NEW k \in Contents(toHost'[q]) PROVE PacketTyped(k)
  <2>1. k \in Contents(toHost[q]) \/ k \in Range(answer)
    BY <1>1, <1>2
  <2> QED
    BY <2>1 DEF PacketsTyped
<1> QED
  BY <1>1, <1>2 DEF PacketsTyped

\* The host sends packets to the registered endpoints.
LEMMA HostSendsTyped ==
    ASSUME LinksTyped, PacketsTyped, NEW packets, DOMAIN packets = Peer,
           \A p \in Peer : IsSequence(packets[p]) /\ \A m \in Range(packets[p]) : PacketTyped(m),
           SendToPeers(packets), toHost' = toHost
    PROVE  PacketsTyped'
<1>1. \A p \in Peer : Contents(toPeer'[p]) \subseteq Contents(toPeer[p]) \cup Range(packets[p])
  BY SendToPeersLinks
<1> QED
  BY <1>1 DEF PacketsTyped

\* p sends packets of its own accord.
LEMMA PeerSendsTyped ==
    ASSUME LinksTyped, PacketsTyped, NEW p \in Peer, NEW packets, IsSequence(packets),
           \A k \in Range(packets) : PacketTyped(k),
           toHost' = [toHost EXCEPT ![p] = Put(@, packets)], toPeer' = toPeer
    PROVE  PacketsTyped'
<1>1. Contents(Put(toHost[p], packets)) = Contents(toHost[p]) \cup Range(packets)
  BY ContentsOfPut DEF LinksTyped
<1>2. ASSUME NEW q \in Peer, NEW k \in Contents(toHost'[q]) PROVE PacketTyped(k)
  <2>1. k \in Contents(toHost[q]) \/ k \in Range(packets)
    BY <1>1, <1>2 DEF LinksTyped
  <2> QED
    BY <2>1 DEF PacketsTyped
<1> QED
  BY <1>2 DEF PacketsTyped

-----------------------------------------------------------------------------
(* The host's steps keep the types.                                        *)

\* A step of the host that takes no frame.
LEMMA HostStepTyped ==
    ASSUME TInv, HostTyped(host', remotes'), remotes' \subseteq Peer, HostSimTyped',
           PacketsTyped', UNCHANGED <<peerVars, frame>>
    PROVE  TInv'
  BY DEF TInv, FramesTyped, PeersTyped, peerVars

\* A phase is set.
LEMMA PhaseTyped ==
    ASSUME NEW h, NEW rem, HostTyped(h, rem), NEW x \in Phase, x # "None",
           x = "ReadyToResume" => h.transfer = 0
    PROVE  HostTyped([h EXCEPT !.phase = x], rem)
<1> DEFINE h2 == [h EXCEPT !.phase = x]
<1>1. DOMAIN h = HostFields /\ HostOK(h)
  BY DEF HostTyped, HostOK
<1>2. HostOK(h2) /\ h2.phase = x
  BY <1>1, MovesOfPhase
<1>3. /\ h2.id = h.id /\ h2.queue = h.queue /\ h2.awaited = h.awaited
      /\ h2.joined = h.joined /\ h2.removed = h.removed
      /\ h2.target = h.target /\ h2.transfer = h.transfer /\ h2.snapshot = h.snapshot
  BY <1>1 DEF HostFields
<1> HIDE DEF h2
<1> QED
  BY <1>2, <1>3 DEF HostTyped, h2

\* The players of the host's simulation change with its endpoints.
LEMMA HostPlayersTyped ==
    ASSUME HostSimTyped, NEW players,
           sim' = [sim EXCEPT ![Host].players = players], players = remotes' \cup {Host}
    PROVE  HostSimTyped'
  BY DEF HostSimTyped

\* A join request, refused or answered.
LEMMA JoinRequestTyped ==
    ASSUME IInv, TInv, NEW p \in Peer, HandleJoinRequestAsHost(p)
    PROVE  TInv'
<1> DEFINE request == [kind |-> "JoinRequest"]
           refusal == [kind |-> "JoinPending"]
           accept  == [kind |-> "JoinAccept", frame |-> frame[Host]]
           answer  == IF p \in OtherContent THEN refusal ELSE accept
<1>1. /\ request \in Arriving(toHost[p]) /\ ReceiveFromPeer(p)
      /\ toPeer' = [toPeer EXCEPT ![p] = Put(@, <<answer>>)]
      /\ UNCHANGED <<peerVars, frame>>
      /\ host.active \/ host.id < MaxBarrier
  BY DEF HandleJoinRequestAsHost
<1>2. frame[Host] \in Frame
  BY DEF TInv, FramesTyped, Process
<1>3. PacketTyped(answer)
  BY <1>2 DEF PacketTyped
<1>4. PacketsTyped'
  <2> HIDE DEF answer, request
  <2> QED
    BY <1>1, <1>3, HostReceivesTyped DEF IInv, VariablesTyped, TInv
<1>5. HostTyped(host, remotes) /\ HostSimTyped /\ remotes \subseteq Peer
  BY DEF TInv
<1>6. HostTyped(host', remotes') /\ remotes' \subseteq Peer /\ HostSimTyped'
  <2>1. CASE p \in OtherContent
    <3>1. UNCHANGED <<host, remotes, sim>>
      BY <2>1 DEF HandleJoinRequestAsHost
    <3> QED
      BY <1>5, <3>1 DEF HostSimTyped
  <2>2. CASE p \notin OtherContent
    <3>1. /\ host' = IF p \in remotes THEN BeginJoinBarrierCatchup(host, p)
                     ELSE BeginJoinBarrierTopologyChange(host, remotes, p)
          /\ remotes' = remotes \cup {p}
          /\ sim' = [sim EXCEPT ![Host].players = @ \cup {p}]
      BY <2>2 DEF HandleJoinRequestAsHost
    <3>2. HostTyped(host', remotes')
      <4>1. CASE p \in remotes
        <5>1. remotes' = remotes
          BY <3>1, <4>1
        <5> QED
          BY <1>1, <1>5, <3>1, <4>1, <5>1, CatchupTyped
      <4>2. CASE p \notin remotes
        BY <1>1, <1>5, <3>1, <4>2, TopologyChangeTyped
      <4> QED
        BY <4>1, <4>2
    <3>3. HostSimTyped'
      <4>1. sim' = [sim EXCEPT ![Host].players = sim[Host].players \cup {p}]
        BY <3>1
      <4>2. sim[Host].players \cup {p} = remotes' \cup {Host}
        BY <1>5, <3>1 DEF HostSimTyped
      <4> QED
        BY <1>5, <4>1, <4>2, HostPlayersTyped
    <3> QED
      BY <1>5, <3>1, <3>2, <3>3
  <2> QED
    BY <2>1, <2>2
<1> QED
  BY <1>1, <1>4, <1>6, HostStepTyped

\* Players are removed with their endpoints.
LEMMA RemovalTyped ==
    ASSUME TInv, NEW players, players \subseteq Process, RemoveRemotePlayers(players)
    PROVE  /\ HostTyped(host', remotes') /\ remotes' \subseteq Peer /\ HostSimTyped'
           /\ UNCHANGED <<peerVars, frame>> /\ toPeer' = toPeer
<1>1. /\ host.active \/ host.id < MaxBarrier
      /\ remotes' = remotes \ players
      /\ sim' = [sim EXCEPT ![Host].players = @ \ (players \ {Host})]
      /\ host' = BeginJoinBarrierTopologyRemoval(host, remotes \ players, players)
      /\ UNCHANGED <<peerVars, frame>> /\ toPeer' = toPeer
  BY DEF RemoveRemotePlayers
<1>2. HostTyped(host, remotes) /\ HostSimTyped /\ remotes \subseteq Peer
  BY DEF TInv
<1>3. HostTyped(host', remotes') /\ remotes' \subseteq Peer
  BY <1>1, <1>2, TopologyRemovalTyped
<1>4. sim[Host].players \ (players \ {Host}) = remotes' \cup {Host}
  BY <1>1, <1>2, PeerAssumption DEF HostSimTyped
<1>5. HostSimTyped'
  <2>1. sim' = [sim EXCEPT ![Host].players = sim[Host].players \ (players \ {Host})]
    BY <1>1
  <2> QED
    BY <1>2, <1>4, <2>1, HostPlayersTyped
<1> QED
  BY <1>1, <1>3, <1>5

\* A leave notice.
LEMMA LeaveNoticeTyped ==
    ASSUME IInv, TInv, NEW p \in Peer, HandleLeaveNoticeAsHost(p)
    PROVE  TInv'
<1>1. PICK m \in Arriving(toHost[p]) :
         /\ m.kind = "LeaveNotice" /\ RemoveRemotePlayers(m.players) /\ ReceiveFromPeer(p)
  BY DEF HandleLeaveNoticeAsHost
<1>2. toPeer' = toPeer
  BY <1>1 DEF RemoveRemotePlayers
<1>3. PacketTyped(m) /\ PacketsTyped'
  BY <1>1, <1>2, HostReceivesTyped DEF IInv, VariablesTyped, TInv
<1>4. m.players \subseteq Process
  BY <1>1, <1>3 DEF PacketTyped
<1> QED
  BY <1>1, <1>3, <1>4, RemovalTyped, HostStepTyped

\* An endpoint that is silent for too long.
LEMMA TimeOutTyped ==
    ASSUME TInv, NEW p \in Peer, CleanupTimedOutRemoteEndpoints(p)
    PROVE  TInv'
<1>1. RemoveRemotePlayers({p}) /\ toHost' = toHost /\ {p} \subseteq Process
  BY DEF CleanupTimedOutRemoteEndpoints, Process
<1>2. /\ HostTyped(host', remotes') /\ remotes' \subseteq Peer /\ HostSimTyped'
      /\ UNCHANGED <<peerVars, frame>> /\ toPeer' = toPeer
  BY <1>1, RemovalTyped
<1>3. PacketsTyped'
  BY <1>1, <1>2 DEF TInv, PacketsTyped
<1> QED
  BY <1>2, <1>3, HostStepTyped

\* A step of the host that leaves its endpoints alone.
LEMMA SameEndpointsTyped ==
    ASSUME TInv, HostTyped(host', remotes), PacketsTyped',
           UNCHANGED <<remotes, sim, peerVars, frame>>
    PROVE  TInv'
<1>1. HostTyped(host', remotes') /\ remotes' \subseteq Peer /\ HostSimTyped'
  BY DEF TInv, HostSimTyped
<1> QED
  BY <1>1, HostStepTyped

\* An acknowledgement of a snapshot.
LEMMA SnapshotAckTyped ==
    ASSUME IInv, TInv, NEW p \in Peer, HandleSnapshotResyncAck(p)
    PROVE  TInv'
<1> DEFINE idle == ClearJoinBarrierTransfer(host)
           queued == QueueJoinBarrierPeer(idle, p)
<1>1. PICK m \in Arriving(toHost[p]) :
         /\ host' = IF ~AnswersTransfer(m) THEN host
                    ELSE IF m.success THEN [idle EXCEPT !.phase = PhaseWhenIdle(idle)]
                    ELSE [queued EXCEPT !.phase = "WaitingForCatchup"]
         /\ ReceiveFromPeer(p)
         /\ UNCHANGED <<remotes, sim, peerVars, frame>> /\ toPeer' = toPeer
  BY DEF HandleSnapshotResyncAck
<1>2. PacketsTyped'
  BY <1>1, HostReceivesTyped DEF IInv, VariablesTyped, TInv
<1>3. HostTyped(host, remotes)
  BY DEF TInv
<1>4. HostTyped(idle, remotes)
  BY <1>3, ClearTyped
<1> HIDE DEF idle
<1>5. HostTyped(queued, remotes)
  BY <1>4, QueueTyped
<1> HIDE DEF queued
<1>6. HostTyped([idle EXCEPT !.phase = PhaseWhenIdle(idle)], remotes)
  <2> DEFINE x == PhaseWhenIdle(idle)
  <2>1. x \in Phase /\ x # "None" /\ (x = "ReadyToResume" => idle.transfer = 0)
    BY DEF PhaseWhenIdle, JoinBarrierReadyToResume, Phase
  <2> HIDE DEF x
  <2>2. HostTyped([idle EXCEPT !.phase = x], remotes)
    BY <1>4, <2>1, PhaseTyped
  <2> QED
    BY <2>2 DEF x
<1>7. HostTyped([queued EXCEPT !.phase = "WaitingForCatchup"], remotes)
  BY <1>5, PhaseTyped DEF Phase
<1>8. HostTyped(host', remotes)
  BY <1>1, <1>3, <1>6, <1>7
<1> QED
  BY <1>1, <1>2, <1>8, SameEndpointsTyped

\* An acknowledgement of a topology.
LEMMA TopologyAckTyped ==
    ASSUME IInv, TInv, NEW p \in Peer, HandleJoinBarrierTopologyAck(p)
    PROVE  TInv'
<1> DEFINE answered == [host EXCEPT !.awaited = @ \ {p}]
           queued   == QueueJoinBarrierPeer(answered, p)
<1>1. PICK m \in Arriving(toHost[p]) :
         /\ host' = IF ~host.active \/ m.id # host.id THEN host
                    ELSE IF ~m.success THEN [queued EXCEPT !.phase = "WaitingForCatchup"]
                    ELSE IF JoinBarrierReadyToResume(answered)
                      THEN [answered EXCEPT !.phase = "ReadyToResume"]
                    ELSE answered
         /\ ReceiveFromPeer(p)
         /\ UNCHANGED <<remotes, sim, peerVars, frame>> /\ toPeer' = toPeer
  BY DEF HandleJoinBarrierTopologyAck
<1>2. PacketsTyped'
  BY <1>1, HostReceivesTyped DEF IInv, VariablesTyped, TInv
<1>3. HostTyped(host, remotes)
  BY DEF TInv
<1>4. HostTyped(answered, remotes)
  <2>1. DOMAIN host = HostFields /\ HostOK(host)
    BY <1>3 DEF HostTyped, HostOK
  <2>2. SameBarrier(host, answered)
    BY <2>1, MovesOfLists
  <2>3. /\ answered.awaited = host.awaited \ {p} /\ answered.queue = host.queue
        /\ answered.joined = host.joined /\ answered.removed = host.removed
        /\ answered.snapshot = host.snapshot /\ answered.target = host.target
    BY <2>1 DEF HostFields
  <2> HIDE DEF answered
  <2>4. /\ answered.queue \in Seq(Peer) /\ IsInjective(answered.queue)
        /\ answered.awaited \subseteq remotes /\ answered.joined \subseteq remotes
        /\ answered.removed \subseteq Peer /\ answered.target \in remotes \cup {Nobody}
    BY <1>3, <2>3 DEF HostTyped
  <2> QED
    BY <1>3, <2>2, <2>3, <2>4, ListsTyped
<1> HIDE DEF answered
<1>5. HostTyped(queued, remotes)
  BY <1>4, QueueTyped
<1> HIDE DEF queued
<1>6. HostTyped([queued EXCEPT !.phase = "WaitingForCatchup"], remotes)
  BY <1>5, PhaseTyped DEF Phase
<1>7. JoinBarrierReadyToResume(answered) =>
         HostTyped([answered EXCEPT !.phase = "ReadyToResume"], remotes)
  BY <1>4, PhaseTyped DEF Phase, JoinBarrierReadyToResume
<1>8. HostTyped(host', remotes)
  BY <1>1, <1>3, <1>4, <1>6, <1>7
<1> QED
  BY <1>1, <1>2, <1>8, SameEndpointsTyped


-----------------------------------------------------------------------------
(* The host's tick keeps the types.                                        *)

\* What the host says of its barrier.
LEMMA BarrierPacketsTyped ==
    ASSUME TInv, NEW h, h.phase \in Phase
    PROVE  /\ PacketTyped(Topology(host)) /\ PacketTyped(Status(h)) /\ PacketTyped(Resume(host))
           /\ host.transfer # 0 => PacketTyped(Chunk(host))
<1>1. frame[Host] \in Frame
  BY DEF TInv, FramesTyped, Process
<1>2. host.transfer # 0 => host.snapshot.frame \in Frame
  BY DEF TInv, HostTyped
<1> QED
  BY <1>1, <1>2 DEF PacketTyped, Topology, Status, Resume, Chunk

\* Sequences of typed packets.
TypedPackets(s) == IsSequence(s) /\ \A m \in Range(s) : PacketTyped(m)

LEMMA TypedPacketsAppended ==
    ASSUME NEW s, TypedPackets(s), NEW m, PacketTyped(m)
    PROVE  TypedPackets(s \o <<m>>)
  BY RangeOfTuples, RangeOfConcatenation DEF TypedPackets

LEMMA TopologyForTyped ==
    ASSUME TInv, NEW p
    PROVE  TypedPackets(TopologyFor(host, p))
<1>1. PacketTyped(Topology(host))
  BY BarrierPacketsTyped DEF TInv, HostTyped
<1> QED
  BY <1>1, TopologyForPackets DEF TypedPackets

\* A tick of the host.
LEMMA TickTyped ==
    ASSUME IInv, TInv, NEW packets, DOMAIN packets = Peer,
           \A p \in Peer : TypedPackets(packets[p]),
           SendToPeers(packets), toHost' = toHost,
           HostTyped(host', remotes), UNCHANGED <<remotes, sim, peerVars, frame>>
    PROVE  TInv'
<1>1. PacketsTyped'
  BY HostSendsTyped DEF IInv, VariablesTyped, TInv, TypedPackets
<1> QED
  BY <1>1, SameEndpointsTyped

LEMMA ResumeTyped ==
    ASSUME IInv, TInv, ResumeEverybody
    PROVE  TInv'
<1> DEFINE packets == [p \in Peer |-> <<Status(host), Resume(host)>>]
<1>1. /\ SendToPeers(packets) /\ toHost' = toHost /\ host' = ClearJoinBarrier(host)
      /\ UNCHANGED <<remotes, sim, peerVars, frame>>
  BY DEF ResumeEverybody
<1>2. HostTyped(host, remotes) /\ host.phase \in Phase
  BY DEF TInv, HostTyped
<1>3. HostTyped(host', remotes)
  BY <1>1, <1>2, ClearTyped
<1>4. PacketTyped(Status(host)) /\ PacketTyped(Resume(host))
  BY <1>2, BarrierPacketsTyped
<1>5. DOMAIN packets = Peer /\ \A p \in Peer : TypedPackets(packets[p])
  BY <1>4, RangeOfTuples DEF TypedPackets
<1> HIDE DEF packets
<1> QED
  BY <1>1, <1>3, <1>5, TickTyped

LEMMA WaitForAcksTyped ==
    ASSUME IInv, TInv, WaitForAcks
    PROVE  TInv'
<1> DEFINE x == PhaseWhenIdle(host)
           packets == [p \in Peer |-> TopologyFor(host, p) \o <<Status(host')>>]
<1>1. /\ SendToPeers(packets) /\ toHost' = toHost /\ host' = [host EXCEPT !.phase = x]
      /\ UNCHANGED <<remotes, sim, peerVars, frame>>
  BY DEF WaitForAcks
<1>2. x \in Phase /\ x # "None" /\ (x = "ReadyToResume" => host.transfer = 0)
  BY DEF PhaseWhenIdle, JoinBarrierReadyToResume, Phase
<1> HIDE DEF x
<1>3. HostTyped(host', remotes)
  BY <1>1, <1>2, PhaseTyped DEF TInv
<1>4. PacketTyped(Status(host'))
  BY <1>3, BarrierPacketsTyped DEF HostTyped
<1>5. DOMAIN packets = Peer /\ \A p \in Peer : TypedPackets(packets[p])
  BY <1>4, TopologyForTyped, TypedPacketsAppended
<1> HIDE DEF packets
<1> QED
  BY <1>1, <1>3, <1>5, TickTyped

LEMMA StartNextTransferTyped ==
    ASSUME IInv, TInv, StartNextTransfer
    PROVE  TInv'
<1> DEFINE p       == Head(host.queue)
           dropped == [host EXCEPT !.queue = Tail(@), !.phase = "WaitingForCatchup"]
           snapshot == [frame |-> frame[Host], sim |-> sim[Host]]
           started == [dropped EXCEPT
                         !.target = p, !.phase = "SendingSnapshot", !.transfer = nextId,
                         !.snapshot = snapshot]
           toStart == [q \in Peer |-> TopologyFor(host, q) \o <<Status(started)>>]
           toDrop  == [q \in Peer |-> TopologyFor(host, q)]
<1>1. /\ host.active /\ host.transfer = 0 /\ toHost' = toHost /\ host.queue # <<>>
      /\ \/ p \in remotes /\ host' = started /\ SendToPeers(toStart)
         \/ host' = dropped /\ SendToPeers(toDrop)
      /\ UNCHANGED <<remotes, sim, peerVars, frame>>
  BY DEF StartNextTransfer, CanSend
<1>2. /\ HostTyped(host, remotes) /\ DOMAIN host = HostFields /\ HostOK(host)
      /\ remotes \subseteq Peer
  BY DEF TInv, HostTyped, HostOK
<1>3. nextId \in Nat \ {0} /\ snapshot.frame \in Frame
  BY DEF IInv, VariablesTyped, TInv, FramesTyped, Process
<1>4. HostTyped(dropped, remotes) /\ dropped.transfer = 0
  <2>1. /\ DOMAIN dropped = HostFields /\ dropped.queue = Tail(host.queue)
        /\ dropped.phase = "WaitingForCatchup" /\ dropped.active = host.active
        /\ dropped.id = host.id /\ dropped.awaited = host.awaited
        /\ dropped.joined = host.joined /\ dropped.removed = host.removed
        /\ dropped.target = host.target /\ dropped.transfer = host.transfer
    BY <1>2 DEF HostFields
  <2> HIDE DEF dropped
  <2>2. HostOK(dropped)
    BY <1>2, <2>1 DEF HostOK
  <2>3. dropped.queue \in Seq(Peer) /\ IsInjective(dropped.queue)
    BY <1>1, <1>2, <2>1, TypedQueues DEF HostTyped
  <2> QED
    BY <1>1, <1>2, <2>1, <2>2, <2>3 DEF HostTyped, Phase
<1>5. dropped.active = host.active /\ DOMAIN dropped = HostFields /\ HostOK(dropped)
  BY <1>2, <1>4 DEF HostFields, HostTyped
<1> HIDE DEF dropped, snapshot, p
<1>6. ASSUME p \in remotes PROVE HostTyped(started, remotes) /\ started.phase \in Phase
  <2>1. /\ DOMAIN started = HostFields /\ started.queue = dropped.queue
        /\ started.phase = "SendingSnapshot" /\ started.active = dropped.active
        /\ started.id = dropped.id /\ started.awaited = dropped.awaited
        /\ started.joined = dropped.joined /\ started.removed = dropped.removed
        /\ started.target = p /\ started.transfer = nextId /\ started.snapshot = snapshot
    BY <1>5 DEF HostFields
  <2> HIDE DEF started
  <2>2. HostOK(started)
    BY <1>1, <1>3, <1>5, <2>1 DEF HostOK
  <2>3. started.transfer # 0 /\ started.target # Nobody
    BY <1>2, <1>3, <1>6, <2>1, PeerAssumption
  <2> QED
    BY <1>3, <1>4, <1>6, <2>1, <2>2, <2>3 DEF HostTyped, Phase
<1> HIDE DEF started
<1>7. CASE p \in remotes /\ host' = started /\ SendToPeers(toStart)
  <2>1. HostTyped(host', remotes) /\ PacketTyped(Status(started))
    BY <1>6, <1>7, BarrierPacketsTyped
  <2>2. DOMAIN toStart = Peer /\ \A q \in Peer : TypedPackets(toStart[q])
    BY <2>1, TopologyForTyped, TypedPacketsAppended
  <2> HIDE DEF toStart
  <2> QED
    BY <1>1, <1>7, <2>1, <2>2, TickTyped
<1>8. CASE host' = dropped /\ SendToPeers(toDrop)
  <2>1. DOMAIN toDrop = Peer /\ \A q \in Peer : TypedPackets(toDrop[q])
    BY TopologyForTyped
  <2> HIDE DEF toDrop
  <2> QED
    BY <1>1, <1>4, <1>8, <2>1, TickTyped
<1> QED
  BY <1>1, <1>7, <1>8

LEMMA ContinueTransferTyped ==
    ASSUME IInv, TInv, ContinueTransfer
    PROVE  TInv'
<1> DEFINE sent    == [host EXCEPT !.phase = "WaitingForAck"]
           idle    == ClearJoinBarrierTransfer(host)
           gone    == [idle EXCEPT !.phase = "WaitingForCatchup"]
           last(q) == IF q = host.target THEN <<Chunk(host)>> ELSE <<>>
           toSend  == [q \in Peer |-> TopologyFor(host, q) \o <<Status(host)>>
                                       \o last(q) \o <<Status(sent)>>]
           toDrop  == [q \in Peer |-> TopologyFor(host, q)]
<1>1. /\ host.transfer # 0 /\ toHost' = toHost
      /\ \/ host' = sent /\ SendToPeers(toSend)
         \/ host' = gone /\ SendToPeers(toDrop)
      /\ UNCHANGED <<remotes, sim, peerVars, frame>>
  BY DEF ContinueTransfer
<1>2. HostTyped(host, remotes) /\ host.phase \in Phase
  BY DEF TInv, HostTyped
<1>3. HostTyped(sent, remotes) /\ HostTyped(idle, remotes)
  BY <1>2, PhaseTyped, ClearTyped DEF Phase
<1>4. sent.phase \in Phase
  BY <1>3 DEF HostTyped
<1> HIDE DEF sent, idle
<1>5. HostTyped(gone, remotes)
  BY <1>3, PhaseTyped DEF Phase
<1> HIDE DEF gone
<1>6. CASE host' = sent /\ SendToPeers(toSend)
  <2>1. PacketTyped(Status(host)) /\ PacketTyped(Status(sent)) /\ PacketTyped(Chunk(host))
    BY <1>1, <1>2, <1>4, BarrierPacketsTyped
  <2>2. ASSUME NEW q \in Peer PROVE TypedPackets(toSend[q])
    <3>1. TypedPackets(TopologyFor(host, q) \o <<Status(host)>>)
      BY <2>1, TopologyForTyped, TypedPacketsAppended
    <3>2. TypedPackets(last(q))
      BY <2>1, RangeOfTuples DEF TypedPackets
    <3> HIDE DEF last
    <3>3. TypedPackets(TopologyFor(host, q) \o <<Status(host)>> \o last(q))
      BY <3>1, <3>2, RangeOfConcatenation DEF TypedPackets
    <3>4. TypedPackets(TopologyFor(host, q) \o <<Status(host)>> \o last(q) \o <<Status(sent)>>)
      BY <2>1, <3>3, TypedPacketsAppended
    <3> QED
      BY <3>4
  <2>3. DOMAIN toSend = Peer
    OBVIOUS
  <2> HIDE DEF toSend
  <2> QED
    BY <1>1, <1>3, <1>6, <2>2, <2>3, TickTyped
<1>7. CASE host' = gone /\ SendToPeers(toDrop)
  <2>1. DOMAIN toDrop = Peer /\ \A q \in Peer : TypedPackets(toDrop[q])
    BY TopologyForTyped
  <2> HIDE DEF toDrop
  <2> QED
    BY <1>1, <1>5, <1>7, <2>1, TickTyped
<1> QED
  BY <1>1, <1>6, <1>7

\* The host steps a frame.
LEMMA HostStepsTyped ==
    ASSUME TInv, HostSteps
    PROVE  TInv'
<1>1. /\ frame[Host] < MaxFrame /\ frame' = [frame EXCEPT ![Host] = frame[Host] + 1]
      /\ sim' = [sim EXCEPT ![Host].log = Append(@, frame[Host])]
      /\ UNCHANGED <<hostVars, peerVars, toPeer, toHost>>
  BY DEF HostSteps
<1>2. /\ frame \in [Process -> Frame] /\ Host \in Process /\ frame[Host] \in Frame
      /\ frame[Host] + 1 \in Frame /\ frame[Host] \in Nat
  BY <1>1, BoundAssumption DEF TInv, FramesTyped, Process, Frame
<1>3. frame' \in [Process -> Frame] /\ frame'[Host] = frame[Host] + 1
  BY <1>1, <1>2
<1>4. HostSimTyped'
  BY <1>1 DEF TInv, HostSimTyped, hostVars
<1>5. FramesTyped'
  <2>1. heard' = heard /\ requested' = requested
    BY <1>1 DEF peerVars
  <2>2. \A p \in Peer : heard[p] \in 0 .. frame'[Host]
    BY <1>2, <1>3 DEF TInv, FramesTyped
  <2> QED
    BY <1>3, <2>1, <2>2 DEF TInv, FramesTyped
<1> QED
  BY <1>1, <1>4, <1>5 DEF TInv, hostVars, peerVars, PeersTyped, PacketsTyped


-----------------------------------------------------------------------------
(* The peers' steps keep the types.                                        *)

Where == {"new", "joining", "refused", "session", "out"}

\* A step of p: what it may do to its fields, its frame and its simulation.
PeerStepTypedFor(p) ==
    /\ \A q \in Peer \ {p} : peer'[q] = peer[q]
    /\ peer'[p].where \in Where /\ peer'[p].phase \in Phase
    /\ frame' = frame \/ \E f \in Frame : frame' = [frame EXCEPT ![p] = f]
    /\ sim' = sim \/ \E s : sim' = [sim EXCEPT ![p] = s]
    /\ heard' = heard \/ \E f \in 0 .. frame[Host] : heard' = [heard EXCEPT ![p] = f]
    /\ \/ requested' = requested
       \/ \E f \in Frame \cup {NoFrame} : requested' = [requested EXCEPT ![p] = f]

LEMMA PeerStepTyped ==
    ASSUME TInv, UNCHANGED hostVars, NEW p \in Peer, PeerStepTypedFor(p), PacketsTyped'
    PROVE  TInv'
<1>1. host' = host /\ remotes' = remotes /\ p # Host /\ Host \in Process
  BY PeerAssumption DEF hostVars, Process
<1>2. HostSimTyped'
  <2>1. sim'[Host] = sim[Host] /\ DOMAIN sim' = DOMAIN sim
    <3>1. CASE sim' = sim
      BY <3>1
    <3>2. ASSUME NEW s, sim' = [sim EXCEPT ![p] = s]
          PROVE  sim'[Host] = sim[Host] /\ DOMAIN sim' = DOMAIN sim
      BY <1>1, <3>2 DEF TInv, HostSimTyped
    <3> QED
      BY <3>1, <3>2 DEF PeerStepTypedFor
  <2> QED
    BY <1>1, <2>1 DEF TInv, HostSimTyped
<1>3. PeersTyped'
  BY DEF TInv, PeersTyped, PeerStepTypedFor, Where
<1>4. FramesTyped'
  <2>1. frame' \in [Process -> Frame] /\ frame'[Host] = frame[Host]
    BY <1>1 DEF TInv, FramesTyped, PeerStepTypedFor, Process
  <2>2. DOMAIN heard' = Peer /\ \A q \in Peer : heard'[q] \in 0 .. frame[Host]
    BY DEF TInv, FramesTyped, PeerStepTypedFor
  <2>3. DOMAIN requested' = Peer /\ \A q \in Peer : requested'[q] \in Frame \cup {NoFrame}
    BY DEF TInv, FramesTyped, PeerStepTypedFor
  <2> QED
    BY <2>1, <2>2, <2>3 DEF FramesTyped
<1> QED
  BY <1>1, <1>2, <1>3, <1>4 DEF TInv

\* p's fields before a step.
LEMMA TypedPeer ==
    ASSUME IInv, TInv, NEW p \in Peer
    PROVE  /\ DOMAIN peer = Peer /\ DOMAIN peer[p] = PeerFields
           /\ peer[p].where \in Where /\ peer[p].phase \in Phase
           /\ LinksTyped /\ PacketsTyped
           /\ 0 \in 0 .. frame[Host] /\ NoFrame \in Frame \cup {NoFrame}
  BY DEF IInv, TInv, VariablesTyped, PeersTyped, Where, FramesTyped, Process, Frame

\* Answers to the host.
LEMMA AnswersTyped ==
    ASSUME NEW m, NEW success
    PROVE  /\ TypedPackets(<<>>)
           /\ TypedPackets(<<[kind |-> "TopologyAck", id |-> m.id, success |-> success]>>)
           /\ TypedPackets(<<[kind |-> "SnapshotAck", transfer |-> m.transfer,
                              success |-> success]>>)
  BY RangeOfTuples DEF TypedPackets, PacketTyped

LEMMA JoinAcceptTyped ==
    ASSUME IInv, TInv, NEW p \in Peer, HandleJoinAcceptAsPeer(p)
    PROVE  TInv'
<1>1. PICK m \in Arriving(toPeer[p]) :
         /\ m.kind = "JoinAccept" /\ UNCHANGED hostVars /\ ReceiveFromHost(p, <<>>)
         /\ peer' = [peer EXCEPT ![p] =
               [peer[p] EXCEPT !.where = "session", !.active = TRUE,
                               !.phase = "WaitingForCatchup", !.transfer = 0,
                               !.acked = 0, !.success = FALSE, !.fatal = FALSE]]
         /\ frame' = [frame EXCEPT ![p] = m.frame]
         /\ sim' = [sim EXCEPT ![p] = [log |-> <<>>, players |-> {Host, p}]]
         /\ heard' = [heard EXCEPT ![p] = 0]
         /\ requested' = [requested EXCEPT ![p] = NoFrame]
  BY DEF HandleJoinAcceptAsPeer
<1>2. PacketTyped(m) /\ PacketsTyped'
  BY <1>1, AnswersTyped, TypedPeer, PeerReceivesTyped DEF TypedPackets
<1>3. m.frame \in Frame
  BY <1>1, <1>2 DEF PacketTyped
<1>4. /\ \A q \in Peer \ {p} : peer'[q] = peer[q]
      /\ peer'[p].where = "session" /\ peer'[p].phase = "WaitingForCatchup"
  BY <1>1, TypedPeer DEF PeerFields
<1>5. PeerStepTypedFor(p)
  BY <1>1, <1>3, <1>4, TypedPeer DEF PeerStepTypedFor, Where, Phase
<1> QED
  BY <1>1, <1>2, <1>5, PeerStepTyped

LEMMA JoinPendingTyped ==
    ASSUME IInv, TInv, NEW p \in Peer, HandleJoinPendingAsPeer(p)
    PROVE  TInv'
<1> DEFINE pending == [kind |-> "JoinPending"]
<1>1. /\ pending \in Arriving(toPeer[p]) /\ ReceiveFromHost(p, <<>>)
      /\ peer' = [peer EXCEPT ![p] = [peer[p] EXCEPT !.where = "refused"]]
      /\ UNCHANGED <<hostVars, heard, requested, frame, sim>>
  BY DEF HandleJoinPendingAsPeer
<1> HIDE DEF pending
<1>2. PacketsTyped'
  BY <1>1, AnswersTyped, TypedPeer, PeerReceivesTyped DEF TypedPackets
<1>3. /\ \A q \in Peer \ {p} : peer'[q] = peer[q]
      /\ peer'[p].where = "refused" /\ peer'[p].phase = peer[p].phase
  BY <1>1, TypedPeer DEF PeerFields
<1>4. PeerStepTypedFor(p)
  BY <1>1, <1>3, TypedPeer DEF PeerStepTypedFor, Where
<1> QED
  BY <1>1, <1>2, <1>4, PeerStepTyped

\* p's fields are the same after a step.
LEMMA SamePeerTyped ==
    ASSUME IInv, TInv, NEW p \in Peer,
           UNCHANGED <<peer, frame, sim, heard, requested>>
    PROVE  PeerStepTypedFor(p)
  BY TypedPeer DEF PeerStepTypedFor

LEMMA DropTyped ==
    ASSUME IInv, TInv, NEW p \in Peer, Drop(p)
    PROVE  TInv'
<1>1. PICK m \in Arriving(toPeer[p]) : ReceiveFromHost(p, <<>>)
  BY DEF Drop
<1>2. UNCHANGED <<hostVars, peer, frame, sim, heard, requested>>
  BY DEF Drop, peerVars
<1>3. PacketsTyped'
  BY <1>1, AnswersTyped, TypedPeer, PeerReceivesTyped DEF TypedPackets
<1> QED
  BY <1>2, <1>3, SamePeerTyped, PeerStepTyped

LEMMA StatusTyped ==
    ASSUME IInv, TInv, NEW p \in Peer, HandleJoinBarrierStatus(p)
    PROVE  TInv'
<1>1. PICK m \in Arriving(toPeer[p]) :
         /\ m.kind = "Status" /\ ReceiveFromHost(p, <<>>)
         /\ peer' = [peer EXCEPT ![p] =
               [peer[p] EXCEPT !.active = TRUE, !.id = m.id, !.phase = m.phase,
                               !.transfer = m.transfer]]
         /\ UNCHANGED <<hostVars, heard, requested, frame, sim>>
  BY DEF HandleJoinBarrierStatus
<1>2. PacketTyped(m) /\ PacketsTyped'
  BY <1>1, AnswersTyped, TypedPeer, PeerReceivesTyped DEF TypedPackets
<1>3. m.phase \in Phase
  BY <1>1, <1>2 DEF PacketTyped
<1>4. /\ \A q \in Peer \ {p} : peer'[q] = peer[q]
      /\ peer'[p].where = peer[p].where /\ peer'[p].phase = m.phase
  BY <1>1, TypedPeer DEF PeerFields
<1>5. PeerStepTypedFor(p)
  BY <1>1, <1>3, <1>4, TypedPeer DEF PeerStepTypedFor
<1> QED
  BY <1>1, <1>2, <1>5, PeerStepTyped

LEMMA TopologyTyped ==
    ASSUME IInv, TInv, NEW p \in Peer, HandleJoinBarrierTopology(p)
    PROVE  TInv'
<1>1. PICK m \in Arriving(toPeer[p]), success \in BOOLEAN :
         /\ m.kind = "Topology" /\ UNCHANGED hostVars
         /\ ReceiveFromHost(p, <<[kind |-> "TopologyAck", id |-> m.id, success |-> success]>>)
         /\ \/ UNCHANGED <<peer, frame, sim, heard, requested>>
            \/ /\ peer' = [peer EXCEPT ![p] =
                     [peer[p] EXCEPT !.active = TRUE, !.id = m.id,
                                     !.phase = "WaitingForResume"]]
               /\ frame' = [frame EXCEPT ![p] = m.frame]
               /\ \E s : sim' = [sim EXCEPT ![p] = s]
               /\ requested' = [requested EXCEPT ![p] = NoFrame]
               /\ heard' = heard
  BY DEF HandleJoinBarrierTopology, peerVars
<1>2. PacketTyped(m) /\ PacketsTyped'
  BY <1>1, AnswersTyped, TypedPeer, PeerReceivesTyped DEF TypedPackets
<1>3. m.frame \in Frame
  BY <1>1, <1>2 DEF PacketTyped
<1>4. CASE UNCHANGED <<peer, frame, sim, heard, requested>>
  BY <1>1, <1>2, <1>4, SamePeerTyped, PeerStepTyped
<1>5. CASE ~UNCHANGED <<peer, frame, sim, heard, requested>>
  <2>1. /\ \A q \in Peer \ {p} : peer'[q] = peer[q]
        /\ peer'[p].where = peer[p].where /\ peer'[p].phase = "WaitingForResume"
    <3>1. peer' = [peer EXCEPT ![p] =
                      [peer[p] EXCEPT !.active = TRUE, !.id = m.id,
                                      !.phase = "WaitingForResume"]]
      BY <1>1, <1>5
    <3> QED
      BY <3>1, TypedPeer DEF PeerFields
  <2>2. PeerStepTypedFor(p)
    BY <1>1, <1>3, <1>5, <2>1, TypedPeer DEF PeerStepTypedFor, Phase
  <2> QED
    BY <1>1, <1>2, <2>2, PeerStepTyped
<1> QED
  BY <1>4, <1>5

LEMMA ChunkTyped ==
    ASSUME IInv, TInv, NEW p \in Peer, HandleSnapshotResyncChunk(p)
    PROVE  TInv'
<1>1. PICK m \in Arriving(toPeer[p]), decoded \in Decodes :
           HandleSnapshotResyncChunk(p)!(m, decoded)
  BY DEF HandleSnapshotResyncChunk
<1> DEFINE again   == peer[p].acked = m.transfer
           barrier == peer[p].active /\ peer[p].transfer \in {0, m.transfer}
           success == IF again THEN peer[p].success ELSE decoded
           shown   == IF ~barrier THEN peer[p].phase
                      ELSE IF decoded THEN "WaitingForResume" ELSE "WaitingForCatchup"
           transfer == IF barrier THEN m.transfer ELSE peer[p].transfer
           fields == [peer[p] EXCEPT !.acked = m.transfer, !.success = decoded,
                                     !.fatal = ~decoded, !.phase = shown,
                                     !.transfer = transfer]
<1>2. /\ m.kind = "Chunk" /\ UNCHANGED hostVars
      /\ ReceiveFromHost(p, <<[kind |-> "SnapshotAck", transfer |-> m.transfer,
                               success |-> success]>>)
      /\ peer' = peer \/ peer' = [peer EXCEPT ![p] = fields]
      /\ \/ UNCHANGED <<heard, requested, frame, sim>>
         \/ /\ frame' = [frame EXCEPT ![p] = m.frame]
            /\ sim' = [sim EXCEPT ![p] = m.sim]
            /\ heard' = [heard EXCEPT ![p] = 0]
            /\ requested' = [requested EXCEPT ![p] = NoFrame]
  BY <1>1
<1>3. shown \in Phase
  BY TypedPeer DEF Phase
<1>4. /\ DOMAIN peer[p] = PeerFields /\ peer[p].where \in Where /\ DOMAIN peer = Peer
      /\ peer[p].phase \in Phase
  BY TypedPeer
<1> HIDE DEF again, barrier, success, shown, transfer
<1>5. PacketTyped(m) /\ PacketsTyped'
  BY <1>2, AnswersTyped, TypedPeer, PeerReceivesTyped DEF TypedPackets
<1>6. m.frame \in Frame
  BY <1>2, <1>5 DEF PacketTyped
<1>7. fields.where = peer[p].where /\ fields.phase = shown
  BY <1>4 DEF PeerFields
<1> HIDE DEF fields
<1>8. /\ \A q \in Peer \ {p} : peer'[q] = peer[q]
      /\ peer'[p].where \in Where /\ peer'[p].phase \in Phase
  BY <1>2, <1>3, <1>4, <1>7
<1>9. PeerStepTypedFor(p)
  BY <1>2, <1>6, <1>8, TypedPeer DEF PeerStepTypedFor
<1> QED
  BY <1>2, <1>5, <1>9, PeerStepTyped

LEMMA ResumeReceivedTyped ==
    ASSUME IInv, TInv, NEW p \in Peer, HandleJoinBarrierResume(p)
    PROVE  TInv'
<1>1. PICK m \in Arriving(toPeer[p]) :
         /\ m.kind = "Resume" /\ ReceiveFromHost(p, <<>>)
         /\ peer' = [peer EXCEPT ![p] =
               [peer[p] EXCEPT !.active = FALSE, !.id = m.id, !.phase = "None",
                               !.transfer = 0]]
         /\ frame' = [frame EXCEPT ![p] = m.frame]
         /\ UNCHANGED <<hostVars, heard, requested, sim>>
  BY DEF HandleJoinBarrierResume
<1>2. PacketTyped(m) /\ PacketsTyped'
  BY <1>1, AnswersTyped, TypedPeer, PeerReceivesTyped DEF TypedPackets
<1>3. m.frame \in Frame
  BY <1>1, <1>2 DEF PacketTyped
<1>4. /\ \A q \in Peer \ {p} : peer'[q] = peer[q]
      /\ peer'[p].where = peer[p].where /\ peer'[p].phase = "None"
  BY <1>1, TypedPeer DEF PeerFields
<1>5. PeerStepTypedFor(p)
  BY <1>1, <1>3, <1>4, TypedPeer DEF PeerStepTypedFor, Phase
<1> QED
  BY <1>1, <1>2, <1>5, PeerStepTyped

\* Asking to be let in, and leaving.
LEMMA ComesOrGoesTyped ==
    ASSUME IInv, TInv, NEW p \in Peer, NEW where \in Where, NEW packets, TypedPackets(packets),
           \/ peer' = [peer EXCEPT ![p].where = where]
           \/ peer' = [peer EXCEPT ![p].where = where, ![p].requests = @ + 1],
           toHost' = [toHost EXCEPT ![p] = Put(@, packets)],
           UNCHANGED <<hostVars, heard, requested, frame, sim, toPeer>>
    PROVE  TInv'
<1>1. PacketsTyped'
  BY TypedPeer, PeerSendsTyped DEF TypedPackets
<1>2. /\ \A q \in Peer \ {p} : peer'[q] = peer[q]
      /\ peer'[p].where = where /\ peer'[p].phase = peer[p].phase
  BY TypedPeer DEF PeerFields
<1>3. PeerStepTypedFor(p)
  BY <1>2, TypedPeer DEF PeerStepTypedFor
<1> QED
  BY <1>1, <1>3, PeerStepTyped

LEMMA SendJoinRequestTyped ==
    ASSUME IInv, TInv, NEW p \in Peer, SendJoinRequest(p)
    PROVE  TInv'
<1>1. TypedPackets(<<[kind |-> "JoinRequest"]>>) /\ "joining" \in Where
  BY RangeOfTuples DEF TypedPackets, PacketTyped, Where
<1> QED
  BY <1>1, ComesOrGoesTyped DEF SendJoinRequest

LEMMA QuitTyped ==
    ASSUME IInv, TInv, NEW p \in Peer, Quit(p)
    PROVE  TInv'
<1> DEFINE local  == IF peer[p].where = "session" THEN {p} ELSE {Host}
           leave  == [kind |-> "LeaveNotice", players |-> local]
<1>1. /\ peer' = [peer EXCEPT ![p].where = "out"]
      /\ UNCHANGED <<hostVars, heard, requested, frame, sim, toPeer>>
  BY DEF Quit
<1>2. PICK sent \in {<<>>, <<leave>>} : toHost' = [toHost EXCEPT ![p] = Put(@, sent)]
  BY DEF Quit
<1>3. PacketTyped(leave)
  BY DEF PacketTyped, Process
<1> HIDE DEF leave
<1>4. TypedPackets(sent) /\ "out" \in Where
  BY <1>3, RangeOfTuples DEF TypedPackets, Where
<1> QED
  BY <1>1, <1>2, <1>4, ComesOrGoesTyped

\* Inputs are heard: a rollback is asked for to the first frame they put right.
LEMMA HearInputsTyped ==
    ASSUME IInv, TInv, NEW p \in Peer, HearInputs(p)
    PROVE  TInv'
<1>1. PICK next \in (heard[p] + 1) .. frame[Host] :
         LET wrong == {f \in heard[p] .. (next - 1) :
                         f < frame[p] /\ Wrong(f) \in Range(sim[p].log)}
             asked == (wrong \cup {requested[p]}) \ {NoFrame}
         IN  /\ heard' = [heard EXCEPT ![p] = next]
             /\ requested' = [requested EXCEPT ![p] =
                   IF asked = {} THEN NoFrame ELSE Min(asked)]
  BY DEF HearInputs
<1> DEFINE wrong == {f \in heard[p] .. (next - 1) :
                       f < frame[p] /\ Wrong(f) \in Range(sim[p].log)}
           asked == (wrong \cup {requested[p]}) \ {NoFrame}
           first == IF asked = {} THEN NoFrame ELSE Min(asked)
<1>2. /\ UNCHANGED <<hostVars, peer, frame, sim, toPeer, toHost>>
      /\ heard' = [heard EXCEPT ![p] = next]
      /\ requested' = [requested EXCEPT ![p] = first]
  BY <1>1 DEF HearInputs
<1>3. /\ heard[p] \in Nat /\ frame[Host] \in 0 .. MaxFrame /\ MaxFrame \in Nat
      /\ requested[p] \in Frame \cup {NoFrame}
  BY BoundAssumption DEF TInv, FramesTyped, Process, Frame
<1>4. next \in 0 .. frame[Host]
  BY <1>3
<1>5. wrong \subseteq Frame
  BY <1>3 DEF Frame
<1> HIDE DEF wrong
<1>6. asked \subseteq Frame /\ asked \in SUBSET Nat
  <2>1. asked \subseteq Frame
    BY <1>3, <1>5
  <2>2. Frame \subseteq Nat
    BY <1>3 DEF Frame
  <2> QED
    BY <2>1, <2>2
<1> HIDE DEF asked
<1>7. first \in Frame \cup {NoFrame}
  BY <1>6, MinOfNaturals
<1> HIDE DEF first
<1>8. PacketsTyped'
  BY <1>2 DEF TInv, PacketsTyped
<1>9. PeerStepTypedFor(p)
  BY <1>2, <1>4, <1>7, TypedPeer DEF PeerStepTypedFor
<1> QED
  BY <1>2, <1>8, <1>9, PeerStepTyped

\* Frames are replayed and stepped.
LEMMA PeerFramesTyped ==
    ASSUME IInv, TInv, NEW p \in Peer,
           RollbackSnapshotMissing(p) \/ ReplayRollbackWindow(p) \/ PeerSteps(p)
    PROVE  TInv'
<1>1. /\ UNCHANGED <<hostVars, peer, heard, toPeer, toHost>>
      /\ requested' = requested \/ requested' = [requested EXCEPT ![p] = NoFrame]
      /\ \/ frame' = frame
         \/ frame[p] < MaxFrame /\ frame' = [frame EXCEPT ![p] = frame[p] + 1]
  BY DEF RollbackSnapshotMissing, ReplayRollbackWindow, PeerSteps
<1>2. sim' = sim \/ \E s : sim' = [sim EXCEPT ![p] = s]
  <2>1. CASE RollbackSnapshotMissing(p)
    BY <2>1 DEF RollbackSnapshotMissing
  <2>2. CASE ReplayRollbackWindow(p)
    BY <2>2 DEF ReplayRollbackWindow
  <2>3. CASE PeerSteps(p)
    BY <2>3 DEF PeerSteps
  <2> QED
    BY <2>1, <2>2, <2>3
<1>3. frame' = frame \/ \E f \in Frame : frame' = [frame EXCEPT ![p] = f]
  <2>1. frame[p] \in Frame /\ MaxFrame \in Nat
    BY BoundAssumption DEF TInv, FramesTyped, Process
  <2>2. frame[p] < MaxFrame => frame[p] + 1 \in Frame
    BY <2>1 DEF Frame
  <2> QED
    BY <1>1, <2>2
<1>4. PacketsTyped'
  BY <1>1 DEF TInv, PacketsTyped
<1>5. PeerStepTypedFor(p)
  BY <1>1, <1>2, <1>3, TypedPeer DEF PeerStepTypedFor
<1> QED
  BY <1>1, <1>4, <1>5, PeerStepTyped

LEMMA NextTyped ==
    ASSUME IInv, TInv, [Next]_vars
    PROVE  TInv'
<1>1. CASE HostTicks
  BY <1>1, ResumeTyped, WaitForAcksTyped, StartNextTransferTyped,
     ContinueTransferTyped DEF HostTicks
<1>2. CASE HostSteps
  BY <1>2, HostStepsTyped
<1>3. ASSUME NEW p \in Peer, HostReceives(p) PROVE TInv'
  BY <1>3, JoinRequestTyped, LeaveNoticeTyped, SnapshotAckTyped,
     TopologyAckTyped DEF HostReceives
<1>4. ASSUME NEW p \in Peer, PeerReceives(p) PROVE TInv'
  BY <1>4, JoinAcceptTyped, JoinPendingTyped, DropTyped, StatusTyped,
     TopologyTyped, ChunkTyped, ResumeReceivedTyped DEF PeerReceives
<1>5. ASSUME NEW p \in Peer, PeerAdvances(p) PROVE TInv'
  BY <1>5, HearInputsTyped, PeerFramesTyped DEF PeerAdvances
<1>6. CASE UNCHANGED vars
  BY <1>6 DEF vars, hostVars, peerVars, TInv, HostSimTyped, FramesTyped, PeersTyped,
              PacketsTyped
<1> QED
  BY <1>1, <1>2, <1>3, <1>4, <1>5, <1>6, TimeOutTyped, SendJoinRequestTyped,
     QuitTyped DEF Next

LEMMA InitTyped == Init => TInv
<1> SUFFICES ASSUME Init PROVE TInv
  OBVIOUS
<1> DEFINE session == Initial \cup {Host}
<1>1. PICK barriers \in {0, 1} :
         /\ host = [active |-> FALSE, id |-> barriers, phase |-> "None", queue |-> <<>>,
                    awaited |-> {}, joined |-> {}, removed |-> {},
                    target |-> Nobody, transfer |-> 0, snapshot |-> NoSnapshot]
         /\ peer = [p \in Peer |->
               [where |-> IF p \in Initial THEN "session" ELSE "new", active |-> FALSE,
                id |-> IF p \in Initial THEN barriers ELSE 0, phase |-> "None",
                transfer |-> 0, acked |-> 0, success |-> FALSE, fatal |-> FALSE,
                requests |-> 0]]
  BY DEF Init
<1>2. HostTyped(host, remotes)
  <2>1. HostOK(host)
    BY InitOK DEF IInv, VariablesTyped
  <2>2. barriers <= MaxBarrier
    BY BoundAssumption
  <2> QED
    BY <1>1, <2>1, <2>2, TypedQueues DEF HostTyped, Phase
<1>3. remotes = Initial /\ remotes \subseteq Peer
  BY PeerAssumption DEF Init
<1>4. HostSimTyped
  <2>1. sim = [n \in Process |->
                 [log |-> <<>>, players |-> IF n \in session THEN session ELSE {n}]]
    BY DEF Init
  <2> QED
    BY <1>3, <2>1 DEF HostSimTyped, Process
<1>5. FramesTyped
  BY BoundAssumption DEF Init, FramesTyped, Process, Frame
<1>6. PeersTyped
  BY <1>1 DEF PeersTyped, Phase
<1>7. PacketsTyped
  <2>1. Contents(EmptyLink) = {}
    BY RangeOfTuples DEF Contents, EmptyLink
  <2> QED
    BY <2>1 DEF Init, PacketsTyped
<1> QED
  BY <1>2, <1>3, <1>4, <1>5, <1>6, <1>7 DEF TInv

\* The host's queue names a peer once; whom it sends a snapshot, whose answers
\* it waits for and whose players it simulates are registered endpoints, and a
\* transfer has a target (QueueJoinBarrierPeer, RemoveRemotePlayers,
\* ClearJoinBarrierTransfer); no peer knows a barrier the host has not raised,
\* or an input of a frame the host has not stepped.
THEOREM BarrierIsTyped == Spec => []TypeOK
<1>1. IInv /\ TInv /\ [Next]_vars => TInv'
  BY NextTyped
<1> QED
  BY <1>1, InitTyped, Invariance, TInvImplies, PTL DEF Spec

-----------------------------------------------------------------------------
(* One peer comes, nobody leaves.  Without this the barrier can end while  *)
(* somebody lacks a player (README, section 5).                            *)

OneComesNobodyLeaves == MayLeave = {} /\ \A p, q \in MayJoin : p = q

Everybody == remotes \cup {Host}
\* Who may come is in, or nothing has begun.
Begun == MayJoin \subseteq remotes

\* p simulates the players the host simulates.
Caught(p) == peer[p].where = "session" /\ sim[p].players = Everybody
IsSim(s) == DOMAIN s = {"log", "players"}
HasEverybody(s) == IsSim(s) /\ s.players = Everybody

\* A packet to p: every snapshot has all players, every topology adds the one
\* that has come, and that one is told of none.
Tells(p, m) ==
    /\ m.kind \in {"Chunk", "Topology"} => Begun
    /\ m.kind = "Chunk" => HasEverybody(m.sim)
    /\ m.kind = "Topology" => p \in remotes \ MayJoin /\ m.joined = MayJoin /\ m.removed = {}
\* A packet of p: who acknowledges has caught up.
Answers(p, m) ==
    /\ m.kind # "LeaveNotice"
    /\ m.kind = "JoinRequest" => p \in MayJoin
    /\ m.kind \in {"SnapshotAck", "TopologyAck"} =>
          Begun /\ peer[p].where = "session" /\ (m.success => Caught(p))
LinksTell ==
    \A p \in Peer : /\ \A m \in Contents(toPeer[p]) : Tells(p, m)
                    /\ \A m \in Contents(toHost[p]) : Answers(p, m)

\* The host's fields h.
HostGathers(h) ==
    /\ h.active => Begun
    /\ h.joined \subseteq MayJoin /\ h.removed = {} /\ h.awaited \cap MayJoin = {}
    /\ h.transfer # 0 => HasEverybody(h.snapshot.sim)

\* A rollback does not change the players of p.
Remembers(p) ==
    /\ IsSim(sim[p])
    /\ \A f \in Frame : saved[p][f] # NoSnapshot =>
          IsSim(saved[p][f]) /\ saved[p][f].players = sim[p].players
\* Only one that may join is let in, and what it acknowledged it has.
Comes(p) ==
    /\ peer[p].where = "joining" => p \in MayJoin
    /\ peer[p].where = "session" /\ peer[p].success => Begun /\ Caught(p)
\* Who was in before lacks at most the one that comes.
LacksOne(p) ==
    peer[p].where = "session" /\ sim[p].players \cup MayJoin = Everybody \cup MayJoin
PeersGather ==
    /\ DOMAIN sim = Process /\ DOMAIN saved = Peer /\ IsSim(sim[Host])
    /\ \A p \in Peer : Comes(p) /\ Remembers(p)
    /\ \A p \in remotes \ MayJoin : LacksOne(p)

\* Who has not caught up is waited for.
Pending(h, p) ==
    p \in Range(h.queue) \/ (h.transfer # 0 /\ h.target = p) \/ p \in h.awaited
Awaited(h, p) == h.active /\ h.phase # "ReadyToResume" /\ Pending(h, p)
AllCaughtOrAwaited(h) == \A p \in remotes : Caught(p) \/ Awaited(h, p)

Gathering == LinksTell /\ HostGathers(host) /\ PeersGather /\ AllCaughtOrAwaited(host)

-----------------------------------------------------------------------------
(* What the peers do.                                                      *)

\* The links after a step of p.
LinksOf(p) ==
    /\ \A q \in Peer : Contents(toPeer'[q]) \subseteq Contents(toPeer[q])
    /\ \A q \in Peer : \A m \in Contents(toHost'[q]) :
          m \in Contents(toHost[q]) \/ (q = p /\ Answers(p, m)')
\* The rest after it.
StateOf(p) ==
    /\ UNCHANGED hostVars
    /\ DOMAIN sim' = Process /\ DOMAIN saved' = Peer /\ sim'[Host] = sim[Host]
    /\ \A q \in Peer : q # p => /\ peer'[q] = peer[q]
                                /\ sim'[q] = sim[q] /\ saved'[q] = saved[q]
    /\ Remembers(p)' /\ Comes(p)'
    /\ Caught(p) => Caught(p)'
    /\ peer[p].where = "session" => peer'[p].where = "session"
    /\ p \in remotes \ MayJoin => LacksOne(p)'

LEMMA PeerGathers ==
    ASSUME Gathering, remotes \subseteq Peer, NEW p \in Peer, LinksOf(p), StateOf(p)
    PROVE  Gathering'
<1>1. remotes' = remotes /\ host' = host
  BY DEF StateOf, hostVars
<1>2. ASSUME NEW q \in Peer, Caught(q) PROVE Caught(q)'
  BY <1>1, <1>2 DEF StateOf, Caught, Everybody
<1>3. ASSUME NEW q \in Peer, peer[q].where = "session" PROVE peer'[q].where = "session"
  BY <1>3 DEF StateOf
<1>4. LinksTell'
  <2>1. ASSUME NEW q \in Peer, NEW m \in Contents(toPeer'[q]) PROVE Tells(q, m)'
    <3>1. Tells(q, m)
      BY <2>1 DEF LinksOf, Gathering, LinksTell
    <3> QED
      BY <1>1, <3>1 DEF Tells, Begun, HasEverybody, Everybody
  <2>2. ASSUME NEW q \in Peer, NEW m \in Contents(toHost'[q]) PROVE Answers(q, m)'
    <3>1. CASE q = p /\ Answers(p, m)'
      BY <3>1
    <3>2. CASE m \in Contents(toHost[q])
      <4>1. Answers(q, m)
        BY <3>2 DEF Gathering, LinksTell
      <4> QED
        BY <1>1, <1>2, <1>3, <4>1 DEF Answers, Begun
    <3> QED
      BY <2>2, <3>1, <3>2 DEF LinksOf
  <2> QED
    BY <2>1, <2>2 DEF LinksTell
<1>5. HostGathers(host)'
  BY <1>1 DEF Gathering, HostGathers, Begun, HasEverybody, Everybody
<1>6. PeersGather'
  <2>1. ASSUME NEW q \in Peer
        PROVE  Comes(q)' /\ Remembers(q)'
    BY <1>1 DEF StateOf, Gathering, PeersGather, Remembers, Comes, Caught, Everybody, Begun
  <2>2. ASSUME NEW q \in remotes \ MayJoin PROVE LacksOne(q)'
    BY <1>1, <2>2 DEF StateOf, Gathering, PeersGather, LacksOne, Everybody
  <2> QED
    BY <1>1, <2>1, <2>2 DEF StateOf, Gathering, PeersGather
<1>7. AllCaughtOrAwaited(host)'
  BY <1>1, <1>2 DEF Gathering, AllCaughtOrAwaited, Awaited, Pending
<1> QED
  BY <1>4, <1>5, <1>6, <1>7 DEF Gathering

\* p keeps its players.
LEMMA SamePlayers ==
    ASSUME Gathering, NEW p \in Peer, UNCHANGED hostVars,
           DOMAIN sim' = Process, DOMAIN saved' = Peer, sim'[Host] = sim[Host],
           \A q \in Peer : q # p => /\ peer'[q] = peer[q]
                                    /\ sim'[q] = sim[q] /\ saved'[q] = saved[q],
           Remembers(p)', sim'[p].players = sim[p].players,
           peer[p].where = "session" => peer'[p].where = "session",
           peer'[p].where = "session" =>
              peer[p].where = "session" /\ peer'[p].success = peer[p].success,
           peer'[p].where = "joining" => p \in MayJoin
    PROVE  StateOf(p)
<1>1. remotes' = remotes
  BY DEF hostVars
<1>2. Caught(p) => Caught(p)'
  BY <1>1 DEF Caught, Everybody
<1>3. p \in remotes \ MayJoin => LacksOne(p)'
  BY <1>1 DEF Gathering, PeersGather, LacksOne, Everybody
<1>4. Comes(p)'
  BY <1>1, <1>2 DEF Gathering, PeersGather, Comes, Begun
<1> QED
  BY <1>1, <1>2, <1>3, <1>4 DEF StateOf

\* Only fields of p's session change.
LEMMA SameSims ==
    ASSUME Gathering, NEW p \in Peer, UNCHANGED hostVars, sim' = sim, saved' = saved,
           \A q \in Peer : q # p => peer'[q] = peer[q],
           peer[p].where = "session" => peer'[p].where = "session",
           peer'[p].where = "session" =>
              peer[p].where = "session" /\ peer'[p].success = peer[p].success,
           peer'[p].where = "joining" => p \in MayJoin
    PROVE  StateOf(p)
<1>1. /\ DOMAIN sim' = Process /\ DOMAIN saved' = Peer /\ sim'[Host] = sim[Host]
      /\ Remembers(p)'
  BY DEF Gathering, PeersGather, Remembers
<1> QED
  BY <1>1, SamePlayers

\* p takes a packet and answers it.
LEMMA LinksOfReceiver ==
    ASSUME IInv, NEW p \in Peer, NEW m \in Arriving(toPeer[p]), NEW answer,
           IsSequence(answer), ReceiveFromHost(p, answer),
           \A k \in Range(answer) : Answers(p, k)'
    PROVE  m \in Contents(toPeer[p]) /\ LinksOf(p)
<1>1. /\ m \in Contents(toPeer[p])
      /\ \A q \in Peer : Contents(toPeer'[q]) \subseteq Contents(toPeer[q])
      /\ \A q \in Peer : Contents(toHost'[q]) \subseteq
            IF q = p THEN Contents(toHost[q]) \cup Range(answer) ELSE Contents(toHost[q])
  BY ReceiveFromHostLinks DEF IInv, VariablesTyped
<1>2. ASSUME NEW q \in Peer, NEW k \in Contents(toHost'[q])
      PROVE  k \in Contents(toHost[q]) \/ (q = p /\ Answers(p, k)')
  <2>1. k \in Contents(toHost[q]) \/ (q = p /\ k \in Range(answer))
    BY <1>1, <1>2
  <2> QED
    BY <2>1
<1> QED
  BY <1>1, <1>2 DEF LinksOf

\* p takes a packet and says nothing.
LEMMA LinksOfListener ==
    ASSUME IInv, NEW p \in Peer, NEW m \in Arriving(toPeer[p]), ReceiveFromHost(p, <<>>)
    PROVE  m \in Contents(toPeer[p]) /\ LinksOf(p)
<1>1. IsSequence(<<>>) /\ Range(<<>>) = {}
  BY RangeOfTuples
<1> QED
  BY <1>1, LinksOfReceiver


LEMMA SendJoinRequestGathers ==
    ASSUME IInv, Gathering, NEW p \in Peer, SendJoinRequest(p)
    PROVE  LinksOf(p) /\ StateOf(p)
<1> DEFINE request == [kind |-> "JoinRequest"]
<1>1. /\ p \in MayJoin /\ peer[p].where \in {"new", "joining"}
      /\ peer' = [peer EXCEPT ![p].where = "joining", ![p].requests = @ + 1]
      /\ toHost' = [toHost EXCEPT ![p] = Put(@, <<request>>)]
      /\ UNCHANGED <<hostVars, saved, sim, toPeer>>
  BY DEF SendJoinRequest
<1>2. /\ DOMAIN peer = Peer /\ DOMAIN peer[p] = PeerFields /\ LinksTyped
  BY DEF IInv, VariablesTyped
<1>3. peer'[p].where = "joining" /\ \A q \in Peer : q # p => peer'[q] = peer[q]
  BY <1>1, <1>2 DEF PeerFields
<1>4. StateOf(p)
  BY <1>1, <1>3, SameSims
<1>5. IsSequence(<<request>>) /\ Range(<<request>>) = {request}
  BY RangeOfTuples
<1>6. Contents(Put(toHost[p], <<request>>)) = Contents(toHost[p]) \cup {request}
  BY <1>2, <1>5, ContentsOfPut DEF LinksTyped
<1>7. Answers(p, request)'
  BY <1>1 DEF Answers
<1> HIDE DEF request
<1>8. ASSUME NEW q \in Peer, NEW k \in Contents(toHost'[q])
      PROVE  k \in Contents(toHost[q]) \/ (q = p /\ Answers(p, k)')
  <2>1. k \in Contents(toHost[q]) \/ (q = p /\ k = request)
    BY <1>1, <1>2, <1>6, <1>8 DEF LinksTyped
  <2> QED
    BY <1>7, <2>1
<1>9. LinksOf(p)
  BY <1>1, <1>8 DEF LinksOf
<1> QED
  BY <1>4, <1>9

LEMMA JoinAcceptGathers ==
    ASSUME IInv, Gathering, NEW p \in Peer, HandleJoinAcceptAsPeer(p)
    PROVE  LinksOf(p) /\ StateOf(p)
<1>1. PICK m \in Arriving(toPeer[p]) :
         /\ peer[p].where = "joining"
         /\ peer' = [peer EXCEPT ![p] =
              [@ EXCEPT !.where = "session", !.active = TRUE,
                        !.phase = "WaitingForCatchup", !.transfer = 0,
                        !.acked = 0, !.success = FALSE, !.fatal = FALSE]]
         /\ sim' = [sim EXCEPT ![p] = [log |-> <<>>, players |-> {Host, p}]]
         /\ saved' = [saved EXCEPT ![p] = [f \in Frame |-> NoSnapshot]]
         /\ ReceiveFromHost(p, <<>>) /\ UNCHANGED hostVars
  BY DEF HandleJoinAcceptAsPeer
<1>2. /\ DOMAIN peer = Peer /\ DOMAIN peer[p] = PeerFields
      /\ DOMAIN sim = Process /\ DOMAIN saved = Peer /\ p \in MayJoin
  BY <1>1 DEF IInv, VariablesTyped, Gathering, PeersGather, Comes
<1>3. /\ peer'[p].where = "session" /\ ~peer'[p].success
      /\ \A q \in Peer : q # p => peer'[q] = peer[q]
  BY <1>1, <1>2 DEF PeerFields
<1>4. p \in Process /\ p # Host /\ Host \in Process /\ Peer \subseteq Process
  BY PeerAssumption DEF Process
<1>5. /\ DOMAIN sim' = Process /\ DOMAIN saved' = Peer /\ sim'[Host] = sim[Host]
      /\ \A q \in Peer : q # p => sim'[q] = sim[q] /\ saved'[q] = saved[q]
  BY <1>1, <1>2, <1>4
<1>6. Remembers(p)'
  BY <1>1, <1>2, <1>4 DEF Remembers, IsSim
<1>7. StateOf(p)
  BY <1>1, <1>2, <1>3, <1>5, <1>6 DEF StateOf, Caught, Comes
<1> QED
  BY <1>1, <1>7, LinksOfListener

LEMMA JoinPendingGathers ==
    ASSUME IInv, Gathering, NEW p \in Peer, HandleJoinPendingAsPeer(p)
    PROVE  LinksOf(p) /\ StateOf(p)
<1>1. /\ [kind |-> "JoinPending"] \in Arriving(toPeer[p]) /\ peer[p].where = "joining"
      /\ peer' = [peer EXCEPT ![p].where = "refused"]
      /\ ReceiveFromHost(p, <<>>) /\ UNCHANGED <<hostVars, saved, sim>>
  BY DEF HandleJoinPendingAsPeer
<1>2. /\ DOMAIN peer = Peer /\ DOMAIN peer[p] = PeerFields
  BY DEF IInv, VariablesTyped
<1>3. peer'[p].where = "refused" /\ \A q \in Peer : q # p => peer'[q] = peer[q]
  BY <1>1, <1>2 DEF PeerFields
<1>4. StateOf(p)
  BY <1>1, <1>3, SameSims
<1> QED
  BY <1>1, <1>4, LinksOfListener

LEMMA DropGathers ==
    ASSUME IInv, Gathering, NEW p \in Peer, Drop(p)
    PROVE  LinksOf(p) /\ StateOf(p)
<1>1. PICK m \in Arriving(toPeer[p]) :
         ReceiveFromHost(p, <<>>) /\ UNCHANGED <<hostVars, peer, saved, sim>>
  BY DEF Drop, peerVars
<1>2. StateOf(p)
  BY <1>1, SameSims DEF Gathering, PeersGather, Comes
<1> QED
  BY <1>1, <1>2, LinksOfListener

LEMMA StatusGathers ==
    ASSUME IInv, Gathering, NEW p \in Peer, HandleJoinBarrierStatus(p)
    PROVE  LinksOf(p) /\ StateOf(p)
<1>1. PICK m \in Arriving(toPeer[p]) :
         /\ peer' = [peer EXCEPT ![p] =
              [@ EXCEPT !.active = TRUE, !.id = m.id, !.phase = m.phase,
                        !.transfer = m.transfer]]
         /\ ReceiveFromHost(p, <<>>) /\ UNCHANGED <<hostVars, saved, sim>>
  BY DEF HandleJoinBarrierStatus
<1>2. /\ DOMAIN peer = Peer /\ DOMAIN peer[p] = PeerFields
  BY DEF IInv, VariablesTyped
<1>3. /\ peer'[p].where = peer[p].where /\ peer'[p].success = peer[p].success
      /\ \A q \in Peer : q # p => peer'[q] = peer[q]
  BY <1>1, <1>2 DEF PeerFields
<1>4. StateOf(p)
  BY <1>1, <1>3, SameSims DEF Gathering, PeersGather, Comes
<1> QED
  BY <1>1, <1>4, LinksOfListener

LEMMA ResumeReceivedGathers ==
    ASSUME IInv, Gathering, NEW p \in Peer, HandleJoinBarrierResume(p)
    PROVE  LinksOf(p) /\ StateOf(p)
<1>1. PICK m \in Arriving(toPeer[p]) :
         /\ peer' = [peer EXCEPT ![p] =
              [@ EXCEPT !.active = FALSE, !.id = m.id, !.phase = "None", !.transfer = 0]]
         /\ ReceiveFromHost(p, <<>>) /\ UNCHANGED <<hostVars, saved, sim>>
  BY DEF HandleJoinBarrierResume
<1>2. /\ DOMAIN peer = Peer /\ DOMAIN peer[p] = PeerFields
  BY DEF IInv, VariablesTyped
<1>3. /\ peer'[p].where = peer[p].where /\ peer'[p].success = peer[p].success
      /\ \A q \in Peer : q # p => peer'[q] = peer[q]
  BY <1>1, <1>2 DEF PeerFields
<1>4. StateOf(p)
  BY <1>1, <1>3, SameSims DEF Gathering, PeersGather, Comes
<1> QED
  BY <1>1, <1>4, LinksOfListener

\* The topology adds the one player p may lack.
LEMMA TopologyGathers ==
    ASSUME IInv, TInv, Gathering, NEW p \in Peer, HandleJoinBarrierTopology(p)
    PROVE  LinksOf(p) /\ StateOf(p)
<1> DEFINE ack(success, id) == [kind |-> "TopologyAck", id |-> id, success |-> success]
<1>1. PICK m \in Arriving(toPeer[p]) :
         /\ m.kind = "Topology" /\ peer[p].where = "session" /\ UNCHANGED hostVars
         /\ \/ /\ ReceiveFromHost(p, <<ack(FALSE, m.id)>>)
               /\ UNCHANGED <<peerVars, frame, sim>>
            \/ /\ AtBarrierFrame(p, m.frame) # NoSnapshot
               /\ peer' = [peer EXCEPT ![p] =
                      [@ EXCEPT !.active = TRUE, !.id = m.id, !.phase = "WaitingForResume"]]
               /\ sim' = [sim EXCEPT ![p] =
                      [AtBarrierFrame(p, m.frame) EXCEPT
                          !.players = WithTopology(AtBarrierFrame(p, m.frame).players, p, m)]]
               /\ saved' = [saved EXCEPT ![p] = [f \in Frame |-> NoSnapshot]]
               /\ ReceiveFromHost(p, <<ack(TRUE, m.id)>>)
  BY DEF HandleJoinBarrierTopology, Accepts
<1>2. m \in Contents(toPeer[p])
  BY <1>1, ContentsOfRest DEF IInv, VariablesTyped, LinksTyped
<1>3. /\ Begun /\ p \notin MayJoin /\ m.joined = MayJoin /\ m.removed = {}
      /\ m.frame \in Frame
  BY <1>1, <1>2 DEF Gathering, LinksTell, Tells, TInv, PacketsTyped, PacketTyped
<1>4. ASSUME NEW success
      PROVE  /\ IsSequence(<<ack(success, m.id)>>)
             /\ Range(<<ack(success, m.id)>>) = {ack(success, m.id)}
  BY RangeOfTuples
<1>5. /\ DOMAIN peer = Peer /\ DOMAIN peer[p] = PeerFields
      /\ DOMAIN sim = Process /\ DOMAIN saved = Peer
      /\ p \in Process /\ p # Host /\ Host \in Process /\ Peer \subseteq Process
  BY PeerAssumption DEF IInv, VariablesTyped, Gathering, PeersGather, Process
<1>6. remotes' = remotes /\ (Begun => Begun')
  BY <1>1 DEF hostVars, Begun
<1>7. CASE /\ ReceiveFromHost(p, <<ack(FALSE, m.id)>>)
           /\ UNCHANGED <<peerVars, frame, sim>>
  <2>1. StateOf(p)
    BY <1>1, <1>7, SameSims DEF Gathering, PeersGather, peerVars, Comes
  <2>2. Answers(p, ack(FALSE, m.id))'
    BY <1>1, <1>3, <1>6, <1>7 DEF Answers, peerVars
  <2> HIDE DEF ack
  <2>3. LinksOf(p)
    BY <1>1, <1>4, <1>7, <2>2, LinksOfReceiver
  <2> QED
    BY <2>1, <2>3
<1>8. ASSUME AtBarrierFrame(p, m.frame) # NoSnapshot,
             peer' = [peer EXCEPT ![p] =
                      [@ EXCEPT !.active = TRUE, !.id = m.id, !.phase = "WaitingForResume"]],
             sim' = [sim EXCEPT ![p] =
                      [AtBarrierFrame(p, m.frame) EXCEPT
                          !.players = WithTopology(AtBarrierFrame(p, m.frame).players, p, m)]],
             saved' = [saved EXCEPT ![p] = [f \in Frame |-> NoSnapshot]],
             ReceiveFromHost(p, <<ack(TRUE, m.id)>>)
      PROVE  LinksOf(p) /\ StateOf(p)
  <2> DEFINE restored == AtBarrierFrame(p, m.frame)
  <2>1. IsSim(restored) /\ restored.players = sim[p].players
    BY <1>3, <1>8 DEF AtBarrierFrame, Gathering, PeersGather, Remembers
  <2>2. WithTopology(restored.players, p, m) = sim[p].players \cup MayJoin
    BY <1>3, <2>1 DEF WithTopology
  <2> HIDE DEF restored
  <2>3. sim' = [sim EXCEPT ![p] = [restored EXCEPT !.players = sim[p].players \cup MayJoin]]
    BY <1>8, <2>2 DEF restored
  <2>4. IsSim(sim'[p]) /\ sim'[p].players = sim[p].players \cup MayJoin
    BY <1>5, <2>1, <2>3 DEF IsSim
  <2>5. /\ peer'[p].where = "session" /\ peer'[p].success = peer[p].success
        /\ \A q \in Peer : q # p => peer'[q] = peer[q]
    BY <1>1, <1>5, <1>8 DEF PeerFields
  <2>6. Remembers(p)'
    BY <1>5, <1>8, <2>4 DEF Remembers
  <2>7. /\ DOMAIN sim' = Process /\ DOMAIN saved' = Peer /\ sim'[Host] = sim[Host]
        /\ \A q \in Peer : q # p => sim'[q] = sim[q] /\ saved'[q] = saved[q]
    BY <1>5, <1>8, <2>3
  <2>8. Everybody \cup MayJoin = Everybody /\ Everybody' = Everybody
    BY <1>3, <1>6 DEF Begun, Everybody
  <2>9. p \in remotes \ MayJoin
    BY <1>1, <1>2 DEF Gathering, LinksTell, Tells
  <2>10. Caught(p)'
    BY <1>6, <2>4, <2>5, <2>8, <2>9 DEF Gathering, PeersGather, LacksOne, Caught
  <2>11. StateOf(p)
    BY <1>1, <1>3, <1>6, <2>5, <2>6, <2>7, <2>8, <2>9, <2>10 DEF StateOf, LacksOne, Caught, Comes
  <2>12. Answers(p, ack(TRUE, m.id))'
    BY <1>3, <1>6, <2>10 DEF Answers, Caught
  <2> HIDE DEF ack
  <2>13. LinksOf(p)
    BY <1>1, <1>4, <1>8, <2>12, LinksOfReceiver
  <2> QED
    BY <2>11, <2>13
<1> QED
  BY <1>1, <1>7, <1>8


\* A snapshot has all players.
LEMMA ChunkGathers ==
    ASSUME IInv, Gathering, NEW p \in Peer, HandleSnapshotResyncChunk(p)
    PROVE  LinksOf(p) /\ StateOf(p)
<1>1. PICK m \in Arriving(toPeer[p]), decoded \in Decodes :
           HandleSnapshotResyncChunk(p)!(m, decoded)
  BY DEF HandleSnapshotResyncChunk
<1> DEFINE again   == peer[p].acked = m.transfer
           barrier == peer[p].active /\ peer[p].transfer \in {0, m.transfer}
           success == IF again THEN peer[p].success ELSE decoded
           shown   == IF ~barrier THEN peer[p].phase
                      ELSE IF decoded THEN "WaitingForResume" ELSE "WaitingForCatchup"
           transfer == IF barrier THEN m.transfer ELSE peer[p].transfer
           fields == [peer[p] EXCEPT !.acked = m.transfer, !.success = decoded,
                                     !.fatal = ~decoded, !.phase = shown,
                                     !.transfer = transfer]
           ack    == [kind |-> "SnapshotAck", transfer |-> m.transfer, success |-> success]
<1>2. /\ m.kind = "Chunk" /\ peer[p].where = "session" /\ UNCHANGED hostVars
      /\ ReceiveFromHost(p, <<ack>>)
      /\ IF again THEN peer' = peer ELSE peer' = [peer EXCEPT ![p] = fields]
      /\ IF again \/ ~decoded THEN UNCHANGED <<saved, sim>>
         ELSE /\ sim' = [sim EXCEPT ![p] = m.sim]
              /\ saved' = [saved EXCEPT ![p] = [f \in Frame |-> NoSnapshot]]
  BY <1>1
<1>3. m \in Contents(toPeer[p])
  BY <1>1, ContentsOfRest DEF IInv, VariablesTyped, LinksTyped
<1>4. Begun /\ HasEverybody(m.sim)
  BY <1>2, <1>3 DEF Gathering, LinksTell, Tells
<1>5. /\ DOMAIN peer = Peer /\ DOMAIN peer[p] = PeerFields
      /\ DOMAIN sim = Process /\ DOMAIN saved = Peer
      /\ p \in Process /\ p # Host /\ Host \in Process /\ Peer \subseteq Process
  BY PeerAssumption DEF IInv, VariablesTyped, Gathering, PeersGather, Process
<1>6. remotes' = remotes /\ Everybody' = Everybody
  BY <1>2 DEF hostVars, Everybody
<1>7. fields.where = "session" /\ fields.success = decoded
  BY <1>2, <1>5 DEF PeerFields
<1>a. PICK answer : answer = ack
  OBVIOUS
<1>b. /\ IsSequence(<<answer>>) /\ Range(<<answer>>) = {answer}
      /\ ReceiveFromHost(p, <<answer>>)
  BY <1>2, <1>a, RangeOfTuples
<1>c. /\ answer.kind = "SnapshotAck" /\ answer.success = success
  BY <1>a
<1> HIDE DEF ack, barrier, shown, transfer, fields
<1>8. /\ peer'[p].where = "session" /\ peer'[p].success = success
      /\ \A q \in Peer : q # p => peer'[q] = peer[q]
  BY <1>2, <1>5, <1>7
<1>9. CASE again \/ ~decoded
  <2>1. Caught(p) => Caught(p)'
    BY <1>2, <1>6, <1>8, <1>9 DEF Caught
  <2>2. success => Caught(p)
    BY <1>2, <1>9 DEF Gathering, PeersGather, Comes
  <2>3. Remembers(p)' /\ (p \in remotes \ MayJoin => LacksOne(p)')
    BY <1>2, <1>6, <1>8, <1>9 DEF Gathering, PeersGather, Remembers, LacksOne
  <2>4. StateOf(p)
    BY <1>2, <1>4, <1>5, <1>6, <1>8, <1>9, <2>1, <2>2, <2>3 DEF StateOf, Comes, Begun
  <2>5. Answers(p, answer)'
    BY <1>4, <1>6, <1>8, <1>c, <2>1, <2>2 DEF Answers, Begun
  <2> QED
    BY <1>b, <2>4, <2>5, LinksOfReceiver
<1>10. CASE ~(again \/ ~decoded)
  <2>1. /\ DOMAIN sim' = Process /\ DOMAIN saved' = Peer /\ sim'[Host] = sim[Host]
        /\ sim'[p] = m.sim /\ saved'[p] = [f \in Frame |-> NoSnapshot]
        /\ \A q \in Peer : q # p => sim'[q] = sim[q] /\ saved'[q] = saved[q]
    BY <1>2, <1>5, <1>10
  <2>2. Caught(p)'
    BY <1>4, <1>6, <1>8, <2>1 DEF Caught, HasEverybody
  <2>3. Remembers(p)' /\ LacksOne(p)'
    BY <1>4, <1>6, <1>8, <2>1 DEF Remembers, HasEverybody, LacksOne
  <2>4. StateOf(p)
    BY <1>2, <1>4, <1>6, <1>8, <2>1, <2>2, <2>3 DEF StateOf, Comes, Begun
  <2>5. Answers(p, answer)'
    BY <1>4, <1>6, <1>8, <1>c, <2>2 DEF Answers, Begun
  <2> QED
    BY <1>b, <2>4, <2>5, LinksOfReceiver
<1> QED
  BY <1>9, <1>10

\* Frames stepped and replayed leave the players alone.
LEMMA AdvancesGather ==
    ASSUME IInv, TInv, Gathering, NEW p \in Peer, PeerAdvances(p)
    PROVE  LinksOf(p) /\ StateOf(p)
<1>1. UNCHANGED <<hostVars, peer, toPeer, toHost>>
  BY DEF PeerAdvances, HearInputs, RollbackSnapshotMissing, ReplayRollbackWindow, PeerSteps
<1>2. LinksOf(p)
  BY <1>1 DEF LinksOf
<1>3. /\ DOMAIN sim = Process /\ DOMAIN saved = Peer
      /\ p \in Process /\ p # Host /\ Host \in Process /\ Peer \subseteq Process
      /\ Remembers(p)
  BY PeerAssumption DEF Gathering, PeersGather, Process
<1>4. SUFFICES /\ DOMAIN sim' = Process /\ DOMAIN saved' = Peer /\ sim'[Host] = sim[Host]
               /\ \A q \in Peer : q # p => sim'[q] = sim[q] /\ saved'[q] = saved[q]
               /\ Remembers(p)' /\ sim'[p].players = sim[p].players
  <2>1. peer[p].where = "joining" => p \in MayJoin
    BY DEF Gathering, PeersGather, Comes
  <2>2. StateOf(p)
    BY <1>1, <1>4, <2>1, SamePlayers
  <2> QED
    BY <1>2, <2>2
<1>5. CASE UNCHANGED <<sim, saved>>
  BY <1>3, <1>5 DEF Remembers
<1>6. CASE ReplayRollbackWindow(p)
  <2> DEFINE first == requested[p]
             base  == saved[p][first]
  <2>1. PICK bad \in SUBSET Guessed(p, first, frame[p] - 1) :
           /\ first # NoFrame /\ base # NoSnapshot
           /\ sim' = [sim EXCEPT ![p] =
                 [base EXCEPT !.log = @ \o Stepped(p, first, frame[p] - first, bad)]]
           /\ saved' = [saved EXCEPT ![p] = [f \in Frame |->
                 IF f \in first .. (frame[p] - 1)
                 THEN [base EXCEPT !.log = @ \o Stepped(p, first, f - first, bad)]
                 ELSE saved[p][f]]]
    BY <1>6 DEF ReplayRollbackWindow
  <2>2. first \in Frame
    BY <2>1 DEF TInv, FramesTyped
  <2>3. IsSim(base) /\ base.players = sim[p].players
    BY <1>3, <2>1, <2>2 DEF Remembers
  <2> HIDE DEF first, base
  <2>4. ASSUME NEW log
        PROVE  /\ IsSim([base EXCEPT !.log = log])
               /\ [base EXCEPT !.log = log].players = sim[p].players
    BY <2>3 DEF IsSim
  <2>5. IsSim(sim'[p]) /\ sim'[p].players = sim[p].players
    BY <1>3, <2>1, <2>4
  <2>6. ASSUME NEW f \in Frame, saved'[p][f] # NoSnapshot
        PROVE  IsSim(saved'[p][f]) /\ saved'[p][f].players = sim[p].players
    <3>1. \/ saved'[p][f] = saved[p][f]
          \/ \E log : saved'[p][f] = [base EXCEPT !.log = log]
      BY <1>3, <2>1
    <3> QED
      BY <1>3, <2>4, <2>6, <3>1 DEF Remembers
  <2>7. Remembers(p)'
    BY <2>5, <2>6 DEF Remembers
  <2>8. /\ DOMAIN sim' = Process /\ DOMAIN saved' = Peer /\ sim'[Host] = sim[Host]
        /\ \A q \in Peer : q # p => sim'[q] = sim[q] /\ saved'[q] = saved[q]
    BY <1>3, <2>1
  <2> QED
    BY <2>5, <2>7, <2>8
<1>7. CASE PeerSteps(p)
  <2> DEFINE f == frame[p]
  <2>1. PICK bad : /\ sim' = [sim EXCEPT ![p].log = @ \o Stepped(p, f, 1, bad)]
                   /\ saved' = [saved EXCEPT ![p][f] = sim[p]]
    BY <1>7 DEF PeerSteps
  <2> HIDE DEF f
  <2>2. IsSim(sim'[p]) /\ sim'[p].players = sim[p].players
    BY <1>3, <2>1 DEF Remembers, IsSim
  <2>3. \A k : saved'[p][k] = saved[p][k] \/ saved'[p][k] = sim[p]
    BY <1>3, <2>1
  <2>4. Remembers(p)'
    BY <1>3, <2>2, <2>3 DEF Remembers
  <2>5. /\ DOMAIN sim' = Process /\ DOMAIN saved' = Peer /\ sim'[Host] = sim[Host]
        /\ \A q \in Peer : q # p => sim'[q] = sim[q] /\ saved'[q] = saved[q]
    BY <1>3, <2>1
  <2> QED
    BY <2>2, <2>4, <2>5
<1> QED
  BY <1>5, <1>6, <1>7 DEF PeerAdvances, HearInputs, RollbackSnapshotMissing

-----------------------------------------------------------------------------
(* What the host does.                                                     *)

\* The links after a step of the host.
LinksOfHost ==
    /\ \A q \in Peer : \A m \in Contents(toPeer'[q]) : m \in Contents(toPeer[q]) \/ Tells(q, m)
    /\ \A q \in Peer : Contents(toHost'[q]) \subseteq Contents(toHost[q])

\* A step of the host that lets nobody in.
LEMMA HostGathersOn ==
    ASSUME Gathering, remotes \subseteq Peer, UNCHANGED <<remotes, peer, saved>>,
           DOMAIN sim' = Process, IsSim(sim'[Host]), \A q \in Peer : sim'[q] = sim[q],
           LinksOfHost, HostGathers(host'), AllCaughtOrAwaited(host')
    PROVE  Gathering'
<1>1. Everybody' = Everybody /\ Begun' = Begun
  BY DEF Everybody, Begun
<1>2. ASSUME NEW q \in Peer PROVE Caught(q)' <=> Caught(q)
  BY <1>1 DEF Caught
<1>3. LinksTell'
  <2>1. ASSUME NEW q \in Peer, NEW m \in Contents(toPeer'[q]) PROVE Tells(q, m)'
    <3>1. Tells(q, m)
      BY <2>1 DEF LinksOfHost, Gathering, LinksTell
    <3> QED
      BY <1>1, <3>1 DEF Tells, HasEverybody
  <2>2. ASSUME NEW q \in Peer, NEW m \in Contents(toHost'[q]) PROVE Answers(q, m)'
    <3>1. Answers(q, m)
      BY <2>2 DEF LinksOfHost, Gathering, LinksTell
    <3> QED
      BY <1>1, <1>2, <3>1 DEF Answers
  <2> QED
    BY <2>1, <2>2 DEF LinksTell
<1>4. HostGathers(host)'
  BY <1>1 DEF HostGathers, HasEverybody
<1>5. PeersGather'
  <2>1. ASSUME NEW q \in Peer PROVE Comes(q)' /\ Remembers(q)'
    <3>1. Comes(q) /\ Remembers(q)
      BY DEF Gathering, PeersGather
    <3> QED
      BY <1>1, <1>2, <3>1 DEF Comes, Remembers
  <2>2. ASSUME NEW q \in remotes \ MayJoin PROVE LacksOne(q)'
    BY <1>1, <2>2 DEF Gathering, PeersGather, LacksOne
  <2>3. DOMAIN saved' = Peer
    BY DEF Gathering, PeersGather
  <2> QED
    BY <2>1, <2>2, <2>3 DEF PeersGather
<1>6. AllCaughtOrAwaited(host)'
  BY <1>2 DEF AllCaughtOrAwaited, Awaited, Pending
<1> QED
  BY <1>3, <1>4, <1>5, <1>6 DEF Gathering

\* The host takes a packet of p and answers with m2, or not.
LEMMA LinksOfTaker ==
    ASSUME IInv, NEW p \in Peer, NEW m \in Arriving(toHost[p]), ReceiveFromPeer(p),
           toPeer' = toPeer
    PROVE  m \in Contents(toHost[p]) /\ LinksOfHost
<1>1. /\ m \in Contents(toHost[p])
      /\ \A q \in Peer : Contents(toHost'[q]) \subseteq Contents(toHost[q])
  BY ReceiveFromPeerLinks DEF IInv, VariablesTyped
<1> QED
  BY <1>1 DEF LinksOfHost

\* The phase is all that changes from h to h2.
SameRest(h, h2) ==
    /\ h2.active = h.active /\ h2.queue = h.queue /\ h2.awaited = h.awaited
    /\ h2.joined = h.joined /\ h2.removed = h.removed /\ h2.target = h.target
    /\ h2.transfer = h.transfer /\ h2.snapshot = h.snapshot

LEMMA PhaseOnly ==
    ASSUME NEW h, DOMAIN h = HostFields, NEW x
    PROVE  /\ SameRest(h, [h EXCEPT !.phase = x]) /\ [h EXCEPT !.phase = x].phase = x
           /\ DOMAIN [h EXCEPT !.phase = x] = HostFields
  BY DEF SameRest, HostFields

LEMMA SameRestGathers ==
    ASSUME NEW h, NEW h2, SameRest(h, h2)
    PROVE  /\ HostGathers(h) => HostGathers(h2)
           /\ \A q : Pending(h2, q) <=> Pending(h, q)
  BY DEF SameRest, HostGathers, Pending

LEMMA RangeOfAppend ==
    ASSUME NEW q \in Seq(Peer), NEW p \in Peer
    PROVE  Range(Append(q, p)) = Range(q) \cup {p}
<1>1. /\ Len(q) \in Nat /\ DOMAIN q = 1 .. Len(q)
      /\ DOMAIN Append(q, p) = 1 .. Len(q) + 1
      /\ \A i \in 1 .. Len(q) : Append(q, p)[i] = q[i]
      /\ Append(q, p)[Len(q) + 1] = p
  OBVIOUS
<1>2. /\ \A i \in 1 .. Len(q) : i \in 1 .. Len(q) + 1
      /\ Len(q) + 1 \in 1 .. Len(q) + 1
      /\ \A i \in 1 .. Len(q) + 1 : i \in 1 .. Len(q) \/ i = Len(q) + 1
  BY <1>1
<1>3. ASSUME NEW x PROVE x \in Range(Append(q, p)) <=> x \in Range(q) \cup {p}
  BY <1>1, <1>2, Zenon DEF Range
<1> QED
  BY <1>3

\* p is queued; nobody is waited for less.
QueuesOne(h, h2, p) ==
    /\ h2.active = h.active /\ h2.phase = h.phase /\ DOMAIN h2 = HostFields
    /\ HostGathers(h) => HostGathers(h2)
    /\ \A q : Pending(h, q) => Pending(h2, q)
    /\ Pending(h2, p)

LEMMA QueueGathers ==
    ASSUME NEW h, NEW rem, HostTyped(h, rem), NEW p \in Peer
    PROVE  QueuesOne(h, QueueJoinBarrierPeer(h, p), p)
<1> DEFINE h2 == [h EXCEPT !.queue = Append(@, p)]
<1>1. DOMAIN h = HostFields /\ h.queue \in Seq(Peer)
  BY DEF HostTyped, HostOK
<1>2. CASE p \in Range(h.queue)
  BY <1>1, <1>2 DEF QueueJoinBarrierPeer, QueuesOne, Pending
<1>3. CASE p \notin Range(h.queue)
  <2>1. /\ DOMAIN h2 = HostFields
        /\ h2.active = h.active /\ h2.phase = h.phase /\ h2.awaited = h.awaited
        /\ h2.joined = h.joined /\ h2.removed = h.removed /\ h2.target = h.target
        /\ h2.transfer = h.transfer /\ h2.snapshot = h.snapshot
        /\ h2.queue = Append(h.queue, p)
    BY <1>1 DEF HostFields
  <2>2. h2 = QueueJoinBarrierPeer(h, p)
    BY <1>3 DEF QueueJoinBarrierPeer
  <2> HIDE DEF h2
  <2>3. Range(h2.queue) = Range(h.queue) \cup {p}
    BY <1>1, <2>1, RangeOfAppend
  <2>4. QueuesOne(h, h2, p)
    BY <2>1, <2>3 DEF QueuesOne, HostGathers, Pending
  <2> QED
    BY <2>2, <2>4
<1> QED
  BY <1>2, <1>3

\* The transfer is over; its target need not be waited for any more.
LEMMA ClearTransferGathers ==
    ASSUME NEW h, DOMAIN h = HostFields
    PROVE  LET c == ClearJoinBarrierTransfer(h)
           IN  /\ c.active = h.active /\ c.phase = h.phase /\ DOMAIN c = HostFields
               /\ c.queue = h.queue /\ c.awaited = h.awaited /\ c.joined = h.joined
               /\ c.removed = h.removed /\ c.transfer = 0 /\ c.target = Nobody
               /\ HostGathers(h) => HostGathers(c)
               /\ \A q : Pending(h, q) /\ q # h.target => Pending(c, q)
<1> DEFINE c == ClearJoinBarrierTransfer(h)
<1>1. /\ c.active = h.active /\ c.phase = h.phase /\ DOMAIN c = HostFields
      /\ c.queue = h.queue /\ c.awaited = h.awaited /\ c.joined = h.joined
      /\ c.removed = h.removed /\ c.transfer = 0 /\ c.target = Nobody
  BY DEF HostFields, ClearJoinBarrierTransfer
<1> HIDE DEF c
<1>2. /\ HostGathers(h) => HostGathers(c)
      /\ \A q : Pending(h, q) /\ q # h.target => Pending(c, q)
  BY <1>1 DEF HostGathers, Pending
<1> QED
  BY <1>1, <1>2 DEF c

\* Nobody is pending when the host is ready to resume.
LEMMA ReadyPendsNobody ==
    ASSUME NEW h, JoinBarrierReadyToResume(h), NEW q
    PROVE  ~Pending(h, q)
<1>1. Range(<<>>) = {}
  BY DEF Range
<1> QED
  BY <1>1 DEF JoinBarrierReadyToResume, Pending

\* A step of the host that only changes its fields and the links.
LEMMA HostFieldsGather ==
    ASSUME TInv, Gathering, UNCHANGED <<remotes, peer, saved, sim>>,
           LinksOfHost, HostGathers(host'), AllCaughtOrAwaited(host')
    PROVE  Gathering'
  BY HostGathersOn DEF TInv, Gathering, PeersGather

\* An acknowledgement of a snapshot.
LEMMA SnapshotAckGathers ==
    ASSUME IInv, TInv, Gathering, NEW p \in Peer, HandleSnapshotResyncAck(p)
    PROVE  Gathering'
<1> DEFINE idle   == ClearJoinBarrierTransfer(host)
           queued == QueueJoinBarrierPeer(idle, p)
           ended  == [idle EXCEPT !.phase = PhaseWhenIdle(idle)]
           again  == [queued EXCEPT !.phase = "WaitingForCatchup"]
<1>1. PICK m \in Arriving(toHost[p]) :
         /\ m.kind = "SnapshotAck"
         /\ host' = IF ~AnswersTransfer(m) THEN host
                    ELSE IF m.success THEN ended ELSE again
         /\ ReceiveFromPeer(p)
         /\ UNCHANGED <<remotes, peer, saved, sim>> /\ toPeer' = toPeer
  BY DEF HandleSnapshotResyncAck, peerVars
<1>2. m \in Contents(toHost[p]) /\ LinksOfHost
  BY <1>1, LinksOfTaker
<1>3. /\ HostGathers(host) /\ AllCaughtOrAwaited(host) /\ remotes \subseteq Peer
      /\ HostTyped(host, remotes) /\ DOMAIN host = HostFields
  BY DEF Gathering, TInv, HostTyped, HostOK
<1>4. CASE ~AnswersTransfer(m)
  BY <1>1, <1>2, <1>3, <1>4, HostFieldsGather
<1>5. CASE AnswersTransfer(m)
  <2>1. host.active /\ p = host.target
    BY <1>1, <1>2, <1>5
       DEF AnswersTransfer, IInv, PacketsInPlace, PacketOfTransfer
  <2>2. /\ idle.active /\ DOMAIN idle = HostFields /\ HostGathers(idle)
        /\ \A q : Pending(host, q) /\ q # p => Pending(idle, q)
    BY <1>3, <2>1, ClearTransferGathers
  <2>3. HostTyped(idle, remotes)
    BY <1>3, ClearTyped
  <2> HIDE DEF idle
  <2>4. ASSUME NEW q \in remotes, q # p PROVE Caught(q) \/ Pending(idle, q)
    BY <1>3, <2>2, <2>4 DEF AllCaughtOrAwaited, Awaited
  <2>5. CASE m.success
    <3> DEFINE x == PhaseWhenIdle(idle)
    <3>1. Caught(p)
      BY <1>1, <1>2, <2>5 DEF Gathering, LinksTell, Answers
    <3>2. SameRest(idle, ended) /\ ended.phase = x
      BY <2>2, PhaseOnly
    <3> HIDE DEF ended
    <3>3. /\ HostGathers(ended) /\ ended.active
          /\ \A q : Pending(ended, q) <=> Pending(idle, q)
      BY <2>2, <3>2, SameRestGathers DEF SameRest
    <3>4. ASSUME NEW q \in remotes PROVE Caught(q) \/ Awaited(ended, q)
      <4>1. CASE x = "ReadyToResume"
        <5>1. JoinBarrierReadyToResume(idle)
          BY <4>1 DEF PhaseWhenIdle
        <5>2. ~Pending(idle, q)
          BY <5>1, ReadyPendsNobody
        <5> QED
          BY <2>4, <3>1, <5>2
      <4>2. CASE x # "ReadyToResume"
        BY <2>4, <3>1, <3>2, <3>3, <4>2 DEF Awaited
      <4> QED
        BY <4>1, <4>2
    <3>5. HostGathers(host') /\ AllCaughtOrAwaited(host')
      BY <1>1, <1>5, <2>5, <3>3, <3>4 DEF AllCaughtOrAwaited
    <3> QED
      BY <1>1, <1>2, <3>5, HostFieldsGather
  <2>6. CASE ~m.success
    <3>1. QueuesOne(idle, queued, p)
      BY <2>3, QueueGathers
    <3> HIDE DEF queued
    <3>2. SameRest(queued, again) /\ again.phase = "WaitingForCatchup"
      BY <3>1, PhaseOnly DEF QueuesOne
    <3> HIDE DEF again
    <3>3. /\ HostGathers(again) /\ again.active
          /\ \A q : Pending(idle, q) \/ q = p => Pending(again, q)
      <4>1. /\ HostGathers(queued) /\ queued.active
            /\ \A q : Pending(idle, q) \/ q = p => Pending(queued, q)
        BY <2>2, <3>1 DEF QueuesOne
      <4>2. again.active
        BY <3>2, <4>1 DEF SameRest
      <4> QED
        BY <3>2, <4>1, <4>2, SameRestGathers
    <3>4. HostGathers(host') /\ AllCaughtOrAwaited(host')
      BY <1>1, <1>5, <2>4, <2>6, <3>2, <3>3 DEF AllCaughtOrAwaited, Awaited
    <3> QED
      BY <1>1, <1>2, <3>4, HostFieldsGather
  <2> QED
    BY <2>5, <2>6
<1> QED
  BY <1>4, <1>5

\* An acknowledgement of a topology.
LEMMA TopologyAckGathers ==
    ASSUME IInv, TInv, Gathering, NEW p \in Peer, HandleJoinBarrierTopologyAck(p)
    PROVE  Gathering'
<1> DEFINE answered == [host EXCEPT !.awaited = @ \ {p}]
           queued   == QueueJoinBarrierPeer(answered, p)
           again    == [queued EXCEPT !.phase = "WaitingForCatchup"]
           ready    == [answered EXCEPT !.phase = "ReadyToResume"]
<1>1. PICK m \in Arriving(toHost[p]) :
         /\ m.kind = "TopologyAck"
         /\ host' = IF ~host.active \/ m.id # host.id THEN host
                    ELSE IF ~m.success THEN again
                    ELSE IF JoinBarrierReadyToResume(answered) THEN ready
                    ELSE answered
         /\ ReceiveFromPeer(p)
         /\ UNCHANGED <<remotes, peer, saved, sim>> /\ toPeer' = toPeer
  BY DEF HandleJoinBarrierTopologyAck, peerVars
<1>2. m \in Contents(toHost[p]) /\ LinksOfHost
  BY <1>1, LinksOfTaker
<1>3. /\ HostGathers(host) /\ AllCaughtOrAwaited(host) /\ remotes \subseteq Peer
      /\ HostTyped(host, remotes) /\ DOMAIN host = HostFields /\ HostOK(host)
  BY DEF Gathering, TInv, HostTyped, HostOK
<1>4. CASE ~host.active \/ m.id # host.id
  BY <1>1, <1>2, <1>3, <1>4, HostFieldsGather
<1>5. CASE host.active /\ m.id = host.id
  <2>1. /\ DOMAIN answered = HostFields /\ answered.active /\ answered.phase = host.phase
        /\ answered.queue = host.queue /\ answered.awaited = host.awaited \ {p}
        /\ answered.joined = host.joined /\ answered.removed = host.removed
        /\ answered.target = host.target /\ answered.transfer = host.transfer
        /\ answered.snapshot = host.snapshot
    BY <1>3, <1>5 DEF HostFields
  <2>2. SameBarrier(host, answered)
    BY <1>3, MovesOfLists
  <2> HIDE DEF answered
  <2>3. /\ HostGathers(answered)
        /\ \A q : Pending(host, q) /\ q # p => Pending(answered, q)
    <3>1. HostGathers(answered)
      BY <1>3, <1>5, <2>1 DEF HostGathers
    <3>2. ASSUME NEW q, Pending(host, q), q # p PROVE Pending(answered, q)
      BY <2>1, <3>2 DEF Pending
    <3> QED
      BY <3>1, <3>2
  <2>4. HostTyped(answered, remotes)
    <3>1. /\ answered.awaited \subseteq remotes /\ answered.joined \subseteq remotes
          /\ answered.removed \subseteq Peer /\ answered.target \in remotes \cup {Nobody}
          /\ answered.queue \in Seq(Peer) /\ IsInjective(answered.queue)
      BY <1>3, <2>1 DEF HostTyped
    <3> QED
      BY <1>3, <2>1, <2>2, <3>1, ListsTyped
  <2>5. ASSUME NEW q \in remotes, q # p PROVE Caught(q) \/ Pending(answered, q)
    BY <1>3, <2>3, <2>5 DEF AllCaughtOrAwaited, Awaited
  <2>6. CASE ~m.success
    <3>1. QueuesOne(answered, queued, p)
      BY <2>4, QueueGathers
    <3> HIDE DEF queued
    <3>2. SameRest(queued, again) /\ again.phase = "WaitingForCatchup"
      BY <3>1, PhaseOnly DEF QueuesOne
    <3> HIDE DEF again
    <3>3. /\ HostGathers(again) /\ again.active
          /\ \A q : Pending(answered, q) \/ q = p => Pending(again, q)
      <4>1. /\ HostGathers(queued) /\ queued.active
            /\ \A q : Pending(answered, q) \/ q = p => Pending(queued, q)
        BY <2>1, <2>3, <3>1 DEF QueuesOne
      <4>2. again.active
        BY <3>2, <4>1 DEF SameRest
      <4> QED
        BY <3>2, <4>1, <4>2, SameRestGathers
    <3>4. HostGathers(host') /\ AllCaughtOrAwaited(host')
      BY <1>1, <1>5, <2>5, <2>6, <3>2, <3>3 DEF AllCaughtOrAwaited, Awaited
    <3> QED
      BY <1>1, <1>2, <3>4, HostFieldsGather
  <2>7. CASE m.success
    <3>1. Caught(p)
      BY <1>1, <1>2, <2>7 DEF Gathering, LinksTell, Answers
    <3>2. CASE JoinBarrierReadyToResume(answered)
      <4>1. SameRest(answered, ready)
        BY <2>1, PhaseOnly
      <4> HIDE DEF ready
      <4>2. HostGathers(ready)
        BY <2>3, <4>1, SameRestGathers
      <4>3. \A q \in remotes : Caught(q)
        BY <2>5, <3>1, <3>2, ReadyPendsNobody
      <4>4. HostGathers(host') /\ AllCaughtOrAwaited(host')
        BY <1>1, <1>5, <2>7, <3>2, <4>2, <4>3 DEF AllCaughtOrAwaited
      <4> QED
        BY <1>1, <1>2, <4>4, HostFieldsGather
    <3>3. CASE ~JoinBarrierReadyToResume(answered)
      <4>1. ASSUME NEW q \in remotes PROVE Caught(q) \/ Awaited(answered, q)
        BY <1>3, <2>1, <2>3, <3>1 DEF AllCaughtOrAwaited, Awaited
      <4>2. HostGathers(host') /\ AllCaughtOrAwaited(host')
        BY <1>1, <1>5, <2>3, <2>7, <3>3, <4>1 DEF AllCaughtOrAwaited
      <4> QED
        BY <1>1, <1>2, <4>2, HostFieldsGather
    <3> QED
      BY <3>2, <3>3
  <2> QED
    BY <2>6, <2>7
<1> QED
  BY <1>4, <1>5

-----------------------------------------------------------------------------
(* The host's tick.                                                        *)

\* Sequences of packets to q that tell the truth.
TellsAll(q, s) == IsSequence(s) /\ \A m \in Range(s) : Tells(q, m)

LEMMA TellsAllAppended ==
    ASSUME NEW q, NEW s, TellsAll(q, s), NEW t, TellsAll(q, t)
    PROVE  TellsAll(q, s \o t)
  BY RangeOfConcatenation DEF TellsAll

LEMMA TellsStatus ==
    ASSUME NEW q, NEW h
    PROVE  /\ TellsAll(q, <<Status(h)>>) /\ TellsAll(q, <<Status(h), Resume(h)>>)
           /\ TellsAll(q, <<>>)
<1>1. Tells(q, Status(h)) /\ Tells(q, Resume(h))
  BY DEF Tells, Status, Resume
<1> QED
  BY <1>1, RangeOfTuples DEF TellsAll

\* A topology is sent to those that are not new, and is of the one that is.
LEMMA TellsTopology ==
    ASSUME OneComesNobodyLeaves, TInv, Gathering, host.active, NEW q
    PROVE  TellsAll(q, TopologyFor(host, q))
<1>1. /\ host.joined \subseteq MayJoin /\ host.removed = {} /\ host.awaited \cap MayJoin = {}
      /\ Begun /\ host.awaited \subseteq remotes
  BY DEF Gathering, HostGathers, TInv, HostTyped
<1>2. CASE q \in host.awaited /\ host.joined # {}
  <2>1. host.joined = MayJoin
    BY <1>1, <1>2 DEF OneComesNobodyLeaves
  <2>2. Tells(q, Topology(host))
    BY <1>1, <1>2, <2>1 DEF Tells, Topology
  <2> QED
    BY <2>2, TopologyForPackets DEF TellsAll
<1>3. CASE ~(q \in host.awaited /\ host.joined # {})
  <2>1. TopologyFor(host, q) = <<>>
    BY <1>1, <1>3 DEF TopologyFor
  <2> QED
    BY <2>1, TellsStatus
<1> QED
  BY <1>2, <1>3

\* A tick of the host.
LEMMA TickGathers ==
    ASSUME IInv, TInv, Gathering, NEW packets, DOMAIN packets = Peer,
           \A q \in Peer : TellsAll(q, packets[q]),
           SendToPeers(packets), toHost' = toHost,
           UNCHANGED <<remotes, peer, saved, sim>>,
           HostGathers(host'), AllCaughtOrAwaited(host')
    PROVE  Gathering'
<1>1. \A q \in Peer : Contents(toPeer'[q]) \subseteq Contents(toPeer[q]) \cup Range(packets[q])
  BY SendToPeersLinks DEF IInv, VariablesTyped, TellsAll
<1>2. LinksOfHost
  BY <1>1 DEF LinksOfHost, TellsAll
<1> QED
  BY <1>2, HostFieldsGather

LEMMA ResumeGathers ==
    ASSUME IInv, TInv, Gathering, ResumeEverybody
    PROVE  Gathering' /\ \A q \in remotes : Caught(q)
<1> DEFINE packets == [p \in Peer |-> <<Status(host), Resume(host)>>]
<1>1. /\ SendToPeers(packets) /\ toHost' = toHost /\ host' = ClearJoinBarrier(host)
      /\ host.phase = "ReadyToResume"
      /\ UNCHANGED <<remotes, peer, saved, sim>>
  BY DEF ResumeEverybody, peerVars
<1>2. /\ DOMAIN host = HostFields /\ HostGathers(host) /\ AllCaughtOrAwaited(host)
  BY DEF TInv, HostTyped, HostOK, Gathering
<1>3. \A q \in remotes : Caught(q)
  BY <1>1, <1>2 DEF AllCaughtOrAwaited, Awaited
<1>4. /\ ~host'.active /\ host'.transfer = 0 /\ host'.joined = {} /\ host'.removed = {}
      /\ host'.awaited = {}
  BY <1>1, <1>2 DEF ClearJoinBarrier, ClearJoinBarrierTransfer, HostFields
<1>5. HostGathers(host') /\ AllCaughtOrAwaited(host')
  BY <1>3, <1>4 DEF HostGathers, AllCaughtOrAwaited
<1>6. DOMAIN packets = Peer /\ \A q \in Peer : TellsAll(q, packets[q])
  BY TellsStatus
<1> HIDE DEF packets
<1> QED
  BY <1>1, <1>3, <1>5, <1>6, TickGathers

LEMMA WaitForAcksGathers ==
    ASSUME OneComesNobodyLeaves, IInv, TInv, Gathering, WaitForAcks
    PROVE  Gathering'
<1> DEFINE x == PhaseWhenIdle(host)
           packets == [p \in Peer |-> TopologyFor(host, p) \o <<Status(host')>>]
<1>1. /\ SendToPeers(packets) /\ toHost' = toHost /\ host' = [host EXCEPT !.phase = x]
      /\ host.active /\ UNCHANGED <<remotes, peer, saved, sim>>
  BY DEF WaitForAcks, CanSend, peerVars
<1>2. /\ DOMAIN host = HostFields /\ HostGathers(host) /\ AllCaughtOrAwaited(host)
  BY DEF TInv, HostTyped, HostOK, Gathering
<1>3. DOMAIN packets = Peer /\ \A q \in Peer : TellsAll(q, packets[q])
  BY <1>1, TellsTopology, TellsStatus, TellsAllAppended
<1>4. SameRest(host, host') /\ host'.phase = x
  BY <1>1, <1>2, PhaseOnly
<1> HIDE DEF x, packets
<1>5. /\ HostGathers(host') /\ host'.active
      /\ \A q : Pending(host', q) <=> Pending(host, q)
  BY <1>1, <1>2, <1>4, SameRestGathers DEF SameRest
<1>6. ASSUME NEW q \in remotes PROVE Caught(q) \/ Awaited(host', q)
  <2>1. CASE x = "ReadyToResume"
    <3>1. JoinBarrierReadyToResume(host)
      BY <2>1 DEF PhaseWhenIdle, x
    <3>2. ~Pending(host, q)
      BY <3>1, ReadyPendsNobody
    <3> QED
      BY <1>2, <3>2 DEF AllCaughtOrAwaited, Awaited
  <2>2. CASE x # "ReadyToResume"
    BY <1>2, <1>4, <1>5, <2>2 DEF AllCaughtOrAwaited, Awaited
  <2> QED
    BY <2>1, <2>2
<1>7. AllCaughtOrAwaited(host')
  BY <1>6 DEF AllCaughtOrAwaited
<1> QED
  BY <1>1, <1>3, <1>5, <1>7, TickGathers

\* Who is first in the queue is now sent a snapshot.
LEMMA StartNextTransferGathers ==
    ASSUME OneComesNobodyLeaves, IInv, TInv, Gathering, StartNextTransfer
    PROVE  Gathering'
<1> DEFINE p       == Head(host.queue)
           dropped == [host EXCEPT !.queue = Tail(@), !.phase = "WaitingForCatchup"]
           snapshot == [frame |-> frame[Host], sim |-> sim[Host]]
           started == [dropped EXCEPT
                         !.target = p, !.phase = "SendingSnapshot", !.transfer = nextId,
                         !.snapshot = snapshot]
           toStart == [q \in Peer |-> TopologyFor(host, q) \o <<Status(started)>>]
           toDrop  == [q \in Peer |-> TopologyFor(host, q)]
<1>1. /\ host.active /\ host.transfer = 0 /\ toHost' = toHost /\ host.queue # <<>>
      /\ host.phase # "ReadyToResume"
      /\ \/ host' = started /\ SendToPeers(toStart)
         \/ p \notin remotes /\ host' = dropped /\ SendToPeers(toDrop)
      /\ UNCHANGED <<remotes, peer, saved, sim>>
  BY DEF StartNextTransfer, CanSend, peerVars
<1>2. /\ DOMAIN host = HostFields /\ HostGathers(host) /\ AllCaughtOrAwaited(host)
      /\ host.queue \in Seq(Peer) /\ nextId # 0
  BY DEF TInv, HostTyped, HostOK, Gathering, IInv, VariablesTyped
<1>3. HasEverybody(snapshot.sim)
  BY DEF TInv, HostSimTyped, Gathering, PeersGather, HasEverybody, Everybody
<1>4. Range(host.queue) \subseteq {p} \cup Range(Tail(host.queue))
  <2> DEFINE t == Tail(host.queue)
  <2>1. /\ Len(host.queue) \in Nat /\ DOMAIN host.queue = 1 .. Len(host.queue)
        /\ DOMAIN t = 1 .. Len(host.queue) - 1 /\ p = host.queue[1]
        /\ \A i \in 1 .. Len(host.queue) - 1 : t[i] = host.queue[i + 1]
    BY <1>1, <1>2
  <2> HIDE DEF p, t
  <2>2. ASSUME NEW i \in 1 .. Len(host.queue)
        PROVE  host.queue[i] = p \/ \E k \in DOMAIN t : host.queue[i] = t[k]
    <3>1. CASE i = 1
      BY <2>1, <3>1
    <3>2. CASE i # 1
      <4>1. i - 1 \in 1 .. Len(host.queue) - 1 /\ (i - 1) + 1 = i
        BY <2>1, <3>2
      <4> QED
        BY <2>1, <4>1
    <3> QED
      BY <3>1, <3>2
  <2>3. Range(host.queue) \subseteq {p} \cup Range(t)
    BY <2>1, <2>2 DEF Range
  <2> QED
    BY <2>3 DEF t
<1>5. /\ DOMAIN dropped = HostFields /\ dropped.queue = Tail(host.queue)
      /\ dropped.phase = "WaitingForCatchup" /\ dropped.active = host.active
      /\ dropped.awaited = host.awaited
      /\ dropped.joined = host.joined /\ dropped.removed = host.removed
      /\ dropped.target = host.target /\ dropped.transfer = host.transfer
  BY <1>2 DEF HostFields
<1> HIDE DEF dropped, snapshot, p
<1>6. /\ started.queue = dropped.queue
      /\ started.phase = "SendingSnapshot" /\ started.active = dropped.active
      /\ started.awaited = dropped.awaited
      /\ started.joined = dropped.joined /\ started.removed = dropped.removed
      /\ started.target = p /\ started.transfer = nextId /\ started.snapshot = snapshot
  BY <1>5 DEF HostFields
<1> HIDE DEF started
<1>7. ASSUME NEW q \in Peer PROVE TellsAll(q, TopologyFor(host, q))
  BY <1>1, TellsTopology
<1>8. CASE host' = started /\ SendToPeers(toStart)
  <2>1. DOMAIN toStart = Peer /\ \A q \in Peer : TellsAll(q, toStart[q])
    BY <1>7, TellsStatus, TellsAllAppended
  <2> HIDE DEF toStart
  <2>2. HostGathers(started)
    BY <1>1, <1>2, <1>3, <1>5, <1>6 DEF HostGathers
  <2>3. ASSUME NEW q, Pending(host, q) PROVE Pending(started, q)
    BY <1>1, <1>2, <1>4, <1>5, <1>6, <2>3 DEF Pending
  <2>4. AllCaughtOrAwaited(started)
    BY <1>1, <1>2, <1>5, <1>6, <2>3 DEF AllCaughtOrAwaited, Awaited
  <2> QED
    BY <1>1, <1>8, <2>1, <2>2, <2>4, TickGathers
<1>9. CASE p \notin remotes /\ host' = dropped /\ SendToPeers(toDrop)
  <2>1. DOMAIN toDrop = Peer /\ \A q \in Peer : TellsAll(q, toDrop[q])
    BY <1>7
  <2> HIDE DEF toDrop
  <2>2. HostGathers(dropped)
    BY <1>1, <1>2, <1>5 DEF HostGathers
  <2>3. ASSUME NEW q \in remotes, Pending(host, q) PROVE Pending(dropped, q)
    BY <1>1, <1>4, <1>5, <1>9, <2>3 DEF Pending
  <2>4. AllCaughtOrAwaited(dropped)
    BY <1>1, <1>2, <1>5, <2>3 DEF AllCaughtOrAwaited, Awaited
  <2> QED
    BY <1>1, <1>9, <2>1, <2>2, <2>4, TickGathers
<1> QED
  BY <1>1, <1>8, <1>9

\* The snapshot under way is sent again.
LEMMA ContinueTransferGathers ==
    ASSUME OneComesNobodyLeaves, IInv, TInv, Gathering, ContinueTransfer
    PROVE  Gathering'
<1> DEFINE sent    == [host EXCEPT !.phase = "WaitingForAck"]
           last(q) == IF q = host.target THEN <<Chunk(host)>> ELSE <<>>
           toSend  == [q \in Peer |-> TopologyFor(host, q) \o <<Status(host)>>
                                       \o last(q) \o <<Status(sent)>>]
<1>1. host.target \in remotes
  BY DEF ContinueTransfer, TInv, HostTyped
<1>2. /\ host.active /\ host.transfer # 0 /\ host.phase # "ReadyToResume"
      /\ toHost' = toHost /\ host' = sent /\ SendToPeers(toSend)
      /\ UNCHANGED <<remotes, peer, saved, sim>>
  BY <1>1 DEF ContinueTransfer, CanSend, peerVars
<1>3. /\ DOMAIN host = HostFields /\ HostGathers(host) /\ AllCaughtOrAwaited(host)
  BY DEF TInv, HostTyped, HostOK, Gathering
<1>4. SameRest(host, sent) /\ sent.phase = "WaitingForAck"
  BY <1>3, PhaseOnly
<1> HIDE DEF sent
<1>5. /\ HostGathers(sent) /\ sent.active
      /\ \A q : Pending(sent, q) <=> Pending(host, q)
  BY <1>2, <1>3, <1>4, SameRestGathers DEF SameRest
<1>6. AllCaughtOrAwaited(sent)
  BY <1>3, <1>4, <1>5 DEF AllCaughtOrAwaited, Awaited
<1>7. ASSUME NEW q \in Peer PROVE TellsAll(q, toSend[q])
  <2>1. TellsAll(q, TopologyFor(host, q) \o <<Status(host)>>)
    BY <1>2, TellsTopology, TellsStatus, TellsAllAppended
  <2>2. Tells(q, Chunk(host))
    BY <1>2, <1>3 DEF HostGathers, Tells, Chunk
  <2>3. TellsAll(q, last(q))
    BY <2>2, RangeOfTuples DEF TellsAll
  <2> HIDE DEF last
  <2>4. TellsAll(q, TopologyFor(host, q) \o <<Status(host)>> \o last(q))
    BY <2>1, <2>3, TellsAllAppended
  <2>5. TellsAll(q, TopologyFor(host, q) \o <<Status(host)>> \o last(q) \o <<Status(sent)>>)
    BY <2>4, TellsStatus, TellsAllAppended
  <2> QED
    BY <2>5
<1>8. DOMAIN toSend = Peer
  OBVIOUS
<1> HIDE DEF toSend
<1> QED
  BY <1>2, <1>5, <1>6, <1>7, <1>8, TickGathers

\* The host steps a frame.
LEMMA HostStepsGather ==
    ASSUME IInv, TInv, Gathering, HostSteps
    PROVE  Gathering'
<1>1. /\ sim' = [sim EXCEPT ![Host].log = Append(@, frame[Host])]
      /\ UNCHANGED <<host, remotes, peer, saved, toPeer, toHost>>
  BY DEF HostSteps, hostVars, peerVars
<1>2. /\ DOMAIN sim = Process /\ IsSim(sim[Host]) /\ remotes \subseteq Peer
      /\ HostGathers(host) /\ AllCaughtOrAwaited(host)
  BY DEF Gathering, PeersGather, TInv
<1>3. Host \in Process /\ Host \notin Peer
  BY PeerAssumption DEF Process
<1>4. DOMAIN sim' = Process /\ IsSim(sim'[Host]) /\ \A q \in Peer : sim'[q] = sim[q]
  BY <1>1, <1>2, <1>3 DEF IsSim
<1>5. LinksOfHost
  BY <1>1 DEF LinksOfHost
<1> QED
  BY <1>1, <1>2, <1>4, <1>5, HostGathersOn

-----------------------------------------------------------------------------
(* Somebody is let in.                                                     *)

\* The links after a join request of p.
LEMMA LinksOfRequest ==
    ASSUME IInv, NEW p \in Peer, NEW m \in Arriving(toHost[p]), ReceiveFromPeer(p),
           NEW answer, toPeer' = [toPeer EXCEPT ![p] = Put(@, <<answer>>)]
    PROVE  /\ m \in Contents(toHost[p])
           /\ \A q \in Peer : \A k \in Contents(toPeer'[q]) :
                 k \in Contents(toPeer[q]) \/ k = answer
           /\ \A q \in Peer : Contents(toHost'[q]) \subseteq Contents(toHost[q])
<1>1. /\ m \in Contents(toHost[p])
      /\ \A q \in Peer : Contents(toHost'[q]) \subseteq Contents(toHost[q])
  BY ReceiveFromPeerLinks DEF IInv, VariablesTyped
<1>2. IsSequence(<<answer>>) /\ Range(<<answer>>) = {answer}
  BY RangeOfTuples
<1>3. Contents(Put(toPeer[p], <<answer>>)) = Contents(toPeer[p]) \cup {answer}
  BY <1>2, ContentsOfPut DEF IInv, VariablesTyped, LinksTyped
<1>4. DOMAIN toPeer = Peer
  BY DEF IInv, VariablesTyped, LinksTyped
<1>5. ASSUME NEW q \in Peer, NEW k \in Contents(toPeer'[q])
      PROVE  k \in Contents(toPeer[q]) \/ k = answer
  BY <1>3, <1>4, <1>5
<1> QED
  BY <1>1, <1>5

\* The barrier raised where none stood.
LEMMA RaiseWhenNone ==
    ASSUME NEW h, DOMAIN h = HostFields, ~h.active
    PROVE  LET r == RaiseBarrier(h)
           IN  /\ DOMAIN r = HostFields /\ r.active /\ r.phase = "WaitingForCatchup"
               /\ r.queue = <<>> /\ r.awaited = h.awaited /\ r.joined = h.joined
               /\ r.removed = h.removed /\ r.target = Nobody /\ r.transfer = 0
<1> DEFINE c == ClearJoinBarrierTransfer(h)
<1>1. /\ DOMAIN c = HostFields /\ c.awaited = h.awaited /\ c.joined = h.joined
      /\ c.removed = h.removed /\ c.target = Nobody /\ c.transfer = 0
  BY ClearTransferGathers
<1> HIDE DEF c
<1>2. RaiseBarrier(h) = [c EXCEPT !.active = TRUE, !.id = @ + 1,
                                   !.phase = "WaitingForCatchup", !.queue = <<>>]
  BY DEF RaiseBarrier, c
<1> QED
  BY <1>1, <1>2 DEF HostFields

\* Who is in asks again.
LEMMA AsksAgainGathers ==
    ASSUME TInv, Gathering, NEW p \in remotes \cap MayJoin, MayJoin = {p},
           host.active \/ host.id < MaxBarrier
    PROVE  LET h2 == BeginJoinBarrierCatchup(host, p)
           IN  HostGathers(h2) /\ AllCaughtOrAwaited(h2)
<1> DEFINE r  == RaiseBarrier(host)
           h2 == QueueJoinBarrierPeer(r, p)
<1>1. /\ HostTyped(host, remotes) /\ DOMAIN host = HostFields
      /\ HostGathers(host) /\ AllCaughtOrAwaited(host) /\ p \in Peer
  BY DEF TInv, HostTyped, HostOK, Gathering
<1>2. HostTyped(r, remotes)
  BY <1>1, RaiseTyped
<1>3. QueuesOne(r, h2, p)
  BY <1>1, <1>2, QueueGathers
<1>4. CASE host.active
  <2>1. r = host
    BY <1>4 DEF RaiseBarrier
  <2> HIDE DEF h2, r
  <2>2. HostGathers(h2)
    BY <1>1, <1>3, <2>1 DEF QueuesOne
  <2>3. AllCaughtOrAwaited(h2)
    BY <1>1, <1>3, <2>1 DEF QueuesOne, AllCaughtOrAwaited, Awaited
  <2> QED
    BY <2>2, <2>3 DEF BeginJoinBarrierCatchup, h2, r
<1>5. CASE ~host.active
  <2>1. /\ r.awaited = host.awaited /\ r.joined = host.joined
        /\ r.removed = host.removed /\ r.transfer = 0
    BY <1>1, <1>5, RaiseWhenNone
  <2> HIDE DEF h2, r
  <2>2. HostGathers(r)
    BY <1>1, <2>1 DEF HostGathers, Begun
  <2>3. HostGathers(h2)
    BY <1>3, <2>2 DEF QueuesOne
  <2>4. AllCaughtOrAwaited(h2)
    BY <1>1, <1>5 DEF AllCaughtOrAwaited, Awaited
  <2> QED
    BY <2>3, <2>4 DEF BeginJoinBarrierCatchup, h2, r
<1> QED
  BY <1>4, <1>5

\* What the barrier is raised with when p comes: p is queued, and everybody
\* else is to acknowledge.
LEMMA ComesWhenNone ==
    ASSUME NEW h, NEW rem, HostTyped(h, rem), ~h.active, NEW p \in Peer, p \notin rem,
           h.joined = {}, h.removed = {}, h.awaited \cap {p} = {}, Nobody \notin rem
    PROVE  LET h2 == BeginJoinBarrierTopologyChange(h, rem, p)
           IN  /\ h2.active /\ h2.phase = "WaitingForCatchup" /\ h2.transfer = 0
               /\ h2.joined = {p} /\ h2.removed = {} /\ h2.awaited \cap {p} = {}
               /\ p \in Range(h2.queue) /\ rem \subseteq h2.awaited
<1> DEFINE r    == RaiseBarrier(h)
           h1   == QueueJoinBarrierPeer(r, p)
           h2   == [h1 EXCEPT !.joined = @ \cup {p}]
           joining == h2.joined \cup Range(h2.queue) \cup {h2.target}
           told == ({h2.target} \ {Nobody}) \cup (rem \ joining)
           h3   == [h2 EXCEPT !.awaited = @ \cup told]
<1>1. BeginJoinBarrierTopologyChange(h, rem, p) = h3
  <2>1. h3 = [h2 EXCEPT !.awaited = h2.awaited \cup ({h2.target} \ {Nobody}) \cup (rem \ joining)]
    <3> HIDE DEF h2, joining
    <3>1. h2.awaited \cup told = h2.awaited \cup ({h2.target} \ {Nobody}) \cup (rem \ joining)
      OBVIOUS
    <3> QED
      BY <3>1
  <2> QED
    BY <2>1 DEF BeginJoinBarrierTopologyChange
<1>2. DOMAIN h = HostFields
  BY DEF HostTyped, HostOK
<1>3. /\ DOMAIN r = HostFields /\ r.active /\ r.phase = "WaitingForCatchup"
      /\ r.queue = <<>> /\ r.awaited = h.awaited /\ r.joined = {}
      /\ r.removed = {} /\ r.target = Nobody /\ r.transfer = 0
  BY <1>2, RaiseWhenNone
<1> HIDE DEF r
<1>4. h1 = [r EXCEPT !.queue = Append(@, p)]
  <2>1. Range(r.queue) = {}
    BY <1>3 DEF Range
  <2> QED
    BY <2>1 DEF QueueJoinBarrierPeer
<1>5. Range(Append(r.queue, p)) = {p}
  <2>1. <<>> \in Seq(Peer) /\ Range(<<>>) = {}
    BY DEF Range
  <2>2. Range(Append(<<>>, p)) = {} \cup {p}
    BY <2>1, RangeOfAppend
  <2> QED
    BY <1>3, <2>2
<1> HIDE DEF h1
<1>6. /\ DOMAIN h1 = HostFields /\ h1.active /\ h1.phase = "WaitingForCatchup"
      /\ Range(h1.queue) = {p} /\ h1.awaited = h.awaited /\ h1.joined = {}
      /\ h1.removed = {} /\ h1.target = Nobody /\ h1.transfer = 0
  <2>1. /\ DOMAIN h1 = HostFields /\ h1.active = r.active /\ h1.phase = r.phase
        /\ h1.queue = Append(r.queue, p) /\ h1.awaited = r.awaited /\ h1.joined = r.joined
        /\ h1.removed = r.removed /\ h1.target = r.target /\ h1.transfer = r.transfer
    BY <1>3, <1>4 DEF HostFields
  <2> QED
    BY <1>3, <1>5, <2>1
<1>7. /\ DOMAIN h2 = HostFields /\ h2.active = h1.active /\ h2.phase = h1.phase
      /\ h2.queue = h1.queue /\ h2.awaited = h1.awaited /\ h2.joined = h1.joined \cup {p}
      /\ h2.removed = h1.removed /\ h2.target = h1.target /\ h2.transfer = h1.transfer
  BY <1>6 DEF HostFields
<1> HIDE DEF h2
<1>8. told = rem
  BY <1>6, <1>7
<1> HIDE DEF told
<1>9. /\ h3.active = h2.active /\ h3.phase = h2.phase
      /\ h3.queue = h2.queue /\ h3.awaited = h2.awaited \cup told /\ h3.joined = h2.joined
      /\ h3.removed = h2.removed /\ h3.target = h2.target /\ h3.transfer = h2.transfer
  BY <1>7 DEF HostFields
<1> HIDE DEF h3
<1>10. /\ h3.active /\ h3.phase = "WaitingForCatchup" /\ h3.transfer = 0
       /\ h3.joined = {p} /\ h3.removed = {} /\ h3.awaited \cap {p} = {}
       /\ p \in Range(h3.queue) /\ rem \subseteq h3.awaited
  BY <1>6, <1>7, <1>8, <1>9
<1> QED
  BY <1>1, <1>10

\* A join request, refused or answered.
LEMMA JoinRequestGathers ==
    ASSUME OneComesNobodyLeaves, IInv, TInv, Gathering, NEW p \in Peer,
           HandleJoinRequestAsHost(p)
    PROVE  Gathering'
<1> DEFINE request == [kind |-> "JoinRequest"]
           refusal == [kind |-> "JoinPending"]
           accept  == [kind |-> "JoinAccept", frame |-> frame[Host]]
<1>1. PICK answer : answer = IF p \in OtherContent THEN refusal ELSE accept
  OBVIOUS
<1>2. /\ request \in Arriving(toHost[p]) /\ ReceiveFromPeer(p)
      /\ toPeer' = [toPeer EXCEPT ![p] = Put(@, <<answer>>)]
      /\ UNCHANGED <<peer, saved>>
      /\ host.active \/ host.id < MaxBarrier
  BY <1>1 DEF HandleJoinRequestAsHost, peerVars
<1>3. answer.kind \in {"JoinPending", "JoinAccept"}
  BY <1>1
<1> HIDE DEF request
<1>4. /\ request \in Contents(toHost[p])
      /\ \A q \in Peer : \A k \in Contents(toPeer'[q]) :
            k \in Contents(toPeer[q]) \/ k = answer
      /\ \A q \in Peer : Contents(toHost'[q]) \subseteq Contents(toHost[q])
  BY <1>2, LinksOfRequest
<1>5. LinksOfHost
  BY <1>3, <1>4 DEF LinksOfHost, Tells
<1>6. p \in MayJoin /\ MayJoin = {p}
  BY <1>4 DEF Gathering, LinksTell, Answers, request, OneComesNobodyLeaves
<1>7. /\ HostTyped(host, remotes) /\ HostSimTyped /\ remotes \subseteq Peer
      /\ HostGathers(host) /\ AllCaughtOrAwaited(host)
      /\ DOMAIN sim = Process /\ IsSim(sim[Host])
  BY DEF TInv, Gathering, PeersGather
<1>8. CASE p \in OtherContent
  <2>1. UNCHANGED <<host, remotes, sim>>
    BY <1>8 DEF HandleJoinRequestAsHost
  <2> QED
    BY <1>2, <1>5, <1>7, <2>1, HostFieldsGather
<1>9. CASE p \notin OtherContent
  <2>1. /\ host' = IF p \in remotes THEN BeginJoinBarrierCatchup(host, p)
                   ELSE BeginJoinBarrierTopologyChange(host, remotes, p)
        /\ remotes' = remotes \cup {p}
        /\ sim' = [sim EXCEPT ![Host].players = @ \cup {p}]
    BY <1>9 DEF HandleJoinRequestAsHost
  <2>2. /\ DOMAIN sim' = Process /\ IsSim(sim'[Host]) /\ \A q \in Peer : sim'[q] = sim[q]
    <3>1. Host \in Process /\ Host \notin Peer
      BY PeerAssumption DEF Process
    <3> QED
      BY <1>7, <2>1, <3>1 DEF IsSim
  <2>3. CASE p \in remotes
    <3>1. remotes' = remotes /\ host' = BeginJoinBarrierCatchup(host, p)
      BY <2>1, <2>3
    <3>2. HostGathers(host') /\ AllCaughtOrAwaited(host')
      BY <1>2, <1>6, <2>3, <3>1, AsksAgainGathers
    <3> QED
      BY <1>2, <1>5, <1>7, <2>2, <3>1, <3>2, HostGathersOn
  <2>4. CASE p \notin remotes
    <3>1. ~Begun /\ ~host.active /\ Begun'
      BY <1>6, <1>7, <2>1, <2>4 DEF Begun, HostGathers
    <3>2. host' = BeginJoinBarrierTopologyChange(host, remotes, p)
      BY <2>1, <2>4
    <3>3. /\ host.joined = {} /\ host.removed = {} /\ host.awaited \cap {p} = {}
          /\ Nobody \notin remotes
      BY <1>6, <1>7, <2>4, PeerAssumption DEF HostGathers, HostTyped
    <3>4. /\ host'.active /\ host'.phase = "WaitingForCatchup" /\ host'.transfer = 0
          /\ host'.joined = {p} /\ host'.removed = {} /\ host'.awaited \cap {p} = {}
          /\ p \in Range(host'.queue) /\ remotes \subseteq host'.awaited
      BY <1>7, <2>4, <3>1, <3>2, <3>3, ComesWhenNone
    <3>5. HostGathers(host)'
      BY <1>6, <3>1, <3>4 DEF HostGathers
    <3>6. AllCaughtOrAwaited(host)'
      BY <2>1, <3>4 DEF AllCaughtOrAwaited, Awaited, Pending
    <3>7. LinksTell'
      <4>1. ASSUME NEW q \in Peer, NEW m \in Contents(toPeer'[q]) PROVE Tells(q, m)'
        <5>1. m.kind \notin {"Chunk", "Topology"}
          BY <1>3, <1>4, <3>1, <4>1 DEF Gathering, LinksTell, Tells
        <5> QED
          BY <5>1 DEF Tells
      <4>2. ASSUME NEW q \in Peer, NEW m \in Contents(toHost'[q]) PROVE Answers(q, m)'
        <5>1. Answers(q, m)
          BY <1>4, <4>2 DEF Gathering, LinksTell
        <5>2. m.kind \notin {"SnapshotAck", "TopologyAck"}
          BY <3>1, <5>1 DEF Answers
        <5> QED
          BY <5>1, <5>2 DEF Answers
      <4> QED
        BY <4>1, <4>2 DEF LinksTell
    <3>8. PeersGather'
      <4>1. ASSUME NEW q \in Peer PROVE Comes(q)' /\ Remembers(q)'
        <5>1. Comes(q) /\ Remembers(q)
          BY DEF Gathering, PeersGather
        <5>2. ~(peer[q].where = "session" /\ peer[q].success)
          BY <3>1, <5>1 DEF Comes
        <5> QED
          BY <1>2, <2>2, <5>1, <5>2 DEF Comes, Remembers
      <4>2. ASSUME NEW q \in remotes' \ MayJoin PROVE LacksOne(q)'
        <5>1. q \in remotes \ MayJoin
          BY <1>6, <2>1, <4>2
        <5>2. LacksOne(q) /\ q \in Peer
          BY <1>7, <5>1 DEF Gathering, PeersGather
        <5> QED
          BY <1>2, <1>6, <2>1, <2>2, <5>2 DEF LacksOne, Everybody
      <4>3. DOMAIN saved' = Peer
        BY <1>2 DEF Gathering, PeersGather
      <4> QED
        BY <2>2, <4>1, <4>2, <4>3 DEF PeersGather
    <3> QED
      BY <3>5, <3>6, <3>7, <3>8 DEF Gathering
  <2> QED
    BY <2>3, <2>4
<1> QED
  BY <1>8, <1>9

-----------------------------------------------------------------------------
(* Nobody is left out.                                                     *)

LEMMA NextGathers ==
    ASSUME OneComesNobodyLeaves, IInv, TInv, Gathering, [Next]_vars
    PROVE  Gathering'
<1>1. remotes \subseteq Peer
  BY DEF TInv
<1>2. CASE HostTicks
  BY <1>2, ResumeGathers, WaitForAcksGathers, StartNextTransferGathers,
     ContinueTransferGathers DEF HostTicks
<1>3. CASE HostSteps
  BY <1>3, HostStepsGather
<1>4. ASSUME NEW p \in Peer, HostReceives(p) PROVE Gathering'
  <2>1. ~HandleLeaveNoticeAsHost(p)
    <3>1. ASSUME NEW m \in Arriving(toHost[p]) PROVE m.kind # "LeaveNotice"
      BY ContentsOfRest
         DEF IInv, VariablesTyped, LinksTyped, Gathering, LinksTell, Answers
    <3> QED
      BY <3>1 DEF HandleLeaveNoticeAsHost
  <2> QED
    BY <1>4, <2>1, JoinRequestGathers, SnapshotAckGathers, TopologyAckGathers
       DEF HostReceives
<1>5. ASSUME NEW p \in Peer, PeerReceives(p) PROVE Gathering'
  BY <1>1, <1>5, JoinAcceptGathers, JoinPendingGathers, DropGathers, StatusGathers,
     TopologyGathers, ChunkGathers, ResumeReceivedGathers, PeerGathers DEF PeerReceives
<1>6. ASSUME NEW p \in Peer, PeerAdvances(p) PROVE Gathering'
  BY <1>1, <1>6, AdvancesGather, PeerGathers
<1>7. ASSUME NEW p \in Peer, SendJoinRequest(p) PROVE Gathering'
  BY <1>1, <1>7, SendJoinRequestGathers, PeerGathers
<1>8. \A p \in Peer : ~Quit(p) /\ ~CleanupTimedOutRemoteEndpoints(p)
  BY DEF OneComesNobodyLeaves, Quit, CleanupTimedOutRemoteEndpoints
<1>9. CASE UNCHANGED vars
  BY <1>9 DEF vars, hostVars, peerVars, Gathering, LinksTell, Tells, Answers, Begun,
     Caught, HasEverybody, Everybody, HostGathers, PeersGather, Comes, Remembers,
     LacksOne, AllCaughtOrAwaited, Awaited, Pending
<1> QED
  BY <1>2, <1>3, <1>4, <1>5, <1>6, <1>7, <1>8, <1>9 DEF Next

LEMMA InitGathers == Init => Gathering
<1> SUFFICES ASSUME Init PROVE Gathering
  OBVIOUS
<1> DEFINE session == Initial \cup {Host}
<1>1. /\ ~host.active /\ host.awaited = {} /\ host.joined = {} /\ host.removed = {}
      /\ host.transfer = 0 /\ remotes = Initial
      /\ \A p \in Peer : /\ peer[p].where = IF p \in Initial THEN "session" ELSE "new"
                         /\ ~peer[p].success
  BY DEF Init
<1>2. /\ sim = [n \in Process |->
                 [log |-> <<>>, players |-> IF n \in session THEN session ELSE {n}]]
      /\ saved = [p \in Peer |-> [f \in Frame |-> NoSnapshot]]
      /\ Host \in Process /\ Peer \subseteq Process /\ Initial \subseteq Peer
  BY PeerAssumption DEF Init, Process
<1>3. LinksTell
  <2>1. Contents(EmptyLink) = {}
    BY RangeOfTuples DEF Contents, EmptyLink
  <2> QED
    BY <2>1 DEF Init, LinksTell
<1>4. HostGathers(host)
  BY <1>1 DEF HostGathers
<1>5. /\ DOMAIN sim = Process /\ DOMAIN saved = Peer
      /\ \A n \in Process : IsSim(sim[n])
      /\ \A p \in Initial : sim[p].players = Everybody
  BY <1>1, <1>2 DEF IsSim, Everybody
<1>6. PeersGather
  BY <1>1, <1>2, <1>5 DEF PeersGather, Comes, Remembers, LacksOne
<1>7. AllCaughtOrAwaited(host)
  BY <1>1, <1>2, <1>5 DEF AllCaughtOrAwaited, Caught
<1> QED
  BY <1>3, <1>4, <1>6, <1>7 DEF Gathering

-----------------------------------------------------------------------------
(* On ordered links, no request comes when the host is ready to resume.    *)

\* Who has acknowledged a snapshot asks no more.
RequestsFirst(link) ==
    \A i, k \in 1 .. Len(link) :
        i < k /\ link[i].kind = "SnapshotAck" => link[k].kind # "JoinRequest"
Silent(p) ==
    peer[p].where = "session" /\ \A m \in Contents(toHost[p]) : m.kind # "JoinRequest"
\* p is being sent a snapshot, or will be.
Served(h, p) ==
    /\ h.active /\ h.phase # "ReadyToResume"
    /\ p \in Range(h.queue) \/ (h.transfer # 0 /\ h.target = p)
ReadyIsReady(h) == h.active /\ h.phase = "ReadyToResume" => JoinBarrierReadyToResume(h)

Settling ==
    /\ ReadyIsReady(host)
    /\ \A p \in MayJoin \cap remotes : Silent(p) \/ Served(host, p)
    /\ \A p \in MayJoin : RequestsFirst(toHost[p])

LEMMA RequestsOfTail ==
    ASSUME NEW s, IsSequence(s), s # <<>>, RequestsFirst(s)
    PROVE  /\ RequestsFirst(Tail(s))
           /\ Head(s).kind = "SnapshotAck" => \A m \in Range(Tail(s)) : m.kind # "JoinRequest"
<1> DEFINE t == Tail(s)
<1>1. /\ s \in Seq(Range(s)) /\ Len(s) \in Nat /\ Len(s) > 0
  BY DEF IsSequence
<1>2. /\ Len(t) = Len(s) - 1 /\ DOMAIN t = 1 .. Len(t) /\ Head(s) = s[1]
      /\ \A i \in 1 .. Len(t) : t[i] = s[i + 1]
  BY <1>1
<1> HIDE DEF t
<1>3. /\ \A i \in 1 .. Len(t) : i + 1 \in 1 .. Len(s) /\ 1 < i + 1
      /\ 1 \in 1 .. Len(s)
  BY <1>1, <1>2
<1>4. RequestsFirst(t)
  <2>1. ASSUME NEW i \in 1 .. Len(t), NEW k \in 1 .. Len(t), i < k PROVE i + 1 < k + 1
    BY <2>1
  <2> QED
    BY <1>2, <1>3, <2>1 DEF RequestsFirst
<1>5. ASSUME Head(s).kind = "SnapshotAck", NEW m \in Range(t) PROVE m.kind # "JoinRequest"
  <2>1. PICK i \in 1 .. Len(t) : m = t[i]
    BY <1>2 DEF Range
  <2> QED
    BY <1>2, <1>3, <1>5, <2>1 DEF RequestsFirst
<1> QED
  BY <1>4, <1>5 DEF t

LEMMA RequestsAppended ==
    ASSUME NEW s, IsSequence(s), RequestsFirst(s), NEW m,
           m.kind # "JoinRequest" \/ \A k \in Range(s) : k.kind # "SnapshotAck"
    PROVE  RequestsFirst(s \o <<m>>)
<1> DEFINE u == s \o <<m>>
<1>1. s \in Seq(Range(s)) /\ Len(s) \in Nat /\ DOMAIN s = 1 .. Len(s)
  BY DEF IsSequence
<1>2. /\ Len(u) = Len(s) + 1
      /\ \A i \in 1 .. Len(s) : u[i] = s[i] /\ s[i] \in Range(s)
      /\ u[Len(s) + 1] = m
  BY <1>1
<1> HIDE DEF u
<1>3. ASSUME NEW i \in 1 .. Len(u), NEW k \in 1 .. Len(u), i < k,
             u[i].kind = "SnapshotAck"
      PROVE  u[k].kind # "JoinRequest"
  <2>1. i \in 1 .. Len(s) /\ (k \in 1 .. Len(s) \/ k = Len(s) + 1)
    BY <1>1, <1>2, <1>3
  <2>2. CASE k \in 1 .. Len(s)
    BY <1>2, <1>3, <2>1, <2>2 DEF RequestsFirst
  <2>3. CASE k = Len(s) + 1
    BY <1>2, <1>3, <2>1, <2>3
  <2> QED
    BY <2>1, <2>2, <2>3
<1>4. RequestsFirst(u)
  BY <1>3 DEF RequestsFirst
<1> QED
  BY <1>4 DEF u

\* What a step of a peer does to the links to the host, if they are ordered.
SaysInOrder ==
    \A q \in Peer : \/ toHost'[q] = toHost[q]
                    \/ \E m : /\ toHost'[q] = toHost[q] \o <<m>>
                              /\ m.kind = "JoinRequest" => peer[q].where # "session"
StaysInSession ==
    \A q \in Peer : peer[q].where = "session" => peer'[q].where = "session"

LEMMA PeerSettles ==
    ASSUME InOrder, IInv, Gathering, Settling, remotes \subseteq Peer,
           UNCHANGED hostVars, SaysInOrder, StaysInSession
    PROVE  Settling'
<1>1. host' = host /\ remotes' = remotes /\ MayJoin \subseteq Peer
  BY PeerAssumption DEF hostVars
<1>2. ASSUME NEW q \in Peer
      PROVE  /\ IsSequence(toHost[q])
             /\ \A m : /\ Range(toHost[q] \o <<m>>) = Range(toHost[q]) \cup {m}
  <2>1. IsSequence(toHost[q])
    BY DEF IInv, VariablesTyped, LinksTyped, IsLink
  <2> QED
    BY <2>1, RangeOfConcatenation, RangeOfTuples
<1>3. ASSUME NEW q \in MayJoin, RequestsFirst(toHost[q]) PROVE RequestsFirst(toHost'[q])
  <2>1. CASE toHost'[q] = toHost[q]
    BY <1>3, <2>1
  <2>2. ASSUME NEW m, toHost'[q] = toHost[q] \o <<m>>,
               m.kind = "JoinRequest" => peer[q].where # "session"
        PROVE  RequestsFirst(toHost'[q])
    <3>1. m.kind = "JoinRequest" => \A k \in Range(toHost[q]) : k.kind # "SnapshotAck"
      BY <1>1, <2>2 DEF Gathering, LinksTell, Answers, Contents
    <3> QED
      BY <1>1, <1>2, <1>3, <2>2, <3>1, RequestsAppended
  <2> QED
    BY <1>1, <2>1, <2>2 DEF SaysInOrder
<1>4. ASSUME NEW q \in Peer, Silent(q) PROVE Silent(q)'
  <2>1. peer[q].where = "session" /\ \A m \in Range(toHost[q]) : m.kind # "JoinRequest"
    BY <1>4 DEF Silent, Contents
  <2>2. peer'[q].where = "session"
    BY <2>1 DEF StaysInSession
  <2>3. \A m \in Range(toHost'[q]) : m.kind # "JoinRequest"
    <3>1. CASE toHost'[q] = toHost[q]
      BY <2>1, <3>1
    <3>2. ASSUME NEW m, toHost'[q] = toHost[q] \o <<m>>,
                 m.kind = "JoinRequest" => peer[q].where # "session"
          PROVE  \A k \in Range(toHost'[q]) : k.kind # "JoinRequest"
      BY <1>2, <2>1, <3>2
    <3> QED
      BY <3>1, <3>2 DEF SaysInOrder
  <2> QED
    BY <2>2, <2>3 DEF Silent, Contents
<1> QED
  BY <1>1, <1>3, <1>4 DEF Settling

\* A step of the host: it takes the first packet of a peer's link, or none.
HearsInOrder ==
    \A q \in Peer : \/ toHost'[q] = toHost[q]
                    \/ toHost[q] # <<>> /\ toHost'[q] = Tail(toHost[q])

LEMMA HostSettles ==
    ASSUME InOrder, IInv, Settling, remotes' \subseteq Peer, peer' = peer, HearsInOrder,
           ReadyIsReady(host'),
           \A p \in MayJoin \cap remotes' : Silent(p)' \/ Served(host', p)
    PROVE  Settling'
<1>1. MayJoin \subseteq Peer
  BY PeerAssumption
<1>2. ASSUME NEW q \in MayJoin PROVE RequestsFirst(toHost'[q])
  <2>1. IsSequence(toHost[q]) /\ RequestsFirst(toHost[q])
    BY <1>1 DEF IInv, VariablesTyped, LinksTyped, IsLink, Settling
  <2> QED
    BY <1>1, <2>1, RequestsOfTail DEF HearsInOrder
<1> QED
  BY <1>2 DEF Settling, ReadyIsReady, Served, JoinBarrierReadyToResume

LEMMA StillSilent ==
    ASSUME InOrder, IInv, peer' = peer, HearsInOrder, NEW q \in Peer, Silent(q)
    PROVE  Silent(q)'
<1>1. IsSequence(toHost[q])
  BY DEF IInv, VariablesTyped, LinksTyped, IsLink
<1>2. Contents(toHost'[q]) \subseteq Contents(toHost[q])
  BY <1>1, RangeOfTail DEF Contents, HearsInOrder
<1> QED
  BY <1>2 DEF Silent

\* p takes a packet and says nothing, or something else than a request.
LEMMA SaysOfReceiver ==
    ASSUME InOrder, IInv, NEW p \in Peer, NEW answer, ReceiveFromHost(p, answer),
           answer = <<>> \/ \E m : m.kind # "JoinRequest" /\ answer = <<m>>
    PROVE  SaysInOrder
<1>1. /\ toHost' = [toHost EXCEPT ![p] = @ \o answer] /\ DOMAIN toHost = Peer
      /\ \A q \in Peer : IsSequence(toHost[q])
  BY DEF ReceiveFromHost, Put, IInv, VariablesTyped, LinksTyped, IsLink
<1>2. toHost[p] \o <<>> = toHost[p]
  BY <1>1 DEF IsSequence
<1>3. ASSUME NEW q \in Peer
      PROVE  \/ toHost'[q] = toHost[q]
             \/ \E m : /\ toHost'[q] = toHost[q] \o <<m>>
                       /\ m.kind = "JoinRequest" => peer[q].where # "session"
  <2>1. CASE q # p \/ answer = <<>>
    BY <1>1, <1>2, <2>1
  <2>2. ASSUME q = p, NEW m, m.kind # "JoinRequest", answer = <<m>>
        PROVE  \E k : /\ toHost'[q] = toHost[q] \o <<k>>
                      /\ k.kind = "JoinRequest" => peer[q].where # "session"
    BY <1>1, <2>2
  <2> QED
    BY <2>1, <2>2
<1> QED
  BY <1>3 DEF SaysInOrder

LEMMA StateStays ==
    ASSUME NEW p \in Peer, StateOf(p)
    PROVE  StaysInSession
  BY DEF StateOf, StaysInSession

LEMMA PeerReceivesInOrder ==
    ASSUME InOrder, IInv, TInv, Gathering, NEW p \in Peer, PeerReceives(p)
    PROVE  SaysInOrder /\ StaysInSession /\ UNCHANGED hostVars
<1>1. StateOf(p)
  BY JoinAcceptGathers, JoinPendingGathers, DropGathers, StatusGathers,
     TopologyGathers, ChunkGathers, ResumeReceivedGathers DEF PeerReceives
<1>2. \E answer : /\ ReceiveFromHost(p, answer)
                  /\ answer = <<>> \/ \E m : m.kind # "JoinRequest" /\ answer = <<m>>
  <2>1. ASSUME HandleJoinBarrierTopology(p) PROVE <1>2
    <3>1. PICK m \in Arriving(toPeer[p]) : HandleJoinBarrierTopology(p)!(m)
      BY <2>1 DEF HandleJoinBarrierTopology
    <3>2. PICK success \in BOOLEAN :
            ReceiveFromHost(p, <<[kind |-> "TopologyAck", id |-> m.id, success |-> success]>>)
      BY <3>1
    <3> QED
      BY <3>2
  <2>2. ASSUME HandleSnapshotResyncChunk(p) PROVE <1>2
    <3>1. PICK m \in Arriving(toPeer[p]), decoded \in Decodes :
            HandleSnapshotResyncChunk(p)!(m, decoded)
      BY <2>2 DEF HandleSnapshotResyncChunk
    <3>2. PICK success :
            ReceiveFromHost(p, <<[kind |-> "SnapshotAck", transfer |-> m.transfer,
                                  success |-> success]>>)
      BY <3>1
    <3> QED
      BY <3>2
  <2>3. ReceiveFromHost(p, <<>>) => <1>2
    OBVIOUS
  <2> QED
    BY <2>1, <2>2, <2>3 DEF PeerReceives, HandleJoinAcceptAsPeer, HandleJoinPendingAsPeer,
       Drop, HandleJoinBarrierStatus, HandleJoinBarrierResume
<1>3. SaysInOrder
  BY <1>2, SaysOfReceiver
<1> QED
  BY <1>1, <1>3, StateStays DEF StateOf

LEMMA PeerActsInOrder ==
    ASSUME InOrder, IInv, TInv, Gathering, NEW p \in Peer,
           PeerAdvances(p) \/ SendJoinRequest(p)
    PROVE  SaysInOrder /\ StaysInSession /\ UNCHANGED hostVars
<1>1. StateOf(p)
  BY AdvancesGather, SendJoinRequestGathers
<1>2. SaysInOrder
  <2>1. CASE PeerAdvances(p)
    <3>1. toHost' = toHost
      BY <2>1 DEF PeerAdvances, HearInputs, RollbackSnapshotMissing, ReplayRollbackWindow,
                  PeerSteps
    <3> QED
      BY <3>1 DEF SaysInOrder
  <2>2. CASE SendJoinRequest(p)
    <3> DEFINE request == [kind |-> "JoinRequest"]
    <3>1. /\ toHost' = [toHost EXCEPT ![p] = @ \o <<request>>] /\ DOMAIN toHost = Peer
          /\ peer[p].where # "session"
      BY <2>2 DEF SendJoinRequest, Put, IInv, VariablesTyped, LinksTyped
    <3> HIDE DEF request
    <3>2. ASSUME NEW q \in Peer
          PROVE  toHost'[q] = toHost[q] \/ (q = p /\ toHost'[q] = toHost[q] \o <<request>>)
      BY <3>1
    <3> QED
      BY <3>1, <3>2 DEF SaysInOrder
  <2> QED
    BY <2>1, <2>2
<1> QED
  BY <1>1, <1>2, StateStays DEF StateOf

\* The host takes a packet.
LEMMA HearsOne ==
    ASSUME InOrder, IInv, NEW p \in Peer, NEW m \in Arriving(toHost[p]), ReceiveFromPeer(p)
    PROVE  HearsInOrder /\ m = Head(toHost[p]) /\ toHost[p] # <<>>
           /\ toHost'[p] = Tail(toHost[p])
<1>1. m = Head(toHost[p]) /\ toHost[p] # <<>>
  BY DEF Arriving
<1>2. toHost' = [toHost EXCEPT ![p] = Tail(@)] /\ DOMAIN toHost = Peer
  BY DEF ReceiveFromPeer, Rest, IInv, VariablesTyped, LinksTyped
<1> QED
  BY <1>1, <1>2 DEF HearsInOrder

\* Being ready to resume does not depend on the phase.
LEMMA SameRestReady ==
    ASSUME NEW h, NEW h2, SameRest(h, h2)
    PROVE  /\ JoinBarrierReadyToResume(h2) <=> JoinBarrierReadyToResume(h)
           /\ \A q : (q \in Range(h2.queue) \/ (h2.transfer # 0 /\ h2.target = q))
                 <=> (q \in Range(h.queue) \/ (h.transfer # 0 /\ h.target = q))
  BY DEF SameRest, JoinBarrierReadyToResume

\* The host's phase once nothing is transferred.
LEMMA IdleSettles ==
    ASSUME NEW h, DOMAIN h = HostFields, h.active, h.transfer = 0,
           NEW h2, h2 = [h EXCEPT !.phase = PhaseWhenIdle(h)]
    PROVE  /\ ReadyIsReady(h2) /\ h2.active
           /\ \A q : q \in Range(h.queue) => Served(h2, q)
<1> DEFINE x == PhaseWhenIdle(h)
<1>1. SameRest(h, h2) /\ h2.phase = x
  BY PhaseOnly
<1>2. x = "ReadyToResume" <=> JoinBarrierReadyToResume(h)
  BY DEF PhaseWhenIdle
<1> HIDE DEF x
<1>3. ReadyIsReady(h2)
  BY <1>1, <1>2, SameRestReady DEF ReadyIsReady
<1>4. ASSUME NEW q \in Range(h.queue) PROVE Served(h2, q)
  <2>1. ~JoinBarrierReadyToResume(h)
    BY <1>4 DEF JoinBarrierReadyToResume, Range
  <2> QED
    BY <1>1, <1>2, <1>4, <2>1 DEF Served, SameRest
<1> QED
  BY <1>1, <1>3, <1>4 DEF SameRest

\* p is queued after all.
LEMMA QueueAgainSettles ==
    ASSUME NEW h, NEW rem, HostTyped(h, rem), h.active, NEW p \in Peer,
           NEW h2, h2 = [QueueJoinBarrierPeer(h, p) EXCEPT !.phase = "WaitingForCatchup"]
    PROVE  /\ ReadyIsReady(h2) /\ h2.active
           /\ \A q : q \in Range(h.queue) \/ q = p \/ (h.transfer # 0 /\ h.target = q)
                     => Served(h2, q)
<1> DEFINE d == QueueJoinBarrierPeer(h, p)
<1>1. /\ DOMAIN h = HostFields /\ h.queue \in Seq(Peer)
  BY DEF HostTyped, HostOK
<1>2. /\ d.active = h.active /\ DOMAIN d = HostFields
      /\ d.transfer = h.transfer /\ d.target = h.target
      /\ Range(d.queue) = Range(h.queue) \cup {p}
  <2>1. CASE p \in Range(h.queue)
    BY <1>1, <2>1 DEF QueueJoinBarrierPeer
  <2>2. CASE p \notin Range(h.queue)
    <3>1. Range(Append(h.queue, p)) = Range(h.queue) \cup {p}
      BY <1>1, RangeOfAppend
    <3>2. d = [h EXCEPT !.queue = Append(h.queue, p)]
      BY <2>2 DEF QueueJoinBarrierPeer
    <3> HIDE DEF d
    <3>3. /\ d.active = h.active /\ DOMAIN d = HostFields
          /\ d.transfer = h.transfer /\ d.target = h.target
          /\ d.queue = Append(h.queue, p)
      BY <1>1, <3>2 DEF HostFields
    <3> QED
      BY <3>1, <3>3
  <2> QED
    BY <2>1, <2>2
<1> HIDE DEF d
<1>3. SameRest(d, h2) /\ h2.phase = "WaitingForCatchup"
  BY <1>2, PhaseOnly DEF d
<1>4. h2.active
  BY <1>2, <1>3 DEF SameRest
<1>5. ReadyIsReady(h2)
  BY <1>3 DEF ReadyIsReady
<1>6. ASSUME NEW q, q \in Range(h.queue) \/ q = p \/ (h.transfer # 0 /\ h.target = q)
      PROVE  Served(h2, q)
  BY <1>2, <1>3, <1>4, <1>6 DEF SameRest, Served
<1> QED
  BY <1>4, <1>5, <1>6

\* An acknowledgement of a snapshot.
LEMMA SnapshotAckSettles ==
    ASSUME InOrder, IInv, TInv, Gathering, Settling, NEW p \in Peer,
           HandleSnapshotResyncAck(p)
    PROVE  Settling' /\ (host.active => host'.active)
<1> DEFINE idle   == ClearJoinBarrierTransfer(host)
           ended  == [idle EXCEPT !.phase = PhaseWhenIdle(idle)]
           again  == [QueueJoinBarrierPeer(idle, p) EXCEPT !.phase = "WaitingForCatchup"]
<1>1. PICK m \in Arriving(toHost[p]) :
         /\ m.kind = "SnapshotAck"
         /\ host' = IF ~AnswersTransfer(m) THEN host
                    ELSE IF m.success THEN ended ELSE again
         /\ ReceiveFromPeer(p)
         /\ UNCHANGED <<remotes, peer>>
  BY DEF HandleSnapshotResyncAck, peerVars
<1>2. /\ HearsInOrder /\ m = Head(toHost[p]) /\ toHost[p] # <<>>
      /\ toHost'[p] = Tail(toHost[p]) /\ m \in Contents(toHost[p])
  BY <1>1, HearsOne, LinksOfTaker, ReceiveFromPeerLinks DEF IInv, VariablesTyped
<1>3. /\ remotes \subseteq Peer /\ MayJoin \subseteq Peer
      /\ HostTyped(host, remotes) /\ DOMAIN host = HostFields
      /\ IsSequence(toHost[p])
  BY PeerAssumption DEF TInv, HostTyped, HostOK, IInv, VariablesTyped, LinksTyped, IsLink
<1>4. CASE ~AnswersTransfer(m)
  BY <1>1, <1>2, <1>3, <1>4, StillSilent, HostSettles DEF Settling
<1>5. CASE AnswersTransfer(m)
  <2>1. host.active /\ p = host.target
    BY <1>1, <1>2, <1>5
       DEF AnswersTransfer, IInv, PacketsInPlace, PacketOfTransfer
  <2>2. /\ idle.active /\ DOMAIN idle = HostFields /\ idle.queue = host.queue
        /\ idle.transfer = 0
    BY <1>3, <2>1, ClearTransferGathers
  <2>3. HostTyped(idle, remotes)
    BY <1>3, ClearTyped
  <2> HIDE DEF idle
  <2>4. ASSUME NEW q \in MayJoin \cap remotes
        PROVE  Silent(q)' \/ q \in Range(idle.queue) \/ q = p
    BY <1>1, <1>2, <1>3, <2>1, <2>2, StillSilent DEF Settling, Served
  <2>5. CASE m.success
    <3>1. host' = ended
      BY <1>1, <1>5, <2>5
    <3>2. /\ ReadyIsReady(host') /\ host'.active
          /\ \A q : q \in Range(idle.queue) => Served(host', q)
      BY <2>2, <3>1, IdleSettles
    <3>3. p \in MayJoin => Silent(p)'
      <4>1. peer'[p].where = "session"
        BY <1>1, <1>2 DEF Gathering, LinksTell, Answers
      <4>2. p \in MayJoin => \A k \in Range(Tail(toHost[p])) : k.kind # "JoinRequest"
        BY <1>1, <1>2, <1>3, RequestsOfTail DEF Settling
      <4> QED
        BY <1>2, <4>1, <4>2 DEF Silent, Contents
    <3>4. \A q \in MayJoin \cap remotes : Silent(q)' \/ Served(host', q)
      BY <2>4, <3>2, <3>3
    <3> QED
      BY <1>1, <1>2, <1>3, <3>2, <3>4, HostSettles
  <2>6. CASE ~m.success
    <3>1. host' = again
      BY <1>1, <1>5, <2>6
    <3>2. /\ ReadyIsReady(host') /\ host'.active
          /\ \A q : q \in Range(idle.queue) \/ q = p => Served(host', q)
      BY <2>2, <2>3, <3>1, QueueAgainSettles
    <3>4. \A q \in MayJoin \cap remotes : Silent(q)' \/ Served(host', q)
      BY <2>4, <3>2
    <3> QED
      BY <1>1, <1>2, <1>3, <3>2, <3>4, HostSettles
  <2> QED
    BY <2>5, <2>6
<1> QED
  BY <1>4, <1>5

\* An acknowledgement of a topology.
LEMMA TopologyAckSettles ==
    ASSUME InOrder, IInv, TInv, Gathering, Settling, NEW p \in Peer,
           HandleJoinBarrierTopologyAck(p)
    PROVE  Settling' /\ (host.active => host'.active)
<1> DEFINE answered == [host EXCEPT !.awaited = @ \ {p}]
           again    == [QueueJoinBarrierPeer(answered, p) EXCEPT !.phase = "WaitingForCatchup"]
           ready    == [answered EXCEPT !.phase = "ReadyToResume"]
<1>1. PICK m \in Arriving(toHost[p]) :
         /\ host' = IF ~host.active \/ m.id # host.id THEN host
                    ELSE IF ~m.success THEN again
                    ELSE IF JoinBarrierReadyToResume(answered) THEN ready
                    ELSE answered
         /\ ReceiveFromPeer(p)
         /\ UNCHANGED <<remotes, peer>>
  BY DEF HandleJoinBarrierTopologyAck, peerVars
<1>2. HearsInOrder
  BY <1>1, HearsOne
<1>3. /\ remotes \subseteq Peer /\ MayJoin \subseteq Peer
      /\ HostTyped(host, remotes) /\ DOMAIN host = HostFields /\ HostOK(host)
  BY PeerAssumption DEF TInv, HostTyped, HostOK
<1>4. CASE ~host.active \/ m.id # host.id
  BY <1>1, <1>2, <1>3, <1>4, StillSilent, HostSettles DEF Settling
<1>5. CASE host.active /\ m.id = host.id
  <2>1. /\ DOMAIN answered = HostFields /\ answered.active /\ answered.phase = host.phase
        /\ answered.queue = host.queue /\ answered.awaited = host.awaited \ {p}
        /\ answered.joined = host.joined /\ answered.removed = host.removed
        /\ answered.target = host.target /\ answered.transfer = host.transfer
        /\ answered.snapshot = host.snapshot
    BY <1>3, <1>5 DEF HostFields
  <2>2. SameBarrier(host, answered)
    BY <1>3, MovesOfLists
  <2> HIDE DEF answered
  <2>3. HostTyped(answered, remotes)
    <3>1. /\ answered.awaited \subseteq remotes /\ answered.joined \subseteq remotes
          /\ answered.removed \subseteq Peer /\ answered.target \in remotes \cup {Nobody}
          /\ answered.queue \in Seq(Peer) /\ IsInjective(answered.queue)
      BY <1>3, <2>1 DEF HostTyped
    <3> QED
      BY <1>3, <2>1, <2>2, <3>1, ListsTyped
  <2>4. ASSUME NEW q \in MayJoin \cap remotes
        PROVE  Silent(q)' \/ (host.phase # "ReadyToResume"
                              /\ (q \in Range(answered.queue)
                                  \/ (answered.transfer # 0 /\ answered.target = q)))
    BY <1>1, <1>2, <1>3, <2>1, StillSilent DEF Settling, Served
  <2>5. CASE ~m.success
    <3>1. host' = again
      BY <1>1, <1>5, <2>5
    <3>2. /\ ReadyIsReady(host') /\ host'.active
          /\ \A q : q \in Range(answered.queue) \/ q = p
                       \/ (answered.transfer # 0 /\ answered.target = q)
                    => Served(host', q)
      BY <2>1, <2>3, <3>1, QueueAgainSettles
    <3>3. \A q \in MayJoin \cap remotes : Silent(q)' \/ Served(host', q)
      BY <2>4, <3>2
    <3> QED
      BY <1>1, <1>2, <1>3, <3>2, <3>3, HostSettles
  <2>6. CASE m.success /\ JoinBarrierReadyToResume(answered)
    <3>1. host' = ready
      BY <1>1, <1>5, <2>6
    <3>2. SameRest(answered, host')
      BY <2>1, <3>1, PhaseOnly
    <3>5. host'.active
      BY <2>1, <3>2 DEF SameRest
    <3>3. ReadyIsReady(host')
      BY <2>6, <3>2, SameRestReady DEF ReadyIsReady
    <3>4. \A q \in MayJoin \cap remotes : Silent(q)'
      BY <2>4, <2>6 DEF JoinBarrierReadyToResume, Range
    <3> QED
      BY <1>1, <1>2, <1>3, <3>3, <3>4, <3>5, HostSettles
  <2>7. CASE m.success /\ ~JoinBarrierReadyToResume(answered)
    <3>1. host' = answered
      BY <1>1, <1>5, <2>7
    <3>2. host.phase # "ReadyToResume"
      BY <1>5, <2>1, <2>7 DEF Settling, ReadyIsReady, JoinBarrierReadyToResume
    <3>3. ReadyIsReady(host')
      BY <2>1, <3>1, <3>2 DEF ReadyIsReady
    <3>4. \A q \in MayJoin \cap remotes : Silent(q)' \/ Served(host', q)
      BY <2>1, <2>4, <3>1 DEF Served
    <3> QED
      BY <1>1, <1>2, <1>3, <2>1, <3>1, <3>3, <3>4, HostSettles
  <2> QED
    BY <2>5, <2>6, <2>7
<1> QED
  BY <1>4, <1>5

\* A join request.  Where p was in already, it is being served: had it been
\* silent, there would be no request of it.
LEMMA JoinRequestSettles ==
    ASSUME OneComesNobodyLeaves, InOrder, IInv, TInv, Gathering, Settling, NEW p \in Peer,
           HandleJoinRequestAsHost(p)
    PROVE  Settling' /\ (host.active => host'.active)
<1> DEFINE request == [kind |-> "JoinRequest"]
<1>1. /\ request \in Arriving(toHost[p]) /\ ReceiveFromPeer(p) /\ peer' = peer
      /\ host.active \/ host.id < MaxBarrier
  BY DEF HandleJoinRequestAsHost, peerVars
<1>2. HearsInOrder /\ request \in Contents(toHost[p])
  BY <1>1, HearsOne, ReceiveFromPeerLinks DEF IInv, VariablesTyped
<1>3. p \in MayJoin /\ MayJoin = {p} /\ ~Silent(p)
  BY <1>2 DEF Gathering, LinksTell, Answers, OneComesNobodyLeaves, Silent
<1>4. /\ remotes \subseteq Peer /\ HostTyped(host, remotes) /\ DOMAIN host = HostFields
      /\ HostGathers(host)
  BY DEF TInv, HostTyped, HostOK, Gathering
<1> HIDE DEF request
<1>5. CASE p \in OtherContent
  <2>1. host' = host /\ remotes' = remotes
    BY <1>5 DEF HandleJoinRequestAsHost
  <2> QED
    BY <1>1, <1>2, <1>3, <1>4, <2>1, HostSettles DEF Settling
<1>6. CASE p \notin OtherContent
  <2>1. /\ host' = IF p \in remotes THEN BeginJoinBarrierCatchup(host, p)
                   ELSE BeginJoinBarrierTopologyChange(host, remotes, p)
        /\ remotes' = remotes \cup {p}
    BY <1>6 DEF HandleJoinRequestAsHost
  <2>2. CASE p \in remotes
    <3>1. Served(host, p)
      BY <1>3, <2>2 DEF Settling
    <3>2. RaiseBarrier(host) = host
      BY <3>1 DEF RaiseBarrier, Served
    <3>3. host' = QueueJoinBarrierPeer(host, p)
      BY <2>1, <2>2, <3>2 DEF BeginJoinBarrierCatchup
    <3>4. host'.active = host.active /\ host'.phase = host.phase /\ p \in Range(host'.queue)
      <4>1. CASE p \in Range(host.queue)
        BY <3>3, <4>1 DEF QueueJoinBarrierPeer
      <4>2. CASE p \notin Range(host.queue)
        <5>1. host' = [host EXCEPT !.queue = Append(host.queue, p)]
          BY <3>3, <4>2 DEF QueueJoinBarrierPeer
        <5>2. p \in Range(Append(host.queue, p))
          BY <1>4, RangeOfAppend DEF HostTyped
        <5> QED
          BY <1>4, <5>1, <5>2 DEF HostFields
      <4> QED
        BY <4>1, <4>2
    <3>5. ReadyIsReady(host') /\ Served(host', p)
      BY <3>1, <3>4 DEF ReadyIsReady, Served
    <3>6. host'.active /\ remotes' \subseteq Peer
      BY <1>4, <2>1, <3>5 DEF Served
    <3> QED
      BY <1>1, <1>2, <1>3, <3>5, <3>6, HostSettles
  <2>3. CASE p \notin remotes
    <3>1. host' = BeginJoinBarrierTopologyChange(host, remotes, p) /\ ~host.active
      BY <1>3, <1>4, <2>1, <2>3 DEF HostGathers, Begun
    <3>2. /\ host.joined = {} /\ host.removed = {} /\ host.awaited \cap {p} = {}
          /\ Nobody \notin remotes
      BY <1>3, <1>4, <2>3, PeerAssumption DEF HostGathers, HostTyped
    <3>3. host'.active /\ host'.phase = "WaitingForCatchup" /\ p \in Range(host'.queue)
      BY <1>4, <2>3, <3>1, <3>2, ComesWhenNone
    <3>4. ReadyIsReady(host') /\ Served(host', p) /\ remotes' \subseteq Peer
      BY <1>4, <2>1, <3>3 DEF ReadyIsReady, Served
    <3> QED
      BY <1>1, <1>2, <1>3, <3>3, <3>4, HostSettles
  <2> QED
    BY <2>2, <2>3
<1> QED
  BY <1>5, <1>6

\* A step of the host that takes no packet.
LEMMA TickSettles ==
    ASSUME InOrder, IInv, TInv, Settling, UNCHANGED <<remotes, peer, toHost>>,
           ReadyIsReady(host'),
           \A q \in MayJoin \cap remotes : Served(host, q) => Served(host', q) \/ Silent(q)
    PROVE  Settling'
<1>1. HearsInOrder /\ remotes \subseteq Peer /\ MayJoin \subseteq Peer
  BY PeerAssumption DEF HearsInOrder, TInv
<1>2. \A q \in Peer : Silent(q) => Silent(q)'
  BY <1>1, StillSilent
<1> QED
  BY <1>1, <1>2, HostSettles DEF Settling

\* The host resumes when it is ready.
LEMMA ResumeSettles ==
    ASSUME InOrder, IInv, TInv, Settling, ResumeEverybody
    PROVE  Settling' /\ JoinBarrierReadyToResume(host)
<1>1. /\ host.active /\ host.phase = "ReadyToResume" /\ host' = ClearJoinBarrier(host)
      /\ UNCHANGED <<remotes, peer, toHost>>
  BY DEF ResumeEverybody, CanSend, peerVars
<1>2. ~host'.active
  BY <1>1, MovesOfClear DEF TInv, HostTyped
<1>3. ReadyIsReady(host') /\ \A q : ~Served(host, q)
  BY <1>1, <1>2 DEF ReadyIsReady, Served
<1> QED
  BY <1>1, <1>3, TickSettles DEF Settling, ReadyIsReady

LEMMA WaitForAcksSettles ==
    ASSUME InOrder, IInv, TInv, Settling, WaitForAcks
    PROVE  Settling' /\ host'.active
<1>1. /\ host.active /\ host.transfer = 0 /\ host.queue = <<>>
      /\ host' = [host EXCEPT !.phase = PhaseWhenIdle(host)]
      /\ UNCHANGED <<remotes, peer, toHost>>
  BY DEF WaitForAcks, CanSend, peerVars
<1>2. ReadyIsReady(host') /\ host'.active
  BY <1>1, IdleSettles DEF TInv, HostTyped, HostOK
<1>3. \A q : ~Served(host, q)
  BY <1>1 DEF Served, Range
<1> QED
  BY <1>1, <1>2, <1>3, TickSettles

\* The first of a queue, and the rest of it.
LEMMA HeadOrTail ==
    ASSUME NEW s \in Seq(Peer), s # <<>>
    PROVE  Range(s) \subseteq {Head(s)} \cup Range(Tail(s))
<1> DEFINE t == Tail(s)
<1>1. /\ Len(s) \in Nat /\ DOMAIN s = 1 .. Len(s)
      /\ DOMAIN t = 1 .. Len(s) - 1 /\ Head(s) = s[1]
      /\ \A i \in 1 .. Len(s) - 1 : t[i] = s[i + 1]
  OBVIOUS
<1> HIDE DEF t
<1>2. ASSUME NEW i \in 1 .. Len(s)
      PROVE  s[i] = s[1] \/ \E k \in DOMAIN t : s[i] = t[k]
  <2>1. CASE i = 1
    BY <2>1
  <2>2. CASE i # 1
    <3>1. i - 1 \in 1 .. Len(s) - 1 /\ (i - 1) + 1 = i
      BY <1>1, <2>2
    <3> QED
      BY <1>1, <3>1
  <2> QED
    BY <2>1, <2>2
<1>3. Range(s) \subseteq {Head(s)} \cup Range(t)
  BY <1>1, <1>2 DEF Range
<1> QED
  BY <1>3 DEF t

LEMMA StartNextTransferSettles ==
    ASSUME InOrder, IInv, TInv, Settling, StartNextTransfer
    PROVE  Settling' /\ host'.active
<1> DEFINE p       == Head(host.queue)
           dropped == [host EXCEPT !.queue = Tail(@), !.phase = "WaitingForCatchup"]
           started == [dropped EXCEPT
                         !.target = p, !.phase = "SendingSnapshot", !.transfer = nextId,
                         !.snapshot = [frame |-> frame[Host], sim |-> sim[Host]]]
<1>1. /\ host.active /\ host.transfer = 0 /\ host.queue # <<>>
      /\ host' = started \/ (p \notin remotes /\ host' = dropped)
      /\ UNCHANGED <<remotes, peer, toHost>>
  BY DEF StartNextTransfer, CanSend, peerVars
<1>2. /\ DOMAIN host = HostFields /\ host.queue \in Seq(Peer) /\ nextId # 0
  BY DEF TInv, HostTyped, HostOK, IInv, VariablesTyped
<1>3. Range(host.queue) \subseteq {p} \cup Range(Tail(host.queue))
  BY <1>1, <1>2, HeadOrTail
<1>4. /\ DOMAIN dropped = HostFields /\ dropped.queue = Tail(host.queue)
      /\ dropped.phase = "WaitingForCatchup" /\ dropped.active = host.active
  BY <1>2 DEF HostFields
<1> HIDE DEF dropped, p
<1>5. /\ started.queue = dropped.queue /\ started.phase = "SendingSnapshot"
      /\ started.active = dropped.active /\ started.target = p /\ started.transfer = nextId
  BY <1>4 DEF HostFields
<1> HIDE DEF started
<1>6. ReadyIsReady(host') /\ host'.active
  BY <1>1, <1>4, <1>5 DEF ReadyIsReady
<1>7. ASSUME NEW q \in MayJoin \cap remotes, Served(host, q) PROVE Served(host', q)
  <2>1. q \in Range(host.queue)
    BY <1>1, <1>7 DEF Served
  <2>2. CASE host' = started
    BY <1>1, <1>2, <1>3, <1>4, <1>5, <2>1, <2>2 DEF Served
  <2>3. CASE p \notin remotes /\ host' = dropped
    BY <1>1, <1>3, <1>4, <1>7, <2>1, <2>3 DEF Served
  <2> QED
    BY <1>1, <2>2, <2>3
<1> QED
  BY <1>1, <1>6, <1>7, TickSettles

LEMMA ContinueTransferSettles ==
    ASSUME InOrder, IInv, TInv, Settling, ContinueTransfer
    PROVE  Settling' /\ host'.active
<1>1. host.target \in remotes
  BY DEF ContinueTransfer, TInv, HostTyped
<1>2. /\ host.active /\ host' = [host EXCEPT !.phase = "WaitingForAck"]
      /\ UNCHANGED <<remotes, peer, toHost>>
  BY <1>1 DEF ContinueTransfer, CanSend, peerVars
<1>3. SameRest(host, host') /\ host'.phase = "WaitingForAck"
  BY <1>2, PhaseOnly DEF TInv, HostTyped, HostOK
<1>4. ReadyIsReady(host') /\ host'.active /\ \A q : Served(host, q) => Served(host', q)
  BY <1>2, <1>3 DEF ReadyIsReady, SameRest, Served
<1> QED
  BY <1>2, <1>4, TickSettles

LEMMA NextSettles ==
    ASSUME OneComesNobodyLeaves, InOrder, IInv, TInv, Gathering, Settling, [Next]_vars
    PROVE  /\ Settling'
           /\ host.active /\ ~host'.active => JoinBarrierReadyToResume(host)
<1>1. remotes \subseteq Peer
  BY DEF TInv
<1>2. CASE HostTicks
  BY <1>2, ResumeSettles, WaitForAcksSettles, StartNextTransferSettles,
     ContinueTransferSettles DEF HostTicks
<1>3. CASE HostSteps
  <2>1. UNCHANGED <<host, remotes, peer, toHost>>
    BY <1>3 DEF HostSteps, hostVars, peerVars
  <2> QED
    BY <2>1, TickSettles DEF Settling
<1>4. ASSUME NEW p \in Peer, HostReceives(p)
      PROVE  Settling' /\ (host.active => host'.active)
  <2>1. ~HandleLeaveNoticeAsHost(p)
    <3>1. ASSUME NEW m \in Arriving(toHost[p]) PROVE m.kind # "LeaveNotice"
      BY ContentsOfRest
         DEF IInv, VariablesTyped, LinksTyped, Gathering, LinksTell, Answers
    <3> QED
      BY <3>1 DEF HandleLeaveNoticeAsHost
  <2> QED
    BY <1>4, <2>1, JoinRequestSettles, SnapshotAckSettles, TopologyAckSettles
       DEF HostReceives
<1>5. ASSUME NEW p \in Peer,
             PeerReceives(p) \/ PeerAdvances(p) \/ SendJoinRequest(p)
      PROVE  Settling' /\ host' = host
  <2>1. SaysInOrder /\ StaysInSession /\ UNCHANGED hostVars
    BY <1>5, PeerReceivesInOrder, PeerActsInOrder
  <2> QED
    BY <1>1, <2>1, PeerSettles DEF hostVars
<1>6. \A p \in Peer : ~Quit(p) /\ ~CleanupTimedOutRemoteEndpoints(p)
  BY DEF OneComesNobodyLeaves, Quit, CleanupTimedOutRemoteEndpoints
<1>7. CASE UNCHANGED vars
  <2>1. UNCHANGED <<host, remotes, peer, toHost>>
    BY <1>7 DEF vars, hostVars, peerVars
  <2> QED
    BY <2>1, TickSettles DEF Settling
<1> QED
  BY <1>2, <1>3, <1>4, <1>5, <1>6, <1>7 DEF Next

LEMMA InitSettles ==
    ASSUME InOrder, Init
    PROVE  Settling
<1>1. ~host.active /\ remotes = Initial /\ \A p \in Peer : toHost[p] = <<>>
  BY DEF Init, EmptyLink
<1>2. RequestsFirst(<<>>)
  BY DEF RequestsFirst
<1> QED
  BY <1>1, <1>2, PeerAssumption DEF Settling, ReadyIsReady

\* When one peer joins and nobody leaves, and the links keep their order, the
\* host resumes only when nobody is being sent a snapshot, nobody waits for
\* one and everybody has acknowledged the topology: no request of the one that
\* joins, however often it asks, arrives between the last acknowledgement and
\* the tick that resumes (SendPendingJoinBarrier, HandleJoinRequestAsHost).
THEOREM TheHostResumesWhenReady ==
    ASSUME OneComesNobodyLeaves, InOrder
    PROVE  Spec => ResumeWhenReady
<1> DEFINE WhenReady == (host.active /\ ~host'.active) => JoinBarrierReadyToResume(host)
           Inv == IInv /\ TInv /\ Gathering /\ Settling
<1>1. Inv /\ [Next]_vars => Inv'
  BY NextKeeps, NextTyped, NextGathers, NextSettles DEF Keeps
<1>2. Inv /\ [Next]_vars => [WhenReady]_vars
  BY NextSettles
<1>3. Init => Inv
  BY InitOK, InitTyped, InitGathers, InitSettles
<1>4. Spec => [][WhenReady]_vars
  BY <1>1, <1>2, <1>3, PTL DEF Spec
<1> QED
  BY <1>4 DEF ResumeWhenReady

\* Under the same hypotheses the host resumes only when every registered peer
\* simulates the players the host simulates, however often the join is asked
\* for: nobody was left out of the acknowledgements waited for
\* (BeginJoinBarrierTopologyChange, HandleJoinBarrierTopologyAck,
\* HandleJoinBarrierSnapshotAck).
THEOREM NobodyIsLeftOut ==
    ASSUME OneComesNobodyLeaves, InOrder
    PROVE  Spec => ResumeWithOneTopology
<1> DEFINE OneTopology ==
       (host.active /\ ~host'.active) =>
          \A p \in remotes :
              peer[p].where = "session" => sim[p].players = sim[Host].players
           Inv == IInv /\ TInv /\ Gathering /\ Settling
<1>1. Inv /\ [Next]_vars => Inv'
  BY NextKeeps, NextTyped, NextGathers, NextSettles DEF Keeps
<1>2. ASSUME Inv, [Next]_vars PROVE [OneTopology]_vars
  <2> SUFFICES ASSUME ~UNCHANGED vars, host.active, ~host'.active, NEW p \in remotes
               PROVE  sim[p].players = sim[Host].players
    OBVIOUS
  <2>1. JoinBarrierReadyToResume(host)
    BY <1>2, NextSettles
  <2>2. ~Pending(host, p)
    BY <1>2, <2>1, ReadyPendsNobody
  <2>3. Caught(p)
    BY <1>2, <2>2 DEF Gathering, AllCaughtOrAwaited, Awaited
  <2> QED
    BY <1>2, <2>3 DEF Caught, Everybody, TInv, HostSimTyped
<1>3. Init => Inv
  BY InitOK, InitTyped, InitGathers, InitSettles
<1>4. Spec => [][OneTopology]_vars
  BY <1>1, <1>2, <1>3, PTL DEF Spec
<1> QED
  BY <1>4 DEF ResumeWithOneTopology

-----------------------------------------------------------------------------
(* On ordered links, who joins has stepped the frames before its next one. *)

\* Simulation s has stepped f frames.
IsAt(s, f) == s.log \in Seq(Int) /\ Len(s.log) = f
At(p) == frame[p] = frame[Host] /\ IsAt(sim[p], frame[p])
ChunksAt(p, f) ==
    \A m \in Contents(toPeer[p]) : m.kind = "Chunk" => m.frame = f /\ IsAt(m.sim, f)

\* p is not let in yet.
Outside(p) ==
    /\ peer[p].where # "session"
    /\ \A m \in Contents(toPeer[p]) : m.kind \notin {"Resume", "JoinAccept"}
\* The host's barrier stands: p is taken to the frame the host is at.
Standing(p) ==
    /\ Served(host, p) \/ At(p)
    /\ peer[p].where = "session" => /\ IsJoinBarrierBlocking(peer[p])
                                    /\ peer[p].success => At(p)
    /\ ChunksAt(p, frame[Host])
    /\ \A m \in Contents(toPeer[p]) : m.kind # "Resume"
    /\ \A m \in Contents(toHost[p]) : m.kind = "SnapshotAck" /\ m.success => At(p)
\* It is over: p stands until the Resume, the last packet to p.
ResumeLast(link, f) ==
    \A i \in 1 .. Len(link) :
        link[i].kind = "Resume" => i = Len(link) /\ link[i].frame = f
Resumed(p) ==
    /\ IsAt(sim[p], frame[p])
    /\ toPeer[p] # <<>> =>
          /\ IsJoinBarrierBlocking(peer[p])
          /\ ChunksAt(p, frame[p]) /\ ResumeLast(toPeer[p], frame[p])
Following(p) ==
    IF p \notin remotes THEN Outside(p) ELSE IF host.active THEN Standing(p) ELSE Resumed(p)

\* A rollback of p takes it to a frame it has been at.
Rollbacks(p) ==
    /\ requested[p] <= frame[p]
    /\ \A f \in Frame : saved[p][f] # NoSnapshot => IsAt(saved[p][f], f)
KeepsUp(p) == Following(p) /\ Rollbacks(p)
HostInStep ==
    /\ IsAt(sim[Host], frame[Host])
    /\ host.transfer # 0 => host.snapshot.frame = frame[Host]
                            /\ IsAt(host.snapshot.sim, frame[Host])

Keeping == HostInStep /\ \A p \in MayJoin : KeepsUp(p)
Together == IInv /\ TInv /\ Gathering /\ Settling /\ Keeping

\* The Resume that is the last packet of a link, when the first is taken.
LEMMA ResumeOfTail ==
    ASSUME NEW s, IsSequence(s), s # <<>>, NEW f, ResumeLast(s, f)
    PROVE  /\ ResumeLast(Tail(s), f)
           /\ Head(s).kind = "Resume" => Tail(s) = <<>> /\ Head(s).frame = f
<1> DEFINE t == Tail(s)
<1>1. s \in Seq(Range(s)) /\ Len(s) \in Nat /\ Len(s) > 0
  BY DEF IsSequence
<1>2. /\ Len(t) = Len(s) - 1 /\ Head(s) = s[1] /\ t \in Seq(Range(s))
      /\ \A i \in 1 .. Len(t) : t[i] = s[i + 1]
  BY <1>1
<1> HIDE DEF t
<1>3. /\ \A i \in 1 .. Len(t) : i + 1 \in 1 .. Len(s)
      /\ 1 \in 1 .. Len(s)
  BY <1>1, <1>2
<1>4. ASSUME NEW i \in 1 .. Len(t), t[i].kind = "Resume"
      PROVE  i = Len(t) /\ t[i].frame = f
  <2>1. i + 1 = Len(s) /\ s[i + 1].frame = f
    BY <1>2, <1>3, <1>4 DEF ResumeLast
  <2> QED
    BY <1>1, <1>2, <1>4, <2>1
<1>5. ASSUME Head(s).kind = "Resume" PROVE t = <<>> /\ Head(s).frame = f
  <2>1. 1 = Len(s) /\ s[1].frame = f
    BY <1>2, <1>3, <1>5 DEF ResumeLast
  <2> QED
    BY <1>1, <1>2, <2>1
<1>6. ResumeLast(t, f)
  BY <1>4 DEF ResumeLast
<1> QED
  BY <1>5, <1>6 DEF t

\* It is sent after a status.
LEMMA ResumeAppended ==
    ASSUME NEW s, IsSequence(s), \A m \in Range(s) : m.kind # "Resume",
           NEW a, NEW b, a.kind # "Resume", NEW f, b.frame = f
    PROVE  ResumeLast(s \o <<a, b>>, f)
<1> DEFINE u == s \o <<a, b>>
<1>1. s \in Seq(Range(s)) /\ Len(s) \in Nat /\ DOMAIN s = 1 .. Len(s)
  BY DEF IsSequence
<1>2. /\ Len(u) = Len(s) + 2
      /\ \A i \in 1 .. Len(s) : u[i] = s[i] /\ s[i] \in Range(s)
      /\ u[Len(s) + 1] = a /\ u[Len(s) + 2] = b
  BY <1>1
<1> HIDE DEF u
<1>3. ASSUME NEW i \in 1 .. Len(u), u[i].kind = "Resume"
      PROVE  i = Len(u) /\ u[i].frame = f
  <2>1. i \in 1 .. Len(s) \/ i = Len(s) + 1 \/ i = Len(s) + 2
    BY <1>1, <1>2, <1>3
  <2>2. i = Len(s) + 2
    BY <1>2, <1>3, <2>1
  <2> QED
    BY <1>2, <2>2
<1>4. ResumeLast(u, f)
  BY <1>3 DEF ResumeLast
<1> QED
  BY <1>4 DEF u

\* A step of p, and of p only.
Only(p) ==
    /\ UNCHANGED <<host, remotes>>
    /\ \A q \in Process : q # p => frame'[q] = frame[q] /\ sim'[q] = sim[q]
    /\ \A q \in Peer : q # p => /\ peer'[q] = peer[q] /\ saved'[q] = saved[q]
                                /\ requested'[q] = requested[q]
                                /\ toPeer'[q] = toPeer[q] /\ toHost'[q] = toHost[q]

LEMMA Domains ==
    ASSUME IInv, TInv, Gathering
    PROVE  /\ DOMAIN frame = Process /\ DOMAIN sim = Process
           /\ DOMAIN peer = Peer /\ DOMAIN saved = Peer /\ DOMAIN requested = Peer
           /\ DOMAIN toPeer = Peer /\ DOMAIN toHost = Peer
           /\ Host \in Process /\ Peer \subseteq Process /\ Host \notin Peer
  BY PeerAssumption DEF IInv, VariablesTyped, LinksTyped, TInv, FramesTyped,
     Gathering, PeersGather, Process

LEMMA OnlyReceiver ==
    ASSUME IInv, TInv, Gathering, NEW p \in Peer, PeerReceives(p)
    PROVE  Only(p)
<1>1. /\ DOMAIN frame = Process /\ DOMAIN sim = Process
      /\ DOMAIN peer = Peer /\ DOMAIN saved = Peer /\ DOMAIN requested = Peer
      /\ DOMAIN toPeer = Peer /\ DOMAIN toHost = Peer
  BY Domains
<1>2. CASE HandleJoinAcceptAsPeer(p)
  BY <1>1, <1>2 DEF HandleJoinAcceptAsPeer, ReceiveFromHost, Only, hostVars
<1>3. CASE HandleJoinPendingAsPeer(p)
  BY <1>1, <1>3 DEF HandleJoinPendingAsPeer, ReceiveFromHost, Only, hostVars
<1>4. CASE Drop(p)
  BY <1>1, <1>4 DEF Drop, ReceiveFromHost, Only, hostVars, peerVars
<1>5. CASE HandleJoinBarrierStatus(p)
  BY <1>1, <1>5 DEF HandleJoinBarrierStatus, ReceiveFromHost, Only, hostVars
<1>6. CASE HandleJoinBarrierTopology(p)
  BY <1>1, <1>6 DEF HandleJoinBarrierTopology, ReceiveFromHost, Only, hostVars, peerVars
<1>7. CASE HandleSnapshotResyncChunk(p)
  BY <1>1, <1>7 DEF HandleSnapshotResyncChunk, ReceiveFromHost, Only, hostVars
<1>8. CASE HandleJoinBarrierResume(p)
  BY <1>1, <1>8 DEF HandleJoinBarrierResume, ReceiveFromHost, Only, hostVars
<1> QED
  BY <1>2, <1>3, <1>4, <1>5, <1>6, <1>7, <1>8 DEF PeerReceives

LEMMA OnlyActor ==
    ASSUME IInv, TInv, Gathering, NEW p \in Peer, PeerAdvances(p) \/ SendJoinRequest(p)
    PROVE  Only(p)
<1>1. /\ DOMAIN frame = Process /\ DOMAIN sim = Process
      /\ DOMAIN peer = Peer /\ DOMAIN saved = Peer /\ DOMAIN requested = Peer
      /\ DOMAIN toPeer = Peer /\ DOMAIN toHost = Peer
  BY Domains
<1>2. CASE HearInputs(p)
  BY <1>1, <1>2 DEF HearInputs, Only, hostVars
<1>3. CASE RollbackSnapshotMissing(p)
  BY <1>1, <1>3 DEF RollbackSnapshotMissing, Only, hostVars
<1>4. CASE ReplayRollbackWindow(p)
  BY <1>1, <1>4 DEF ReplayRollbackWindow, Only, hostVars
<1>5. CASE PeerSteps(p)
  BY <1>1, <1>5 DEF PeerSteps, Only, hostVars
<1>6. CASE SendJoinRequest(p)
  BY <1>1, <1>6 DEF SendJoinRequest, Only, hostVars
<1> QED
  BY <1>2, <1>3, <1>4, <1>5, <1>6 DEF PeerAdvances

LEMMA HostStaysInStep ==
    ASSUME Keeping, NEW p \in Peer, Only(p)
    PROVE  HostInStep'
<1>1. UNCHANGED <<host, frame[Host], sim[Host]>>
  BY PeerAssumption DEF Only, Process
<1> QED
  BY <1>1 DEF Keeping, HostInStep, IsAt

LEMMA LeftAlone ==
    ASSUME NEW p \in Peer, Only(p), NEW q \in MayJoin, q # p, KeepsUp(q)
    PROVE  KeepsUp(q)'
<1>1. /\ UNCHANGED <<host, remotes, frame[Host]>>
      /\ UNCHANGED <<frame[q], sim[q], peer[q], saved[q], requested[q], toPeer[q], toHost[q]>>
  BY PeerAssumption DEF Only, Process
<1>2. Rollbacks(q)'
  BY <1>1 DEF KeepsUp, Rollbacks
<1>3. At(q)' = At(q) /\ Served(host, q)' = Served(host, q)
  BY <1>1 DEF At, Served
<1>4. Following(q)'
  BY <1>1, <1>3 DEF KeepsUp, Following, Outside, Standing, Resumed, ChunksAt
<1> QED
  BY <1>2, <1>4 DEF KeepsUp


\* p takes the first packet on its way and answers.
Takes(p, m, answer) ==
    /\ toPeer[p] # <<>> /\ m = Head(toPeer[p]) /\ m \in Contents(toPeer[p])
    /\ IsSequence(toPeer[p]) /\ toPeer'[p] = Tail(toPeer[p])
    /\ Contents(toPeer'[p]) \subseteq Contents(toPeer[p])
    /\ Contents(toHost'[p]) \subseteq Contents(toHost[p]) \cup Range(answer)

LEMMA TakesFirst ==
    ASSUME InOrder, IInv, NEW p \in Peer, NEW m \in Arriving(toPeer[p]),
           NEW answer, IsSequence(answer), ReceiveFromHost(p, answer)
    PROVE  Takes(p, m, answer)
<1>1. /\ LinksTyped /\ m = Head(toPeer[p]) /\ toPeer[p] # <<>>
      /\ toPeer' = [toPeer EXCEPT ![p] = Tail(@)]
  BY DEF IInv, VariablesTyped, Arriving, ReceiveFromHost, Rest
<1>2. IsSequence(toPeer[p]) /\ DOMAIN toPeer = Peer
  BY <1>1 DEF LinksTyped, IsLink
<1>3. /\ m \in Contents(toPeer[p])
      /\ Contents(toPeer'[p]) \subseteq Contents(toPeer[p])
      /\ Contents(toHost'[p]) \subseteq Contents(toHost[p]) \cup Range(answer)
  BY <1>1, ReceiveFromHostLinks
<1> QED
  BY <1>1, <1>2, <1>3 DEF Takes

\* It hears only.
LEMMA TakesOnly ==
    ASSUME InOrder, IInv, NEW p \in Peer, NEW m \in Arriving(toPeer[p]),
           ReceiveFromHost(p, <<>>)
    PROVE  Takes(p, m, <<>>)
  BY TakesFirst, RangeOfTuples

\* What p simulates stays, and where it stood it stands.
LEMMA StillFollows ==
    ASSUME Together, NEW p \in Peer, p \in MayJoin, Only(p),
           NEW m, NEW answer, Takes(p, m, answer),
           frame'[p] = frame[p], sim'[p] = sim[p],
           peer'[p].where = "session" =>
              peer[p].where = "session" /\ (host.active /\ peer'[p].success => At(p)),
           IsJoinBarrierBlocking(peer[p]) => IsJoinBarrierBlocking(peer'[p]),
           host.active => \A k \in Range(answer) : k.kind = "SnapshotAck" /\ k.success => At(p)
    PROVE  Following(p)'
<1>1. UNCHANGED <<host, remotes, frame[Host]>> /\ Following(p)
  BY PeerAssumption DEF Only, Process, Together, Keeping, KeepsUp
<1>2. At(p)' = At(p) /\ Served(host, p)' = Served(host, p)
  BY <1>1 DEF At, Served
<1>3. CASE p \notin remotes
  <2>1. Outside(p)
    BY <1>1, <1>3 DEF Following
  <2>2. Outside(p)'
    BY <2>1 DEF Outside, Takes
  <2> QED
    BY <1>1, <1>3, <2>2 DEF Following
<1>4. CASE p \in remotes /\ host.active
  <2>1. Standing(p)
    BY <1>1, <1>4 DEF Following
  <2>2. ChunksAt(p, frame[Host])'
    BY <1>1, <2>1 DEF Standing, ChunksAt, Takes
  <2>3. \A k \in Contents(toHost'[p]) : k.kind = "SnapshotAck" /\ k.success => At(p)
    BY <1>4, <2>1 DEF Standing, Takes
  <2>4. \A k \in Contents(toPeer'[p]) : k.kind # "Resume"
    BY <2>1 DEF Standing, Takes
  <2>5. Standing(p)'
    BY <1>2, <1>4, <2>1, <2>2, <2>3, <2>4 DEF Standing
  <2> QED
    BY <1>1, <1>4, <2>5 DEF Following
<1>5. CASE p \in remotes /\ ~host.active
  <2>1. Resumed(p) /\ toPeer[p] # <<>> /\ IsSequence(toPeer[p])
    BY <1>1, <1>5 DEF Following, Takes
  <2>2. /\ IsJoinBarrierBlocking(peer[p]) /\ ChunksAt(p, frame[p])
        /\ ResumeLast(toPeer[p], frame[p])
    BY <2>1 DEF Resumed
  <2>3. ChunksAt(p, frame[p])' /\ IsJoinBarrierBlocking(peer'[p])
    BY <2>2 DEF ChunksAt, Takes
  <2>4. ResumeLast(toPeer[p], frame[p])'
    BY <2>1, <2>2, ResumeOfTail DEF Takes
  <2>5. Resumed(p)'
    BY <2>1, <2>3, <2>4 DEF Resumed
  <2> QED
    BY <1>1, <1>5, <2>5 DEF Following
<1> QED
  BY <1>3, <1>4, <1>5

\* The rollbacks of p stay.
LEMMA StillRollsBack ==
    ASSUME Keeping, NEW p \in Peer, p \in MayJoin,
           frame'[p] = frame[p], requested'[p] = requested[p], saved'[p] = saved[p]
    PROVE  Rollbacks(p)'
  BY DEF Keeping, KeepsUp, Rollbacks

\* p forgets them.
Forgets(p) == requested'[p] = NoFrame /\ saved'[p] = [f \in Frame |-> NoSnapshot]
LEMMA NoneToRollBack ==
    ASSUME TInv', NEW p \in Peer, Forgets(p)
    PROVE  Rollbacks(p)'
<1>1. frame'[p] \in Nat
  BY BoundAssumption DEF TInv, FramesTyped, Process, Frame
<1>2. NoFrame <= frame'[p]
  BY <1>1 DEF NoFrame
<1> QED
  BY <1>2 DEF Forgets, Rollbacks

\* p is let in: it is being served and has acknowledged nothing.
LEMMA JoinAcceptKeepsUp ==
    ASSUME InOrder, Together, TInv', NEW p \in Peer, p \in MayJoin,
           HandleJoinAcceptAsPeer(p)
    PROVE  KeepsUp(p)'
<1>1. PICK m \in Arriving(toPeer[p]) :
         /\ m.kind = "JoinAccept" /\ peer[p].where = "joining"
         /\ peer' = [peer EXCEPT ![p] =
              [@ EXCEPT !.where = "session", !.active = TRUE,
                        !.phase = "WaitingForCatchup", !.transfer = 0,
                        !.acked = 0, !.success = FALSE, !.fatal = FALSE]]
         /\ requested' = [requested EXCEPT ![p] = NoFrame]
         /\ saved' = [saved EXCEPT ![p] = [f \in Frame |-> NoSnapshot]]
         /\ ReceiveFromHost(p, <<>>)
  BY DEF HandleJoinAcceptAsPeer
<1>2. IInv /\ TInv /\ Gathering /\ Settling /\ Following(p)
  BY DEF Together, Keeping, KeepsUp
<1>3. Only(p) /\ Takes(p, m, <<>>)
  BY <1>1, <1>2, OnlyReceiver, TakesOnly DEF PeerReceives
<1>4. UNCHANGED <<host, remotes, frame[Host]>>
  BY <1>3, PeerAssumption DEF Only, Process
<1>5. p \in remotes
  BY <1>1, <1>2, <1>3 DEF Following, Outside, Takes
<1>6. Served(host, p)
  BY <1>1, <1>2, <1>5 DEF Settling, Silent
<1>7. Standing(p) /\ host.active
  BY <1>2, <1>5, <1>6 DEF Following, Served
<1>8. /\ peer'[p].active /\ peer'[p].phase = "WaitingForCatchup" /\ ~peer'[p].success
  <2>1. DOMAIN peer = Peer /\ DOMAIN peer[p] = PeerFields
    BY <1>2 DEF IInv, VariablesTyped
  <2> QED
    BY <1>1, <2>1 DEF PeerFields
<1>9. \A k \in Contents(toHost'[p]) : k.kind # "SnapshotAck"
  BY <1>1, <1>2, <1>3, RangeOfTuples DEF Gathering, LinksTell, Answers, Takes
<1>10. ChunksAt(p, frame[Host])' /\ \A k \in Contents(toPeer'[p]) : k.kind # "Resume"
  BY <1>3, <1>4, <1>7 DEF Standing, ChunksAt, Takes
<1>11. Served(host, p)'
  BY <1>4, <1>6 DEF Served
<1>12. Standing(p)'
  BY <1>8, <1>9, <1>10, <1>11 DEF Standing, IsJoinBarrierBlocking
<1>13. Rollbacks(p)'
  <2>1. Forgets(p)
    BY <1>1, <1>2, Domains DEF Forgets
  <2> QED
    BY <2>1, NoneToRollBack
<1> QED
  BY <1>4, <1>5, <1>7, <1>12, <1>13 DEF KeepsUp, Following

\* Packets that change no simulation.
LEMMA QuietPacketKeepsUp ==
    ASSUME InOrder, Together, NEW p \in Peer, p \in MayJoin,
           HandleJoinPendingAsPeer(p) \/ Drop(p) \/ HandleJoinBarrierStatus(p)
    PROVE  KeepsUp(p)'
<1>1. IInv /\ TInv /\ Gathering /\ Settling /\ Following(p) /\ Keeping
  BY DEF Together, Keeping, KeepsUp
<1>2. DOMAIN peer = Peer /\ DOMAIN peer[p] = PeerFields
  BY <1>1 DEF IInv, VariablesTyped
<1>3. UNCHANGED <<frame, sim, requested, saved>>
  BY DEF HandleJoinPendingAsPeer, Drop, HandleJoinBarrierStatus, peerVars
<1>4. Only(p)
  BY <1>1, OnlyReceiver DEF PeerReceives
<1>5. PICK m \in Arriving(toPeer[p]) :
         /\ ReceiveFromHost(p, <<>>)
         /\ \/ peer' = [peer EXCEPT ![p].where = "refused"]
            \/ peer' = peer
            \/ /\ m.kind = "Status" /\ peer[p].where = "session"
               /\ peer' = [peer EXCEPT ![p] =
                    [@ EXCEPT !.active = TRUE, !.id = m.id, !.phase = m.phase,
                              !.transfer = m.transfer]]
  BY DEF HandleJoinPendingAsPeer, Drop, HandleJoinBarrierStatus, peerVars, Accepts
<1>6. Takes(p, m, <<>>)
  BY <1>1, <1>5, TakesOnly
<1>7. m.kind = "Status" => m.phase # "None"
  BY <1>1, <1>6 DEF IInv, PacketsInPlace, PacketOfBarrier, BarrierKind, Takes
<1>8. /\ peer'[p].where = "session" =>
             peer[p].where = "session" /\ peer'[p].success = peer[p].success
      /\ IsJoinBarrierBlocking(peer[p]) => IsJoinBarrierBlocking(peer'[p])
  BY <1>2, <1>5, <1>7 DEF PeerFields, IsJoinBarrierBlocking
<1>9. peer[p].where = "session" /\ host.active /\ peer[p].success => At(p)
  BY <1>1 DEF Following, Outside, Standing
<1>10. Following(p)'
  BY <1>3, <1>4, <1>6, <1>8, <1>9, StillFollows, RangeOfTuples
<1>11. Rollbacks(p)'
  BY <1>1, <1>3, StillRollsBack
<1> QED
  BY <1>10, <1>11 DEF KeepsUp


\* A snapshot takes p to the frame the host stands at, or is answered as it
\* was before.
LEMMA ChunkKeepsUp ==
    ASSUME InOrder, Together, TInv', NEW p \in Peer, p \in MayJoin,
           HandleSnapshotResyncChunk(p)
    PROVE  KeepsUp(p)'
<1>1. PICK m \in Arriving(toPeer[p]), decoded \in Decodes :
           HandleSnapshotResyncChunk(p)!(m, decoded)
  BY DEF HandleSnapshotResyncChunk
<1> DEFINE again   == peer[p].acked = m.transfer
           barrier == peer[p].active /\ peer[p].transfer \in {0, m.transfer}
           success == IF again THEN peer[p].success ELSE decoded
           shown   == IF ~barrier THEN peer[p].phase
                      ELSE IF decoded THEN "WaitingForResume" ELSE "WaitingForCatchup"
           transfer == IF barrier THEN m.transfer ELSE peer[p].transfer
           fields == [peer[p] EXCEPT !.acked = m.transfer, !.success = decoded,
                                     !.fatal = ~decoded, !.phase = shown,
                                     !.transfer = transfer]
           ack    == [kind |-> "SnapshotAck", transfer |-> m.transfer, success |-> success]
<1>2. /\ m.kind = "Chunk" /\ peer[p].where = "session"
      /\ ReceiveFromHost(p, <<ack>>)
      /\ IF again THEN peer' = peer ELSE peer' = [peer EXCEPT ![p] = fields]
      /\ IF again \/ ~decoded THEN UNCHANGED <<requested, saved, frame, sim>>
         ELSE /\ frame' = [frame EXCEPT ![p] = m.frame]
              /\ sim' = [sim EXCEPT ![p] = m.sim]
              /\ requested' = [requested EXCEPT ![p] = NoFrame]
              /\ saved' = [saved EXCEPT ![p] = [f \in Frame |-> NoSnapshot]]
  BY <1>1
<1>3. /\ IInv /\ TInv /\ Gathering /\ Keeping /\ Following(p)
      /\ DOMAIN peer = Peer /\ DOMAIN peer[p] = PeerFields
  BY DEF Together, Keeping, KeepsUp, IInv, VariablesTyped
<1>4. Only(p)
  BY <1>3, OnlyReceiver DEF PeerReceives
<1>5. UNCHANGED <<host, remotes, frame[Host]>>
  BY <1>4, PeerAssumption DEF Only, Process
<1>6. PICK answer : answer = ack
  OBVIOUS
<1>7. /\ IsSequence(<<answer>>) /\ Range(<<answer>>) = {answer}
      /\ ReceiveFromHost(p, <<answer>>) /\ answer.success = success
  BY <1>2, <1>6, RangeOfTuples
<1>8. Takes(p, m, <<answer>>)
  BY <1>3, <1>7, TakesFirst
<1>9. /\ fields.where = "session" /\ fields.success = decoded
      /\ fields.active = peer[p].active /\ fields.phase = shown
  BY <1>2, <1>3 DEF PeerFields
<1>10. shown = peer[p].phase \/ shown \in {"WaitingForResume", "WaitingForCatchup"}
  OBVIOUS
<1> HIDE DEF ack, barrier, shown, transfer, fields
<1>11. /\ peer'[p].where = "session" /\ peer'[p].success = success
       /\ IsJoinBarrierBlocking(peer[p]) => IsJoinBarrierBlocking(peer'[p])
  BY <1>2, <1>3, <1>9, <1>10 DEF IsJoinBarrierBlocking
<1>12. p \in remotes
  BY <1>2, <1>3 DEF Following, Outside
<1>13. CASE again \/ ~decoded
  <2>1. success => peer[p].success
    BY <1>13
  <2>2. host.active /\ success => At(p)
    BY <1>2, <1>3, <1>12, <2>1 DEF Following, Standing
  <2>3. Following(p)'
    BY <1>2, <1>4, <1>7, <1>8, <1>11, <1>13, <2>2, StillFollows
  <2>4. Rollbacks(p)'
    BY <1>2, <1>3, <1>13, StillRollsBack
  <2> QED
    BY <2>3, <2>4 DEF KeepsUp
<1>14. CASE ~(again \/ ~decoded)
  <2>1. frame'[p] = m.frame /\ sim'[p] = m.sim /\ Forgets(p)
    BY <1>2, <1>3, <1>14, Domains DEF Forgets
  <2>2. Rollbacks(p)'
    BY <2>1, NoneToRollBack
  <2>3. CASE host.active
    <3>1. Standing(p)
      BY <1>3, <1>12, <2>3 DEF Following
    <3>2. m.frame = frame[Host] /\ IsAt(m.sim, frame[Host])
      BY <1>2, <1>8, <3>1 DEF Standing, ChunksAt, Takes
    <3>3. At(p)'
      BY <1>5, <2>1, <3>2 DEF At, IsAt
    <3>4. IsJoinBarrierBlocking(peer'[p])
      BY <1>2, <1>11, <3>1 DEF Standing
    <3>5. ChunksAt(p, frame[Host])' /\ \A k \in Contents(toPeer'[p]) : k.kind # "Resume"
      BY <1>5, <1>8, <3>1 DEF Standing, ChunksAt, Takes
    <3>6. Standing(p)'
      BY <3>3, <3>4, <3>5 DEF Standing
    <3> QED
      BY <1>5, <1>12, <2>2, <2>3, <3>6 DEF KeepsUp, Following
  <2>4. CASE ~host.active
    <3>1. Resumed(p) /\ toPeer[p] # <<>> /\ IsSequence(toPeer[p])
      BY <1>3, <1>8, <1>12, <2>4 DEF Following, Takes
    <3>2. /\ IsJoinBarrierBlocking(peer[p]) /\ ChunksAt(p, frame[p])
          /\ ResumeLast(toPeer[p], frame[p])
      BY <3>1 DEF Resumed
    <3>3. m.frame = frame[p] /\ IsAt(m.sim, frame[p])
      BY <1>2, <1>8, <3>2 DEF ChunksAt, Takes
    <3>4. frame'[p] = frame[p] /\ IsAt(sim[p], frame[p])'
      BY <2>1, <3>3 DEF IsAt
    <3>5. ChunksAt(p, frame[p])'
      BY <1>8, <3>2, <3>4 DEF ChunksAt, Takes
    <3>6. ResumeLast(toPeer[p], frame[p])'
      BY <1>8, <3>1, <3>2, <3>4, ResumeOfTail DEF Takes
    <3>7. Resumed(p)'
      BY <1>11, <3>2, <3>4, <3>5, <3>6 DEF Resumed
    <3> QED
      BY <1>5, <1>12, <2>2, <2>4, <3>7 DEF KeepsUp, Following
  <2> QED
    BY <2>3, <2>4
<1> QED
  BY <1>13, <1>14

\* The Resume is the last packet and of the frame p is at.
LEMMA ResumeKeepsUp ==
    ASSUME InOrder, Together, NEW p \in Peer, p \in MayJoin,
           HandleJoinBarrierResume(p)
    PROVE  KeepsUp(p)'
<1>1. PICK m \in Arriving(toPeer[p]) :
         /\ m.kind = "Resume" /\ peer[p].where = "session"
         /\ frame' = [frame EXCEPT ![p] = m.frame]
         /\ ReceiveFromHost(p, <<>>)
         /\ UNCHANGED <<requested, saved, sim>>
  BY DEF HandleJoinBarrierResume, Accepts
<1>2. IInv /\ TInv /\ Gathering /\ Keeping /\ Following(p)
  BY DEF Together, Keeping, KeepsUp
<1>3. Only(p) /\ Takes(p, m, <<>>)
  BY <1>1, <1>2, OnlyReceiver, TakesOnly DEF PeerReceives
<1>4. UNCHANGED <<host, remotes, frame[Host]>>
  BY <1>3, PeerAssumption DEF Only, Process
<1>5. p \in remotes /\ ~host.active
  BY <1>1, <1>2, <1>3 DEF Following, Outside, Standing, Takes
<1>6. Resumed(p) /\ toPeer[p] # <<>> /\ IsSequence(toPeer[p])
  BY <1>2, <1>3, <1>5 DEF Following, Takes
<1>7. ResumeLast(toPeer[p], frame[p])
  BY <1>6 DEF Resumed
<1>8. m.frame = frame[p] /\ toPeer'[p] = <<>>
  BY <1>1, <1>3, <1>6, <1>7, ResumeOfTail DEF Takes
<1>9. frame'[p] = frame[p]
  BY <1>1, <1>2, <1>8, Domains
<1>10. Resumed(p)'
  BY <1>1, <1>6, <1>8, <1>9 DEF Resumed
<1>11. Rollbacks(p)'
  BY <1>1, <1>2, <1>9, StillRollsBack
<1> QED
  BY <1>4, <1>5, <1>10, <1>11 DEF KeepsUp, Following

\* Who joins is told of no topology.
LEMMA ReceiverKeepsUp ==
    ASSUME InOrder, Together, TInv', NEW p \in Peer, p \in MayJoin, PeerReceives(p)
    PROVE  KeepsUp(p)'
<1>1. ~HandleJoinBarrierTopology(p)
  <2>1. ASSUME NEW m \in Arriving(toPeer[p]) PROVE m.kind # "Topology"
    BY ContentsOfRest DEF Together, IInv, VariablesTyped, LinksTyped, Gathering,
       LinksTell, Tells
  <2> QED
    BY <2>1 DEF HandleJoinBarrierTopology
<1> QED
  BY <1>1, JoinAcceptKeepsUp, QuietPacketKeepsUp, ChunkKeepsUp, ResumeKeepsUp
     DEF PeerReceives


\* p asks to be let in, again if it must: it does so only while it is outside
\* or served.
LEMMA RequestKeepsUp ==
    ASSUME InOrder, Together, NEW p \in Peer, p \in MayJoin, SendJoinRequest(p)
    PROVE  KeepsUp(p)'
<1> DEFINE asked == [kind |-> "JoinRequest"]
<1>1. PICK request : request = asked
  OBVIOUS
<1>2. /\ peer[p].where \in {"new", "joining"}
      /\ peer' = [peer EXCEPT ![p].where = "joining", ![p].requests = @ + 1]
      /\ toHost' = [toHost EXCEPT ![p] = Put(@, <<request>>)]
      /\ UNCHANGED <<host, remotes, frame, sim, requested, saved, toPeer>>
  BY <1>1 DEF SendJoinRequest, hostVars
<1>3. request.kind = "JoinRequest"
  BY <1>1
<1> HIDE DEF asked
<1>4. IInv /\ TInv /\ Gathering /\ Settling /\ Keeping /\ Following(p)
  BY DEF Together, Keeping, KeepsUp
<1>5. peer'[p].where = "joining"
  <2>1. DOMAIN peer = Peer /\ DOMAIN peer[p] = PeerFields
    BY <1>4 DEF IInv, VariablesTyped
  <2> QED
    BY <1>2, <2>1 DEF PeerFields
<1>6. Contents(toHost'[p]) = Contents(toHost[p]) \cup {request}
  <2>1. DOMAIN toHost = Peer /\ IsLink(toHost[p])
    BY <1>4 DEF IInv, VariablesTyped, LinksTyped
  <2> QED
    BY <1>2, <2>1, ContentsOfPut, RangeOfTuples
<1>7. At(p)' = At(p) /\ Served(host, p)' = Served(host, p)
  BY <1>2 DEF At, Served
<1>8. Following(p)'
  <2>1. CASE p \notin remotes
    BY <1>2, <1>4, <1>5, <2>1 DEF Following, Outside
  <2>2. CASE p \in remotes
    <3>1. Served(host, p)
      BY <1>2, <1>4, <2>2 DEF Settling, Silent
    <3>2. host.active /\ Standing(p)
      BY <1>4, <2>2, <3>1 DEF Served, Following
    <3>3. \A k \in Contents(toHost'[p]) : k.kind = "SnapshotAck" /\ k.success => At(p)
      BY <1>3, <1>6, <3>2 DEF Standing
    <3>4. Standing(p)'
      BY <1>2, <1>5, <1>7, <3>1, <3>2, <3>3 DEF Standing, ChunksAt
    <3> QED
      BY <1>2, <2>2, <3>2, <3>4 DEF Following
  <2> QED
    BY <2>1, <2>2
<1>9. Rollbacks(p)'
  BY <1>2, <1>4, StillRollsBack
<1> QED
  BY <1>8, <1>9 DEF KeepsUp

\* Where p goes on, the Resume has arrived and p has stepped the frames before
\* its next.
LEMMA GoesOnWhenResumed ==
    ASSUME Together, NEW p \in Peer, p \in MayJoin,
           peer[p].where = "session", ~IsJoinBarrierBlocking(peer[p])
    PROVE  /\ p \in remotes /\ ~host.active
           /\ IsAt(sim[p], frame[p]) /\ toPeer[p] = <<>>
<1>1. Following(p)
  BY DEF Together, Keeping, KeepsUp
<1>2. p \in remotes /\ ~host.active
  BY <1>1 DEF Following, Outside, Standing
<1> QED
  BY <1>1, <1>2 DEF Following, Resumed

\* A step of its own keeps p at the frame it is at.
LEMMA StillAt ==
    ASSUME Together, NEW p \in Peer, p \in MayJoin, UNCHANGED hostVars, toPeer' = toPeer,
           peer[p].where = "session", ~IsJoinBarrierBlocking(peer[p]),
           IsAt(sim'[p], frame'[p])
    PROVE  Following(p)'
<1>1. p \in remotes /\ ~host.active /\ toPeer[p] = <<>>
  BY GoesOnWhenResumed
<1>2. host' = host /\ remotes' = remotes
  BY DEF hostVars
<1>3. Resumed(p)'
  BY <1>1 DEF Resumed
<1> QED
  BY <1>1, <1>2, <1>3 DEF Following

\* The entries of the log for count frames.
LEMMA SteppedOn ==
    ASSUME NEW s, IsSim(s), NEW first \in Nat, IsAt(s, first), NEW count \in Nat,
           NEW p, NEW bad
    PROVE  IsAt([s EXCEPT !.log = @ \o Stepped(p, first, count, bad)], first + count)
<1> DEFINE more == Stepped(p, first, count, bad)
           log  == s.log \o more
<1>1. more \in Seq(Int) /\ Len(more) = count
  <2>1. more = [i \in 1 .. count |->
                  IF first + i - 1 \in bad THEN -1 - (first + i - 1) ELSE first + i - 1]
    BY DEF Stepped, Wrong
  <2>2. \A i \in 1 .. count : first + i - 1 \in Int /\ -1 - (first + i - 1) \in Int
    OBVIOUS
  <2> HIDE DEF more
  <2>3. more \in [1 .. count -> Int]
    BY <2>1, <2>2
  <2> QED
    BY <2>3
<1> HIDE DEF more
<1>2. s.log \in Seq(Int) /\ Len(s.log) = first
  BY DEF IsAt
<1>3. log \in Seq(Int) /\ Len(log) = first + count
  BY <1>1, <1>2
<1> HIDE DEF log
<1>4. [s EXCEPT !.log = log].log = log
  BY DEF IsSim
<1>5. IsAt([s EXCEPT !.log = log], first + count)
  BY <1>3, <1>4 DEF IsAt
<1> QED
  BY <1>5 DEF log, more

\* Inputs heard take p back no further than the frames it has stepped.
LEMMA HearInputsKeepsUp ==
    ASSUME Together, NEW p \in Peer, p \in MayJoin, HearInputs(p)
    PROVE  KeepsUp(p)'
<1>1. PICK next \in (heard[p] + 1) .. frame[Host] :
         LET wrong == {f \in heard[p] .. (next - 1) :
                         f < frame[p] /\ Wrong(f) \in Range(sim[p].log)}
             asked == (wrong \cup {requested[p]}) \ {NoFrame}
         IN  requested' = [requested EXCEPT ![p] =
                   IF asked = {} THEN NoFrame ELSE Min(asked)]
  BY DEF HearInputs
<1> DEFINE wrong == {f \in heard[p] .. (next - 1) :
                       f < frame[p] /\ Wrong(f) \in Range(sim[p].log)}
           asked == (wrong \cup {requested[p]}) \ {NoFrame}
           first == IF asked = {} THEN NoFrame ELSE Min(asked)
<1>2. /\ UNCHANGED <<host, remotes, peer, frame, sim, saved, toPeer, toHost>>
      /\ requested' = [requested EXCEPT ![p] = first]
  BY <1>1 DEF HearInputs, hostVars
<1>3. /\ Following(p) /\ Rollbacks(p) /\ DOMAIN requested = Peer
      /\ heard[p] \in Nat /\ frame[Host] \in Nat /\ frame[p] \in Nat
      /\ requested[p] \in Nat \cup {NoFrame}
  BY BoundAssumption DEF Together, Keeping, KeepsUp, TInv, FramesTyped, Process, Frame
<1>4. \A f \in wrong : f \in Nat /\ f <= frame[p]
  BY <1>3
<1> HIDE DEF wrong
<1>5. asked \in SUBSET Nat /\ \A f \in asked : f <= frame[p]
  BY <1>3, <1>4 DEF Rollbacks
<1> HIDE DEF asked
<1>6. first <= frame[p]
  <2>1. CASE asked = {}
    BY <1>3, <2>1 DEF NoFrame
  <2>2. CASE asked # {}
    BY <1>5, <2>2, MinOfNaturals
  <2> QED
    BY <2>1, <2>2
<1> HIDE DEF first
<1>7. Rollbacks(p)'
  BY <1>2, <1>3, <1>6 DEF Rollbacks
<1>8. At(p)' = At(p) /\ Served(host, p)' = Served(host, p)
  BY <1>2 DEF At, Served
<1>9. Following(p)'
  BY <1>2, <1>3, <1>8 DEF Following, Outside, Standing, Resumed, ChunksAt
<1> QED
  BY <1>7, <1>9 DEF KeepsUp

\* A replay ends at the frame it began at.
LEMMA ReplayKeepsUp ==
    ASSUME Together, NEW p \in Peer, p \in MayJoin, ReplayRollbackWindow(p)
    PROVE  KeepsUp(p)'
<1> DEFINE first == requested[p]
           base  == saved[p][first]
<1>1. PICK bad \in SUBSET Guessed(p, first, frame[p] - 1) :
         /\ first # NoFrame /\ base # NoSnapshot
         /\ sim' = [sim EXCEPT ![p] =
               [base EXCEPT !.log = @ \o Stepped(p, first, frame[p] - first, bad)]]
         /\ saved' = [saved EXCEPT ![p] = [f \in Frame |->
               IF f \in first .. (frame[p] - 1)
               THEN [base EXCEPT !.log = @ \o Stepped(p, first, f - first, bad)]
               ELSE saved[p][f]]]
  BY DEF ReplayRollbackWindow
<1>2. /\ UNCHANGED <<hostVars, frame, toPeer>>
      /\ requested' = [requested EXCEPT ![p] = NoFrame]
      /\ peer[p].where = "session" /\ ~IsJoinBarrierBlocking(peer[p])
  BY DEF ReplayRollbackWindow, MayStep
<1>3. /\ Rollbacks(p) /\ Remembers(p) /\ IInv /\ TInv /\ Gathering
      /\ frame[p] \in Nat /\ first \in Frame \cup {NoFrame} /\ Frame \subseteq Nat
  BY BoundAssumption DEF Together, Keeping, KeepsUp, TInv, FramesTyped, Process, Frame,
     Gathering, PeersGather
<1>4. first \in Frame /\ first \in Nat /\ first <= frame[p]
  BY <1>1, <1>3 DEF Rollbacks
<1>5. IsSim(base) /\ IsAt(base, first)
  BY <1>1, <1>3, <1>4 DEF Rollbacks, Remembers
<1> HIDE DEF first, base
<1>6. ASSUME NEW f \in Nat, first <= f
      PROVE  IsAt([base EXCEPT !.log = @ \o Stepped(p, first, f - first, bad)], f)
  <2>1. f - first \in Nat /\ first + (f - first) = f
    BY <1>4, <1>6
  <2> QED
    BY <1>4, <1>5, <2>1, SteppedOn
<1>7. IsAt(sim'[p], frame'[p])
  <2>1. sim'[p] = [base EXCEPT !.log = @ \o Stepped(p, first, frame[p] - first, bad)]
    BY <1>1, <1>3, Domains
  <2> QED
    BY <1>2, <1>3, <1>4, <1>6, <2>1
<1>8. ASSUME NEW f \in Frame, saved'[p][f] # NoSnapshot PROVE IsAt(saved'[p][f], f)
  <2>1. saved'[p][f] = IF f \in first .. (frame[p] - 1)
                       THEN [base EXCEPT !.log = @ \o Stepped(p, first, f - first, bad)]
                       ELSE saved[p][f]
    BY <1>1, <1>3, Domains
  <2>2. CASE f \in first .. (frame[p] - 1)
    <3>1. f \in Nat /\ first <= f
      BY <1>3, <1>4, <2>2
    <3>2. saved'[p][f] = [base EXCEPT !.log = @ \o Stepped(p, first, f - first, bad)]
      BY <2>1, <2>2
    <3> QED
      BY <1>6, <3>1, <3>2
  <2>3. CASE f \notin first .. (frame[p] - 1)
    BY <1>3, <1>8, <2>1, <2>3 DEF Rollbacks
  <2> QED
    BY <2>2, <2>3
<1>9. requested'[p] <= frame'[p]
  BY <1>2, <1>3, Domains DEF NoFrame
<1>10. Following(p)'
  BY <1>2, <1>7, StillAt
<1> QED
  BY <1>8, <1>9, <1>10 DEF KeepsUp, Rollbacks

\* A frame stepped is one more in the log.
LEMMA StepKeepsUp ==
    ASSUME Together, NEW p \in Peer, p \in MayJoin, PeerSteps(p)
    PROVE  KeepsUp(p)'
<1> DEFINE f == frame[p]
<1>1. PICK bad : /\ sim' = [sim EXCEPT ![p].log = @ \o Stepped(p, f, 1, bad)]
                 /\ saved' = [saved EXCEPT ![p][f] = sim[p]]
                 /\ frame' = [frame EXCEPT ![p] = f + 1]
  BY DEF PeerSteps
<1>2. /\ UNCHANGED <<hostVars, requested, toPeer>> /\ requested[p] = NoFrame
      /\ peer[p].where = "session" /\ ~IsJoinBarrierBlocking(peer[p])
  BY DEF PeerSteps, MayStep
<1>3. /\ Rollbacks(p) /\ Remembers(p) /\ IInv /\ TInv /\ Gathering /\ f \in Nat
  BY BoundAssumption DEF Together, Keeping, KeepsUp, TInv, FramesTyped, Process, Frame,
     Gathering, PeersGather
<1>4. /\ DOMAIN sim = Process /\ DOMAIN frame = Process /\ DOMAIN saved = Peer
      /\ p \in Process
  BY <1>3, Domains
<1>5. IsAt(sim[p], f) /\ IsSim(sim[p])
  BY <1>2, <1>3, GoesOnWhenResumed DEF Remembers
<1> HIDE DEF f
<1>6. IsAt(sim'[p], frame'[p])
  <2>1. sim'[p] = [sim[p] EXCEPT !.log = @ \o Stepped(p, f, 1, bad)] /\ frame'[p] = f + 1
    BY <1>1, <1>4
  <2>2. IsAt([sim[p] EXCEPT !.log = @ \o Stepped(p, f, 1, bad)], f + 1)
    BY <1>3, <1>5, SteppedOn
  <2> QED
    BY <2>1, <2>2
<1>7. ASSUME NEW k \in Frame, saved'[p][k] # NoSnapshot PROVE IsAt(saved'[p][k], k)
  <2>1. saved'[p][k] = saved[p][k] \/ (k = f /\ saved'[p][k] = sim[p])
    BY <1>1, <1>4
  <2> QED
    BY <1>3, <1>5, <1>7, <2>1 DEF Rollbacks
<1>8. requested'[p] <= frame'[p]
  BY <1>1, <1>2, <1>3, <1>4 DEF NoFrame
<1>9. Following(p)'
  BY <1>2, <1>6, StillAt
<1> QED
  BY <1>7, <1>8, <1>9 DEF KeepsUp, Rollbacks

\* A rollback is given up.
LEMMA MissingKeepsUp ==
    ASSUME Together, NEW p \in Peer, p \in MayJoin, RollbackSnapshotMissing(p)
    PROVE  KeepsUp(p)'
<1>1. /\ UNCHANGED <<hostVars, saved, frame, sim, toPeer>>
      /\ requested' = [requested EXCEPT ![p] = NoFrame]
      /\ peer[p].where = "session" /\ ~IsJoinBarrierBlocking(peer[p])
  BY DEF RollbackSnapshotMissing, MayStep
<1>2. Rollbacks(p) /\ frame[p] \in Nat /\ IInv /\ TInv /\ Gathering
  BY BoundAssumption DEF Together, Keeping, KeepsUp, TInv, FramesTyped, Process, Frame
<1>3. Rollbacks(p)'
  BY <1>1, <1>2, Domains DEF Rollbacks, NoFrame
<1>4. Following(p)'
  BY <1>1, StillAt, GoesOnWhenResumed
<1> QED
  BY <1>3, <1>4 DEF KeepsUp

\* A step of a peer.
LEMMA PeerKeeps ==
    ASSUME OneComesNobodyLeaves, InOrder, Together, TInv', NEW p \in Peer,
           PeerReceives(p) \/ PeerAdvances(p) \/ SendJoinRequest(p)
    PROVE  Keeping'
<1>1. IInv /\ TInv /\ Gathering /\ Keeping
  BY DEF Together
<1>2. Only(p)
  BY <1>1, OnlyReceiver, OnlyActor
<1>3. HostInStep'
  BY <1>1, <1>2, HostStaysInStep
<1>4. CASE p \in MayJoin
  <2>1. KeepsUp(p)'
    BY <1>4, ReceiverKeepsUp, RequestKeepsUp, HearInputsKeepsUp, ReplayKeepsUp,
       StepKeepsUp, MissingKeepsUp DEF PeerAdvances
  <2> QED
    BY <1>3, <1>4, <2>1 DEF Keeping, OneComesNobodyLeaves
<1>5. CASE p \notin MayJoin
  <2>1. ASSUME NEW q \in MayJoin PROVE KeepsUp(q)'
    BY <1>1, <1>2, <1>5, LeftAlone DEF Keeping
  <2> QED
    BY <1>3, <2>1 DEF Keeping
<1> QED
  BY <1>4, <1>5


\* What the host sends p while its barrier stands.
Gains(p) ==
    \A m \in Contents(toPeer'[p]) :
        \/ m \in Contents(toPeer[p])
        \/ m.kind \notin {"Chunk", "Resume"}
        \/ m.kind = "Chunk" /\ m.frame = frame[Host] /\ IsAt(m.sim, frame[Host])
\* The host's fields h hold a snapshot of the frame it is at.
SnapshotInStep(h) ==
    h.transfer # 0 => h.snapshot.frame = frame[Host] /\ IsAt(h.snapshot.sim, frame[Host])

\* A step of the host that leaves its barrier as it is, up or over.
LEMMA HostActs ==
    ASSUME Keeping, UNCHANGED <<remotes, peer, frame, requested, saved>>,
           \A q \in Peer : sim'[q] = sim[q], sim'[Host].log = sim[Host].log,
           host'.active = host.active, SnapshotInStep(host'),
           \A p \in MayJoin :
              /\ Contents(toHost'[p]) \subseteq Contents(toHost[p])
              /\ p \notin remotes \/ ~host.active => toPeer'[p] = toPeer[p]
              /\ p \in remotes /\ host.active =>
                    Gains(p) /\ (Served(host, p) => Served(host', p) \/ At(p))
    PROVE  Keeping'
<1>1. HostInStep'
  BY DEF Keeping, HostInStep, SnapshotInStep, IsAt
<1>2. ASSUME NEW p \in MayJoin PROVE KeepsUp(p)'
  <2>1. /\ Following(p) /\ p \in Peer /\ sim'[p] = sim[p]
        /\ Contents(toHost'[p]) \subseteq Contents(toHost[p])
    BY PeerAssumption DEF Keeping, KeepsUp
  <2>2. At(p)' = At(p)
    BY <2>1 DEF At
  <2>3. Rollbacks(p)'
    BY DEF Keeping, KeepsUp, Rollbacks
  <2>4. CASE p \notin remotes
    <3>1. toPeer'[p] = toPeer[p]
      BY <2>4
    <3> QED
      BY <2>1, <2>3, <2>4, <3>1 DEF KeepsUp, Following, Outside
  <2>5. CASE p \in remotes /\ host.active
    <3>1. Standing(p) /\ Gains(p) /\ (Served(host, p) => Served(host', p) \/ At(p))
      BY <2>1, <2>5 DEF Following
    <3>2. Served(host, p)' \/ At(p)'
      BY <2>2, <3>1 DEF Standing, Served
    <3>3. ChunksAt(p, frame[Host])' /\ \A k \in Contents(toPeer'[p]) : k.kind # "Resume"
      BY <3>1 DEF Standing, ChunksAt, Gains
    <3>4. Standing(p)'
      BY <2>1, <2>2, <3>1, <3>2, <3>3 DEF Standing
    <3> QED
      BY <2>3, <2>5, <3>4 DEF KeepsUp, Following
  <2>6. CASE p \in remotes /\ ~host.active
    <3>1. toPeer'[p] = toPeer[p] /\ Resumed(p)
      BY <2>1, <2>6 DEF Following
    <3>2. Resumed(p)'
      BY <2>1, <3>1 DEF Resumed, ChunksAt
    <3> QED
      BY <2>3, <2>6, <3>2 DEF KeepsUp, Following
  <2> QED
    BY <2>4, <2>5, <2>6
<1> QED
  BY <1>1, <1>2 DEF Keeping

\* A packet the host takes without answering.
LEMMA HostHears ==
    ASSUME Together, NEW p \in Peer, NEW m \in Arriving(toHost[p]), ReceiveFromPeer(p),
           UNCHANGED <<remotes, peer, frame, requested, saved, sim, toPeer>>,
           host'.active = host.active, SnapshotInStep(host'),
           \A q \in MayJoin \cap remotes :
              host.active /\ Served(host, q) => Served(host', q) \/ At(q)
    PROVE  Keeping'
<1>1. MayJoin \subseteq Peer /\ \A q \in MayJoin : Gains(q)
  BY PeerAssumption DEF Gains
<1>2. \A q \in Peer : Contents(toHost'[q]) \subseteq Contents(toHost[q])
  BY ReceiveFromPeerLinks DEF Together, IInv, VariablesTyped
<1>3. Keeping
  BY DEF Together
<1> QED
  BY <1>1, <1>2, <1>3, HostActs

\* An acknowledgement of a snapshot: who acknowledges is at the host's frame.
LEMMA SnapshotAckKeepsUp ==
    ASSUME InOrder, Together, NEW p \in Peer, HandleSnapshotResyncAck(p)
    PROVE  Keeping'
<1> DEFINE idle   == ClearJoinBarrierTransfer(host)
           ended  == [idle EXCEPT !.phase = PhaseWhenIdle(idle)]
           again  == [QueueJoinBarrierPeer(idle, p) EXCEPT !.phase = "WaitingForCatchup"]
<1>1. PICK m \in Arriving(toHost[p]) :
         /\ m.kind = "SnapshotAck"
         /\ host' = IF ~AnswersTransfer(m) THEN host
                    ELSE IF m.success THEN ended ELSE again
         /\ ReceiveFromPeer(p)
         /\ UNCHANGED <<remotes, peer, frame, requested, saved, sim, toPeer>>
  BY DEF HandleSnapshotResyncAck, peerVars
<1>2. /\ m \in Contents(toHost[p]) /\ Keeping
      /\ HostTyped(host, remotes) /\ DOMAIN host = HostFields /\ IInv /\ HostOK(host)
  BY <1>1, ReceiveFromPeerLinks
     DEF Together, TInv, HostTyped, HostOK, IInv, VariablesTyped
<1>3. CASE ~AnswersTransfer(m)
  <2>1. host' = host /\ SnapshotInStep(host')
    BY <1>1, <1>2, <1>3 DEF Keeping, HostInStep, SnapshotInStep
  <2> QED
    BY <1>1, <2>1, HostHears
<1>4. CASE AnswersTransfer(m)
  <2>1. host.active /\ p = host.target
    BY <1>1, <1>2, <1>4 DEF AnswersTransfer, IInv, PacketsInPlace, PacketOfTransfer
  <2>2. /\ idle.active /\ DOMAIN idle = HostFields /\ idle.queue = host.queue
        /\ idle.transfer = 0
    BY <1>2, <2>1, ClearTransferGathers
  <2>3. HostTyped(idle, remotes)
    BY <1>2, ClearTyped
  <2> HIDE DEF idle
  <2>4. \A q : Served(host, q) => q \in Range(idle.queue) \/ q = p
    BY <2>1, <2>2 DEF Served
  <2>5. CASE m.success
    <3>1. host' = ended
      BY <1>1, <1>4, <2>5
    <3>2. host'.active /\ \A q : q \in Range(idle.queue) => Served(host', q)
      BY <2>2, <3>1, IdleSettles
    <3>3. host'.transfer = 0
      BY <2>2, <3>1 DEF HostFields
    <3>4. p \in MayJoin \cap remotes => At(p)
      BY <1>1, <1>2, <2>1, <2>5 DEF Keeping, KeepsUp, Following, Standing
    <3>5. \A q \in MayJoin \cap remotes : Served(host, q) => Served(host', q) \/ At(q)
      BY <2>4, <3>2, <3>4
    <3> QED
      BY <1>1, <2>1, <3>2, <3>3, <3>5, HostHears DEF SnapshotInStep
  <2>6. CASE ~m.success
    <3>1. host' = again
      BY <1>1, <1>4, <2>6
    <3>2. host'.active /\ \A q : q \in Range(idle.queue) \/ q = p => Served(host', q)
      BY <2>2, <2>3, <3>1, QueueAgainSettles
    <3>3. host'.transfer = 0
      <4> DEFINE queued == QueueJoinBarrierPeer(idle, p)
      <4>1. SameBarrier(idle, queued)
        BY <2>3, MovesOfQueue DEF HostTyped
      <4>2. queued.transfer = 0 /\ DOMAIN queued = HostFields
        BY <2>2, <2>3, <4>1 DEF SameBarrier, HostTyped, HostOK
      <4> HIDE DEF queued
      <4> QED
        BY <3>1, <4>2 DEF HostFields, queued
    <3>4. \A q \in MayJoin \cap remotes : Served(host, q) => Served(host', q) \/ At(q)
      BY <2>4, <3>2
    <3> QED
      BY <1>1, <2>1, <3>2, <3>3, <3>4, HostHears DEF SnapshotInStep
  <2> QED
    BY <2>5, <2>6
<1> QED
  BY <1>3, <1>4


\* A peer queued again changes nothing of the snapshot.
LEMMA QueueKeepsSnapshot ==
    ASSUME NEW h, DOMAIN h = HostFields, NEW p
    PROVE  LET h2 == QueueJoinBarrierPeer(h, p)
           IN  h2.transfer = h.transfer /\ h2.snapshot = h.snapshot /\ DOMAIN h2 = HostFields
  BY DEF QueueJoinBarrierPeer, HostFields

\* An acknowledgement of a topology.
LEMMA TopologyAckKeepsUp ==
    ASSUME InOrder, Together, NEW p \in Peer, HandleJoinBarrierTopologyAck(p)
    PROVE  Keeping'
<1> DEFINE answered == [host EXCEPT !.awaited = @ \ {p}]
           again    == [QueueJoinBarrierPeer(answered, p) EXCEPT !.phase = "WaitingForCatchup"]
           ready    == [answered EXCEPT !.phase = "ReadyToResume"]
<1>1. PICK m \in Arriving(toHost[p]) :
         /\ host' = IF ~host.active \/ m.id # host.id THEN host
                    ELSE IF ~m.success THEN again
                    ELSE IF JoinBarrierReadyToResume(answered) THEN ready
                    ELSE answered
         /\ ReceiveFromPeer(p)
         /\ UNCHANGED <<remotes, peer, frame, requested, saved, sim, toPeer>>
  BY DEF HandleJoinBarrierTopologyAck, peerVars
<1>2. /\ Keeping /\ HostTyped(host, remotes) /\ DOMAIN host = HostFields /\ HostOK(host)
      /\ SnapshotInStep(host)
  BY DEF Together, Keeping, HostInStep, SnapshotInStep, TInv, HostTyped, HostOK
<1>3. SUFFICES /\ host'.active = host.active
               /\ host'.transfer = host.transfer /\ host'.snapshot = host.snapshot
               /\ \A q \in MayJoin \cap remotes :
                     host.active /\ Served(host, q) => Served(host', q)
  BY <1>1, <1>2, HostHears DEF SnapshotInStep
<1>4. CASE ~host.active \/ m.id # host.id
  BY <1>1, <1>4
<1>5. CASE host.active /\ m.id = host.id
  <2>1. /\ DOMAIN answered = HostFields /\ answered.active /\ answered.phase = host.phase
        /\ answered.queue = host.queue /\ answered.awaited = host.awaited \ {p}
        /\ answered.joined = host.joined /\ answered.removed = host.removed
        /\ answered.target = host.target /\ answered.transfer = host.transfer
        /\ answered.snapshot = host.snapshot
    BY <1>2, <1>5 DEF HostFields
  <2>2. SameBarrier(host, answered)
    BY <1>2, MovesOfLists
  <2> HIDE DEF answered
  <2>3. HostTyped(answered, remotes)
    <3>1. /\ answered.awaited \subseteq remotes /\ answered.joined \subseteq remotes
          /\ answered.removed \subseteq Peer /\ answered.target \in remotes \cup {Nobody}
          /\ answered.queue \in Seq(Peer) /\ IsInjective(answered.queue)
      BY <1>2, <2>1 DEF HostTyped
    <3> QED
      BY <1>2, <2>1, <2>2, <3>1, ListsTyped
  <2>4. \A q : Served(host, q) => /\ host.phase # "ReadyToResume"
                                  /\ \/ q \in Range(answered.queue)
                                     \/ answered.transfer # 0 /\ answered.target = q
    BY <2>1 DEF Served
  <2>5. CASE ~m.success
    <3> DEFINE queued == QueueJoinBarrierPeer(answered, p)
    <3>1. host' = again
      BY <1>1, <1>5, <2>5
    <3>2. /\ queued.transfer = host.transfer /\ queued.snapshot = host.snapshot
          /\ DOMAIN queued = HostFields
      BY <2>1, QueueKeepsSnapshot
    <3>3. /\ host'.active
          /\ \A q : q \in Range(answered.queue) \/ q = p
                       \/ (answered.transfer # 0 /\ answered.target = q)
                    => Served(host', q)
      BY <2>1, <2>3, <3>1, QueueAgainSettles
    <3> HIDE DEF queued
    <3>4. host'.transfer = host.transfer /\ host'.snapshot = host.snapshot
      BY <3>1, <3>2 DEF queued, HostFields
    <3> QED
      BY <1>5, <2>4, <3>3, <3>4
  <2>6. CASE m.success /\ JoinBarrierReadyToResume(answered)
    <3>1. host' = ready
      BY <1>1, <1>5, <2>6
    <3>2. /\ host'.active /\ host'.transfer = host.transfer
          /\ host'.snapshot = host.snapshot
      BY <2>1, <3>1 DEF HostFields
    <3>3. \A q : ~Served(host, q)
      BY <2>4, <2>6 DEF JoinBarrierReadyToResume, Range
    <3> QED
      BY <1>5, <3>2, <3>3
  <2>7. CASE m.success /\ ~JoinBarrierReadyToResume(answered)
    <3>1. host' = answered
      BY <1>1, <1>5, <2>7
    <3> QED
      BY <1>5, <2>1, <3>1 DEF Served
  <2> QED
    BY <2>5, <2>6, <2>7
<1> QED
  BY <1>4, <1>5

\* What a tick sends.
LEMMA TickSends ==
    ASSUME IInv, NEW packets, SendToPeers(packets), DOMAIN packets = Peer,
           \A p \in Peer :
              /\ IsSequence(packets[p])
              /\ \A m \in Range(packets[p]) :
                    \/ m.kind \notin {"Chunk", "Resume"}
                    \/ m.kind = "Chunk" /\ m.frame = frame[Host] /\ IsAt(m.sim, frame[Host])
    PROVE  \A p \in Peer : Gains(p) /\ (p \notin remotes => toPeer'[p] = toPeer[p])
<1>1. ASSUME NEW p \in Peer
      PROVE  Gains(p) /\ (p \notin remotes => toPeer'[p] = toPeer[p])
  <2>1. toPeer'[p] = IF p \in remotes THEN Put(toPeer[p], packets[p]) ELSE toPeer[p]
    BY DEF SendToPeers
  <2>2. Contents(Put(toPeer[p], packets[p])) = Contents(toPeer[p]) \cup Range(packets[p])
    BY ContentsOfPut DEF IInv, VariablesTyped, LinksTyped
  <2> QED
    BY <2>1, <2>2 DEF Gains
<1> QED
  BY <1>1

\* A tick while the barrier stands.
LEMMA TickKeepsUp ==
    ASSUME Together, UNCHANGED <<remotes, peer, frame, requested, saved, sim, toHost>>,
           host.active, host'.active, SnapshotInStep(host'),
           \A p \in Peer : Gains(p) /\ (p \notin remotes => toPeer'[p] = toPeer[p]),
           \A q \in MayJoin \cap remotes : Served(host, q) => Served(host', q) \/ At(q)
    PROVE  Keeping'
<1>1. Keeping /\ MayJoin \subseteq Peer /\ host'.active = host.active
  BY PeerAssumption DEF Together, TInv, HostTyped, HostOK
<1> QED
  BY <1>1, HostActs

\* Packets that are neither of a snapshot nor a Resume.
LEMMA QuietPackets ==
    ASSUME NEW p, NEW h
    PROVE  LET s == TopologyFor(host, p)
               t == s \o <<Status(h)>>
           IN  /\ IsSequence(s) /\ \A m \in Range(s) : m.kind \notin {"Chunk", "Resume"}
               /\ IsSequence(t) /\ \A m \in Range(t) : m.kind \notin {"Chunk", "Resume"}
<1> DEFINE s == TopologyFor(host, p)
           st == Status(h)
<1>1. IsSequence(s) /\ Range(s) \subseteq {Topology(host)}
  BY TopologyForPackets
<1>2. Topology(host).kind = "Topology" /\ st.kind = "Status"
  BY DEF Topology, Status
<1> HIDE DEF s, st
<1>3. IsSequence(s \o <<st>>) /\ Range(s \o <<st>>) = Range(s) \cup {st}
  BY <1>1, RangeOfTuples, RangeOfConcatenation
<1> QED
  BY <1>1, <1>2, <1>3 DEF s, st

LEMMA WaitForAcksKeepsUp ==
    ASSUME InOrder, Together, WaitForAcks
    PROVE  Keeping'
<1> DEFINE packets == [p \in Peer |-> TopologyFor(host, p) \o <<Status(host')>>]
<1>1. /\ host.active /\ host.transfer = 0 /\ host.queue = <<>>
      /\ host' = [host EXCEPT !.phase = PhaseWhenIdle(host)]
      /\ SendToPeers(packets)
      /\ UNCHANGED <<remotes, peer, frame, requested, saved, sim, toHost>>
  BY DEF WaitForAcks, CanSend, peerVars
<1>2. IInv /\ DOMAIN host = HostFields
  BY DEF Together, TInv, HostTyped, HostOK
<1>3. host'.active /\ host'.transfer = 0
  BY <1>1, <1>2 DEF HostFields
<1>4. \A q : ~Served(host, q)
  BY <1>1 DEF Served, Range
<1>5. PICK h : h = host'
  OBVIOUS
<1>6. packets = [p \in Peer |-> TopologyFor(host, p) \o <<Status(h)>>]
  BY <1>5
<1>7. /\ DOMAIN packets = Peer
      /\ \A p \in Peer : /\ IsSequence(packets[p])
                         /\ \A m \in Range(packets[p]) : m.kind \notin {"Chunk", "Resume"}
  BY <1>6, QuietPackets
<1> HIDE DEF packets
<1>8. \A p \in Peer : Gains(p) /\ (p \notin remotes => toPeer'[p] = toPeer[p])
  BY <1>1, <1>2, <1>7, TickSends
<1> QED
  BY <1>1, <1>3, <1>4, <1>8, TickKeepsUp DEF SnapshotInStep

\* The snapshot is of the frame the host stands at.
LEMMA StartNextTransferKeepsUp ==
    ASSUME InOrder, Together, StartNextTransfer
    PROVE  Keeping'
<1> DEFINE p       == Head(host.queue)
           dropped == [host EXCEPT !.queue = Tail(@), !.phase = "WaitingForCatchup"]
           snapshot == [frame |-> frame[Host], sim |-> sim[Host]]
           started == [dropped EXCEPT
                         !.target = p, !.phase = "SendingSnapshot", !.transfer = nextId,
                         !.snapshot = snapshot]
           toStart == [q \in Peer |-> TopologyFor(host, q) \o <<Status(started)>>]
           toDrop  == [q \in Peer |-> TopologyFor(host, q)]
<1>1. /\ host.active /\ host.transfer = 0 /\ host.queue # <<>>
      /\ \/ host' = started /\ SendToPeers(toStart)
         \/ p \notin remotes /\ host' = dropped /\ SendToPeers(toDrop)
      /\ UNCHANGED <<remotes, peer, frame, requested, saved, sim, toHost>>
  BY DEF StartNextTransfer, CanSend, peerVars
<1>2. /\ DOMAIN host = HostFields /\ host.queue \in Seq(Peer) /\ nextId # 0 /\ IInv
      /\ IsAt(sim[Host], frame[Host])
  BY DEF Together, TInv, HostTyped, HostOK, IInv, VariablesTyped, Keeping, HostInStep
<1>3. Range(host.queue) \subseteq {p} \cup Range(Tail(host.queue))
  BY <1>1, <1>2, HeadOrTail
<1>4. /\ DOMAIN dropped = HostFields /\ dropped.queue = Tail(host.queue)
      /\ dropped.phase = "WaitingForCatchup" /\ dropped.active = host.active
      /\ dropped.transfer = 0
  BY <1>1, <1>2 DEF HostFields
<1>5. snapshot.frame = frame[Host] /\ snapshot.sim = sim[Host]
  OBVIOUS
<1> HIDE DEF dropped, p, snapshot
<1>6. /\ started.queue = dropped.queue /\ started.phase = "SendingSnapshot"
      /\ started.active = dropped.active /\ started.target = p /\ started.transfer = nextId
      /\ started.snapshot = snapshot
  BY <1>4 DEF HostFields
<1> HIDE DEF started
<1>7. host'.active /\ SnapshotInStep(host')
  BY <1>1, <1>2, <1>4, <1>5, <1>6 DEF SnapshotInStep
<1>8. ASSUME NEW q \in MayJoin \cap remotes, Served(host, q) PROVE Served(host', q)
  <2>1. q \in Range(host.queue)
    BY <1>1, <1>8 DEF Served
  <2>2. CASE host' = started
    BY <1>1, <1>2, <1>3, <1>4, <1>6, <2>1, <2>2 DEF Served
  <2>3. CASE p \notin remotes /\ host' = dropped
    BY <1>1, <1>3, <1>4, <1>8, <2>1, <2>3 DEF Served
  <2> QED
    BY <1>1, <2>2, <2>3
<1>9. /\ DOMAIN toStart = Peer /\ DOMAIN toDrop = Peer
      /\ \A q \in Peer :
            /\ IsSequence(toStart[q]) /\ IsSequence(toDrop[q])
            /\ \A m \in Range(toStart[q]) : m.kind \notin {"Chunk", "Resume"}
            /\ \A m \in Range(toDrop[q]) : m.kind \notin {"Chunk", "Resume"}
  BY QuietPackets
<1> HIDE DEF toStart, toDrop
<1>10. \A q \in Peer : Gains(q) /\ (q \notin remotes => toPeer'[q] = toPeer[q])
  BY <1>1, <1>2, <1>9, TickSends
<1> QED
  BY <1>1, <1>7, <1>8, <1>10, TickKeepsUp


LEMMA ContinueTransferKeepsUp ==
    ASSUME InOrder, Together, ContinueTransfer
    PROVE  Keeping'
<1> DEFINE sent    == [host EXCEPT !.phase = "WaitingForAck"]
           last(q) == IF q = host.target THEN <<Chunk(host)>> ELSE <<>>
           packets == [q \in Peer |-> TopologyFor(host, q) \o <<Status(host)>>
                                       \o last(q) \o <<Status(sent)>>]
           Sent(m) == \/ m.kind \notin {"Chunk", "Resume"}
                      \/ m.kind = "Chunk" /\ m.frame = frame[Host] /\ IsAt(m.sim, frame[Host])
<1>1. /\ IInv /\ DOMAIN host = HostFields /\ SnapshotInStep(host)
      /\ host.target \in remotes \/ host.transfer = 0
  BY DEF Together, TInv, HostTyped, HostOK, Keeping, HostInStep, SnapshotInStep
<1>2. /\ host.active /\ host.transfer # 0 /\ host' = sent /\ SendToPeers(packets)
      /\ UNCHANGED <<remotes, peer, frame, requested, saved, sim, toHost>>
  BY <1>1 DEF ContinueTransfer, CanSend, peerVars
<1>3. SameRest(host, host') /\ host'.phase = "WaitingForAck"
  BY <1>1, <1>2, PhaseOnly
<1>4. /\ host'.transfer = host.transfer /\ host'.snapshot = host.snapshot
      /\ host'.active = host.active
  BY <1>1, <1>2 DEF HostFields
<1>5. /\ host'.active /\ SnapshotInStep(host')
      /\ \A q : Served(host, q) => Served(host', q)
  BY <1>1, <1>2, <1>3, <1>4 DEF SameRest, Served, SnapshotInStep
<1>6. ASSUME NEW q \in Peer
      PROVE  IsSequence(packets[q]) /\ \A m \in Range(packets[q]) : Sent(m)
  <2> DEFINE before == TopologyFor(host, q) \o <<Status(host)>>
             after  == <<Status(sent)>>
             chunk  == Chunk(host)
  <2>1. /\ IsSequence(before) /\ \A m \in Range(before) : Sent(m)
    BY QuietPackets
  <2>2. IsSequence(after) /\ \A m \in Range(after) : Sent(m)
    <3>1. Status(sent).kind = "Status"
      BY DEF Status
    <3> QED
      BY <3>1, RangeOfTuples
  <2>3. Sent(chunk)
    BY <1>1, <1>2 DEF Chunk, SnapshotInStep
  <2>4. IsSequence(last(q)) /\ \A m \in Range(last(q)) : Sent(m)
    <3>1. last(q) = <<chunk>> \/ last(q) = <<>>
      OBVIOUS
    <3> HIDE DEF last, chunk
    <3> QED
      BY <2>3, <3>1, RangeOfTuples
  <2>5. packets[q] = before \o last(q) \o after
    OBVIOUS
  <2> HIDE DEF before, after, last, packets, Sent
  <2>6. LET s == before \o last(q) IN IsSequence(s) /\ \A m \in Range(s) : Sent(m)
    BY <2>1, <2>4, RangeOfConcatenation
  <2>7. LET s == before \o last(q) \o after IN IsSequence(s) /\ \A m \in Range(s) : Sent(m)
    BY <2>2, <2>6, RangeOfConcatenation
  <2> QED
    BY <2>5, <2>7
<1>7. DOMAIN packets = Peer
  OBVIOUS
<1> HIDE DEF packets
<1>8. \A q \in Peer : Gains(q) /\ (q \notin remotes => toPeer'[q] = toPeer[q])
  BY <1>1, <1>2, <1>6, <1>7, TickSends
<1> QED
  BY <1>2, <1>5, <1>8, TickKeepsUp

\* The host resumes: who joins is at its frame, and is told last to go on.
LEMMA ResumeEverybodyKeepsUp ==
    ASSUME InOrder, Together, ResumeEverybody
    PROVE  Keeping'
<1> DEFINE status == Status(host)
           resume == Resume(host)
<1>1. /\ host.active /\ host.phase = "ReadyToResume" /\ host' = ClearJoinBarrier(host)
      /\ SendToPeers([p \in Peer |-> <<status, resume>>])
      /\ UNCHANGED <<remotes, peer, frame, requested, saved, sim, toHost>>
  BY DEF ResumeEverybody, CanSend, peerVars
<1>2. status.kind = "Status" /\ resume.frame = frame[Host] /\ resume.kind = "Resume"
  BY DEF Status, Resume
<1> HIDE DEF status, resume
<1>3. /\ IInv /\ Settling /\ Keeping /\ HostOK(host) /\ MayJoin \subseteq Peer
  BY PeerAssumption DEF Together, TInv, HostTyped
<1>4. ~host'.active /\ host'.transfer = 0
  BY <1>1, <1>3, MovesOfClear
<1>5. HostInStep'
  BY <1>1, <1>3, <1>4 DEF Keeping, HostInStep, IsAt
<1>6. ASSUME NEW p \in MayJoin PROVE KeepsUp(p)'
  <2>1. Following(p) /\ p \in Peer
    BY <1>3 DEF Keeping, KeepsUp
  <2>2. Rollbacks(p)'
    BY <1>1, <1>3 DEF Keeping, KeepsUp, Rollbacks
  <2>3. toPeer'[p] = IF p \in remotes THEN toPeer[p] \o <<status, resume>> ELSE toPeer[p]
    BY <1>1, <2>1 DEF SendToPeers, Put
  <2>4. CASE p \notin remotes
    BY <1>1, <2>1, <2>2, <2>3, <2>4 DEF KeepsUp, Following, Outside
  <2>5. CASE p \in remotes
    <3>1. Standing(p) /\ ~Served(host, p)
      BY <1>1, <2>1, <2>5 DEF Following, Served
    <3>2. At(p) /\ peer[p].where = "session" /\ IsJoinBarrierBlocking(peer[p])
      BY <1>3, <2>5, <3>1 DEF Standing, Settling, Silent
    <3>3. IsSequence(toPeer[p])
      BY <1>3, <2>1 DEF IInv, VariablesTyped, LinksTyped, IsLink
    <3>4. \A m \in Range(toPeer[p]) : m.kind # "Resume"
      BY <3>1 DEF Standing, Contents
    <3>5. ResumeLast(toPeer'[p], frame[p])
      BY <1>2, <2>3, <2>5, <3>2, <3>3, <3>4, ResumeAppended DEF At
    <3>6. ChunksAt(p, frame[p])'
      <4>1. Range(toPeer'[p]) = Range(toPeer[p]) \cup {status, resume}
        BY <2>3, <2>5, <3>3, RangeOfTuples, RangeOfConcatenation
      <4> QED
        BY <1>1, <1>2, <3>1, <3>2, <4>1 DEF Standing, ChunksAt, Contents, At
    <3>7. IsAt(sim[p], frame[p])
      BY <3>2 DEF At
    <3>8. Resumed(p)'
      BY <1>1, <3>2, <3>5, <3>6, <3>7 DEF Resumed
    <3> QED
      BY <1>1, <1>4, <2>2, <2>5, <3>8 DEF KeepsUp, Following
  <2> QED
    BY <2>4, <2>5
<1> QED
  BY <1>5, <1>6 DEF Keeping

\* The host steps when nobody is taken anywhere.
LEMMA HostStepKeepsUp ==
    ASSUME Together, HostSteps
    PROVE  Keeping'
<1>1. /\ frame' = [frame EXCEPT ![Host] = @ + 1]
      /\ sim' = [sim EXCEPT ![Host].log = Append(@, frame[Host])]
      /\ UNCHANGED <<host, remotes, peer, requested, saved, toPeer, toHost>>
      /\ ~IsJoinBarrierBlocking(host)
  BY DEF HostSteps, hostVars, peerVars
<1>2. /\ IInv /\ TInv /\ Gathering /\ Keeping /\ HostOK(host) /\ IsSim(sim[Host])
      /\ frame[Host] \in Nat /\ MayJoin \subseteq Peer /\ Host \notin Peer
  BY PeerAssumption, BoundAssumption
     DEF Together, TInv, HostTyped, FramesTyped, Process, Frame, Gathering, PeersGather
<1>3. ~host.active /\ host.transfer = 0
  BY <1>1, <1>2 DEF HostOK, IsJoinBarrierBlocking
<1>4. HostInStep'
  <2> DEFINE log == Append(sim[Host].log, frame[Host])
  <2>1. sim[Host].log \in Seq(Int) /\ Len(sim[Host].log) = frame[Host]
    BY <1>2 DEF Keeping, HostInStep, IsAt
  <2>2. log \in Seq(Int) /\ Len(log) = frame[Host] + 1
    BY <1>2, <2>1
  <2> HIDE DEF log
  <2>3. sim'[Host].log = log /\ frame'[Host] = frame[Host] + 1
    BY <1>1, <1>2, Domains DEF IsSim, log
  <2> QED
    BY <1>1, <1>3, <2>2, <2>3 DEF HostInStep, IsAt
<1>5. ASSUME NEW p \in MayJoin PROVE KeepsUp(p)'
  <2>1. sim'[p] = sim[p] /\ frame'[p] = frame[p]
    BY <1>1, <1>2, Domains
  <2>2. Following(p) /\ Rollbacks(p)
    BY <1>2 DEF Keeping, KeepsUp
  <2>3. Rollbacks(p)'
    BY <1>1, <2>1, <2>2 DEF Rollbacks
  <2>4. Following(p)'
    BY <1>1, <1>3, <2>1, <2>2 DEF Following, Outside, Resumed, ChunksAt
  <2> QED
    BY <2>3, <2>4 DEF KeepsUp
<1> QED
  BY <1>4, <1>5 DEF Keeping


\* A join request.  Where p was in already it is being served; else it is let
\* in, and nothing of a snapshot is under way yet.
LEMMA JoinRequestKeepsUp ==
    ASSUME OneComesNobodyLeaves, InOrder, Together, NEW p \in Peer,
           HandleJoinRequestAsHost(p)
    PROVE  Keeping'
<1> DEFINE request == [kind |-> "JoinRequest"]
           refusal == [kind |-> "JoinPending"]
           accept  == [kind |-> "JoinAccept", frame |-> frame[Host]]
<1>1. PICK answer : answer = IF p \in OtherContent THEN refusal ELSE accept
  OBVIOUS
<1>2. /\ request \in Arriving(toHost[p]) /\ ReceiveFromPeer(p)
      /\ toPeer' = [toPeer EXCEPT ![p] = Put(@, <<answer>>)]
      /\ UNCHANGED <<peer, frame, requested, saved>>
  BY <1>1 DEF HandleJoinRequestAsHost, peerVars
<1>3. /\ answer.kind \in {"JoinPending", "JoinAccept"}
      /\ p \in OtherContent => answer.kind = "JoinPending"
  BY <1>1
<1>4. /\ IInv /\ TInv /\ Gathering /\ Settling /\ Keeping
      /\ HostTyped(host, remotes) /\ DOMAIN host = HostFields /\ HostGathers(host)
      /\ IsSim(sim[Host]) /\ Host \notin Peer /\ remotes \subseteq Peer
  BY PeerAssumption DEF Together, TInv, HostTyped, HostOK, Gathering, PeersGather
<1>5. /\ request \in Contents(toHost[p])
      /\ \A q \in Peer : \A k \in Contents(toPeer'[q]) :
            k \in Contents(toPeer[q]) \/ k = answer
      /\ \A q \in Peer : Contents(toHost'[q]) \subseteq Contents(toHost[q])
  BY <1>2, <1>4, LinksOfRequest
<1>6. p \in MayJoin /\ MayJoin = {p} /\ ~Silent(p)
  BY <1>4, <1>5 DEF Gathering, LinksTell, Answers, OneComesNobodyLeaves, Silent
<1>7. KeepsUp(p) /\ HostInStep
  BY <1>4, <1>6 DEF Keeping
<1> HIDE DEF request, refusal, accept
<1>8. /\ p \in OtherContent => UNCHANGED <<host, remotes, sim>>
      /\ p \notin OtherContent =>
            /\ host' = IF p \in remotes THEN BeginJoinBarrierCatchup(host, p)
                       ELSE BeginJoinBarrierTopologyChange(host, remotes, p)
            /\ remotes' = remotes \cup {p}
            /\ sim' = [sim EXCEPT ![Host].players = @ \cup {p}]
  BY DEF HandleJoinRequestAsHost
<1>9. sim'[Host].log = sim[Host].log /\ \A q \in Peer : sim'[q] = sim[q]
  BY <1>4, <1>8, Domains DEF IsSim
<1>10. At(p)' = At(p) /\ Rollbacks(p)'
  BY <1>2, <1>7, <1>9 DEF At, KeepsUp, Rollbacks
<1>11. CASE p \in remotes
  <2>1. Served(host, p)
    BY <1>4, <1>6, <1>11 DEF Settling
  <2>2. RaiseBarrier(host) = host
    BY <2>1 DEF RaiseBarrier, Served
  <2>3. host' = host \/ host' = QueueJoinBarrierPeer(host, p)
    BY <1>8, <1>11, <2>2 DEF BeginJoinBarrierCatchup
  <2>4. host'.active = host.active /\ Served(host', p)
    <3>1. CASE host' = host
      BY <2>1, <3>1
    <3>2. CASE host' = QueueJoinBarrierPeer(host, p)
      <4>1. CASE p \in Range(host.queue)
        BY <2>1, <3>2, <4>1 DEF QueueJoinBarrierPeer
      <4>2. CASE p \notin Range(host.queue)
        <5>1. host' = [host EXCEPT !.queue = Append(host.queue, p)]
          BY <3>2, <4>2 DEF QueueJoinBarrierPeer
        <5>2. p \in Range(Append(host.queue, p))
          BY <1>4, RangeOfAppend DEF HostTyped
        <5>3. /\ host'.active = host.active /\ host'.phase = host.phase
              /\ host'.queue = Append(host.queue, p)
          BY <1>4, <5>1 DEF HostFields
        <5> QED
          BY <2>1, <5>2, <5>3 DEF Served
      <4> QED
        BY <4>1, <4>2
    <3> QED
      BY <2>3, <3>1, <3>2
  <2>5. host'.transfer = host.transfer /\ host'.snapshot = host.snapshot
    BY <1>4, <2>3, QueueKeepsSnapshot
  <2>6. SnapshotInStep(host')
    BY <1>7, <2>5 DEF HostInStep, SnapshotInStep
  <2>7. remotes' = remotes
    BY <1>8, <1>11
  <2>8. host.active /\ Gains(p)
    BY <1>3, <1>5, <2>1 DEF Served, Gains
  <2> QED
    BY <1>2, <1>4, <1>5, <1>6, <1>9, <1>11, <2>4, <2>6, <2>7, <2>8, HostActs
<1>12. CASE p \notin remotes
  <2>1. /\ peer[p].where # "session"
        /\ \A m \in Contents(toPeer[p]) : m.kind \notin {"Resume", "JoinAccept"}
    BY <1>7, <1>12 DEF KeepsUp, Following, Outside
  <2>2. CASE p \in OtherContent
    <3>1. Outside(p)'
      BY <1>2, <1>3, <1>5, <2>1, <2>2 DEF Outside
    <3>2. HostInStep'
      BY <1>2, <1>7, <1>8, <2>2 DEF HostInStep, IsAt
    <3>3. KeepsUp(p)'
      BY <1>8, <1>10, <1>12, <2>2, <3>1 DEF KeepsUp, Following
    <3> QED
      BY <1>6, <3>2, <3>3 DEF Keeping
  <2>3. CASE p \notin OtherContent
    <3>1. host' = BeginJoinBarrierTopologyChange(host, remotes, p) /\ p \in remotes'
      BY <1>8, <1>12, <2>3
    <3>2. ~Begun /\ ~host.active
      BY <1>4, <1>6, <1>12 DEF HostGathers, Begun
    <3>3. /\ host.joined = {} /\ host.removed = {} /\ host.awaited \cap {p} = {}
          /\ Nobody \notin remotes
      BY <1>4, <1>6, <1>12, PeerAssumption DEF HostGathers, HostTyped
    <3>4. /\ host'.active /\ host'.phase = "WaitingForCatchup" /\ host'.transfer = 0
          /\ p \in Range(host'.queue)
      BY <1>4, <1>12, <3>1, <3>2, <3>3, ComesWhenNone
    <3>5. HostInStep'
      BY <1>2, <1>7, <1>9, <3>4 DEF HostInStep, IsAt
    <3>6. Served(host, p)'
      BY <3>4 DEF Served
    <3>7. \A m \in Contents(toPeer'[p]) : m.kind \notin {"Chunk", "Resume"}
      <4>1. \A m \in Contents(toPeer[p]) : m.kind # "Chunk"
        BY <1>4, <3>2 DEF Gathering, LinksTell, Tells
      <4> QED
        BY <1>3, <1>5, <2>1, <4>1
    <3>8. \A m \in Contents(toHost'[p]) : m.kind # "SnapshotAck"
      BY <1>4, <1>5, <3>2 DEF Gathering, LinksTell, Answers
    <3>9. Standing(p)'
      BY <1>2, <2>1, <3>6, <3>7, <3>8 DEF Standing, ChunksAt
    <3>10. KeepsUp(p)'
      BY <1>10, <3>1, <3>4, <3>9 DEF KeepsUp, Following
    <3> QED
      BY <1>6, <3>5, <3>10 DEF Keeping
  <2> QED
    BY <2>2, <2>3
<1> QED
  BY <1>11, <1>12

LEMMA NextKeepsUp ==
    ASSUME OneComesNobodyLeaves, InOrder, Together, TInv', [Next]_vars
    PROVE  Keeping'
<1>1. IInv /\ TInv /\ Gathering /\ Keeping
  BY DEF Together
<1>2. CASE HostTicks
  BY <1>2, ResumeEverybodyKeepsUp, WaitForAcksKeepsUp, StartNextTransferKeepsUp,
     ContinueTransferKeepsUp DEF HostTicks
<1>3. CASE HostSteps
  BY <1>3, HostStepKeepsUp
<1>4. ASSUME NEW p \in Peer, HostReceives(p)
      PROVE  Keeping'
  <2>1. ~HandleLeaveNoticeAsHost(p)
    <3>1. ASSUME NEW m \in Arriving(toHost[p]) PROVE m.kind # "LeaveNotice"
      BY <1>1, ContentsOfRest
         DEF IInv, VariablesTyped, LinksTyped, Gathering, LinksTell, Answers
    <3> QED
      BY <3>1 DEF HandleLeaveNoticeAsHost
  <2> QED
    BY <1>4, <2>1, JoinRequestKeepsUp, SnapshotAckKeepsUp, TopologyAckKeepsUp
       DEF HostReceives
<1>5. ASSUME NEW p \in Peer,
             PeerReceives(p) \/ PeerAdvances(p) \/ SendJoinRequest(p)
      PROVE  Keeping'
  BY <1>5, PeerKeeps
<1>6. \A p \in Peer : ~Quit(p) /\ ~CleanupTimedOutRemoteEndpoints(p)
  BY DEF OneComesNobodyLeaves, Quit, CleanupTimedOutRemoteEndpoints
<1>7. CASE UNCHANGED vars
  <2>1. UNCHANGED <<host, remotes, peer, frame, requested, saved, sim, toPeer, toHost>>
    BY <1>7 DEF vars, hostVars, peerVars
  <2>2. HostInStep' /\ \A p \in MayJoin : KeepsUp(p)'
    BY <1>1, <2>1
       DEF Keeping, HostInStep, IsAt, KeepsUp, Rollbacks, Following, Outside, Standing,
           Served, At, ChunksAt, Resumed
  <2> QED
    BY <2>2 DEF Keeping
<1> QED
  BY <1>2, <1>3, <1>4, <1>5, <1>6, <1>7 DEF Next

LEMMA InitKeepsUp ==
    ASSUME InOrder, Init
    PROVE  Keeping
<1>1. /\ host.transfer = 0 /\ remotes = Initial
      /\ frame = [n \in Process |-> 0]
      /\ sim = [n \in Process |->
            [log |-> <<>>,
             players |-> IF n \in Initial \cup {Host} THEN Initial \cup {Host} ELSE {n}]]
      /\ requested = [p \in Peer |-> NoFrame]
      /\ saved = [p \in Peer |-> [f \in Frame |-> NoSnapshot]]
      /\ \A p \in Peer : toPeer[p] = <<>>
      /\ \A p \in Peer : p \notin Initial => peer[p].where = "new"
  BY DEF Init, EmptyLink
<1>2. Host \in Process /\ MayJoin \subseteq Peer /\ MayJoin \cap Initial = {}
      /\ Peer \subseteq Process
  BY PeerAssumption DEF Process
<1>3. HostInStep
  <2>1. <<>> \in Seq(Int) /\ Len(<<>>) = 0
    OBVIOUS
  <2>2. sim[Host].log = <<>> /\ frame[Host] = 0
    BY <1>1, <1>2
  <2> QED
    BY <1>1, <2>1, <2>2 DEF HostInStep, IsAt
<1>4. ASSUME NEW p \in MayJoin PROVE KeepsUp(p)
  <2>1. Outside(p)
    BY <1>1, <1>2 DEF Outside, Contents, Range
  <2>2. Rollbacks(p)
    BY <1>1, <1>2 DEF Rollbacks, NoFrame
  <2> QED
    BY <1>1, <1>2, <2>1, <2>2 DEF KeepsUp, Following
<1> QED
  BY <1>3, <1>4 DEF Keeping

\* When one peer joins and nobody leaves, and the links keep their order, the
\* one that joined has, whenever it is not kept standing, simulated exactly
\* the frames before the one it steps next: the snapshot it was let in with
\* was of the frame the Resume names, and no rollback loses or repeats a frame
\* (HandleSnapshotResyncChunk, HandleJoinBarrierResume, ReplayRollbackWindow).
THEOREM JoinersKeepTheirFrame ==
    ASSUME OneComesNobodyLeaves, InOrder
    PROVE  Spec => []JoinersFollowTheHost
<1>1. Together /\ [Next]_vars => Together'
  BY NextKeeps, NextTyped, NextGathers, NextSettles, NextKeepsUp DEF Keeps, Together
<1>2. Together => JoinersFollowTheHost
  BY GoesOnWhenResumed, PeerAssumption DEF JoinersFollowTheHost, IsAt
<1>3. Init => Together
  BY InitOK, InitTyped, InitGathers, InitSettles, InitKeepsUp DEF Together
<1> QED
  BY <1>1, <1>2, <1>3, PTL DEF Spec

=============================================================================
