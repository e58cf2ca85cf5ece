-------------------- MODULE InputLockstepAgreementProofs --------------------
(***************************************************************************)
(* Input lockstep implements AgreedInputs: what a node has settled is a    *)
(* prefix of what the host has stepped, and only grows.                    *)
(***************************************************************************)
EXTENDS InputLockstepProofs, InputLockstepAgreement, SequenceTheorems

-----------------------------------------------------------------------------
(* The settled frames of a node.                                           *)

\* They are the longest prefix of settled frames.
LEMMA SettledPrefix ==
    ASSUME IInv, NEW n \in Node
    PROVE  /\ SettledFrames(n) \in Nat /\ SettledFrames(n) <= nextFrame[n]
           /\ \A f \in Frame : f < SettledFrames(n) => Settled(n, f)
           /\ \A k \in Nat :
                 (k <= nextFrame[n] /\ \A f \in Frame : f < k => Settled(n, f))
                 => k <= SettledFrames(n)
<1> DEFINE S == {k \in 0 .. nextFrame[n] : \A f \in Frame : f < k => Settled(n, f)}
<1>1. nextFrame[n] \in Nat /\ nextFrame[n] <= MaxFrame
  BY Ranges
<1>2. S \in SUBSET Frame /\ S # {}
  <2>1. \A f \in Frame : f \in Nat
    BY Sizes
  <2>2. 0 \in S
    BY <1>1, <2>1
  <2>3. \A k \in 0 .. nextFrame[n] : k \in Frame
    BY <1>1, WindowAssumption DEF Frame
  <2> QED
    BY <2>2, <2>3
<1>3. SettledFrames(n) = Max(S)
  BY DEF SettledFrames
<1>4. Max(S) \in S /\ \A k \in S : Max(S) >= k
  <2> HIDE DEF S
  <2> QED
    BY <1>2, MaxOfFrames
<1>5. Max(S) \in Nat /\ Max(S) <= nextFrame[n] /\ \A f \in Frame : f < Max(S) => Settled(n, f)
  BY <1>1, <1>4
<1>6. ASSUME NEW k \in Nat, k <= nextFrame[n], \A f \in Frame : f < k => Settled(n, f)
      PROVE  k <= Max(S)
  <2>1. k \in S
    BY <1>1, <1>6
  <2>2. Max(S) >= k
    BY <1>4, <2>1
  <2> HIDE DEF S
  <2> QED
    BY <1>5, <2>2
<1> QED
  BY <1>3, <1>5, <1>6

\* What is settled has been stepped with the host's inputs.
LEMMA SettledIsTheHosts ==
    ASSUME IInv, RInv, SomebodyElsePlays, NEW n \in Node, NEW f \in Frame,
           f < nextFrame[n], Settled(n, f)
    PROVE  f < nextFrame[Host] /\ game[n][f] = game[Host][f]
<1>1. CASE n = Host
  BY <1>1
<1>2. CASE n # Host
  <2>1. n \in Peers /\ PeerInv(n)
    BY <1>2 DEF Peers, RInv
  <2>2. CASE f < nextFrame[n] - BufferedFrames
    BY <2>1, <2>2 DEF PeerInv, DroppedAgree
  <2>3. CASE (\A p \in Player : IsCanonical(n, p, f)) /\ (rollback[n] = NoFrame \/ f < rollback[n])
    <3>1. PICK q \in Player : TRUE
      BY <2>1 DEF SomebodyElsePlays
    <3>2. f < nextFrame[Host]
      BY <1>2, <2>3, <3>1, CanonicalInput
    <3>3. ASSUME NEW p \in Player PROVE game[n][f][p] = game[Host][f][p]
      <4>1. buffer[n][p][f] # NoRecord /\ buffer[n][p][f].input = game[Host][f][p]
        BY <2>3, <3>2, CanonicalInput
      <4>2. ~(rollback[n] # NoFrame /\ rollback[n] <= f)
        <5>1. rollback[n] \in Frame \cup {NoFrame} /\ f \in Nat
          BY Ranges, Sizes
        <5>2. rollback[n] # NoFrame => rollback[n] \in Nat
          BY <5>1, Sizes
        <5> QED
          BY <2>3, <5>1, <5>2
      <4> QED
        BY <2>1, <4>1, <4>2 DEF PeerInv, WrongIsPending
    <3>4. game[n][f] \in InputVector /\ game[Host][f] \in InputVector
      BY <2>1, <3>2 DEF PeerInv, AppliedSoFar, IInv, HostStepped
    <3> QED
      BY <3>2, <3>3, <3>4 DEF InputVector
  <2> QED
    BY <2>2, <2>3 DEF Settled
<1> QED
  BY <1>1, <1>2

\* The host has settled all it has stepped.
LEMMA HostIsSettled ==
    ASSUME IInv, RInv
    PROVE  SettledFrames(Host) = nextFrame[Host]
<1>1. nextFrame[Host] \in Nat /\ BufferedFrames \in Nat /\ \A f \in Frame : f \in Nat
  BY NodeAssumption, Ranges, Sizes
<1>2. ASSUME NEW f \in Frame, f < nextFrame[Host] PROVE Settled(Host, f)
  <2>1. CASE f < nextFrame[Host] - BufferedFrames
    BY <2>1 DEF Settled
  <2>2. CASE ~(f < nextFrame[Host] - BufferedFrames)
    <3>1. nextFrame[Host] - BufferedFrames <= f
      BY <1>1, <2>2
    <3>2. \A p \in Player : IsCanonical(Host, p, f)
      BY <1>2, <3>1 DEF RInv, HostKeepsCanonical
    <3> QED
      BY <3>2 DEF Settled, IInv, HostNeverAsks
  <2> QED
    BY <2>1, <2>2
<1>3. /\ SettledFrames(Host) \in Nat /\ SettledFrames(Host) <= nextFrame[Host]
      /\ nextFrame[Host] <= SettledFrames(Host)
  <2>1. nextFrame[Host] <= nextFrame[Host]
    BY <1>1
  <2> QED
    BY <1>1, <1>2, <2>1, NodeAssumption, SettledPrefix
<1> QED
  BY <1>1, <1>3

\* A node's settled frames are not more than the host's frames.
LEMMA SettledBehindHost ==
    ASSUME IInv, RInv, SomebodyElsePlays, NEW n \in Node
    PROVE  SettledFrames(n) <= nextFrame[Host]
<1> DEFINE k == SettledFrames(n)
<1>1. k \in Nat /\ k <= nextFrame[n] /\ \A f \in Frame : f < k => Settled(n, f)
  BY SettledPrefix
<1>2. nextFrame[n] \in Nat /\ nextFrame[Host] \in Nat /\ nextFrame[n] <= MaxFrame
  BY NodeAssumption, Ranges
<1> HIDE DEF k
<1>3. CASE k = 0
  BY <1>2, <1>3 DEF k
<1>4. CASE k # 0
  <2>1. k - 1 \in Frame /\ k - 1 < k /\ k - 1 < nextFrame[n]
    BY <1>1, <1>2, <1>4, WindowAssumption DEF Frame
  <2>2. k - 1 < nextFrame[Host]
    BY <1>1, <2>1, SettledIsTheHosts
  <2>3. k <= nextFrame[Host]
    BY <1>1, <1>2, <2>2
  <2> QED
    BY <2>3 DEF k
<1> QED
  BY <1>3, <1>4

-----------------------------------------------------------------------------
(* The settled inputs as sequences.                                        *)

\* What a node has stepped, and has left, is a sequence of input vectors.
LEMMA PrefixIsASeq ==
    ASSUME NEW n, NEW k \in Nat, k <= MaxFrame,
           \A f \in Frame : f < k => game[n][f] \in InputVector
    PROVE  /\ Prefix(n, k) \in Seq(InputVector) /\ Len(Prefix(n, k)) = k
           /\ \A i \in 1 .. k : Prefix(n, k)[i] = game[n][i - 1]
<1>1. ASSUME NEW i \in 1 .. k PROVE game[n][i - 1] \in InputVector
  <2>1. i - 1 \in Frame /\ i - 1 < k
    BY WindowAssumption DEF Frame
  <2> QED
    BY <2>1
<1>2. Prefix(n, k) \in [1 .. k -> InputVector]
  BY <1>1 DEF Prefix
<1>3. Prefix(n, k) \in Seq(InputVector)
  BY <1>2, SeqDef
<1>4. Len(Prefix(n, k)) = k
  <2>1. DOMAIN Prefix(n, k) = 1 .. k
    BY DEF Prefix
  <2> QED
    BY <1>3, <2>1, LenProperties
<1> QED
  BY <1>3, <1>4 DEF Prefix

\* The host's sequence, and the prefix of it a node has settled.
LEMMA SettledIsAPrefix ==
    ASSUME IInv, RInv, SomebodyElsePlays, NEW n \in Node
    PROVE  LET log == Prefix(Host, nextFrame[Host])
               k   == SettledFrames(n)
           IN  /\ log \in Seq(InputVector) /\ Len(log) = nextFrame[Host]
               /\ k \in 0 .. Len(log)
               /\ Prefix(n, k) = SubSeq(log, 1, k)
               /\ Len(Prefix(n, k)) = k
<1> DEFINE F == nextFrame[Host]
           log == Prefix(Host, F)
           k   == SettledFrames(n)
<1>1. F \in Nat /\ F <= MaxFrame /\ nextFrame[n] \in Nat
  BY NodeAssumption, Ranges
<1>2. \A f \in Frame : f < F => game[Host][f] \in InputVector
  BY DEF IInv, HostStepped
<1>3. k \in Nat /\ k <= F /\ k <= nextFrame[n] /\ \A f \in Frame : f < k => Settled(n, f)
  BY SettledPrefix, SettledBehindHost
<1>4. \A f \in Frame : f < k => f < F /\ game[n][f] = game[Host][f]
  <2> HIDE DEF k
  <2>1. ASSUME NEW f \in Frame, f < k PROVE f < F /\ game[n][f] = game[Host][f]
    <3>1. f < nextFrame[n] /\ f \in Nat
      BY <1>1, <1>3, <2>1, Sizes
    <3> QED
      BY <1>3, <2>1, <3>1, SettledIsTheHosts
  <2> QED
    BY <2>1
<1> HIDE DEF F, k
<1>5. /\ log \in Seq(InputVector) /\ Len(log) = F
      /\ \A i \in 1 .. F : log[i] = game[Host][i - 1]
  BY <1>1, <1>2, PrefixIsASeq
<1>6. /\ Prefix(n, k) \in Seq(InputVector) /\ Len(Prefix(n, k)) = k
      /\ \A i \in 1 .. k : Prefix(n, k)[i] = game[n][i - 1]
  <2>1. k <= MaxFrame
    BY <1>1, <1>3, Sizes
  <2>2. \A f \in Frame : f < k => game[n][f] \in InputVector
    BY <1>2, <1>4
  <2> QED
    BY <1>3, <2>1, <2>2, PrefixIsASeq
<1> HIDE DEF log
<1>7. \A i \in 1 .. k : Prefix(n, k)[i] = log[i] /\ log[i] \in InputVector
  <2>1. ASSUME NEW i \in 1 .. k
        PROVE  Prefix(n, k)[i] = log[i] /\ log[i] \in InputVector
    <3>1. i - 1 \in Frame /\ i - 1 < k /\ i \in 1 .. F
      BY <1>1, <1>3, WindowAssumption DEF Frame
    <3>2. Prefix(n, k)[i] = log[i]
      BY <1>4, <1>5, <1>6, <3>1
    <3> QED
      BY <1>5, <3>1, <3>2, ElementOfSeq
  <2> QED
    BY <2>1
<1>8. Prefix(n, k) = SubSeq(log, 1, k)
  <2>1. /\ SubSeq(log, 1, k) \in Seq(InputVector)
        /\ Len(SubSeq(log, 1, k)) = k
        /\ \A i \in 1 .. k : SubSeq(log, 1, k)[i] = log[i]
    <3>1. k \in Int /\ 1 \in Int /\ k - 1 + 1 = k /\ \A i \in 1 .. k : 1 + i - 1 = i
      BY <1>3
    <3>2. /\ SubSeq(log, 1, k) \in Seq(InputVector)
          /\ Len(SubSeq(log, 1, k)) = IF 1 <= k THEN k - 1 + 1 ELSE 0
          /\ \A i \in 1 .. k - 1 + 1 : SubSeq(log, 1, k)[i] = log[1 + i - 1]
      BY <1>7, <3>1, SubSeqProperties
    <3> QED
      BY <1>3, <3>1, <3>2
  <2> QED
    BY <1>6, <1>7, <2>1, SeqEqual
<1> QED
  BY <1>1, <1>3, <1>5, <1>6, <1>8 DEF F, k, log

\* All of it, as a state predicate that steps are reasoned about with.
HostLog == Prefix(Host, nextFrame[Host])

SettledInv ==
    /\ HostLog \in Seq(InputVector) /\ Len(HostLog) = nextFrame[Host]
    /\ SettledFrames(Host) = nextFrame[Host]
    /\ \A n \in Node :
          /\ SettledFrames(n) \in 0 .. Len(HostLog)
          /\ \A k \in Nat :
                (k <= nextFrame[n] /\ \A f \in Frame : f < k => Settled(n, f))
                => k <= SettledFrames(n)
          /\ Prefix(n, SettledFrames(n)) = SubSeq(HostLog, 1, SettledFrames(n))
          /\ Len(Prefix(n, SettledFrames(n))) = SettledFrames(n)

LEMMA SettledIsSound ==
    ASSUME IInv, RInv, SomebodyElsePlays
    PROVE  SettledInv
<1>1. HostLog \in Seq(InputVector) /\ Len(HostLog) = nextFrame[Host]
  BY NodeAssumption, SettledIsAPrefix DEF HostLog
<1>2. ASSUME NEW n \in Node
      PROVE  /\ SettledFrames(n) \in 0 .. Len(HostLog)
             /\ Prefix(n, SettledFrames(n)) = SubSeq(HostLog, 1, SettledFrames(n))
             /\ Len(Prefix(n, SettledFrames(n))) = SettledFrames(n)
  BY SettledIsAPrefix DEF HostLog
<1> QED
  BY <1>1, <1>2, HostIsSettled, SettledPrefix DEF SettledInv

-----------------------------------------------------------------------------
(* Steps.                                                                  *)

\* Only the handling of a packet makes an input canonical at a peer; the other
\* steps drop only what lies behind the window.
LEMMA OnlyHandlingHears ==
    ASSUME IInv, RInv, IInv', Next, NEW i \in Peers,
           ~\E m \in network : HandleInputFrameRecords(i, m)
    PROVE  \A p \in Player, f \in Frame :
              /\ IsCanonical(i, p, f)' => IsCanonical(i, p, f)
              /\ (IsCanonical(i, p, f) /\ nextFrame'[i] - BufferedFrames <= f)
                 => IsCanonical(i, p, f)'
<1> DEFINE Same == \A p \in Player, f \in Frame :
              /\ IsCanonical(i, p, f)' => IsCanonical(i, p, f)
              /\ (IsCanonical(i, p, f) /\ nextFrame'[i] - BufferedFrames <= f)
                 => IsCanonical(i, p, f)'
<1> SUFFICES Same
  OBVIOUS
<1>0. i \in Node /\ i # Host /\ PeerInv(i) /\ buffer \in [Node -> Slots]
  BY DEF Peers, RInv, IInv, TypeInv, TypeOK, Slots, Slot
<1>1. CASE buffer'[i] = buffer[i]
  BY <1>1 DEF IsCanonical
<1>2. ASSUME NEW n \in Node, i # n,
             \/ Maintain(n) \/ StepFrame(n)
             \/ \E m \in network : HandleInputFrameRecords(n, m)
      PROVE  buffer'[i] = buffer[i]
  <2>1. \E slots : buffer' = [buffer EXCEPT ![n] = slots]
    <3>1. ASSUME Maintain(n) PROVE \E slots : buffer' = [buffer EXCEPT ![n] = slots]
      <4>1. PICK sample \in Samples(n) : MaintainInputLockstepTransport(n, sample)
        BY <3>1 DEF Maintain
      <4>2. buffer' = [buffer EXCEPT ![n] = Queued(n, sample)]
        BY <4>1 DEF MaintainInputLockstepTransport
      <4> QED
        BY <4>2
    <3>2. StepFrame(n) => \E slots : buffer' = [buffer EXCEPT ![n] = slots]
      BY DEF StepFrame
    <3>3. ASSUME NEW m \in network, HandleInputFrameRecords(n, m)
          PROVE  \E slots : buffer' = [buffer EXCEPT ![n] = slots]
      BY <3>3 DEF HandleInputFrameRecords
    <3> QED
      BY <1>2, <3>1, <3>2, <3>3
  <2> QED
    BY <1>0, <1>2, <2>1
<1>3. ASSUME NEW n \in Node, ReplayRollbackWindow(n) PROVE buffer' = buffer
  <2>1. n \in Peers /\ PeerInv(n)
    BY <1>3 DEF ReplayRollbackWindow, IInv, HostNeverAsks, Peers, RInv
  <2> QED
    BY <1>3, <2>1, PeerReplays
<1>4. ASSUME NEW n \in Node,
             ModeDoesNotAdvance(n) \/ WaitForRemoteInputs(n) \/ RollbackSnapshotMissing(n)
      PROVE  buffer' = buffer
  BY <1>4 DEF ModeDoesNotAdvance, WaitForRemoteInputs, RollbackSnapshotMissing
<1>5. ASSUME Maintain(i) PROVE Same
  <2>1. PICK sample \in Samples(i) : MaintainInputLockstepTransport(i, sample)
    BY <1>5 DEF Maintain
  <2>2. buffer'[i] = Queued(i, sample)
    <3>1. buffer' = [buffer EXCEPT ![i] = Queued(i, sample)]
      BY <2>1 DEF MaintainInputLockstepTransport
    <3> QED
      BY <1>0, <3>1
  <2>3. ASSUME NEW p \in Player, NEW f \in Frame
        PROVE  \/ buffer'[i][p][f] = buffer[i][p][f]
               \/ buffer[i][p][f] = NoRecord /\ ~buffer'[i][p][f].canonical
    <3>1. ~OwnerRecord(f + 1, sample[p]).canonical
      BY DEF OwnerRecord
    <3> QED
      BY <1>0, <2>2, <3>1, QueueFills
  <2> QED
    BY <2>3 DEF IsCanonical
<1>6. ASSUME StepFrame(i) PROVE Same
  <2> DEFINE F == nextFrame[i]
             slots == BuildOrPredictFrameInputs(i, buffer[i], {F})
  <2>1. ASSUME NEW p \in Player, NEW f \in Frame
        PROVE  \/ slots[p][f] = buffer[i][p][f]
               \/ /\ buffer[i][p][f] = NoRecord /\ slots[p][f] # NoRecord
                  /\ slots[p][f].predicted
    <3>1. BuildsOrGuesses(i, {F}, p, f)
      BY PeerBuilds
    <3> QED
      BY <3>1 DEF BuildsOrGuesses
  <2>2. \/ \A p \in Player, f \in Frame : buffer'[i][p][f] = slots[p][f]
        \/ /\ nextFrame'[i] = F + 1
           /\ \A p \in Player, f \in Frame :
                 buffer'[i][p][f] = IF f < F + 1 - BufferedFrames
                                      THEN NoRecord ELSE slots[p][f]
    <3>1. CASE CanBuild(i, buffer[i], nextFrame[i])
      <4>1. /\ nextFrame'[i] = F + 1
            /\ \A p \in Player, f \in Frame :
                  buffer'[i][p][f] = IF f < F + 1 - BufferedFrames
                                       THEN NoRecord ELSE slots[p][f]
        BY <1>0, <1>6, <3>1, StepChanges
      <4> HIDE DEF slots, F
      <4> QED
        BY <4>1
    <3>2. CASE ~CanBuild(i, buffer[i], nextFrame[i])
      <4>1. buffer' = [buffer EXCEPT ![i] = slots]
        BY <1>6, <3>2 DEF StepFrame
      <4> HIDE DEF slots
      <4> QED
        BY <1>0, <4>1
    <3> QED
      BY <3>1, <3>2
  <2> HIDE DEF slots
  <2>3. ASSUME NEW p \in Player, NEW f \in Frame, buffer'[i][p][f] # NoRecord,
               buffer'[i][p][f].canonical
        PROVE  ~buffer'[i][p][f].predicted
    BY <1>0, <2>3 DEF IInv, OnlyPeersPredict
  <2>4. ASSUME NEW p \in Player, NEW f \in Frame, IsCanonical(i, p, f)'
        PROVE  IsCanonical(i, p, f)
    <3>1. buffer'[i][p][f] # NoRecord /\ buffer'[i][p][f].canonical
      BY <2>4 DEF IsCanonical
    <3>2. buffer'[i][p][f] = slots[p][f] /\ ~slots[p][f].predicted
      BY <2>2, <2>3, <3>1
    <3> QED
      BY <2>1, <3>1, <3>2 DEF IsCanonical
  <2>5. ASSUME NEW p \in Player, NEW f \in Frame, IsCanonical(i, p, f),
               nextFrame'[i] - BufferedFrames <= f
        PROVE  IsCanonical(i, p, f)'
    <3>1. slots[p][f] = buffer[i][p][f]
      BY <2>1, <2>5 DEF IsCanonical
    <3>2. nextFrame'[i] = F + 1 => ~(f < F + 1 - BufferedFrames)
      <4>1. nextFrame'[i] \in 0 .. MaxFrame
        BY <1>0 DEF IInv, TypeInv, TypeOK
      <4>2. nextFrame'[i] \in Int /\ f \in Int /\ BufferedFrames \in Int /\ F \in Int
        BY <1>0, <4>1, Ranges, Sizes
      <4> HIDE DEF F
      <4> QED
        BY <2>5, <4>2
    <3>3. buffer'[i][p][f] = buffer[i][p][f]
      BY <2>2, <3>1, <3>2
    <3> QED
      BY <2>5, <3>3 DEF IsCanonical
  <2> QED
    BY <2>4, <2>5
<1> HIDE DEF Same
<1> QED
  <2>1. PICK n \in Node : \/ Maintain(n) \/ ModeDoesNotAdvance(n)
                          \/ PrepareInputLockstepFrame(n)
                          \/ \E m \in network : HandleInputFrameRecords(n, m)
    BY DEF Next
  <2>2. CASE n = i
    <3>1. CASE PrepareInputLockstepFrame(i)
      BY <1>0, <1>1, <1>3, <1>4, <1>6, <3>1 DEF PrepareInputLockstepFrame
    <3> QED
      BY <1>0, <1>1, <1>4, <1>5, <2>1, <2>2, <3>1
  <2>3. CASE n # i
    <3>1. CASE PrepareInputLockstepFrame(n)
      BY <1>1, <1>2, <1>3, <1>4, <2>3, <3>1 DEF PrepareInputLockstepFrame
    <3>2. CASE \E m \in network : HandleInputFrameRecords(n, m)
      BY <1>1, <1>2, <2>3, <3>2
    <3> QED
      BY <1>1, <1>2, <1>4, <2>1, <2>3, <3>1, <3>2
  <2> QED
    BY <2>2, <2>3

\* What a peer has settled stays settled: corrections are of frames it had not
\* heard, and a replay starts behind it.
LEMMA SettledStays ==
    ASSUME IInv, RInv, IInv', NEW n \in Peers, Next,
           NEW f \in Frame, \A g \in Frame : g <= f => Settled(n, g)
    PROVE  Settled(n, f)'
<1>1. n \in Node /\ n # Host /\ PeerInv(n) /\ f \in Nat /\ nextFrame[n] \in Nat
  BY Ranges, Sizes DEF Peers, RInv
<1>2. nextFrame'[n] \in Nat /\ nextFrame[n] <= nextFrame'[n]
  <2>1. nextFrame'[n] \in 0 .. MaxFrame
    BY <1>1 DEF IInv, TypeInv, TypeOK
  <2> QED
    BY <1>1, <2>1, NextGrows
<1>3. CASE f < nextFrame'[n] - BufferedFrames
  BY <1>3 DEF Settled
<1>4. CASE ~(f < nextFrame'[n] - BufferedFrames)
  <2>1. ~(f < nextFrame[n] - BufferedFrames) /\ nextFrame'[n] - BufferedFrames <= f
    BY <1>1, <1>2, <1>4, Sizes
  <2>2. f <= f
    BY <1>1
  <2>3. /\ \A p \in Player : IsCanonical(n, p, f)
        /\ rollback[n] = NoFrame \/ f < rollback[n]
    BY <2>1, <2>2 DEF Settled
  <2>4. \A p \in Player : IsCanonical(n, p, f)'
    <3>1. CASE \E m \in network : HandleInputFrameRecords(n, m)
      BY <1>1, <2>3, <3>1, HandleStores
    <3>2. CASE ~\E m \in network : HandleInputFrameRecords(n, m)
      BY <2>1, <2>3, <3>2, OnlyHandlingHears
    <3> QED
      BY <3>1, <3>2
  <2>5. rollback'[n] = NoFrame \/ f < rollback'[n]
    <3>1. CASE rollback'[n] = rollback[n] \/ rollback'[n] = NoFrame
      BY <2>3, <3>1
    <3>2. ASSUME NEW m \in network, HandleInputFrameRecords(n, m)
          PROVE  rollback'[n] = NoFrame \/ f < rollback'[n]
      <4>1. rollback'[n] \in Corrected(n, m) \cup {rollback[n]}
        BY <1>1, <3>2, EarliestAsked
      <4>2. CASE rollback'[n] \in Corrected(n, m)
        <5>1. PICK c \in Corrected(n, m) : c = rollback'[n]
          BY <4>2
        <5>2. /\ c \in Frame /\ nextFrame[n] - BufferedFrames <= c
              /\ \E p \in Player : ~IsCanonical(n, p, c)
          BY <1>1, CorrectedInWindow
        <5>3. c \in Nat /\ ~(c < nextFrame[n] - BufferedFrames)
          BY <1>1, <5>2, Sizes
        <5>4. ~Settled(n, c)
          BY <5>2, <5>3 DEF Settled
        <5>5. ~(c <= f)
          BY <5>2, <5>4
        <5> QED
          BY <1>1, <5>1, <5>3, <5>5
      <4> QED
        BY <3>1, <4>1, <4>2
    <3>3. ASSUME NEW i \in Node,
                 \/ Maintain(i) \/ ModeDoesNotAdvance(i) \/ PrepareInputLockstepFrame(i)
          PROVE  rollback'[n] = rollback[n] \/ rollback'[n] = NoFrame
      <4>1. rollback' = rollback \/ rollback' = [rollback EXCEPT ![i] = NoFrame]
        BY <3>3 DEF Maintain, MaintainInputLockstepTransport, ModeDoesNotAdvance,
           PrepareInputLockstepFrame, WaitForRemoteInputs, RollbackSnapshotMissing,
           ReplayRollbackWindow, StepFrame
      <4> QED
        BY <1>1, <4>1 DEF IInv, TypeInv, TypeOK
    <3>4. ASSUME NEW i \in Node, i # n, NEW m \in network, HandleInputFrameRecords(i, m)
          PROVE  rollback'[n] = rollback[n]
      BY <1>1, <3>4, EarliestAsked
    <3> QED
      BY <3>1, <3>2, <3>3, <3>4 DEF Next
  <2> QED
    BY <2>4, <2>5 DEF Settled
<1> QED
  BY <1>3, <1>4

\* So it only grows.
LEMMA SettledGrows ==
    ASSUME IInv, RInv, IInv', SettledInv', NEW n \in Peers, Next
    PROVE  SettledFrames(n) <= SettledFrames(n)'
<1> DEFINE k == SettledFrames(n)
<1>1. n \in Node /\ nextFrame[n] \in Nat /\ \A f \in Frame : f \in Nat
  BY Ranges, Sizes DEF Peers
<1>2. k \in Nat /\ k <= nextFrame[n] /\ \A f \in Frame : f < k => Settled(n, f)
  BY <1>1, SettledPrefix
<1>3. \A j \in Nat : (j <= nextFrame'[n] /\ \A f \in Frame : f < j => Settled(n, f)')
                     => j <= SettledFrames(n)'
  BY <1>1 DEF SettledInv
<1> HIDE DEF k
<1>4. k <= nextFrame'[n]
  <2>1. nextFrame'[n] \in 0 .. MaxFrame
    BY <1>1 DEF IInv, TypeInv, TypeOK
  <2>2. nextFrame'[n] >= nextFrame[n]
    BY <1>1, NextGrows
  <2> QED
    BY <1>1, <1>2, <2>1, <2>2
<1>5. ASSUME NEW f \in Frame, f < k PROVE Settled(n, f)'
  <2>1. \A g \in Frame : g <= f => Settled(n, g)
    BY <1>1, <1>2, <1>5
  <2> QED
    BY <2>1, SettledStays
<1> QED
  BY <1>2, <1>3, <1>4, <1>5 DEF k

-----------------------------------------------------------------------------
(* The refinement.                                                         *)

\* A node's settled prefix depends on its own state only.
LEMMA SettledIsItsOwn ==
    ASSUME NEW n \in Node, nextFrame'[n] = nextFrame[n], buffer'[n] = buffer[n],
           rollback'[n] = rollback[n], game'[n] = game[n]
    PROVE  Prefix(n, SettledFrames(n))' = Prefix(n, SettledFrames(n))
<1>1. \A f \in Frame : Settled(n, f)' <=> Settled(n, f)
  BY DEF Settled, IsCanonical
<1>2. {k \in 0 .. nextFrame[n] : \A f \in Frame : f < k => Settled(n, f)}'
        = {k \in 0 .. nextFrame[n] : \A f \in Frame : f < k => Settled(n, f)}
  BY <1>1
<1>3. SettledFrames(n)' = SettledFrames(n)
  BY <1>2 DEF SettledFrames
<1> QED
  BY <1>3 DEF Prefix

\* A step is one node's, and leaves the host's frames alone unless it is the
\* host that steps one.
LEMMA StepOfOne ==
    ASSUME IInv, RInv, Next
    PROVE  \E n \in Node :
              /\ \A i \in Node : i # n =>
                    /\ nextFrame'[i] = nextFrame[i] /\ buffer'[i] = buffer[i]
                    /\ rollback'[i] = rollback[i] /\ game'[i] = game[i]
              /\ \/ /\ n = Host /\ StepFrame(Host)
                    /\ CanBuild(Host, buffer[Host], nextFrame[Host])
                 \/ nextFrame'[Host] = nextFrame[Host] /\ game'[Host] = game[Host]
<1> DEFINE Alone(n) == \A i \in Node : i # n =>
              /\ nextFrame'[i] = nextFrame[i] /\ buffer'[i] = buffer[i]
              /\ rollback'[i] = rollback[i] /\ game'[i] = game[i]
           Quiet == nextFrame'[Host] = nextFrame[Host] /\ game'[Host] = game[Host]
           Builds(n) == /\ n = Host /\ StepFrame(Host)
                        /\ CanBuild(Host, buffer[Host], nextFrame[Host])
<1>0. buffer \in [Node -> Slots] /\ rollback \in [Node -> Frame \cup {NoFrame}]
  BY DEF IInv, TypeInv, TypeOK, Slots, Slot
<1>1. ASSUME NEW n \in Node, Maintain(n) PROVE Alone(n) /\ Quiet
  <2>1. PICK sample \in Samples(n) : MaintainInputLockstepTransport(n, sample)
    BY <1>1 DEF Maintain
  <2>2. buffer' = [buffer EXCEPT ![n] = Queued(n, sample)]
    BY <2>1 DEF MaintainInputLockstepTransport
  <2>3. UNCHANGED <<nextFrame, rollback, game>>
    BY <2>1 DEF MaintainInputLockstepTransport
  <2> QED
    BY <1>0, <2>2, <2>3
<1>2. ASSUME NEW n \in Node, ModeDoesNotAdvance(n) \/ WaitForRemoteInputs(n)
      PROVE  Alone(n) /\ Quiet
  BY <1>2 DEF ModeDoesNotAdvance, WaitForRemoteInputs
<1>3. ASSUME NEW n \in Node, RollbackSnapshotMissing(n) PROVE Alone(n) /\ Quiet
  BY <1>0, <1>3 DEF RollbackSnapshotMissing
<1>4. ASSUME NEW n \in Node, ReplayRollbackWindow(n) PROVE Alone(n) /\ Quiet
  <2>1. n \in Peers /\ PeerInv(n) /\ n # Host
    BY <1>4 DEF ReplayRollbackWindow, IInv, HostNeverAsks, Peers, RInv
  <2>2. /\ buffer' = buffer /\ nextFrame' = nextFrame
        /\ \A i \in Node : i # n => game'[i] = game[i] /\ rollback'[i] = rollback[i]
    BY <1>4, <2>1, PeerReplays
  <2> QED
    BY <2>1, <2>2, NodeAssumption
<1>5. ASSUME NEW n \in Node, StepFrame(n) PROVE Alone(n) /\ (Builds(n) \/ Quiet)
  <2>1. CASE CanBuild(n, buffer[n], nextFrame[n])
    <3>1. /\ \A i \in Node : i # n =>
                buffer'[i] = buffer[i] /\ game'[i] = game[i] /\ nextFrame'[i] = nextFrame[i]
          /\ rollback' = rollback
      BY <1>5, <2>1, StepChanges
    <3> QED
      BY <1>5, <2>1, <3>1, NodeAssumption
  <2>2. CASE ~CanBuild(n, buffer[n], nextFrame[n])
    <3>1. \E slots : buffer' = [buffer EXCEPT ![n] = slots]
      BY <1>5 DEF StepFrame
    <3>2. UNCHANGED <<nextFrame, rollback, game>>
      BY <1>5, <2>2 DEF StepFrame
    <3> QED
      BY <1>0, <3>1, <3>2
  <2> QED
    BY <2>1, <2>2
<1>6. ASSUME NEW n \in Node, NEW m \in network, HandleInputFrameRecords(n, m)
      PROVE  Alone(n) /\ Quiet
  <2>1. \E slots : buffer' = [buffer EXCEPT ![n] = slots]
    BY <1>6 DEF HandleInputFrameRecords
  <2>2. UNCHANGED <<nextFrame, game>>
    BY <1>6 DEF HandleInputFrameRecords
  <2>3. \A i \in Node : i # n => rollback'[i] = rollback[i]
    BY <1>6, EarliestAsked
  <2> QED
    BY <1>0, <2>1, <2>2, <2>3
<1>7. PICK n \in Node : \/ Maintain(n) \/ ModeDoesNotAdvance(n)
                        \/ PrepareInputLockstepFrame(n)
                        \/ \E m \in network : HandleInputFrameRecords(n, m)
  BY DEF Next
<1> HIDE DEF Alone, Quiet, Builds
<1>8. Alone(n) /\ (Builds(n) \/ Quiet)
  <2>1. CASE PrepareInputLockstepFrame(n)
    BY <1>2, <1>3, <1>4, <1>5, <2>1 DEF PrepareInputLockstepFrame
  <2> QED
    BY <1>1, <1>2, <1>6, <1>7, <2>1
<1> QED
  BY <1>8 DEF Alone, Quiet, Builds

\* The host's step decides the inputs of a frame.
LEMMA HostDecides ==
    ASSUME IInv, RInv, SettledInv, SettledInv', StepFrame(Host),
           CanBuild(Host, buffer[Host], nextFrame[Host]),
           \A i \in Peers : Prefix(i, SettledFrames(i))' = Prefix(i, SettledFrames(i))
    PROVE  \E inputs \in InputVector : Agreed!Decide(inputs)
<1> DEFINE F == nextFrame[Host]
           inputs == FrameInputs(BuildOrPredictFrameInputs(Host, buffer[Host], {F}), F)
           applied == [n \in Node |-> Prefix(n, SettledFrames(n))]
<1>1. /\ F \in Nat /\ F \in Frame /\ inputs \in InputVector
      /\ nextFrame'[Host] = F + 1
      /\ \A f \in Frame : game'[Host][f] = IF f = F THEN inputs ELSE game[Host][f]
  <2>1. F \in Nat
    BY NodeAssumption, Ranges
  <2> QED
    BY <2>1, NodeAssumption, StepChanges
<1> HIDE DEF inputs
<1>2. HostLog \in Seq(InputVector) /\ Len(HostLog) = F
  BY DEF SettledInv
<1>3. HostLog' \in Seq(InputVector) /\ Len(HostLog') = F + 1
  BY <1>1 DEF SettledInv
<1>4. HostLog' = Append(HostLog, inputs)
  <2>1. /\ Append(HostLog, inputs) \in Seq(InputVector)
        /\ Len(Append(HostLog, inputs)) = F + 1
        /\ \A i \in 1 .. F : Append(HostLog, inputs)[i] = HostLog[i]
        /\ Append(HostLog, inputs)[F + 1] = inputs
    BY <1>1, <1>2, AppendProperties
  <2>2. ASSUME NEW i \in 1 .. F + 1 PROVE HostLog'[i] = Append(HostLog, inputs)[i]
    <3>1. i - 1 \in Frame /\ HostLog'[i] = game'[Host][i - 1]
      BY <1>1, WindowAssumption DEF HostLog, Prefix, Frame
    <3>2. CASE i = F + 1
      BY <1>1, <2>1, <3>1, <3>2
    <3>3. CASE i # F + 1
      <4>1. i \in 1 .. F /\ i - 1 # F
        BY <1>1, <3>3
      <4>2. HostLog[i] = game[Host][i - 1]
        BY <4>1 DEF HostLog, Prefix
      <4> QED
        BY <1>1, <2>1, <3>1, <4>1, <4>2
    <3> QED
      BY <3>2, <3>3
  <2> QED
    BY <1>3, <2>1, <2>2, SeqEqual
<1>5. applied' = [applied EXCEPT ![Host] = HostLog']
  <2>1. ASSUME NEW n \in Node, n # Host
        PROVE  Prefix(n, SettledFrames(n))' = Prefix(n, SettledFrames(n))
    BY <2>1 DEF Peers
  <2>2. Prefix(Host, SettledFrames(Host))' = HostLog'
    BY DEF SettledInv, HostLog
  <2> QED
    BY <2>1, <2>2, NodeAssumption
<1>6. Agreed!Decide(inputs)
  BY <1>4, <1>5 DEF Agreed!Decide, HostLog
<1> QED
  BY <1>1, <1>6

\* Any other step confirms more of the frames decided to its node, or nothing.
LEMMA OthersConfirm ==
    ASSUME IInv, RInv, IInv', SettledInv, SettledInv', Next, NEW n \in Node,
           nextFrame'[Host] = nextFrame[Host], game'[Host] = game[Host],
           \A i \in Node : i # n =>
               Prefix(i, SettledFrames(i))' = Prefix(i, SettledFrames(i))
    PROVE  (n # Host /\ Agreed!Confirm(n)) \/ UNCHANGED Agreed!vars
<1> DEFINE applied == [i \in Node |-> Prefix(i, SettledFrames(i))]
           k == SettledFrames(n)
<1>0. PICK l : l = SettledFrames(n)'
  OBVIOUS
<1>1. HostLog' = HostLog
  BY DEF HostLog, Prefix
<1>2. /\ k \in 0 .. Len(HostLog) /\ Prefix(n, k) = SubSeq(HostLog, 1, k)
      /\ Len(Prefix(n, k)) = k /\ Len(HostLog) \in Nat
  BY LenProperties DEF SettledInv
<1>3. /\ l \in 0 .. Len(HostLog)
      /\ Prefix(n, SettledFrames(n))' = SubSeq(HostLog, 1, l)
  BY <1>0, <1>1 DEF SettledInv
<1>4. CASE l = k
  <2>1. \A i \in Node : Prefix(i, SettledFrames(i))' = Prefix(i, SettledFrames(i))
    BY <1>2, <1>3, <1>4
  <2>2. applied' = applied
    BY <2>1
  <2> QED
    BY <1>1, <2>2 DEF Agreed!vars, HostLog
<1>5. CASE l # k
  <2>1. n # Host
    BY <1>0, <1>5 DEF SettledInv
  <2>2. k <= l
    BY <1>0, <2>1, SettledGrows DEF Peers
  <2>3. l \in (Len(applied[n]) + 1) .. Len(HostLog)
    BY <1>2, <1>3, <1>5, <2>2
  <2>4. applied' = [applied EXCEPT ![n] = SubSeq(HostLog, 1, l)]
    BY <1>3
  <2>5. Agreed!Confirm(n)
    BY <1>1, <2>3, <2>4 DEF Agreed!Confirm, HostLog
  <2> QED
    BY <2>1, <2>5
<1> QED
  BY <1>4, <1>5

\* Every step of input lockstep is a step of AgreedInputs or a stutter.
LEMMA NextRefines ==
    ASSUME IInv, RInv, IInv', SettledInv, SettledInv', [Next]_vars
    PROVE  [Agreed!Next]_(Agreed!vars)
<1>1. CASE UNCHANGED vars
  <2>1. UNCHANGED <<nextFrame, buffer, rollback, game>>
    BY <1>1 DEF vars
  <2>2. \A i \in Node : Prefix(i, SettledFrames(i))' = Prefix(i, SettledFrames(i))
    BY <2>1, SettledIsItsOwn
  <2>3. HostLog' = HostLog
    BY <2>1 DEF HostLog, Prefix
  <2> QED
    BY <2>2, <2>3 DEF Agreed!vars, HostLog
<1>2. CASE Next
  <2>1. PICK n \in Node :
          /\ \A i \in Node : i # n =>
                /\ nextFrame'[i] = nextFrame[i] /\ buffer'[i] = buffer[i]
                /\ rollback'[i] = rollback[i] /\ game'[i] = game[i]
          /\ \/ /\ n = Host /\ StepFrame(Host)
                /\ CanBuild(Host, buffer[Host], nextFrame[Host])
             \/ nextFrame'[Host] = nextFrame[Host] /\ game'[Host] = game[Host]
    BY <1>2, StepOfOne
  <2>2. \A i \in Node : i # n =>
           Prefix(i, SettledFrames(i))' = Prefix(i, SettledFrames(i))
    BY <2>1, SettledIsItsOwn
  <2>3. CASE /\ n = Host /\ StepFrame(Host)
             /\ CanBuild(Host, buffer[Host], nextFrame[Host])
    <3>1. \E inputs \in InputVector : Agreed!Decide(inputs)
      BY <2>2, <2>3, HostDecides DEF Peers
    <3> QED
      BY <3>1 DEF Agreed!Next
  <2>4. CASE nextFrame'[Host] = nextFrame[Host] /\ game'[Host] = game[Host]
    <3>1. (n # Host /\ Agreed!Confirm(n)) \/ UNCHANGED Agreed!vars
      BY <1>2, <2>2, <2>4, OthersConfirm
    <3> QED
      BY <3>1 DEF Agreed!Next
  <2> QED
    BY <2>1, <2>3, <2>4
<1> QED
  BY <1>1, <1>2

\* A session starts with nothing decided.
LEMMA InitRefines ==
    ASSUME Init, IInv, SettledInv
    PROVE  Agreed!Init
<1>1. \A n \in Node : nextFrame[n] = 0
  BY DEF Init
<1>2. HostLog = <<>>
  BY <1>1, NodeAssumption DEF HostLog, Prefix
<1>3. ASSUME NEW n \in Node PROVE Prefix(n, SettledFrames(n)) = <<>>
  <2>1. SettledFrames(n) = 0
    BY <1>1, SettledPrefix
  <2> QED
    BY <2>1 DEF Prefix
<1> QED
  BY <1>2, <1>3 DEF Agreed!Init, HostLog

\* The settled prefix of each node's simulation is a prefix of what the host has
\* stepped, and only grows: prediction, packets and rollback stay invisible
\* behind it.
THEOREM LockstepImplementsAgreedInputs ==
    ASSUME SomebodyElsePlays
    PROVE  Spec /\ []HeardWithoutGaps => ImplementsAgreedInputs
<1>1. IInv /\ RInv => SettledInv
  BY SettledIsSound
<1>2. Init /\ IInv /\ SettledInv => Agreed!Init
  BY InitRefines
<1>3. IInv /\ RInv /\ IInv' /\ SettledInv /\ SettledInv' /\ [Next]_vars
        => [Agreed!Next]_(Agreed!vars)
  BY NextRefines
<1>4. Spec /\ []HeardWithoutGaps => []RInv
  BY RInvInvariant
<1>5. Spec => []IInv
  BY IInvInvariant
<1> QED
  BY <1>1, <1>2, <1>3, <1>4, <1>5, PTL DEF Spec, ImplementsAgreedInputs, Agreed!Spec
=============================================================================
