------------------------ MODULE InputLockstepProofs -------------------------
(***************************************************************************)
(* Proofs about InputLockstep, for every set of nodes and players, every   *)
(* input delay, rollback window, packet size and bound.                    *)
(***************************************************************************)
EXTENDS InputLockstep, TLAPS, WellFoundedInduction

-----------------------------------------------------------------------------
(* Operators.                                                              *)

\* Min of a non-empty set of natural numbers is its least element.
LEMMA MinOfNaturals ==
    ASSUME NEW S \in SUBSET Nat, S # {}
    PROVE  /\ Min(S) \in S
           /\ \A y \in S : Min(S) <= y
<1> DEFINE R == {ss \in Nat \X Nat : ss[1] < ss[2]}
<1>1. IsWellFoundedOn(R, Nat)
  BY NatLessThanWellFounded DEF OpToRel
<1>2. PICK x \in S : \A y \in S : ~(<<y, x>> \in R)
  BY <1>1, WFMin
<1>3. ASSUME NEW y \in S PROVE x <= y
  <2>1. x \in Nat /\ y \in Nat
    OBVIOUS
  <2>2. <<y, x>> \in Nat \X Nat /\ ~(<<y, x>> \in R)
    BY <1>2, <2>1
  <2>3. ~(y < x)
    BY <2>2
  <2> QED
    BY <2>1, <2>3
<1> QED
  BY <1>3 DEF Min

\* The records of a packet are those of the slots it was made from, without
\* their predicted flag.
LEMMA PacketizeRecords ==
    ASSUME NEW slots, NEW keys, NEW r \in Packetize(slots, keys)
    PROVE  /\ DOMAIN r \subseteq keys
           /\ \A k \in DOMAIN r : r[k] = OnTheWire(slots[k[1]][k[2]])
  BY DEF Packetize

\* Max of a non-empty set of frames is its greatest element.
LEMMA MaxOfFrames ==
    ASSUME NEW S \in SUBSET Frame, S # {}
    PROVE  /\ Max(S) \in S
           /\ \A y \in S : Max(S) >= y
<1> DEFINE b == MaxFrame + InputDelay
           T == {b - x : x \in S}
<1>1. b \in Nat /\ S \subseteq 0 .. b
  BY WindowAssumption DEF Frame
<1>2. T \in SUBSET Nat /\ T # {}
  <2>1. ASSUME NEW x \in S PROVE b - x \in Nat
    <3> HIDE DEF b
    <3>1. x \in 0 .. b
      BY <1>1
    <3> QED
      BY <1>1, <3>1
  <2>2. PICK x \in S : TRUE
    OBVIOUS
  <2>3. b - x \in T
    OBVIOUS
  <2> QED
    BY <2>1, <2>3
<1>3. PICK x \in S : b - x = Min(T)
  BY <1>2, MinOfNaturals
<1>4. ASSUME NEW y \in S PROVE x >= y
  <2>1. b - x <= b - y
    BY <1>2, <1>3, MinOfNaturals
  <2> QED
    BY <1>1, <2>1
<1> QED
  BY <1>4 DEF Max

\* The record slots of one node, and what they may hold.
Slot == Record \cup {NoRecord}
Slots == [Player -> [Frame -> Slot]]

\* Storing leaves the new record, or an existing one.
LEMMA StoreResult ==
    ASSUME NEW existing \in Slot, NEW record \in Record
    PROVE  /\ Store(existing, record) \in Record
           /\ Store(existing, record) = record
                \/ (existing # NoRecord /\ Store(existing, record) = existing)
  BY DEF Store, Replaces, Slot

\* What PredictRemoteInputForFrame guesses is an input.
LEMMA PredictionType ==
    ASSUME NEW slots \in [Frame -> Slot], NEW f \in Frame
    PROVE  PredictRemoteInputForFrame(slots, f) \in Input
<1> DEFINE earlier == {g \in ConfirmedFrames(slots) : g < f}
<1>1. CASE earlier = {}
  BY <1>1, NeutralAssumption DEF PredictRemoteInputForFrame
<1>2. CASE earlier # {}
  <2>1. earlier \subseteq Frame
    BY DEF ConfirmedFrames
  <2>2. Max(earlier) \in earlier
    BY <1>2, <2>1, MaxOfFrames
  <2>3. slots[Max(earlier)] \in Record
    BY <2>2 DEF ConfirmedFrames, Slot
  <2>4. slots[Max(earlier)].input \in Input
    BY <2>3 DEF Record
  <2> QED
    BY <1>2, <2>4 DEF PredictRemoteInputForFrame
<1> QED
  BY <1>1, <1>2

\* What a frame is built from, stored or predicted, is a record.
LEMMA BuiltRecordType ==
    ASSUME NEW n \in Node, NEW slots \in Slots, NEW p \in Player, NEW f \in Frame
    PROVE  BuiltRecord(n, slots, p, f) \in Record
<1>1. slots[p] \in [Frame -> Slot] /\ slots[p][f] \in Slot
  BY DEF Slots
<1>2. PredictRemoteInputForFrame(slots[p], f) \in Input
  BY <1>1, PredictionType
<1>3. PredictedRecord(PredictRemoteInputForFrame(slots[p], f)) \in Record
  BY <1>2 DEF PredictedRecord, Record
<1>4. slots[p][f] # NoRecord =>
        slots[p][f] \in Record /\ CanonicalRecord(slots[p][f].input) \in Record
  BY <1>1 DEF CanonicalRecord, Record, Slot
<1> QED
  BY <1>3, <1>4 DEF BuiltRecord

\* The buffer keeps its type when frames are built, and the vector applied to a
\* frame that can be built has an input of every player.
LEMMA BuildType ==
    ASSUME NEW n \in Node, NEW slots \in Slots, NEW frames
    PROVE  /\ BuildOrPredictFrameInputs(n, slots, frames) \in Slots
           /\ \A f \in Frame : f \in frames /\ CanBuild(n, slots, f) =>
                 FrameInputs(BuildOrPredictFrameInputs(n, slots, frames), f) \in InputVector
<1> DEFINE built == BuildOrPredictFrameInputs(n, slots, frames)
<1>1. ASSUME NEW p \in Player, NEW f \in Frame
      PROVE  /\ built[p][f] \in Slot
             /\ f \in frames /\ CanBuild(n, slots, f) => built[p][f] \in Record
  <2>1. BuiltRecord(n, slots, p, f) \in Record
    BY BuiltRecordType
  <2>2. slots[p][f] \in Slot
    BY DEF Slots
  <2>3. built[p][f] = IF f \in frames /\ \A q \in Player : q <= p => Available(n, slots, q, f)
                        THEN BuiltRecord(n, slots, p, f) ELSE slots[p][f]
    BY DEF BuildOrPredictFrameInputs
  <2> QED
    BY <2>1, <2>2, <2>3 DEF Slot, CanBuild
<1>2. built \in Slots
  BY <1>1 DEF BuildOrPredictFrameInputs, Slots
<1>3. ASSUME NEW f \in Frame, f \in frames, CanBuild(n, slots, f)
      PROVE  FrameInputs(built, f) \in InputVector
  <2>1. \A p \in Player : built[p][f] \in Record
    BY <1>1, <1>3
  <2>2. \A p \in Player : built[p][f].input \in Input
    BY <2>1 DEF Record
  <2> QED
    BY <2>2 DEF FrameInputs, InputVector
<1> QED
  BY <1>2, <1>3
-----------------------------------------------------------------------------
(* Type correctness.                                                       *)

\* A requested rollback lies behind the frame to step next.
RollbackBehind ==
    \A n \in Node : rollback[n] # NoFrame => rollback[n] < nextFrame[n]

TypeInv == TypeOK /\ RollbackBehind

USE DEF Slot

\* The type invariant holds after ResetInputLockstepState.
LEMMA InitType == Init => TypeInv
  BY NodeAssumption, WindowAssumption
  DEF Init, TypeInv, TypeOK, RollbackBehind, Frame, NoFrame, Idle, GameLog

\* Queueing local inputs keeps the buffer's type.
LEMMA QueuedType ==
    ASSUME TypeInv, NEW n \in Node,
           NEW sample \in [LocalPlayers(n) -> Input]
    PROVE  Queued(n, sample) \in Slots
<1>1. ASSUME NEW p \in Player, NEW f \in Frame
      PROVE  Queued(n, sample)[p][f] \in Slot
  <2>1. buffer[n][p][f] \in Slot
    BY DEF TypeInv, TypeOK
  <2>2. p \in LocalPlayers(n) => OwnerRecord(f + 1, sample[p]) \in Record
    BY WindowAssumption DEF OwnerRecord, Record, Frame
  <2>3. Queued(n, sample)[p][f] =
          IF p \in LocalPlayers(n) /\ f \in nextLocal[n] .. (nextFrame[n] + InputDelay)
            THEN Store(buffer[n][p][f], OwnerRecord(f + 1, sample[p]))
            ELSE buffer[n][p][f]
    BY DEF Queued
  <2> QED
    BY <2>1, <2>2, <2>3, StoreResult
<1> QED
  BY <1>1 DEF Queued, Slots

\* What Maintain adds to the network: records of the sender's slots.
LEMMA SentRecords ==
    ASSUME NEW n \in Node, NEW slots \in Slots, NEW next, NEW local,
           NEW r \in Packetize(slots, RecordsToSend(n, slots, next, local))
    PROVE  /\ DOMAIN r \subseteq RecordsToSend(n, slots, next, local)
           /\ DOMAIN r \subseteq Key
           /\ \A k \in DOMAIN r : /\ slots[k[1]][k[2]] \in Record
                                  /\ r[k] = OnTheWire(slots[k[1]][k[2]])
                                  /\ r[k] \in Record
<1>1. /\ DOMAIN r \subseteq RecordsToSend(n, slots, next, local)
      /\ \A k \in DOMAIN r : r[k] = OnTheWire(slots[k[1]][k[2]])
  BY PacketizeRecords
<1>2. DOMAIN r \subseteq Key
  BY <1>1 DEF RecordsToSend, CollectRecords
<1>3. ASSUME NEW k \in DOMAIN r PROVE slots[k[1]][k[2]] \in Record
  <2>1. slots[k[1]][k[2]] # NoRecord
    BY <1>1 DEF RecordsToSend, CollectRecords
  <2>2. k[1] \in Player /\ k[2] \in Frame
    BY <1>2 DEF Key
  <2> QED
    BY <2>1, <2>2 DEF Slots
<1>4. ASSUME NEW rec \in Record PROVE OnTheWire(rec) \in Record
  BY DEF OnTheWire, Record
<1> QED
  BY <1>1, <1>2, <1>3, <1>4

\* A transport pump keeps the type invariant.
LEMMA MaintainType ==
    ASSUME TypeInv, NEW n \in Node, NEW sample \in Samples(n),
           MaintainInputLockstepTransport(n, sample)
    PROVE  TypeInv'
<1> DEFINE slots == Queued(n, sample)
           local == LocalFrameAfterQueue(n)
           keys  == RecordsToSend(n, slots, nextFrame[n], local)
<1>2. slots \in Slots
  BY QueuedType DEF Samples
<1>3. local \in 0 .. (MaxFrame + InputDelay + 1)
  BY WindowAssumption DEF LocalFrameAfterQueue, TypeInv, TypeOK
<1>4. buffer' \in [Node -> Slots]
  BY <1>2 DEF MaintainInputLockstepTransport, TypeInv, TypeOK, Slots
<1>5. ASSUME NEW m \in network'
      PROVE  /\ m.dst \in Node
             /\ DOMAIN m.records \subseteq Key
             /\ \A k \in DOMAIN m.records : m.records[k] \in Record
  <2>1. CASE m \in network
    BY <2>1 DEF TypeInv, TypeOK
  <2>2. CASE m \notin network
    <3> HIDE DEF slots, keys, local
    <3>1. PICK d \in Destinations(n), r \in Packetize(slots, keys) :
            m = [src |-> n, dst |-> d, records |-> r]
      BY <2>2 DEF MaintainInputLockstepTransport, InFlight, slots, keys, local
    <3>2. m.dst = d /\ m.records = r
      BY <3>1
    <3>3. d \in Node
      BY NodeAssumption DEF Destinations, Peers
    <3> QED
      BY <1>2, <3>2, <3>3, SentRecords DEF keys
  <2> QED
    BY <2>1, <2>2
<1>6. nextLocal' \in [Node -> 0 .. (MaxFrame + InputDelay + 1)]
  BY <1>3 DEF MaintainInputLockstepTransport, TypeInv, TypeOK
<1>7. tick' \in [node : Node, at : {"pump", "prepare", "step"}]
  BY DEF MaintainInputLockstepTransport
<1>8. UNCHANGED <<nextFrame, rollback, snapshots, game>>
  BY DEF MaintainInputLockstepTransport
<1> QED
  BY <1>4, <1>5, <1>6, <1>7, <1>8 DEF TypeInv, TypeOK, RollbackBehind, Slots

\* So does a packet, whose records ask at most for a rollback of the past.
LEMMA HandleType ==
    ASSUME TypeInv, NEW n \in Node, NEW m \in network, HandleInputFrameRecords(n, m)
    PROVE  TypeInv'
<1> DEFINE accepted == {k \in DOMAIN m.records : m.records[k].canonical = (n # Host)}
           wrong    == {k[2] : k \in {j \in accepted :
                          /\ Mismatch(buffer[n][j[1]][j[2]], m.records[j])
                          /\ j[2] < nextFrame[n]}}
           stored   == [p \in Player |-> [f \in Frame |->
                          IF <<p, f>> \in accepted
                            THEN Store(buffer[n][p][f], m.records[<<p, f>>])
                            ELSE buffer[n][p][f]]]
           request  == RequestRollbackFromFrame(rollback[n], wrong)
<1>1. /\ DOMAIN m.records \subseteq Key
      /\ \A k \in DOMAIN m.records : m.records[k] \in Record
  BY DEF TypeInv, TypeOK
<1>2. stored \in Slots
  <2>1. ASSUME NEW p \in Player, NEW f \in Frame
        PROVE  stored[p][f] \in Slot
    <3>1. buffer[n][p][f] \in Slot
      BY DEF TypeInv, TypeOK
    <3>2. <<p, f>> \in accepted => m.records[<<p, f>>] \in Record
      BY <1>1
    <3> QED
      BY <3>1, <3>2, StoreResult
  <2> QED
    BY <2>1 DEF Slots
<1>3. wrong \subseteq Frame /\ \A f \in wrong : f < nextFrame[n]
  BY <1>1 DEF Key
<1>4. /\ request \in Frame \cup {NoFrame}
      /\ request # NoFrame => request < nextFrame[n]
  <2> HIDE DEF wrong
  <2> DEFINE asked == IF rollback[n] = NoFrame THEN wrong ELSE wrong \cup {rollback[n]}
  <2>1. asked \subseteq Frame /\ \A f \in asked : f < nextFrame[n]
    BY <1>3 DEF TypeInv, TypeOK, RollbackBehind
  <2>2. asked # {} => Min(asked) \in asked
    BY <2>1, MinOfNaturals, WindowAssumption DEF Frame
  <2> HIDE DEF asked
  <2> QED
    BY <2>1, <2>2 DEF RequestRollbackFromFrame, asked
<1>5. /\ buffer' = [buffer EXCEPT ![n] = stored]
      /\ rollback' = [rollback EXCEPT ![n] = request]
      /\ UNCHANGED <<nextFrame, nextLocal, snapshots, game, tick, network>>
  BY DEF HandleInputFrameRecords
<1> HIDE DEF stored, request
<1>6. buffer' \in [Node -> [Player -> [Frame -> Record \cup {NoRecord}]]]
  BY <1>2, <1>5 DEF TypeInv, TypeOK, Slots
<1> QED
  BY <1>4, <1>5, <1>6 DEF TypeInv, TypeOK, RollbackBehind

\* So does a frame.
LEMMA StepFrameType ==
    ASSUME TypeInv, NEW n \in Node, StepFrame(n)
    PROVE  TypeInv'
<1> DEFINE f     == nextFrame[n]
           slots == BuildOrPredictFrameInputs(n, buffer[n], {f})
           kept  == [p \in Player |-> ClearBefore(slots[p], f + 1 - BufferedFrames)]
           saved == [snapshots[n] EXCEPT ![f] = game[n]]
<1>1. f \in Frame /\ f \in 0 .. MaxFrame /\ f < MaxFrame
  BY WindowAssumption DEF StepFrame, TypeInv, TypeOK, Frame
<1>2. slots \in Slots /\ (CanBuild(n, buffer[n], f) => FrameInputs(slots, f) \in InputVector)
  <2>1. buffer[n] \in Slots
    BY DEF TypeInv, TypeOK, Slots
  <2> QED
    BY <1>1, <2>1, BuildType
<1>3. kept \in Slots
  BY <1>2 DEF Slots, ClearBefore
<1>4. saved \in [Frame -> GameLog \cup {NoSnapshot}]
  BY <1>1 DEF TypeInv, TypeOK
<1>5. PruneRollbackSnapshots(saved, f + 1) \in [Frame -> GameLog \cup {NoSnapshot}]
  BY <1>4 DEF PruneRollbackSnapshots
<1>6. /\ tick' = Idle
      /\ UNCHANGED <<nextLocal, rollback, network>>
  BY DEF StepFrame
<1>7. CASE CanBuild(n, buffer[n], f)
  <2>1. /\ game' = [game EXCEPT ![n][f] = FrameInputs(slots, f)]
        /\ nextFrame' = [nextFrame EXCEPT ![n] = f + 1]
        /\ buffer' = [buffer EXCEPT ![n] = kept]
        /\ snapshots' = [snapshots EXCEPT ![n] = PruneRollbackSnapshots(saved, f + 1)]
    BY <1>7 DEF StepFrame
  <2>2. game' \in [Node -> GameLog]
    BY <1>1, <1>2, <1>7, <2>1 DEF TypeInv, TypeOK, GameLog
  <2>3. nextFrame' \in [Node -> 0 .. MaxFrame] /\ nextFrame'[n] = nextFrame[n] + 1
    BY <1>1, <2>1, WindowAssumption DEF TypeInv, TypeOK
  <2> HIDE DEF kept, saved, f
  <2>4. buffer' \in [Node -> [Player -> [Frame -> Record \cup {NoRecord}]]]
    BY <1>3, <2>1 DEF TypeInv, TypeOK, Slots
  <2>5. snapshots' \in [Node -> [Frame -> GameLog \cup {NoSnapshot}]]
    BY <1>5, <2>1 DEF TypeInv, TypeOK
  <2>6. RollbackBehind'
    <3>1. ASSUME NEW i \in Node, rollback'[i] # NoFrame
          PROVE  rollback'[i] < nextFrame'[i]
      <4>1. rollback[i] < nextFrame[i] /\ rollback'[i] = rollback[i]
        BY <1>6, <3>1 DEF TypeInv, RollbackBehind
      <4>2. nextFrame'[i] \in {nextFrame[i], nextFrame[i] + 1}
        BY <2>1 DEF TypeInv, TypeOK, f
      <4>3. nextFrame[i] \in Int /\ rollback[i] \in Int
        BY WindowAssumption DEF TypeInv, TypeOK, Frame, NoFrame
      <4> QED
        BY <4>1, <4>2, <4>3
    <3> QED
      BY <3>1 DEF RollbackBehind
  <2> QED
    BY <1>6, <2>2, <2>3, <2>4, <2>5, <2>6, NodeAssumption DEF TypeInv, TypeOK, Idle
<1>8. CASE ~CanBuild(n, buffer[n], f)
  <2>1. buffer' = [buffer EXCEPT ![n] = slots] /\ UNCHANGED <<game, nextFrame, snapshots>>
    BY <1>8 DEF StepFrame
  <2> HIDE DEF slots
  <2>2. buffer' \in [Node -> [Player -> [Frame -> Record \cup {NoRecord}]]]
    BY <1>2, <2>1 DEF TypeInv, TypeOK, Slots
  <2> QED
    BY <1>6, <2>1, <2>2, NodeAssumption DEF TypeInv, TypeOK, RollbackBehind, Idle
<1> QED
  BY <1>7, <1>8

\* ReplayRollbackWindow replays from the requested frame to the first frame it
\* cannot build, at most to the present one.
LEMMA ReplayStop ==
    ASSUME TypeInv, NEW n \in Node, rollback[n] # NoFrame,
           NEW stop, stop = Min({f \in rollback[n] .. nextFrame[n] :
                                   f = nextFrame[n] \/ ~CanBuild(n, buffer[n], f)})
    PROVE  /\ rollback[n] \in Frame /\ stop \in rollback[n] .. nextFrame[n]
           /\ \A f \in rollback[n] .. (stop - 1) :
                 /\ f \in Frame /\ f \in rollback[n] .. (nextFrame[n] - 1)
                 /\ CanBuild(n, buffer[n], f)
<1> DEFINE S == {f \in rollback[n] .. nextFrame[n] :
                   f = nextFrame[n] \/ ~CanBuild(n, buffer[n], f)}
<1>1. /\ rollback[n] \in Frame /\ rollback[n] \in Nat /\ nextFrame[n] \in Frame
      /\ nextFrame[n] \in Nat /\ rollback[n] < nextFrame[n]
  BY WindowAssumption DEF TypeInv, TypeOK, RollbackBehind, Frame
<1>2. S \in SUBSET Nat /\ nextFrame[n] \in S
  BY <1>1
<1>3. stop \in S /\ \A y \in S : stop <= y
  <2> HIDE DEF S
  <2> QED
    BY <1>2, MinOfNaturals DEF S
<1>4. ASSUME NEW f \in rollback[n] .. (stop - 1)
      PROVE  /\ f \in Frame /\ f \in rollback[n] .. (nextFrame[n] - 1)
             /\ CanBuild(n, buffer[n], f)
  <2>0. stop \in Nat /\ stop <= nextFrame[n]
    BY <1>2, <1>3
  <2> HIDE DEF S
  <2>1. f \in Frame /\ f \in rollback[n] .. (nextFrame[n] - 1) /\ f < stop
    BY <1>1, <2>0, WindowAssumption DEF Frame
  <2>2. f \notin S
    BY <1>1, <1>3, <2>0, <2>1
  <2> QED
    BY <1>1, <2>1, <2>2 DEF S
<1> QED
  BY <1>1, <1>3, <1>4

\* So does a rollback.
LEMMA ReplayType ==
    ASSUME TypeInv, NEW n \in Node, ReplayRollbackWindow(n)
    PROVE  TypeInv'
<1> DEFINE first   == rollback[n]
           present == nextFrame[n]
           stop    == Min({f \in first .. present :
                             f = present \/ ~CanBuild(n, buffer[n], f)})
           slots   == BuildOrPredictFrameInputs(n, buffer[n], first .. (present - 1))
           log     == [f \in Frame |-> IF f \in first .. (stop - 1)
                                           THEN FrameInputs(slots, f)
                                           ELSE snapshots[n][first][f]]
           saved   == [f \in Frame |-> IF f \in first .. (stop - 1)
                                           THEN StateBefore(log, f)
                                           ELSE snapshots[n][f]]
<1>1. /\ first # NoFrame /\ snapshots[n][first] # NoSnapshot
      /\ buffer' = [buffer EXCEPT ![n] = slots]
      /\ game' = [game EXCEPT ![n] = log]
      /\ snapshots' = [snapshots EXCEPT ![n] = PruneRollbackSnapshots(saved, stop)]
      /\ nextFrame' = [nextFrame EXCEPT ![n] = stop]
      /\ rollback' = [rollback EXCEPT ![n] = NoFrame]
      /\ tick' \in {[node |-> n, at |-> "step"], Idle}
      /\ UNCHANGED <<nextLocal, network>>
  BY DEF ReplayRollbackWindow
<1> HIDE DEF stop
<1>2. /\ first \in Frame /\ stop \in first .. present
      /\ \A f \in first .. (stop - 1) :
            f \in Frame /\ f \in first .. (present - 1) /\ CanBuild(n, buffer[n], f)
  BY <1>1, ReplayStop DEF stop
<1>3. buffer[n] \in Slots
  BY DEF TypeInv, TypeOK, Slots
<1>4. slots \in Slots
  BY <1>3, BuildType
<1>5. \A f \in first .. (stop - 1) : FrameInputs(slots, f) \in InputVector
  BY <1>2, <1>3, BuildType
<1>6. snapshots[n][first] \in GameLog
  BY <1>1, <1>2 DEF TypeInv, TypeOK
<1> HIDE DEF slots
<1>7. log \in GameLog
  BY <1>2, <1>5, <1>6 DEF GameLog
<1> HIDE DEF log
<1>8. \A f : StateBefore(log, f) \in GameLog
  BY <1>7 DEF StateBefore, GameLog
<1>9. PruneRollbackSnapshots(saved, stop) \in [Frame -> GameLog \cup {NoSnapshot}]
  BY <1>8 DEF TypeInv, TypeOK, PruneRollbackSnapshots
<1> HIDE DEF saved
<1>10. stop \in 0 .. MaxFrame
  BY <1>2, WindowAssumption DEF TypeInv, TypeOK, Frame
<1>11. buffer' \in [Node -> [Player -> [Frame -> Record \cup {NoRecord}]]]
  BY <1>1, <1>4 DEF TypeInv, TypeOK, Slots
<1>12. game' \in [Node -> GameLog] /\ snapshots' \in [Node -> [Frame -> GameLog \cup {NoSnapshot}]]
  BY <1>1, <1>7, <1>9 DEF TypeInv, TypeOK
<1>13. nextFrame' \in [Node -> 0 .. MaxFrame] /\ rollback' \in [Node -> Frame \cup {NoFrame}]
  BY <1>1, <1>10 DEF TypeInv, TypeOK
<1>14. tick' \in [node : Node, at : {"pump", "prepare", "step"}]
  BY <1>1, NodeAssumption DEF Idle
<1>15. RollbackBehind'
  BY <1>1 DEF TypeInv, TypeOK, RollbackBehind
<1> QED
  BY <1>1, <1>11, <1>12, <1>13, <1>14, <1>15 DEF TypeInv, TypeOK

\* So do the steps that change little.
LEMMA OtherStepsType ==
    ASSUME TypeInv,
           \/ \E n \in Node : \/ ModeDoesNotAdvance(n)
                              \/ WaitForRemoteInputs(n)
                              \/ RollbackSnapshotMissing(n)
           \/ UNCHANGED vars
    PROVE  TypeInv'
<1>1. ASSUME NEW n \in Node, ModeDoesNotAdvance(n) \/ WaitForRemoteInputs(n)
      PROVE  TypeInv'
  BY <1>1, NodeAssumption
  DEF TypeInv, TypeOK, RollbackBehind, ModeDoesNotAdvance, WaitForRemoteInputs, Idle
<1>2. ASSUME NEW n \in Node, RollbackSnapshotMissing(n)
      PROVE  TypeInv'
  BY <1>2, NodeAssumption
  DEF TypeInv, TypeOK, RollbackBehind, RollbackSnapshotMissing, Idle
<1>3. CASE UNCHANGED vars
  BY <1>3 DEF TypeInv, TypeOK, RollbackBehind, vars
<1> QED
  BY <1>1, <1>2, <1>3

\* Every step keeps the type invariant.
LEMMA NextType == TypeInv /\ [Next]_vars => TypeInv'
  BY MaintainType, HandleType, StepFrameType, ReplayType, OtherStepsType
  DEF Next, PrepareInputLockstepFrame, Maintain

\* The type invariant holds always.
LEMMA TypeInvariant == Spec => []TypeInv
  BY InitType, NextType, PTL DEF Spec

\* Every variable keeps its type: in particular a replay only ever applies
\* complete input vectors, and stops within the frames already stepped.
THEOREM TypeCorrect == Spec => []TypeOK
  BY TypeInvariant, PTL DEF TypeInv
-----------------------------------------------------------------------------
(* Agreement.  OneInputPerFrame is what makes it work: a frame's input is  *)
(* sampled once, by the owner of the player, and everything else is copies *)
(* of it.  It is inductive together with four facts about where records    *)
(* can be.                                                                 *)

\* Only a peer predicts, never a player of its own, and it keeps its
\* predictions to itself.
OnlyPeersPredict ==
    /\ \A n \in Node, p \in Player, f \in Frame :
          buffer[n][p][f] # NoRecord /\ buffer[n][p][f].predicted
              => n # Host /\ Owner[p] # n /\ ~buffer[n][p][f].canonical
    /\ \A m \in network : \A k \in DOMAIN m.records : ~m.records[k].predicted

\* An input exists only for frames its owner has queued.
QueuedFirst ==
    \A p \in Player, f \in Frame : \A x \in Input :
        Circulates(p, f, x) => f < nextLocal[Owner[p]]

\* A canonical record outside the host is of a frame the host has stepped.
CanonicalBehindHost ==
    /\ \A n \in Peers, p \in Player, f \in Frame :
          IsCanonical(n, p, f) => f < nextFrame[Host]
    /\ \A m \in network : \A k \in DOMAIN m.records :
          m.records[k].canonical => k[2] < nextFrame[Host]

\* The host never has a reason to roll back.
HostNeverAsks == rollback[Host] = NoFrame

\* The host has applied an input of every player to every frame it has left.
HostStepped == \A f \in Frame : f < nextFrame[Host] => game[Host][f] \in InputVector

\* The inductive invariant.
IInv ==
    /\ TypeInv
    /\ OneInputPerFrame
    /\ OnlyPeersPredict
    /\ QueuedFirst
    /\ CanonicalBehindHost
    /\ HostNeverAsks
    /\ HostStepped

\* The inductive invariant holds to begin with.
LEMMA InitIInv == Init => IInv
<1> SUFFICES ASSUME Init PROVE IInv
  OBVIOUS
<1>1. TypeInv
  BY InitType
<1>2. \A p \in Player, f \in Frame, x \in Input : ~Circulates(p, f, x)
  BY NodeAssumption, WindowAssumption DEF Init, Circulates, Frame
<1>3. OneInputPerFrame /\ QueuedFirst
  BY <1>2 DEF OneInputPerFrame, QueuedFirst
<1>4. OnlyPeersPredict /\ CanonicalBehindHost /\ HostNeverAsks /\ HostStepped
  BY NodeAssumption, WindowAssumption
  DEF Init, OnlyPeersPredict, CanonicalBehindHost, HostNeverAsks, HostStepped, IsCanonical,
      Peers, Frame
<1> QED
  BY <1>1, <1>3, <1>4 DEF IInv

\* A step after which every input that circulates did so before, and in which
\* no owner's counter goes back, keeps the two invariants about inputs.
LEMMA NoNewInput ==
    ASSUME IInv,
           \A p \in Player, f \in Frame, x \in Input :
               Circulates(p, f, x)' => Circulates(p, f, x),
           nextLocal' = nextLocal
    PROVE  (OneInputPerFrame /\ QueuedFirst)'
  BY DEF IInv, OneInputPerFrame, QueuedFirst

\* The steps that touch no buffer keep it.
LEMMA IInvOtherSteps ==
    ASSUME IInv,
           \/ \E n \in Node : \/ ModeDoesNotAdvance(n)
                              \/ WaitForRemoteInputs(n)
                              \/ RollbackSnapshotMissing(n)
           \/ UNCHANGED vars
    PROVE  IInv'
<1>1. TypeInv'
  BY OtherStepsType DEF IInv
<1>2. /\ UNCHANGED <<nextFrame, nextLocal, buffer, game, network>>
      /\ rollback' = rollback \/ \E n \in Node : rollback' = [rollback EXCEPT ![n] = NoFrame]
  BY DEF ModeDoesNotAdvance, WaitForRemoteInputs, RollbackSnapshotMissing, vars
<1>3. (OneInputPerFrame /\ QueuedFirst)'
  <2>1. \A p \in Player, f \in Frame, x \in Input : Circulates(p, f, x)' => Circulates(p, f, x)
    BY <1>2 DEF Circulates
  <2> QED
    BY <1>2, <2>1, NoNewInput
<1>4. (OnlyPeersPredict /\ CanonicalBehindHost /\ HostStepped)'
  BY <1>2 DEF IInv, OnlyPeersPredict, CanonicalBehindHost, IsCanonical, HostStepped
<1>5. HostNeverAsks'
  BY <1>2, NodeAssumption DEF IInv, TypeInv, TypeOK, HostNeverAsks
<1> QED
  BY <1>1, <1>3, <1>4, <1>5 DEF IInv


\* A record that may sit in node n's slot for player p and frame f.
Sound(n, p, f, record) ==
    record # NoRecord =>
        /\ ~record.predicted => Circulates(p, f, record.input)
        /\ record.predicted => n # Host /\ Owner[p] # n /\ ~record.canonical
        /\ n # Host /\ record.canonical => f < nextFrame[Host]

\* The invariant says of every slot that it is Sound.
LEMMA BufferIsSound ==
    ASSUME IInv, NEW n \in Node, NEW p \in Player, NEW f \in Frame
    PROVE  Sound(n, p, f, buffer[n][p][f])
  BY DEF IInv, Sound, Circulates, OnlyPeersPredict, CanonicalBehindHost, IsCanonical, Peers

\* Building or predicting inputs keeps the slots sound.
LEMMA BuildKeeps ==
    ASSUME IInv, NEW n \in Node, NEW frames, NEW p \in Player, NEW f \in Frame
    PROVE  Sound(n, p, f, BuildOrPredictFrameInputs(n, buffer[n], frames)[p][f])
<1> DEFINE built == BuildOrPredictFrameInputs(n, buffer[n], frames)[p][f]
<1>1. built = IF f \in frames /\ \A q \in Player : q <= p => Available(n, buffer[n], q, f)
                THEN BuiltRecord(n, buffer[n], p, f) ELSE buffer[n][p][f]
  BY DEF BuildOrPredictFrameInputs
<1> HIDE DEF built
<1>2. Sound(n, p, f, buffer[n][p][f])
  BY BufferIsSound
<1>3. CASE built = buffer[n][p][f]
  BY <1>2, <1>3 DEF built
<1>4. CASE built # buffer[n][p][f]
  <2>1. /\ built = BuiltRecord(n, buffer[n], p, f)
        /\ Available(n, buffer[n], p, f)
    BY <1>1, <1>4, PlayerAssumption
  <2>2. CASE buffer[n][p][f] = NoRecord
    <3>1. n # Host /\ Owner[p] # n
      BY <2>1, <2>2 DEF Available, LocalPlayers
    <3>2. built.predicted /\ ~built.canonical
      BY <2>1, <2>2 DEF BuiltRecord, PredictedRecord
    <3> QED
      BY <3>1, <3>2 DEF Sound, built
  <2>3. CASE buffer[n][p][f] # NoRecord
    <3>1. n = Host /\ built = CanonicalRecord(buffer[n][p][f].input)
      BY <1>4, <2>1, <2>3 DEF BuiltRecord
    <3>2. Circulates(p, f, buffer[n][p][f].input)
      BY <1>2, <2>3, <3>1 DEF Sound
    <3> QED
      BY <3>1, <3>2 DEF CanonicalRecord, Sound, built
  <2> QED
    BY <2>2, <2>3
<1> QED
  BY <1>3, <1>4 DEF built

\* Replacing one node's slots by sound ones, while the network and the local
\* counters stay and the host's simulation applies nothing new, keeps the
\* invariant's facts about records.
LEMMA KeepSlots ==
    ASSUME IInv, TypeInv', NEW n \in Node, NEW slots \in Slots,
           buffer' = [buffer EXCEPT ![n] = slots],
           UNCHANGED <<nextLocal, network>>,
           \A p \in Player, f \in Frame : Sound(n, p, f, slots[p][f]),
           nextFrame'[Host] >= nextFrame[Host],
           \A p \in Player, f \in Frame, x \in Input :
             f < nextFrame'[Host] /\ game'[Host][f][p] = x => Circulates(p, f, x)
    PROVE  (OneInputPerFrame /\ QueuedFirst /\ OnlyPeersPredict /\ CanonicalBehindHost)'
<1>1. buffer \in [Node -> Slots]
  BY DEF IInv, TypeInv, TypeOK, Slots
<1>2. buffer'[n] = slots /\ \A i \in Node : i # n => buffer'[i] = buffer[i]
  BY <1>1
<1>3. (OneInputPerFrame /\ QueuedFirst)'
  <2>1. ASSUME NEW p \in Player, NEW f \in Frame, NEW x \in Input, Circulates(p, f, x)'
        PROVE  Circulates(p, f, x)
    <3>1. CASE \E i \in Node : /\ buffer'[i][p][f] # NoRecord
                               /\ ~buffer'[i][p][f].predicted
                               /\ buffer'[i][p][f].input = x
      BY <1>2, <3>1, BufferIsSound DEF Sound
    <3>2. CASE \E m \in network' : /\ <<p, f>> \in DOMAIN m.records
                                   /\ m.records[<<p, f>>].input = x
      BY <3>2 DEF Circulates
    <3> QED
      BY <2>1, <3>1, <3>2 DEF Circulates
  <2> QED
    BY <2>1, NoNewInput
<1>4. OnlyPeersPredict'
  BY <1>2 DEF IInv, OnlyPeersPredict, Sound
<1>5. CanonicalBehindHost'
  <2>1. nextFrame[Host] \in Nat /\ nextFrame'[Host] \in Nat
    BY WindowAssumption, NodeAssumption DEF IInv, TypeInv, TypeOK
  <2>2. ASSUME NEW i \in Peers, NEW p \in Player, NEW f \in Frame, IsCanonical(i, p, f)'
        PROVE  f < nextFrame'[Host]
    <3>1. f < nextFrame[Host]
      BY <1>2, <2>2, BufferIsSound DEF IsCanonical, Peers, Sound
    <3> QED
      BY <2>1, <3>1, WindowAssumption DEF Frame
  <2>3. ASSUME NEW m \in network', NEW k \in DOMAIN m.records, m.records[k].canonical
        PROVE  k[2] < nextFrame'[Host]
    <3>1. k[2] < nextFrame[Host] /\ k[2] \in Nat
      BY <2>3, WindowAssumption DEF IInv, CanonicalBehindHost, TypeInv, TypeOK, Key, Frame
    <3> QED
      BY <2>1, <3>1
  <2> QED
    BY <2>2, <2>3 DEF CanonicalBehindHost
<1> QED
  BY <1>3, <1>4, <1>5

\* A frame keeps the invariant: the host makes inputs canonical only for the
\* frame it steps.
LEMMA IInvStepFrame ==
    ASSUME IInv, NEW n \in Node, StepFrame(n)
    PROVE  IInv'
<1> DEFINE f     == nextFrame[n]
           slots == BuildOrPredictFrameInputs(n, buffer[n], {f})
           kept  == [p \in Player |-> ClearBefore(slots[p], f + 1 - BufferedFrames)]
<1>1. TypeInv'
  BY StepFrameType DEF IInv
<1>2. f \in Frame /\ UNCHANGED <<nextLocal, network, rollback>>
  BY WindowAssumption DEF StepFrame, IInv, TypeInv, TypeOK, Frame
<1>3. HostNeverAsks'
  BY <1>2 DEF IInv, HostNeverAsks
<1>4. slots \in Slots /\ \A p \in Player, g \in Frame : Sound(n, p, g, slots[p][g])
  <2>1. buffer[n] \in Slots
    BY DEF IInv, TypeInv, TypeOK, Slots
  <2> QED
    BY <2>1, BuildType, BuildKeeps
<1>5. kept \in Slots /\ \A p \in Player, g \in Frame : Sound(n, p, g, kept[p][g])
  <2> HIDE DEF slots
  <2>1. ASSUME NEW p \in Player, NEW g \in Frame
        PROVE  kept[p][g] = NoRecord \/ kept[p][g] = slots[p][g]
    BY <1>4 DEF Slots, ClearBefore
  <2>2. kept \in Slots
    BY <1>4 DEF Slots, ClearBefore
  <2> HIDE DEF kept
  <2> QED
    BY <1>4, <2>1, <2>2 DEF Sound
<1>6. CASE ~CanBuild(n, buffer[n], f)
  <2>1. buffer' = [buffer EXCEPT ![n] = slots] /\ UNCHANGED <<game, nextFrame>>
    BY <1>6 DEF StepFrame
  <2> HIDE DEF slots
  <2>2. nextFrame'[Host] >= nextFrame[Host]
    BY <2>1, WindowAssumption, NodeAssumption DEF IInv, TypeInv, TypeOK
  <2>3. \A p \in Player, g \in Frame, x \in Input :
          g < nextFrame'[Host] /\ game'[Host][g][p] = x => Circulates(p, g, x)
    BY <2>1 DEF Circulates
  <2>4. HostStepped'
    BY <2>1 DEF IInv, HostStepped
  <2> QED
    BY <1>1, <1>2, <1>3, <1>4, <2>1, <2>2, <2>3, <2>4, KeepSlots DEF IInv
<1>7. CASE CanBuild(n, buffer[n], f)
  <2>1. /\ game' = [game EXCEPT ![n][f] = FrameInputs(slots, f)]
        /\ nextFrame' = [nextFrame EXCEPT ![n] = f + 1]
        /\ buffer' = [buffer EXCEPT ![n] = kept]
    BY <1>7 DEF StepFrame
  <2> HIDE DEF kept
  <2>2. nextFrame'[Host] >= nextFrame[Host]
    BY <2>1, WindowAssumption, NodeAssumption DEF IInv, TypeInv, TypeOK
  <2>3. ASSUME NEW p \in Player, NEW g \in Frame, NEW x \in Input,
               g < nextFrame'[Host], game'[Host][g][p] = x
        PROVE  Circulates(p, g, x)
    <3>1. CASE g < nextFrame[Host]
      <4>1. game'[Host][g] = game[Host][g]
        BY <1>2, <2>1, <3>1, NodeAssumption, WindowAssumption
        DEF IInv, TypeInv, TypeOK, GameLog, Frame
      <4> QED
        BY <2>3, <3>1, <4>1 DEF Circulates
    <3>2. CASE ~(g < nextFrame[Host])
      <4>1. n = Host /\ g = f
        BY <1>2, <2>1, <2>3, <3>2, NodeAssumption, WindowAssumption
        DEF IInv, TypeInv, TypeOK, Frame
      <4>2. game'[Host][g] = FrameInputs(slots, f)
        BY <1>2, <2>1, <4>1, NodeAssumption DEF IInv, TypeInv, TypeOK, GameLog
      <4>3. x = slots[p][f].input
        BY <2>3, <4>2 DEF FrameInputs
      <4>4. slots[p][f] # NoRecord
        <5>1. \A q \in Player : q <= p => Available(n, buffer[n], q, f)
          BY <1>7 DEF CanBuild
        <5>2. slots[p][f] = BuiltRecord(n, buffer[n], p, f)
          BY <1>2, <5>1 DEF BuildOrPredictFrameInputs
        <5>3. buffer[n] \in Slots
          BY DEF IInv, TypeInv, TypeOK, Slots
        <5> QED
          BY <1>2, <5>2, <5>3, BuiltRecordType, NoRecordAssumption
      <4> QED
        BY <1>2, <1>4, <4>1, <4>3, <4>4 DEF Sound
    <3> QED
      BY <3>1, <3>2
  <2>4. HostStepped'
    <3>1. FrameInputs(slots, f) \in InputVector
      <4>1. buffer[n] \in Slots
        BY DEF IInv, TypeInv, TypeOK, Slots
      <4> QED
        BY <1>2, <1>7, <4>1, BuildType
    <3> HIDE DEF slots
    <3>2. ASSUME NEW g \in Frame, g < nextFrame'[Host]
          PROVE  game'[Host][g] \in InputVector
      <4>1. CASE n # Host
        BY <2>1, <3>2, <4>1, NodeAssumption DEF IInv, HostStepped, TypeInv, TypeOK
      <4>2. CASE n = Host /\ g = f
        BY <1>2, <2>1, <3>1, <4>2, NodeAssumption DEF IInv, TypeInv, TypeOK, GameLog
      <4>3. CASE n = Host /\ g # f
        <5>1. g < nextFrame[Host]
          BY <1>2, <2>1, <3>2, <4>3, NodeAssumption, WindowAssumption
          DEF IInv, TypeInv, TypeOK, Frame
        <5>2. game'[Host][g] = game[Host][g]
          BY <1>2, <2>1, <4>3, NodeAssumption DEF IInv, TypeInv, TypeOK, GameLog
        <5> QED
          BY <5>1, <5>2 DEF IInv, HostStepped
      <4> QED
        BY <4>1, <4>2, <4>3
    <3> QED
      BY <3>2 DEF HostStepped
  <2> HIDE DEF f, slots
  <2> QED
    BY <1>1, <1>2, <1>3, <1>5, <2>1, <2>2, <2>3, <2>4, KeepSlots DEF IInv
<1> QED
  BY <1>6, <1>7

\* A rollback keeps it: only peers roll back, and what they rebuild is sound.
LEMMA IInvReplay ==
    ASSUME IInv, NEW n \in Node, ReplayRollbackWindow(n)
    PROVE  IInv'
<1> DEFINE slots == BuildOrPredictFrameInputs(n, buffer[n], rollback[n] .. (nextFrame[n] - 1))
<1>1. TypeInv'
  BY ReplayType DEF IInv
<1>2. n # Host
  BY DEF ReplayRollbackWindow, IInv, HostNeverAsks
<1>3. slots \in Slots /\ \A p \in Player, g \in Frame : Sound(n, p, g, slots[p][g])
  <2>1. buffer[n] \in Slots
    BY DEF IInv, TypeInv, TypeOK, Slots
  <2> QED
    BY <2>1, BuildType, BuildKeeps
<1>4. /\ buffer' = [buffer EXCEPT ![n] = slots]
      /\ UNCHANGED <<nextLocal, network>>
  BY DEF ReplayRollbackWindow
<1>5. /\ game'[Host] = game[Host] /\ nextFrame'[Host] = nextFrame[Host]
      /\ rollback'[Host] = rollback[Host]
  BY <1>2, NodeAssumption DEF ReplayRollbackWindow, IInv, TypeInv, TypeOK
<1>6. nextFrame'[Host] >= nextFrame[Host]
  BY <1>5, NodeAssumption, WindowAssumption DEF IInv, TypeInv, TypeOK
<1>7. \A p \in Player, g \in Frame, x \in Input :
        g < nextFrame'[Host] /\ game'[Host][g][p] = x => Circulates(p, g, x)
  BY <1>5 DEF Circulates
<1>8. (HostNeverAsks /\ HostStepped)'
  BY <1>5 DEF IInv, HostNeverAsks, HostStepped
<1> HIDE DEF slots
<1> QED
  BY <1>1, <1>3, <1>4, <1>6, <1>7, <1>8, KeepSlots DEF IInv

\* A packet keeps it: what it carries was already in some buffer.
LEMMA IInvHandle ==
    ASSUME IInv, NEW n \in Node, NEW m \in network, HandleInputFrameRecords(n, m)
    PROVE  IInv'
<1> DEFINE accepted == {k \in DOMAIN m.records : m.records[k].canonical = (n # Host)}
           wrong    == {k[2] : k \in {j \in accepted :
                          /\ Mismatch(buffer[n][j[1]][j[2]], m.records[j])
                          /\ j[2] < nextFrame[n]}}
           stored   == [p \in Player |-> [f \in Frame |->
                          IF <<p, f>> \in accepted
                            THEN Store(buffer[n][p][f], m.records[<<p, f>>])
                            ELSE buffer[n][p][f]]]
<1>1. TypeInv'
  BY HandleType DEF IInv
<1>2. /\ DOMAIN m.records \subseteq Key
      /\ \A k \in DOMAIN m.records : m.records[k] \in Record
  BY DEF IInv, TypeInv, TypeOK
<1>3. ASSUME NEW p \in Player, NEW f \in Frame, <<p, f>> \in accepted
      PROVE  Sound(n, p, f, m.records[<<p, f>>])
  <2>1. Circulates(p, f, m.records[<<p, f>>].input) /\ ~m.records[<<p, f>>].predicted
    BY <1>3 DEF Circulates, IInv, OnlyPeersPredict
  <2>2. m.records[<<p, f>>].canonical => f < nextFrame[Host]
    BY <1>3 DEF IInv, CanonicalBehindHost
  <2> QED
    BY <2>1, <2>2 DEF Sound
<1>4. ASSUME NEW p \in Player, NEW f \in Frame
      PROVE  stored[p][f] \in Slot /\ Sound(n, p, f, stored[p][f])
  <2>1. buffer[n][p][f] \in Slot
    BY DEF IInv, TypeInv, TypeOK
  <2>2. CASE <<p, f>> \in accepted
    <3>1. m.records[<<p, f>>] \in Record
      BY <1>2, <2>2
    <3>2. stored[p][f] = Store(buffer[n][p][f], m.records[<<p, f>>])
      BY <2>2
    <3> HIDE DEF accepted, stored
    <3>3. stored[p][f] \in {m.records[<<p, f>>], buffer[n][p][f]} /\ stored[p][f] \in Slot
      BY <2>1, <3>1, <3>2, StoreResult
    <3> QED
      BY <1>3, <2>2, <3>3, BufferIsSound
  <2>3. CASE <<p, f>> \notin accepted
    BY <2>1, <2>3, BufferIsSound
  <2> QED
    BY <2>2, <2>3
<1>5. stored \in Slots
  BY <1>4 DEF Slots
<1>6. /\ buffer' = [buffer EXCEPT ![n] = stored]
      /\ rollback' = [rollback EXCEPT ![n] = RequestRollbackFromFrame(rollback[n], wrong)]
      /\ UNCHANGED <<nextFrame, nextLocal, game, network>>
  BY DEF HandleInputFrameRecords
<1>7. HostNeverAsks'
  <2>1. CASE n # Host
    BY <1>6, <2>1, NodeAssumption DEF IInv, HostNeverAsks, TypeInv, TypeOK
  <2>2. CASE n = Host
    <3>1. ASSUME NEW k \in accepted
          PROVE  ~Mismatch(buffer[n][k[1]][k[2]], m.records[k])
      <4>1. PICK p \in Player, f \in Frame : k = <<p, f>>
        BY <1>2 DEF Key
      <4>2. CASE buffer[n][p][f] = NoRecord
        BY <4>1, <4>2 DEF Mismatch
      <4>3. CASE buffer[n][p][f] # NoRecord
        <5>1. Circulates(p, f, buffer[n][p][f].input)
          BY <2>2, <4>3, BufferIsSound DEF Sound
        <5>2. Circulates(p, f, m.records[k].input)
          BY <4>1 DEF Circulates
        <5>3. buffer[n][p][f].input \in Input /\ m.records[k].input \in Input
          BY <1>2, <4>3 DEF IInv, TypeInv, TypeOK, Record
        <5>4. buffer[n][p][f].input = m.records[k].input
          BY <5>1, <5>2, <5>3 DEF IInv, OneInputPerFrame
        <5> QED
          BY <4>1, <5>4 DEF Mismatch
      <4> QED
        BY <4>2, <4>3
    <3>2. wrong = {}
      BY <3>1
    <3> HIDE DEF wrong
    <3>3. RequestRollbackFromFrame(rollback[n], wrong) = NoFrame
      BY <2>2, <3>2 DEF RequestRollbackFromFrame, IInv, HostNeverAsks
    <3> QED
      BY <1>6, <2>2, <3>3 DEF IInv, HostNeverAsks, TypeInv, TypeOK
  <2> QED
    BY <2>1, <2>2
<1>8. nextFrame'[Host] >= nextFrame[Host]
  BY <1>6, NodeAssumption, WindowAssumption DEF IInv, TypeInv, TypeOK
<1>9. \A p \in Player, g \in Frame, x \in Input :
        g < nextFrame'[Host] /\ game'[Host][g][p] = x => Circulates(p, g, x)
  BY <1>6 DEF Circulates
<1>10. HostStepped'
  BY <1>6 DEF IInv, HostStepped
<1> HIDE DEF stored, wrong
<1> QED
  BY <1>1, <1>4, <1>5, <1>6, <1>7, <1>8, <1>9, <1>10, KeepSlots DEF IInv

\* The only step that brings a new input into circulation, and it does so for
\* frames that had none.
LEMMA IInvMaintain ==
    ASSUME IInv, NEW n \in Node, NEW sample \in Samples(n),
           MaintainInputLockstepTransport(n, sample)
    PROVE  IInv'
<1> DEFINE slots == Queued(n, sample)
           local == LocalFrameAfterQueue(n)
           keys  == RecordsToSend(n, slots, nextFrame[n], local)
           New(p, f, x) == /\ Owner[p] = n /\ x = sample[p]
                           /\ nextLocal[n] <= f /\ f <= nextFrame[n] + InputDelay
<1>1. TypeInv'
  BY MaintainType DEF IInv
<1>2. /\ buffer' = [buffer EXCEPT ![n] = slots]
      /\ nextLocal' = [nextLocal EXCEPT ![n] = local]
      /\ network' \subseteq network \cup
            {[src |-> n, dst |-> d, records |-> r] :
                d \in Destinations(n), r \in Packetize(slots, keys)}
      /\ UNCHANGED <<nextFrame, rollback, game>>
  BY DEF MaintainInputLockstepTransport, InFlight
<1>3. slots \in Slots
  BY QueuedType DEF IInv, Samples
<1>4. ASSUME NEW p \in Player, NEW f \in Frame, slots[p][f] # NoRecord
      PROVE  /\ ~slots[p][f].predicted =>
                  Circulates(p, f, slots[p][f].input) \/ New(p, f, slots[p][f].input)
             /\ slots[p][f].predicted => n # Host /\ Owner[p] # n /\ ~slots[p][f].canonical
             /\ n # Host /\ slots[p][f].canonical => f < nextFrame[Host]
  <2>1. Sound(n, p, f, buffer[n][p][f])
    BY BufferIsSound
  <2>2. slots[p][f] = IF p \in LocalPlayers(n) /\ f \in nextLocal[n] .. (nextFrame[n] + InputDelay)
                        THEN Store(buffer[n][p][f], OwnerRecord(f + 1, sample[p]))
                        ELSE buffer[n][p][f]
    BY DEF Queued
  <2> HIDE DEF slots
  <2>3. CASE slots[p][f] = buffer[n][p][f]
    BY <1>4, <2>1, <2>3 DEF Sound
  <2>4. CASE slots[p][f] # buffer[n][p][f]
    <3>1. /\ p \in LocalPlayers(n) /\ f \in nextLocal[n] .. (nextFrame[n] + InputDelay)
          /\ slots[p][f] = OwnerRecord(f + 1, sample[p])
      BY <2>2, <2>4 DEF Store
    <3>2. New(p, f, sample[p])
      BY <3>1, WindowAssumption DEF LocalPlayers, IInv, TypeInv, TypeOK, Frame
    <3> QED
      BY <3>1, <3>2 DEF OwnerRecord
  <2> QED
    BY <2>3, <2>4
<1>5. ASSUME NEW m \in network', m \notin network, NEW k \in DOMAIN m.records
      PROVE  /\ k \in Key /\ slots[k[1]][k[2]] # NoRecord
             /\ ~slots[k[1]][k[2]].predicted
             /\ m.records[k].input = slots[k[1]][k[2]].input
             /\ ~m.records[k].predicted
             /\ m.records[k].canonical => k[2] < nextFrame[Host]
  <2> HIDE DEF slots, keys, local
  <2>1. PICK d \in Destinations(n), r \in Packetize(slots, keys) :
          m = [src |-> n, dst |-> d, records |-> r]
    BY <1>2, <1>5
  <2>2. m.records = r
    BY <2>1
  <2>3. /\ k \in keys /\ k \in Key /\ slots[k[1]][k[2]] \in Record
        /\ r[k] = OnTheWire(slots[k[1]][k[2]])
    BY <1>3, <1>5, <2>2, SentRecords DEF keys
  <2>4. /\ r[k].input = slots[k[1]][k[2]].input /\ ~r[k].predicted
        /\ r[k].canonical = slots[k[1]][k[2]].canonical
    BY <2>3 DEF OnTheWire, Record
  <2>5. k[1] \in Player /\ k[2] \in Frame /\ slots[k[1]][k[2]] # NoRecord
    BY <2>3, NoRecordAssumption DEF Key
  <2>6. /\ n = Host => k[2] <= nextFrame[Host] - 1
        /\ n # Host => k[1] \in LocalPlayers(n)
    BY <2>3 DEF keys, RecordsToSend, CollectRecords
  <2>7. ~slots[k[1]][k[2]].predicted
    BY <1>4, <2>5, <2>6 DEF LocalPlayers
  <2>8. slots[k[1]][k[2]].canonical => k[2] < nextFrame[Host]
    BY <1>4, <2>5, <2>6, NodeAssumption, WindowAssumption DEF IInv, TypeInv, TypeOK, Frame
  <2> QED
    BY <2>2, <2>3, <2>4, <2>5, <2>7, <2>8
<1> HIDE DEF slots, keys
<1>6. buffer'[n] = slots /\ \A i \in Node : i # n => buffer'[i] = buffer[i]
  BY <1>2, <1>3 DEF IInv, TypeInv, TypeOK, Slots
<1>7. ASSUME NEW p \in Player, NEW f \in Frame, NEW x \in Input, Circulates(p, f, x)'
      PROVE  Circulates(p, f, x) \/ New(p, f, x)
  <2> HIDE DEF New
  <2>1. CASE \E i \in Node : /\ buffer'[i][p][f] # NoRecord
                             /\ ~buffer'[i][p][f].predicted
                             /\ buffer'[i][p][f].input = x
    BY <1>4, <1>6, <2>1, BufferIsSound DEF Sound
  <2>2. CASE \E m \in network' : <<p, f>> \in DOMAIN m.records /\ m.records[<<p, f>>].input = x
    <3>1. PICK m \in network' : <<p, f>> \in DOMAIN m.records /\ m.records[<<p, f>>].input = x
      BY <2>2
    <3>2. CASE m \in network
      BY <3>1, <3>2 DEF Circulates
    <3>3. CASE m \notin network
      BY <1>4, <1>5, <3>1, <3>3
    <3> QED
      BY <3>2, <3>3
  <2>3. CASE f < nextFrame'[Host] /\ game'[Host][f][p] = x
    BY <1>2, <2>3 DEF Circulates
  <2> QED
    BY <1>7, <2>1, <2>2, <2>3 DEF Circulates
<1>8. ASSUME NEW p \in Player, NEW f \in Frame, NEW x \in Input, New(p, f, x)
      PROVE  \A y \in Input : ~Circulates(p, f, y)
  BY <1>8, WindowAssumption DEF IInv, QueuedFirst, TypeInv, TypeOK, Frame
<1>9. OneInputPerFrame'
  BY <1>7, <1>8 DEF IInv, OneInputPerFrame
<1>10. QueuedFirst'
  <2>1. ASSUME NEW p \in Player, NEW f \in Frame, NEW x \in Input, Circulates(p, f, x)'
        PROVE  f < nextLocal'[Owner[p]]
    <3>1. Owner[p] \in Node /\ nextLocal[n] \in Nat /\ nextLocal[Owner[p]] \in Nat
          /\ nextFrame[n] \in Nat /\ f \in Nat
      BY PlayerAssumption, WindowAssumption DEF IInv, TypeInv, TypeOK, Frame
    <3>2. local >= nextLocal[n] /\ local > nextFrame[n] + InputDelay
      BY <3>1, WindowAssumption DEF LocalFrameAfterQueue
    <3>3. nextLocal'[Owner[p]] = IF Owner[p] = n THEN local ELSE nextLocal[Owner[p]]
      BY <1>2, <3>1 DEF IInv, TypeInv, TypeOK
    <3>4. local \in Nat
      BY <3>1, WindowAssumption DEF LocalFrameAfterQueue
    <3> HIDE DEF local
    <3>5. CASE Circulates(p, f, x)
      <4>1. f < nextLocal[Owner[p]]
        BY <3>5 DEF IInv, QueuedFirst
      <4> QED
        BY <3>1, <3>2, <3>3, <3>4, <4>1
    <3>6. CASE New(p, f, x)
      BY <3>1, <3>2, <3>3, <3>4, <3>6, WindowAssumption
    <3> QED
      BY <1>7, <2>1, <3>5, <3>6
  <2> QED
    BY <2>1 DEF QueuedFirst
<1>11. OnlyPeersPredict'
  <2>1. ASSUME NEW i \in Node, NEW p \in Player, NEW f \in Frame,
               buffer'[i][p][f] # NoRecord, buffer'[i][p][f].predicted
        PROVE  i # Host /\ Owner[p] # i /\ ~buffer'[i][p][f].canonical
    BY <1>4, <1>6, <2>1 DEF IInv, OnlyPeersPredict
  <2>2. ASSUME NEW m \in network', NEW k \in DOMAIN m.records
        PROVE  ~m.records[k].predicted
    BY <1>5, <2>2 DEF IInv, OnlyPeersPredict
  <2> QED
    BY <2>1, <2>2 DEF OnlyPeersPredict
<1>12. CanonicalBehindHost'
  <2>1. ASSUME NEW i \in Peers, NEW p \in Player, NEW f \in Frame, IsCanonical(i, p, f)'
        PROVE  f < nextFrame'[Host]
    BY <1>2, <1>4, <1>6, <2>1 DEF IInv, CanonicalBehindHost, IsCanonical, Peers
  <2>2. ASSUME NEW m \in network', NEW k \in DOMAIN m.records, m.records[k].canonical
        PROVE  k[2] < nextFrame'[Host]
    BY <1>2, <1>5, <2>2 DEF IInv, CanonicalBehindHost
  <2> QED
    BY <2>1, <2>2 DEF CanonicalBehindHost
<1>13. (HostNeverAsks /\ HostStepped)'
  BY <1>2 DEF IInv, HostNeverAsks, HostStepped
<1> QED
  BY <1>1, <1>9, <1>10, <1>11, <1>12, <1>13 DEF IInv

\* Every step keeps the inductive invariant.
LEMMA NextIInv == IInv /\ [Next]_vars => IInv'
  BY IInvMaintain, IInvHandle, IInvStepFrame, IInvReplay, IInvOtherSteps
  DEF Next, PrepareInputLockstepFrame, Maintain

\* The inductive invariant holds always.
LEMMA IInvInvariant == Spec => []IInv
  BY InitIInv, NextIInv, PTL DEF Spec

\* A player has one input per frame, for any delay, window, history and
\* packet size, and whatever the network loses, repeats or reorders.
THEOREM OneInput == Spec => []OneInputPerFrame
  BY IInvInvariant, PTL DEF IInv

\* No two processes hold different canonical inputs, and a canonical input of
\* a frame the host has stepped is the one it was stepped with.
THEOREM Agreement == Spec => []CanonicalAgreement
<1>1. IInv => CanonicalAgreement
  <2> SUFFICES ASSUME IInv, NEW n \in Node, NEW p \in Player, NEW f \in Frame,
                      IsCanonical(n, p, f)
               PROVE  /\ n # Host => f < nextFrame[Host]
                      /\ f < nextFrame[Host] => buffer[n][p][f].input = game[Host][f][p]
    BY DEF CanonicalAgreement
  <2>1. n # Host => f < nextFrame[Host]
    BY DEF IInv, CanonicalBehindHost, Peers
  <2>2. ASSUME f < nextFrame[Host]
        PROVE  buffer[n][p][f].input = game[Host][f][p]
    <3>1. buffer[n][p][f] # NoRecord /\ ~buffer[n][p][f].predicted
      BY DEF IsCanonical, IInv, OnlyPeersPredict
    <3>2. Circulates(p, f, buffer[n][p][f].input)
      BY <3>1 DEF Circulates
    <3>3. Circulates(p, f, game[Host][f][p])
      BY <2>2 DEF Circulates
    <3>4. buffer[n][p][f].input \in Input
      BY <3>1 DEF IInv, TypeInv, TypeOK, Record
    <3>5. game[Host][f][p] \in Input
      BY <2>2 DEF IInv, HostStepped, InputVector
    <3> QED
      BY <3>2, <3>3, <3>4, <3>5 DEF IInv, OneInputPerFrame
  <2> QED
    BY <2>1, <2>2
<1> QED
  BY <1>1, IInvInvariant, PTL

\* The host simulates each frame once: its steps never change a frame it has
\* left, so nothing it sends as canonical is ever taken back.
THEOREM HostFinality == Spec => HostNeverRewrites
<1> DEFINE Kept == \A f \in Frame : f < nextFrame[Host] => game'[Host][f] = game[Host][f]
<1>1. IInv /\ [Next]_vars => [Kept]_vars
  <2> SUFFICES ASSUME IInv, Next PROVE Kept
    OBVIOUS
  <2>1. CASE UNCHANGED game
    BY <2>1
  <2>2. ASSUME NEW n \in Node, StepFrame(n) PROVE Kept
    <3>1. game' = game \/ \E v : game' = [game EXCEPT ![n][nextFrame[n]] = v]
      BY <2>2 DEF StepFrame
    <3>2. ASSUME NEW f \in Frame, f < nextFrame[Host] PROVE game'[Host][f] = game[Host][f]
      <4>1. n = Host => f # nextFrame[n]
        BY <3>2, NodeAssumption, WindowAssumption DEF IInv, TypeInv, TypeOK, Frame
      <4>2. game \in [Node -> GameLog] /\ game[Host] \in GameLog
        BY NodeAssumption DEF IInv, TypeInv, TypeOK
      <4>3. ASSUME NEW v, game' = [game EXCEPT ![n][nextFrame[n]] = v]
            PROVE  game'[Host][f] = game[Host][f]
        <5>1. CASE n # Host
          BY <4>2, <4>3, <5>1, NodeAssumption
        <5>2. CASE n = Host
          <6>1. game'[Host] = [game[Host] EXCEPT ![nextFrame[n]] = v]
            BY <4>2, <4>3, <5>2, NodeAssumption
          <6> QED
            BY <4>1, <4>2, <5>2, <6>1 DEF GameLog
        <5> QED
          BY <5>1, <5>2
      <4> QED
        BY <3>1, <4>3
    <3> QED
      BY <3>2
  <2>3. ASSUME NEW n \in Node, ReplayRollbackWindow(n) PROVE Kept
    BY <2>3, NodeAssumption DEF ReplayRollbackWindow, IInv, HostNeverAsks, TypeInv, TypeOK
  <2>4. ASSUME NEW n \in Node,
               \/ Maintain(n) \/ ModeDoesNotAdvance(n)
               \/ WaitForRemoteInputs(n) \/ RollbackSnapshotMissing(n)
        PROVE  UNCHANGED game
    BY <2>4 DEF Maintain, MaintainInputLockstepTransport, ModeDoesNotAdvance,
                WaitForRemoteInputs, RollbackSnapshotMissing
  <2>5. ASSUME NEW m \in network, NEW n \in Node, HandleInputFrameRecords(n, m)
        PROVE  UNCHANGED game
    BY <2>5 DEF HandleInputFrameRecords
  <2> HIDE DEF Kept
  <2> QED
    BY <2>1, <2>2, <2>3, <2>4, <2>5 DEF Next, PrepareInputLockstepFrame
<1>2. Spec => [][Kept]_vars
  BY <1>1, IInvInvariant, PTL DEF Spec
<1> QED
  BY <1>2 DEF HostNeverRewrites

(***************************************************************************)
(* Prediction and rollback: what a peer predicted wrongly it rolls back    *)
(* from an exact snapshot, and what leaves its window agrees with the      *)
(* host.  This needs no bound on delay, window, history, packet size or    *)
(* loss, but one fact about the canonical inputs a peer holds:             *)
(* HeardWithoutGaps.                                                       *)
(***************************************************************************)

\* Every peer has a remote player, whose inputs bound how far it predicts.
SomebodyElsePlays == \A n \in Peers : \E p \in Player : p \notin LocalPlayers(n)

\* A peer that holds the canonical input of a frame holds those of every
\* earlier frame still buffered.  A batch split over packets that are lost or
\* overtaken one by one can break it.
HeardWithoutGaps ==
    \A n \in Peers, p, q \in Player, f, g \in Frame :
        (IsCanonical(n, p, f) /\ g <= f /\ nextFrame[n] - BufferedFrames <= g)
        => IsCanonical(n, q, g)

-----------------------------------------------------------------------------
(* The inductive invariant.                                                *)

\* What a peer knows of a remote player is a guess or canonical.
RemoteRecordsAreCanonical(n) ==
    \A p \in Player, f \in Frame :
        (Owner[p] # n /\ buffer[n][p][f] # NoRecord /\ ~buffer[n][p][f].predicted)
        => IsCanonical(n, p, f)

\* The buffer has the inputs of every stepped frame of the window.
WindowIsHeld(n) ==
    \A p \in Player, f \in Frame :
        (nextFrame[n] - BufferedFrames <= f /\ f < nextFrame[n])
        => buffer[n][p][f] # NoRecord

\* Behind the window no guess is left.
OldRecordsAreConfirmed(n) ==
    \A p \in Player, f \in Frame :
        (f < nextFrame[n] - BufferedFrames /\ buffer[n][p][f] # NoRecord)
        => ~buffer[n][p][f].predicted

\* The frames a rollback cannot reach any more are canonical before they
\* leave the buffer.
HeardBehindWindow(n) ==
    nextFrame[n] > 0 =>
        \A p \in Player, f \in Frame :
            (/\ nextFrame[n] - BufferedFrames <= f
             /\ f < nextFrame[n] + InputDelay - MaxRollback)
            => IsCanonical(n, p, f)

\* Every frame of the rollback window has an exact snapshot.
SnapshotsAreExact(n) ==
    \A f \in Frame :
        (nextFrame[n] - (MaxRollback + KeepSlack) <= f /\ f < nextFrame[n])
        => snapshots[n][f] = StateBefore(game[n], f)

\* Nothing is applied to frames not reached.
NotYetStepped(n) == \A f \in Frame : nextFrame[n] <= f => game[n][f] = NotStepped

\* Every frame left was stepped with an input of every player.
AppliedSoFar(n) == \A f \in Frame : f < nextFrame[n] => game[n][f] \in InputVector

\* A rollback is requested within the window only.
RollbackInWindow(n) ==
    rollback[n] # NoFrame => nextFrame[n] - (MaxRollback + KeepSlack) <= rollback[n]

\* WrongInputIsRolledBack for one node.
WrongIsPending(n) ==
    \A p \in Player, f \in Frame :
        (/\ f < nextFrame[n]
         /\ buffer[n][p][f] # NoRecord
         /\ game[n][f][p] # buffer[n][p][f].input)
        => rollback[n] # NoFrame /\ rollback[n] <= f

\* DroppedFramesAgree for one node.
DroppedAgree(n) ==
    \A f \in Frame :
        f < nextFrame[n] - BufferedFrames =>
            f < nextFrame[Host] /\ game[n][f] = game[Host][f]

\* All of it, for one peer.
PeerInv(n) ==
    /\ RemoteRecordsAreCanonical(n)
    /\ WindowIsHeld(n)
    /\ OldRecordsAreConfirmed(n)
    /\ HeardBehindWindow(n)
    /\ SnapshotsAreExact(n)
    /\ NotYetStepped(n)
    /\ AppliedSoFar(n)
    /\ RollbackInWindow(n)
    /\ WrongIsPending(n)
    /\ DroppedAgree(n)

\* The host keeps what it made canonical for a window.
HostKeepsCanonical ==
    \A p \in Player, f \in Frame :
        (nextFrame[Host] - BufferedFrames <= f /\ f < nextFrame[Host])
        => IsCanonical(Host, p, f)

\* The host has its own players' inputs up to the delay ahead.
HostHasItsOwn ==
    \A p \in LocalPlayers(Host), f \in Frame :
        (nextFrame[Host] <= f /\ f < nextLocal[Host]) => buffer[Host][p][f] # NoRecord

\* Nobody queues inputs further ahead than the delay.
QueuedToTheDelay == \A n \in Node : nextLocal[n] <= nextFrame[n] + InputDelay + 1

\* A node that goes on stepping after a replay has no rollback left, and is
\* still not too far ahead.
StepsAfterReplay ==
    \A n \in Node : At(n, "step") =>
        rollback[n] = NoFrame /\ CanStepWithoutRunningAheadOfRemoteInputs(n)

RInv ==
    /\ \A n \in Peers : PeerInv(n)
    /\ HostKeepsCanonical
    /\ HostHasItsOwn
    /\ QueuedToTheDelay
    /\ StepsAfterReplay
    /\ WithinWindow

-----------------------------------------------------------------------------
(* Facts used everywhere.                                                  *)

\* The constants' ranges.
LEMMA Sizes ==
    /\ InputDelay \in Nat /\ MaxRollback \in Nat /\ KeepSlack \in Nat /\ InputHistory \in Nat
    /\ MaxFrame \in Nat
    /\ BufferedFrames \in Nat /\ BufferedFrames >= MaxRollback + KeepSlack
    /\ BufferedFrames >= InputHistory
    /\ \A f \in Frame : f \in Nat /\ f <= MaxFrame + InputDelay
    /\ NoFrame \notin Frame /\ NoFrame \in Int
  BY WindowAssumption DEF BufferedFrames, Frame, NoFrame

\* The types of one node's state.
LEMMA Ranges ==
    ASSUME IInv, NEW n \in Node
    PROVE  /\ nextFrame[n] \in Nat /\ nextFrame[n] <= MaxFrame /\ nextFrame[n] \in Frame
           /\ nextLocal[n] \in Nat
           /\ buffer[n] \in Slots
           /\ snapshots[n] \in [Frame -> GameLog \cup {NoSnapshot}]
           /\ game[n] \in GameLog
           /\ rollback[n] \in Frame \cup {NoFrame}
           /\ rollback[n] # NoFrame => rollback[n] < nextFrame[n]
<1>1. TypeOK /\ RollbackBehind
  BY DEF IInv, TypeInv
<1>2. nextFrame[n] \in 0 .. MaxFrame /\ nextLocal[n] \in 0 .. (MaxFrame + InputDelay + 1)
  BY <1>1 DEF TypeOK
<1>3. /\ nextFrame[n] \in Nat /\ nextFrame[n] <= MaxFrame /\ nextFrame[n] \in Frame
      /\ nextLocal[n] \in Nat
  BY <1>2, WindowAssumption DEF Frame
<1>4. buffer[n] \in Slots
  BY <1>1 DEF TypeOK, Slots, Slot
<1>5. /\ snapshots[n] \in [Frame -> GameLog \cup {NoSnapshot}]
      /\ game[n] \in GameLog /\ rollback[n] \in Frame \cup {NoFrame}
  BY <1>1 DEF TypeOK
<1> QED
  BY <1>1, <1>3, <1>4, <1>5 DEF RollbackBehind

\* A record that is not a guess carries the one input of its player and frame.
LEMMA HeldInput ==
    ASSUME IInv, NEW n \in Node, NEW p \in Player, NEW f \in Frame,
           buffer[n][p][f] # NoRecord, ~buffer[n][p][f].predicted
    PROVE  /\ buffer[n][p][f].input \in Input
           /\ Circulates(p, f, buffer[n][p][f].input)
           /\ \A x \in Input : Circulates(p, f, x) => x = buffer[n][p][f].input
           /\ f < nextLocal[Owner[p]]
<1>1. buffer[n][p][f].input \in Input
  BY DEF IInv, TypeInv, TypeOK, Record
<1>2. Circulates(p, f, buffer[n][p][f].input)
  BY DEF Circulates
<1> QED
  BY <1>1, <1>2 DEF IInv, OneInputPerFrame, QueuedFirst

\* So does what the host has stepped.
LEMMA HostInput ==
    ASSUME IInv, NEW p \in Player, NEW f \in Frame, f < nextFrame[Host]
    PROVE  /\ game[Host][f][p] \in Input
           /\ Circulates(p, f, game[Host][f][p])
           /\ \A x \in Input : Circulates(p, f, x) => x = game[Host][f][p]
           /\ f < nextLocal[Owner[p]]
<1>1. game[Host][f][p] \in Input
  BY DEF IInv, HostStepped, InputVector
<1>2. Circulates(p, f, game[Host][f][p])
  BY DEF Circulates
<1> QED
  BY <1>1, <1>2 DEF IInv, OneInputPerFrame, QueuedFirst

\* A canonical record is not a guess, and a peer's is of a frame the host has
\* stepped with that input.
LEMMA CanonicalInput ==
    ASSUME IInv, NEW n \in Node, NEW p \in Player, NEW f \in Frame, IsCanonical(n, p, f)
    PROVE  /\ buffer[n][p][f] # NoRecord /\ ~buffer[n][p][f].predicted
           /\ n # Host => f < nextFrame[Host]
           /\ f < nextFrame[Host] => buffer[n][p][f].input = game[Host][f][p]
<1>1. buffer[n][p][f] # NoRecord /\ ~buffer[n][p][f].predicted
  BY DEF IsCanonical, IInv, OnlyPeersPredict
<1>2. n # Host => f < nextFrame[Host]
  BY DEF IInv, CanonicalBehindHost, Peers
<1>3. f < nextFrame[Host] => buffer[n][p][f].input = game[Host][f][p]
  BY <1>1, HeldInput, HostInput
<1> QED
  BY <1>1, <1>2, <1>3

\* A peer's own records are never guesses.
LEMMA OwnRecord ==
    ASSUME IInv, NEW n \in Node, NEW p \in Player, NEW f \in Frame,
           Owner[p] = n \/ n = Host, buffer[n][p][f] # NoRecord
    PROVE  ~buffer[n][p][f].predicted
  BY DEF IInv, OnlyPeersPredict
-----------------------------------------------------------------------------
(* Steps.  What a step of node n leaves of another peer i.                 *)

\* The simulation and the window of a node that takes no part in a step stay.
LEMMA Untouched ==
    ASSUME IInv, NEW i \in Peers, PeerInv(i),
           buffer'[i] = buffer[i], nextFrame'[i] = nextFrame[i], game'[i] = game[i],
           snapshots'[i] = snapshots[i], rollback'[i] = rollback[i],
           nextFrame[Host] <= nextFrame'[Host], nextFrame'[Host] \in Nat,
           \A f \in Frame : f < nextFrame[Host] => game'[Host][f] = game[Host][f]
    PROVE  PeerInv(i)'
<1>1. /\ RemoteRecordsAreCanonical(i)' /\ WindowIsHeld(i)' /\ OldRecordsAreConfirmed(i)'
      /\ HeardBehindWindow(i)'
  BY DEF PeerInv, RemoteRecordsAreCanonical, WindowIsHeld, OldRecordsAreConfirmed,
         HeardBehindWindow, IsCanonical
<1>2. /\ SnapshotsAreExact(i)' /\ NotYetStepped(i)' /\ AppliedSoFar(i)'
      /\ RollbackInWindow(i)' /\ WrongIsPending(i)'
  BY DEF PeerInv, SnapshotsAreExact, NotYetStepped, AppliedSoFar, RollbackInWindow,
         WrongIsPending, StateBefore
<1>3. DroppedAgree(i)'
  <2>1. ASSUME NEW f \in Frame, f < nextFrame[i] - BufferedFrames
        PROVE  f < nextFrame'[Host] /\ game'[i][f] = game'[Host][f]
    <3>1. f < nextFrame[Host] /\ game[i][f] = game[Host][f]
      BY <2>1 DEF PeerInv, DroppedAgree
    <3>2. nextFrame[Host] \in Nat /\ f \in Nat
      BY NodeAssumption, Ranges, Sizes
    <3> QED
      BY <3>1, <3>2
  <2> QED
    BY <2>1 DEF DroppedAgree
<1> QED
  BY <1>1, <1>2, <1>3 DEF PeerInv

\* Queueing fills empty slots of frames not queued before, and no other.
LEMMA QueueFills ==
    ASSUME IInv, NEW n \in Node, NEW sample \in Samples(n), NEW p \in Player, NEW f \in Frame
    PROVE  \/ Queued(n, sample)[p][f] = buffer[n][p][f]
           \/ /\ p \in LocalPlayers(n) /\ nextLocal[n] <= f
              /\ buffer[n][p][f] = NoRecord
              /\ Queued(n, sample)[p][f] = OwnerRecord(f + 1, sample[p])
<1>1. Queued(n, sample)[p][f] =
        IF p \in LocalPlayers(n) /\ f \in nextLocal[n] .. (nextFrame[n] + InputDelay)
          THEN Store(buffer[n][p][f], OwnerRecord(f + 1, sample[p])) ELSE buffer[n][p][f]
  BY DEF Queued
<1>2. CASE p \in LocalPlayers(n) /\ f \in nextLocal[n] .. (nextFrame[n] + InputDelay)
  <2>1. nextLocal[n] \in Nat /\ f \in Nat /\ nextLocal[n] <= f /\ Owner[p] = n
    BY <1>2, Ranges, Sizes DEF LocalPlayers
  <2>2. buffer[n][p][f] = NoRecord
    BY <2>1, OwnRecord, HeldInput
  <2>3. Store(buffer[n][p][f], OwnerRecord(f + 1, sample[p])) = OwnerRecord(f + 1, sample[p])
    BY <2>2 DEF Store, Replaces
  <2> QED
    BY <1>1, <1>2, <2>1, <2>2, <2>3
<1>3. CASE ~(p \in LocalPlayers(n) /\ f \in nextLocal[n] .. (nextFrame[n] + InputDelay))
  BY <1>1, <1>3
<1> QED
  BY <1>2, <1>3

\* The frames for which a packet corrects an input the node has stepped with.
Corrected(n, m) ==
    {k[2] : k \in {j \in {k \in DOMAIN m.records : m.records[k].canonical = (n # Host)} :
        /\ Mismatch(buffer[n][j[1]][j[2]], m.records[j])
        /\ j[2] < nextFrame[n]}}

\* The frame to roll back to afterwards: the earliest one asked for.
LEMMA EarliestAsked ==
    ASSUME IInv, NEW n \in Node, NEW m \in network, HandleInputFrameRecords(n, m)
    PROVE  /\ \A f \in Corrected(n, m) : rollback'[n] # NoFrame /\ rollback'[n] <= f
           /\ rollback[n] # NoFrame =>
                 rollback'[n] # NoFrame /\ rollback'[n] <= rollback[n]
           /\ rollback'[n] \in Corrected(n, m) \cup {rollback[n]}
           /\ \A i \in Node : i # n => rollback'[i] = rollback[i]
<1> DEFINE wrong == Corrected(n, m)
           asked == IF rollback[n] = NoFrame THEN wrong ELSE wrong \cup {rollback[n]}
<1>1. rollback' = [rollback EXCEPT ![n] = RequestRollbackFromFrame(rollback[n], wrong)]
  BY DEF HandleInputFrameRecords, Corrected
<1>2. rollback \in [Node -> Frame \cup {NoFrame}]
  BY DEF IInv, TypeInv, TypeOK
<1>3. DOMAIN m.records \subseteq Key
  BY DEF IInv, TypeInv, TypeOK
<1>4. wrong \subseteq Frame
  BY <1>3 DEF Corrected, Key
<1> HIDE DEF wrong
<1>5. asked \subseteq Frame /\ asked \subseteq Nat
  BY <1>2, <1>4, Sizes
<1>6. rollback'[n] = IF asked = {} THEN NoFrame ELSE Min(asked)
  BY <1>1, <1>2 DEF RequestRollbackFromFrame
<1>7. asked # {} => Min(asked) \in asked /\ \A f \in asked : Min(asked) <= f
  <2> HIDE DEF asked
  <2> QED
    BY <1>5, MinOfNaturals
<1>8. \A f \in asked : rollback'[n] # NoFrame /\ rollback'[n] <= f
  <2> HIDE DEF asked
  <2> QED
    BY <1>5, <1>6, <1>7, Sizes
<1>9. rollback'[n] \in wrong \cup {rollback[n]}
  BY <1>6, <1>7
<1>10. \A i \in Node : i # n => rollback'[i] = rollback[i]
  BY <1>1, <1>2
<1> QED
  BY <1>8, <1>9, <1>10 DEF wrong

\* What a packet does to a slot: it may put there a record of the packet, but
\* a record is never lost, a canonical one stays canonical, and only a guess
\* changes its input, which counts as corrected.
LEMMA HandleStores ==
    ASSUME IInv, NEW n \in Node, NEW m \in network, HandleInputFrameRecords(n, m),
           NEW p \in Player, NEW f \in Frame
    PROVE  /\ buffer[n][p][f] # NoRecord => buffer'[n][p][f] # NoRecord
           /\ IsCanonical(n, p, f) => IsCanonical(n, p, f)'
           /\ buffer'[n][p][f] # buffer[n][p][f] =>
                 /\ buffer'[n][p][f] # NoRecord /\ ~buffer'[n][p][f].predicted
                 /\ n # Host => IsCanonical(n, p, f)'
                 /\ Circulates(p, f, buffer'[n][p][f].input)
                 /\ buffer'[n][p][f].input \in Input
           /\ (/\ buffer[n][p][f] # NoRecord
               /\ buffer'[n][p][f].input # buffer[n][p][f].input)
              => /\ buffer[n][p][f].predicted
                 /\ f < nextFrame[n] => f \in Corrected(n, m)
<1> DEFINE accepted == {k \in DOMAIN m.records : m.records[k].canonical = (n # Host)}
           new == m.records[<<p, f>>]
           old == buffer[n][p][f]
           now == buffer'[n][p][f]
<1>1. now = IF <<p, f>> \in accepted THEN Store(old, new) ELSE old
  <2>1. buffer' = [buffer EXCEPT ![n] = [q \in Player |-> [g \in Frame |->
          IF <<q, g>> \in accepted THEN Store(buffer[n][q][g], m.records[<<q, g>>])
                                   ELSE buffer[n][q][g]]]]
    BY DEF HandleInputFrameRecords
  <2>2. buffer \in [Node -> Slots]
    BY DEF IInv, TypeInv, TypeOK, Slots, Slot
  <2> HIDE DEF accepted
  <2> QED
    BY <2>1, <2>2
<1>2. old \in Slot
  BY Ranges DEF Slots
<1>3. CASE now = old
  BY <1>3 DEF IsCanonical
<1>4. CASE now # old
  <2>1. /\ <<p, f>> \in accepted /\ <<p, f>> \in DOMAIN m.records
        /\ now = new /\ Replaces(old, new)
    BY <1>1, <1>4 DEF Store
  <2>2. new \in Record /\ ~new.predicted /\ new.canonical = (n # Host)
    BY <2>1 DEF IInv, TypeInv, TypeOK, OnlyPeersPredict
  <2>3. Circulates(p, f, new.input) /\ new.input \in Input
    BY <2>1, <2>2 DEF Circulates, Record
  <2> HIDE DEF accepted, new, now, old
  <2>4. now # NoRecord /\ ~now.predicted
    BY <2>1, <2>2, NoRecordAssumption
  <2>5. n # Host => IsCanonical(n, p, f)'
    BY <2>1, <2>2, <2>4 DEF IsCanonical, now
  <2>6. old # NoRecord /\ ~old.predicted => new.input = old.input
    BY <2>3, HeldInput DEF old
  <2>7. IsCanonical(n, p, f) => n # Host
    <3>1. SUFFICES ASSUME IsCanonical(n, p, f), n = Host PROVE FALSE
      OBVIOUS
    <3>2. old # NoRecord /\ old.canonical /\ ~old.predicted
      BY <3>1, CanonicalInput DEF IsCanonical, old
    <3>3. new.input = old.input
      BY <2>6, <3>2
    <3> QED
      BY <2>1, <2>2, <3>1, <3>2, <3>3 DEF Replaces
  <2>8. old # NoRecord /\ now.input # old.input /\ f < nextFrame[n] => f \in Corrected(n, m)
    <3>1. SUFFICES ASSUME old # NoRecord, now.input # old.input, f < nextFrame[n]
                   PROVE  f \in Corrected(n, m)
      OBVIOUS
    <3> DEFINE k == <<p, f>>
    <3>2. Mismatch(old, new)
      BY <2>1, <3>1 DEF Mismatch
    <3>3. k \in DOMAIN m.records /\ m.records[k].canonical = (n # Host) /\ k[2] = f
      BY <2>1, <2>2 DEF new
    <3>4. Mismatch(buffer[n][k[1]][k[2]], m.records[k])
      BY <3>2 DEF new, old
    <3> HIDE DEF k
    <3> QED
      BY <3>1, <3>3, <3>4 DEF Corrected
  <2>9. old # NoRecord /\ now.input # old.input => old.predicted
    BY <2>1, <2>6
  <2> QED
    BY <1>4, <2>1, <2>3, <2>4, <2>5, <2>7, <2>8, <2>9 DEF now, old, new
<1> QED
  BY <1>3, <1>4

\* A frame corrected at a peer was guessed, so it lies in the rollback window.
LEMMA CorrectedInWindow ==
    ASSUME IInv, NEW n \in Peers, PeerInv(n), NEW m \in network,
           NEW f \in Corrected(n, m)
    PROVE  /\ f \in Frame /\ f < nextFrame[n]
           /\ nextFrame[n] - MaxRollback <= f
           /\ nextFrame[n] - BufferedFrames <= f
           /\ \E p \in Player : ~IsCanonical(n, p, f)
<1>1. PICK k \in DOMAIN m.records :
        /\ m.records[k].canonical = (n # Host)
        /\ Mismatch(buffer[n][k[1]][k[2]], m.records[k])
        /\ k[2] < nextFrame[n] /\ f = k[2]
  BY DEF Corrected
<1>2. n \in Node /\ DOMAIN m.records \subseteq Key /\ m.records[k] \in Record
  BY DEF Peers, IInv, TypeInv, TypeOK
<1>3. PICK p \in Player : k = <<p, f>> /\ f \in Frame
  BY <1>1, <1>2 DEF Key
<1>4. buffer[n][p][f] # NoRecord /\ buffer[n][p][f].input # m.records[k].input
  BY <1>1, <1>3 DEF Mismatch
<1>5. Circulates(p, f, m.records[k].input) /\ m.records[k].input \in Input
  BY <1>2, <1>3 DEF Circulates, Record
<1>6. buffer[n][p][f].predicted
  BY <1>2, <1>3, <1>4, <1>5, HeldInput
<1>7. ~IsCanonical(n, p, f)
  BY <1>2, <1>3, <1>6, CanonicalInput
<1>8. nextFrame[n] - BufferedFrames <= f
  <2>1. ~(f < nextFrame[n] - BufferedFrames)
    BY <1>3, <1>4, <1>6 DEF PeerInv, OldRecordsAreConfirmed
  <2> QED
    BY <1>2, <1>3, <2>1, Ranges, Sizes
<1>9. nextFrame[n] - MaxRollback <= f
  <2>1. nextFrame[n] \in Nat /\ f \in Nat /\ nextFrame[n] > 0
    BY <1>1, <1>2, <1>3, Ranges, Sizes
  <2>2. ~(f < nextFrame[n] + InputDelay - MaxRollback)
    BY <1>3, <1>7, <1>8, <2>1 DEF PeerInv, HeardBehindWindow
  <2> QED
    BY <2>1, <2>2, Sizes
<1> QED
  BY <1>1, <1>3, <1>7, <1>8, <1>9

\* A slot after building or predicting the inputs of the frames: as it was, or
\* empty before and a guess now.
BuildsOrGuesses(n, frames, p, f) ==
    LET built == BuildOrPredictFrameInputs(n, buffer[n], frames)[p][f]
    IN  \/ built = buffer[n][p][f]
        \/ /\ buffer[n][p][f] = NoRecord /\ built # NoRecord
           /\ f \in frames /\ Owner[p] # n
           /\ built.predicted

\* Building leaves what a peer holds, and fills only the frames built.
LEMMA PeerBuilds ==
    ASSUME IInv, NEW n \in Peers, NEW frames, NEW p \in Player, NEW f \in Frame
    PROVE  BuildsOrGuesses(n, frames, p, f)
<1> DEFINE built == BuildOrPredictFrameInputs(n, buffer[n], frames)[p][f]
<1>1. built = IF f \in frames /\ \A q \in Player : q <= p => Available(n, buffer[n], q, f)
                THEN BuiltRecord(n, buffer[n], p, f) ELSE buffer[n][p][f]
  BY DEF BuildOrPredictFrameInputs
<1> HIDE DEF built
<1>2. SUFFICES ASSUME built # buffer[n][p][f]
               PROVE  /\ buffer[n][p][f] = NoRecord /\ built # NoRecord
                      /\ f \in frames /\ Owner[p] # n
                      /\ built.predicted
  BY DEF built, BuildsOrGuesses
<1>3. /\ f \in frames /\ built = BuiltRecord(n, buffer[n], p, f)
      /\ Available(n, buffer[n], p, f)
  BY <1>1, <1>2, PlayerAssumption
<1>4. n # Host /\ n \in Node
  BY DEF Peers
<1>5. buffer[n][p][f] = NoRecord
  BY <1>2, <1>3, <1>4 DEF BuiltRecord
<1>6. built.predicted
  BY <1>3, <1>5 DEF BuiltRecord, PredictedRecord
<1>7. built # NoRecord
  <2>1. buffer[n] \in Slots
    BY <1>4, Ranges
  <2>2. built \in Record
    BY <1>3, <1>4, <2>1, BuiltRecordType
  <2> QED
    BY <2>2, NoRecordAssumption
<1>8. Owner[p] # n
  BY <1>3, <1>5 DEF Available, LocalPlayers
<1> QED
  BY <1>3, <1>5, <1>6, <1>7, <1>8

\* A frame that can be built has, at any node, a record of every player.
LEMMA BuiltIsHeld ==
    ASSUME IInv, NEW n \in Node, NEW f \in Frame, CanBuild(n, buffer[n], f),
           NEW p \in Player
    PROVE  /\ BuildOrPredictFrameInputs(n, buffer[n], {f})[p][f] # NoRecord
           /\ n = Host =>
                BuildOrPredictFrameInputs(n, buffer[n], {f})[p][f].canonical
<1> DEFINE built == BuildOrPredictFrameInputs(n, buffer[n], {f})[p][f]
<1>1. built = BuiltRecord(n, buffer[n], p, f)
  BY DEF BuildOrPredictFrameInputs, CanBuild
<1>2. BuiltRecord(n, buffer[n], p, f) \in Record
  BY Ranges, BuiltRecordType
<1>3. n = Host => buffer[n][p][f] # NoRecord
  BY DEF CanBuild, Available
<1>4. n = Host => BuiltRecord(n, buffer[n], p, f).canonical
  BY <1>3 DEF BuiltRecord, CanonicalRecord
<1> HIDE DEF built
<1> QED
  BY <1>1, <1>2, <1>4, NoRecordAssumption DEF built

\* A peer replays from an exact snapshot, with the inputs it holds, every
\* frame up to the present one.
LEMMA PeerReplays ==
    ASSUME IInv, NEW n \in Peers, PeerInv(n), ReplayRollbackWindow(n)
    PROVE  /\ buffer' = buffer /\ nextFrame' = nextFrame
           /\ \A f \in Frame : game'[n][f] =
                 IF rollback[n] <= f /\ f < nextFrame[n]
                   THEN [p \in Player |-> buffer[n][p][f].input] ELSE game[n][f]
           /\ \A f \in Frame : (nextFrame[n] - (MaxRollback + KeepSlack) <= f /\ f < nextFrame[n])
                 => snapshots'[n][f] = StateBefore(game'[n], f)
           /\ \A i \in Node : i # n =>
                 /\ game'[i] = game[i] /\ snapshots'[i] = snapshots[i]
                 /\ rollback'[i] = rollback[i]
           /\ rollback'[n] = NoFrame
<1> DEFINE first   == rollback[n]
           present == nextFrame[n]
           stop    == Min({f \in first .. present :
                             f = present \/ ~CanBuild(n, buffer[n], f)})
           slots   == BuildOrPredictFrameInputs(n, buffer[n], first .. (present - 1))
           log     == [f \in Frame |-> IF f \in first .. (stop - 1)
                                           THEN FrameInputs(slots, f)
                                           ELSE snapshots[n][first][f]]
           saved   == [f \in Frame |-> IF f \in first .. (stop - 1)
                                           THEN StateBefore(log, f)
                                           ELSE snapshots[n][f]]
<1>1. /\ first # NoFrame
      /\ buffer' = [buffer EXCEPT ![n] = slots]
      /\ game' = [game EXCEPT ![n] = log]
      /\ snapshots' = [snapshots EXCEPT ![n] = PruneRollbackSnapshots(saved, stop)]
      /\ nextFrame' = [nextFrame EXCEPT ![n] = stop]
      /\ rollback' = [rollback EXCEPT ![n] = NoFrame]
  BY DEF ReplayRollbackWindow
<1>2. /\ n \in Node /\ n # Host
      /\ first \in Frame /\ first \in Nat /\ present \in Nat /\ present \in Frame
      /\ first < present /\ present - (MaxRollback + KeepSlack) <= first
      /\ present - BufferedFrames <= first
  <2>1. n \in Node /\ n # Host
    BY DEF Peers
  <2>2. /\ first \in Frame /\ first \in Nat /\ present \in Nat /\ present \in Frame
        /\ first < present
    BY <1>1, <2>1, Ranges, Sizes
  <2>3. present - (MaxRollback + KeepSlack) <= first
    BY <1>1 DEF PeerInv, RollbackInWindow
  <2> QED
    BY <2>1, <2>2, <2>3, Sizes
<1>3. ASSUME NEW p \in Player, NEW f \in Frame, f \in first .. (present - 1)
      PROVE  buffer[n][p][f] # NoRecord
  <2>1. f < present /\ present - BufferedFrames <= f
    BY <1>2, <1>3, Sizes
  <2> QED
    BY <2>1 DEF PeerInv, WindowIsHeld
<1>4. \A p \in Player, f \in Frame : slots[p][f] = buffer[n][p][f]
  <2> TAKE p \in Player, f \in Frame
  <2>1. f \in first .. (present - 1) => buffer[n][p][f] # NoRecord
    BY <1>3
  <2> DEFINE frames == first .. (present - 1)
  <2>2. \/ BuildOrPredictFrameInputs(n, buffer[n], frames)[p][f] = buffer[n][p][f]
        \/ buffer[n][p][f] = NoRecord /\ f \in frames
    <3> HIDE DEF frames
    <3> QED
      BY PeerBuilds DEF BuildsOrGuesses
  <2> QED
    BY <2>1, <2>2
<1>5. stop = present
  <2>1. ASSUME NEW f \in first .. present, f # present PROVE CanBuild(n, buffer[n], f)
    <3>1. f \in first .. (present - 1) /\ f \in Frame
      BY <1>2, <2>1, WindowAssumption DEF Frame
    <3> QED
      BY <1>3, <3>1 DEF CanBuild, Available
  <2>2. {f \in first .. present : f = present \/ ~CanBuild(n, buffer[n], f)} = {present}
    BY <1>2, <2>1
  <2>3. Min({present}) \in {present}
    BY <1>2, MinOfNaturals
  <2> QED
    BY <2>2, <2>3
<1>6. IInv /\ buffer[n] \in Slots /\ slots \in Slots
  BY <1>2, BuildType, Ranges
<1>7. slots = buffer[n]
  <2> HIDE DEF slots
  <2> QED
    BY <1>4, <1>6 DEF Slots
<1> HIDE DEF slots, stop
<1>8. buffer' = buffer /\ nextFrame' = nextFrame
  <2>1. buffer \in [Node -> Slots] /\ nextFrame \in [Node -> 0 .. MaxFrame]
    BY DEF IInv, TypeInv, TypeOK, Slots, Slot
  <2> QED
    BY <1>1, <1>5, <1>7, <2>1
<1>9. game'[n] = log /\ \A i \in Node : i # n =>
         game'[i] = game[i] /\ snapshots'[i] = snapshots[i] /\ rollback'[i] = rollback[i]
  BY <1>1, <1>2 DEF IInv, TypeInv, TypeOK
<1>10. rollback'[n] = NoFrame /\ snapshots'[n] = PruneRollbackSnapshots(saved, stop)
  BY <1>1, <1>2 DEF IInv, TypeInv, TypeOK
<1>11. snapshots[n][first] = StateBefore(game[n], first)
  BY <1>2 DEF PeerInv, SnapshotsAreExact
<1>12. ASSUME NEW f \in Frame
       PROVE  log[f] = IF first <= f /\ f < present
                         THEN [p \in Player |-> buffer[n][p][f].input] ELSE game[n][f]
  <2>1. f \in Nat
    BY Sizes
  <2>2. f \in first .. (stop - 1) <=> first <= f /\ f < present
    BY <1>2, <1>5, <2>1
  <2>3. CASE first <= f /\ f < present
    BY <1>7, <2>2, <2>3 DEF FrameInputs
  <2>4. CASE ~(first <= f /\ f < present)
    <3>1. log[f] = IF f < first THEN game[n][f] ELSE NotStepped
      BY <1>11, <2>2, <2>4 DEF StateBefore
    <3>2. ~(f < first) => game[n][f] = NotStepped
      <4>1. SUFFICES ASSUME ~(f < first) PROVE game[n][f] = NotStepped
        OBVIOUS
      <4>2. present <= f
        BY <1>2, <2>1, <2>4, <4>1
      <4> QED
        BY <4>2 DEF PeerInv, NotYetStepped
    <3> QED
      BY <2>4, <3>1, <3>2
  <2> QED
    BY <2>3, <2>4
<1> HIDE DEF log
<1>13. ASSUME NEW f \in Frame, present - (MaxRollback + KeepSlack) <= f, f < present
       PROVE  snapshots'[n][f] = StateBefore(log, f)
  <2>1. f \in Nat
    BY Sizes
  <2>2. snapshots'[n][f] = saved[f]
    <3>1. ~(f < stop - (MaxRollback + KeepSlack))
      BY <1>2, <1>5, <1>13, <2>1, Sizes
    <3> HIDE DEF saved
    <3> QED
      BY <1>10, <3>1 DEF PruneRollbackSnapshots
  <2>3. CASE first <= f
    <3>1. f \in first .. (stop - 1)
      BY <1>2, <1>5, <1>13, <2>1, <2>3
    <3> QED
      BY <2>2, <3>1
  <2>4. CASE ~(first <= f)
    <3>1. f \notin first .. (stop - 1) /\ f < first
      BY <1>2, <1>5, <2>1, <2>4
    <3>2. snapshots'[n][f] = StateBefore(game[n], f)
      BY <1>13, <2>2, <3>1 DEF PeerInv, SnapshotsAreExact
    <3>3. \A g \in Frame : g < f => log[g] = game[n][g]
      <4> TAKE g \in Frame
      <4>1. g \in Nat /\ first \in Nat /\ f < first
        BY <1>2, <3>1, Sizes
      <4>2. g < f => ~(first <= g)
        BY <2>1, <4>1
      <4> QED
        BY <1>12, <4>2
    <3>4. StateBefore(log, f) = StateBefore(game[n], f)
      BY <3>3 DEF StateBefore
    <3> QED
      BY <3>2, <3>4
  <2> QED
    BY <2>3, <2>4
<1> QED
  BY <1>8, <1>9, <1>10, <1>12, <1>13

\* A node that may step has heard a remote player to within the rollback
\* window of the frame it steps.
LEMMA HeardFrontier ==
    ASSUME IInv, SomebodyElsePlays, HeardWithoutGaps, NEW n \in Peers,
           RemoteRecordsAreCanonical(n), CanStepWithoutRunningAheadOfRemoteInputs(n)
    PROVE  \E h \in Frame :
              /\ nextFrame[n] + InputDelay - MaxRollback <= h
              /\ h < nextFrame[Host]
              /\ \A p \in Player, f \in Frame :
                    nextFrame[n] - BufferedFrames <= f /\ f <= h => IsCanonical(n, p, f)
<1>1. PICK p \in Player : p \notin LocalPlayers(n)
  BY DEF SomebodyElsePlays
<1>2. PICK h \in ConfirmedFrames(buffer[n][p]) :
        h >= InputDelay /\ nextFrame[n] <= h - InputDelay + MaxRollback
  BY <1>1 DEF CanStepWithoutRunningAheadOfRemoteInputs
<1>3. n \in Node /\ n # Host
  BY DEF Peers
<1>4. h \in Frame /\ buffer[n][p][h] # NoRecord /\ ~buffer[n][p][h].predicted
  <2>1. buffer[n][p] \in [Frame -> Slot]
    BY <1>3, Ranges DEF Slots
  <2> QED
    BY <2>1 DEF ConfirmedFrames
<1>5. IsCanonical(n, p, h)
  BY <1>1, <1>4 DEF RemoteRecordsAreCanonical, LocalPlayers
<1>6. h < nextFrame[Host]
  BY <1>3, <1>4, <1>5, CanonicalInput
<1>7. nextFrame[n] + InputDelay - MaxRollback <= h
  <2>1. nextFrame[n] \in Nat /\ h \in Nat
    BY <1>3, <1>4, Ranges, Sizes
  <2> QED
    BY <1>2, <2>1, Sizes
<1>8. \A q \in Player, f \in Frame :
        nextFrame[n] - BufferedFrames <= f /\ f <= h => IsCanonical(n, q, f)
  BY <1>4, <1>5 DEF HeardWithoutGaps
<1> QED
  BY <1>4, <1>6, <1>7, <1>8

\* What a step leaves in the buffer, the simulation and the snapshots.
LEMMA StepChanges ==
    ASSUME IInv, NEW n \in Node, StepFrame(n), CanBuild(n, buffer[n], nextFrame[n])
    PROVE  LET F     == nextFrame[n]
               slots == BuildOrPredictFrameInputs(n, buffer[n], {F})
           IN  /\ F \in Frame /\ nextFrame' = [nextFrame EXCEPT ![n] = F + 1]
               /\ nextFrame'[n] = F + 1
               /\ \A p \in Player, f \in Frame :
                     buffer'[n][p][f] = IF f < F + 1 - BufferedFrames THEN NoRecord
                                                                      ELSE slots[p][f]
               /\ \A f \in Frame :
                     /\ game'[n][f] = IF f = F THEN FrameInputs(slots, F) ELSE game[n][f]
                     /\ snapshots'[n][f] =
                           IF f < F + 1 - (MaxRollback + KeepSlack) THEN NoSnapshot
                           ELSE IF f = F THEN game[n] ELSE snapshots[n][f]
               /\ FrameInputs(slots, F) \in InputVector
               /\ \A i \in Node : i # n =>
                     /\ buffer'[i] = buffer[i] /\ game'[i] = game[i]
                     /\ snapshots'[i] = snapshots[i] /\ nextFrame'[i] = nextFrame[i]
               /\ UNCHANGED <<nextLocal, rollback, network>>
<1> DEFINE F     == nextFrame[n]
           slots == BuildOrPredictFrameInputs(n, buffer[n], {F})
           kept  == [p \in Player |-> ClearBefore(slots[p], F + 1 - BufferedFrames)]
           saved == [snapshots[n] EXCEPT ![F] = game[n]]
           pruned == PruneRollbackSnapshots(saved, F + 1)
<1>1. F \in Frame /\ F \in Nat
  BY Ranges
<1>2. /\ game' = [game EXCEPT ![n][F] = FrameInputs(slots, F)]
      /\ nextFrame' = [nextFrame EXCEPT ![n] = F + 1]
      /\ buffer' = [buffer EXCEPT ![n] = kept]
      /\ snapshots' = [snapshots EXCEPT ![n] = pruned]
      /\ UNCHANGED <<nextLocal, rollback, network>>
  BY DEF StepFrame
<1>3. slots \in Slots /\ FrameInputs(slots, F) \in InputVector
  <2>1. buffer[n] \in Slots
    BY Ranges
  <2> QED
    BY <1>1, <2>1, BuildType
<1>4. /\ buffer \in [Node -> Slots] /\ game \in [Node -> GameLog]
      /\ snapshots \in [Node -> [Frame -> GameLog \cup {NoSnapshot}]]
      /\ nextFrame \in [Node -> 0 .. MaxFrame]
  BY DEF IInv, TypeInv, TypeOK, Slots, Slot
<1> HIDE DEF slots
<1>5. \A p \in Player, f \in Frame :
         kept[p][f] = IF f < F + 1 - BufferedFrames THEN NoRecord ELSE slots[p][f]
  BY <1>3 DEF ClearBefore, Slots
<1> HIDE DEF kept
<1>6. \A p \in Player, f \in Frame :
         buffer'[n][p][f] = IF f < F + 1 - BufferedFrames THEN NoRecord ELSE slots[p][f]
  BY <1>2, <1>4, <1>5
<1>7. \A f \in Frame : game'[n][f] = IF f = F THEN FrameInputs(slots, F) ELSE game[n][f]
  BY <1>1, <1>2, <1>4 DEF GameLog
<1>8. \A f \in Frame : pruned[f] = IF f < F + 1 - (MaxRollback + KeepSlack) THEN NoSnapshot
                                   ELSE IF f = F THEN game[n] ELSE snapshots[n][f]
  <2>1. \A f \in Frame : saved[f] = IF f = F THEN game[n] ELSE snapshots[n][f]
    <3>1. snapshots[n] \in [Frame -> GameLog \cup {NoSnapshot}]
      BY <1>4
    <3> HIDE DEF F
    <3> QED
      BY <3>1
  <2> HIDE DEF saved
  <2>2. \A f \in Frame : pruned[f] = IF f < F + 1 - (MaxRollback + KeepSlack)
                                       THEN NoSnapshot ELSE saved[f]
    <3> HIDE DEF F
    <3> QED
      BY <1>1, Sizes DEF PruneRollbackSnapshots
  <2> HIDE DEF pruned
  <2> QED
    BY <2>1, <2>2
<1> HIDE DEF pruned
<1>9. snapshots'[n] = pruned /\ nextFrame'[n] = F + 1
  BY <1>2, <1>4
<1>10. \A i \in Node : i # n =>
          /\ buffer'[i] = buffer[i] /\ game'[i] = game[i]
          /\ snapshots'[i] = snapshots[i] /\ nextFrame'[i] = nextFrame[i]
  BY <1>2, <1>4
<1> QED
  BY <1>1, <1>2, <1>3, <1>6, <1>7, <1>8, <1>9, <1>10 DEF slots

\* A frame a peer steps keeps its part of the invariant.  The frame that leaves
\* the window has been heard, and was stepped with what was heard because
\* nothing is left to roll back.
LEMMA PeerStepsFrame ==
    ASSUME IInv, SomebodyElsePlays, HeardWithoutGaps, NEW n \in Peers, PeerInv(n),
           StepsAfterReplay, StepFrame(n), CanBuild(n, buffer[n], nextFrame[n])
    PROVE  PeerInv(n)'
<1> DEFINE F     == nextFrame[n]
           slots == BuildOrPredictFrameInputs(n, buffer[n], {F})
<1>1. n \in Node /\ n # Host
  BY DEF Peers
<1>2. rollback[n] = NoFrame /\ CanStepWithoutRunningAheadOfRemoteInputs(n)
  BY <1>1 DEF StepFrame, StepsAfterReplay
<1>3. PICK h \in Frame :
        /\ F + InputDelay - MaxRollback <= h
        /\ h < nextFrame[Host]
        /\ \A p \in Player, f \in Frame : F - BufferedFrames <= f /\ f <= h => IsCanonical(n, p, f)
  BY <1>2, HeardFrontier DEF PeerInv
<1>4. /\ F \in Frame /\ nextFrame'[n] = F + 1
      /\ \A p \in Player, f \in Frame :
            buffer'[n][p][f] = IF f < F + 1 - BufferedFrames THEN NoRecord ELSE slots[p][f]
      /\ \A f \in Frame :
            /\ game'[n][f] = IF f = F THEN FrameInputs(slots, F) ELSE game[n][f]
            /\ snapshots'[n][f] = IF f < F + 1 - (MaxRollback + KeepSlack) THEN NoSnapshot
                                  ELSE IF f = F THEN game[n] ELSE snapshots[n][f]
      /\ FrameInputs(slots, F) \in InputVector
      /\ rollback' = rollback
      /\ game'[Host] = game[Host] /\ nextFrame'[Host] = nextFrame[Host]
  BY <1>1, NodeAssumption, StepChanges
<1>5. ASSUME NEW p \in Player, NEW f \in Frame
      PROVE  \/ slots[p][f] = buffer[n][p][f]
             \/ /\ buffer[n][p][f] = NoRecord /\ slots[p][f] # NoRecord
                /\ f = F /\ Owner[p] # n
                /\ slots[p][f].predicted
  <2> DEFINE only == {F}
  <2>1. \/ BuildOrPredictFrameInputs(n, buffer[n], only)[p][f] = buffer[n][p][f]
        \/ /\ buffer[n][p][f] = NoRecord
           /\ BuildOrPredictFrameInputs(n, buffer[n], only)[p][f] # NoRecord
           /\ f \in only /\ Owner[p] # n
           /\ BuildOrPredictFrameInputs(n, buffer[n], only)[p][f].predicted
    <3> HIDE DEF only
    <3> QED
      BY PeerBuilds DEF BuildsOrGuesses
  <2> QED
    BY <2>1
<1>6. \A p \in Player : slots[p][F] # NoRecord
  <2>1. F \in Frame /\ CanBuild(n, buffer[n], F)
    BY <1>4
  <2> HIDE DEF F
  <2> QED
    BY <1>1, <2>1, BuiltIsHeld
<1> HIDE DEF slots
<1>7. F \in Nat /\ \A f \in Frame : f \in Nat
  BY <1>1, Ranges, Sizes
<1>8. ASSUME NEW p \in Player, NEW f \in Frame, buffer'[n][p][f] # NoRecord
      PROVE  ~(f < F + 1 - BufferedFrames) /\ buffer'[n][p][f] = slots[p][f]
  BY <1>4, <1>8
<1> HIDE DEF F
<1>11. RemoteRecordsAreCanonical(n)'
  <2>1. ASSUME NEW p \in Player, NEW f \in Frame, Owner[p] # n,
               buffer'[n][p][f] # NoRecord, ~buffer'[n][p][f].predicted
        PROVE  IsCanonical(n, p, f)'
    <3>1. buffer'[n][p][f] = buffer[n][p][f]
      BY <1>5, <1>8, <2>1
    <3> QED
      BY <2>1, <3>1 DEF PeerInv, RemoteRecordsAreCanonical, IsCanonical
  <2> QED
    BY <2>1 DEF RemoteRecordsAreCanonical
<1>12. WindowIsHeld(n)'
  <2>1. ASSUME NEW p \in Player, NEW f \in Frame,
               F + 1 - BufferedFrames <= f, f < F + 1
        PROVE  buffer'[n][p][f] # NoRecord
    <3>0. ~(f < F + 1 - BufferedFrames)
      BY <1>7, <2>1, Sizes
    <3>1. buffer'[n][p][f] = slots[p][f]
      BY <1>4, <3>0
    <3>2. CASE f = F
      BY <1>6, <3>1, <3>2
    <3>3. CASE f # F
      <4>1. F - BufferedFrames <= f /\ f < F
        BY <1>7, <2>1, <3>3, Sizes
      <4>2. buffer[n][p][f] # NoRecord
        BY <4>1 DEF PeerInv, WindowIsHeld, F
      <4> QED
        BY <1>5, <3>1, <4>2
    <3> QED
      BY <3>2, <3>3
  <2> QED
    BY <1>4, <1>7, <2>1, Sizes DEF WindowIsHeld
<1>13. OldRecordsAreConfirmed(n)'
  BY <1>4, <1>7, <1>8, Sizes DEF OldRecordsAreConfirmed
<1>14. HeardBehindWindow(n)'
  <2>1. ASSUME NEW p \in Player, NEW f \in Frame,
               F + 1 - BufferedFrames <= f, f < F + 1 + InputDelay - MaxRollback
        PROVE  IsCanonical(n, p, f)'
    <3>1. F - BufferedFrames <= f /\ f <= h /\ ~(f < F + 1 - BufferedFrames)
      BY <1>3, <1>7, <2>1, Sizes
    <3>2. IsCanonical(n, p, f)
      BY <1>3, <3>1
    <3>3. buffer'[n][p][f] = buffer[n][p][f]
      BY <1>4, <1>5, <3>1, <3>2 DEF IsCanonical
    <3> QED
      BY <3>2, <3>3 DEF IsCanonical
  <2> QED
    BY <1>4, <1>7, <2>1, Sizes DEF HeardBehindWindow
<1>15. SnapshotsAreExact(n)'
  <2>1. ASSUME NEW f \in Frame, F + 1 - (MaxRollback + KeepSlack) <= f, f < F + 1
        PROVE  snapshots'[n][f] = StateBefore(game'[n], f)
    <3>1. snapshots'[n][f] = IF f = F THEN game[n] ELSE snapshots[n][f]
      BY <1>4, <1>7, <2>1, Sizes
    <3>2. \A g \in Frame : g < f => game'[n][g] = game[n][g]
      BY <1>4, <1>7, <2>1
    <3>3. StateBefore(game'[n], f) = StateBefore(game[n], f)
      BY <3>2 DEF StateBefore
    <3>4. CASE f = F
      <4>1. \A g \in Frame : ~(g < F) => game[n][g] = NotStepped
        BY <1>7 DEF PeerInv, NotYetStepped, F
      <4>2. game[n] \in GameLog
        BY <1>1, Ranges
      <4>3. game[n] = StateBefore(game[n], F)
        BY <4>1, <4>2 DEF StateBefore, GameLog
      <4> QED
        BY <3>1, <3>3, <3>4, <4>3
    <3>5. CASE f # F
      <4>1. F - (MaxRollback + KeepSlack) <= f /\ f < F
        BY <1>7, <2>1, <3>5, Sizes
      <4> QED
        BY <3>1, <3>3, <3>5, <4>1 DEF PeerInv, SnapshotsAreExact, F
    <3> QED
      BY <3>4, <3>5
  <2> QED
    BY <1>4, <1>7, <2>1, Sizes DEF SnapshotsAreExact
<1>16. NotYetStepped(n)' /\ AppliedSoFar(n)'
  <2>1. ASSUME NEW f \in Frame, F + 1 <= f PROVE game'[n][f] = NotStepped
    <3>1. f # F /\ F <= f
      BY <1>7, <2>1
    <3> QED
      BY <1>4, <3>1 DEF PeerInv, NotYetStepped, F
  <2>2. ASSUME NEW f \in Frame, f < F + 1 PROVE game'[n][f] \in InputVector
    <3>1. f = F \/ f < F
      BY <1>7, <2>2
    <3> QED
      BY <1>4, <3>1 DEF PeerInv, AppliedSoFar, F
  <2> QED
    BY <1>4, <2>1, <2>2 DEF NotYetStepped, AppliedSoFar
<1>17. RollbackInWindow(n)'
  BY <1>2, <1>4 DEF RollbackInWindow
\* What is applied is what is held, now that no rollback is left.
<1>18. ASSUME NEW p \in Player, NEW f \in Frame, f < F + 1, slots[p][f] # NoRecord
       PROVE  game'[n][f][p] = slots[p][f].input
  <2>1. CASE f = F
    BY <1>4, <2>1 DEF FrameInputs
  <2>2. CASE f # F
    <3>1. slots[p][f] = buffer[n][p][f] /\ f < F /\ game'[n][f] = game[n][f]
      BY <1>4, <1>5, <1>7, <1>18, <2>2
    <3>2. game[n][f][p] = buffer[n][p][f].input
      BY <1>2, <1>18, <3>1 DEF PeerInv, WrongIsPending, F
    <3> QED
      BY <3>1, <3>2
  <2> QED
    BY <2>1, <2>2
<1>19. WrongIsPending(n)'
  BY <1>4, <1>8, <1>18 DEF WrongIsPending
<1>20. DroppedAgree(n)'
  <2>1. ASSUME NEW f \in Frame, f < F + 1 - BufferedFrames
        PROVE  f < nextFrame[Host] /\ game'[n][f] = game[Host][f]
    <3>1. CASE f < F - BufferedFrames
      <4>1. f # F
        BY <1>7, <3>1, Sizes
      <4> QED
        BY <1>4, <3>1, <4>1 DEF PeerInv, DroppedAgree, F
    <3>2. CASE ~(f < F - BufferedFrames)
      <4>1. F - BufferedFrames <= f /\ f <= h /\ f < F + 1
        BY <1>3, <1>7, <2>1, <3>2, Sizes
      <4>2. f < nextFrame[Host]
        <5>1. nextFrame[Host] \in Nat /\ h \in Nat /\ f \in Nat
          BY <1>7, NodeAssumption, Ranges
        <5>2. h < nextFrame[Host]
          BY <1>3
        <5> QED
          BY <4>1, <5>1, <5>2
      <4>3. ASSUME NEW p \in Player PROVE game'[n][f][p] = game[Host][f][p]
        <5>1. IsCanonical(n, p, f)
          BY <1>3, <4>1
        <5>2. buffer[n][p][f] # NoRecord /\ buffer[n][p][f].input = game[Host][f][p]
          BY <1>1, <4>2, <5>1, CanonicalInput
        <5>3. slots[p][f] = buffer[n][p][f]
          BY <1>5, <5>2
        <5> QED
          BY <1>18, <4>1, <5>2, <5>3
      <4>4. game'[n][f] \in InputVector /\ game[Host][f] \in InputVector
        BY <1>4, <1>16, <4>1, <4>2 DEF AppliedSoFar, IInv, HostStepped
      <4> QED
        BY <4>2, <4>3, <4>4 DEF InputVector
    <3> QED
      BY <3>1, <3>2
  <2> QED
    BY <1>4, <1>7, <2>1, Sizes DEF DroppedAgree
<1> QED
  BY <1>11, <1>12, <1>13, <1>14, <1>15, <1>16, <1>17, <1>19, <1>20 DEF PeerInv

\* So does a change of the buffer alone that never loses a record, never
\* changes one that is held, and fills no stepped frame of the window.
LEMMA PeerFills ==
    ASSUME IInv, NEW n \in Peers, PeerInv(n),
           \A p \in Player, f \in Frame :
              \/ buffer'[n][p][f] = buffer[n][p][f]
              \/ /\ buffer[n][p][f] = NoRecord /\ buffer'[n][p][f] # NoRecord
                 /\ \/ nextFrame[n] <= f /\ buffer'[n][p][f].predicted
                    \/ /\ Owner[p] = n /\ nextLocal[n] <= f
                       /\ ~buffer'[n][p][f].predicted,
           UNCHANGED <<nextFrame, game, snapshots, rollback>>
    PROVE  PeerInv(n)'
<1>1. n \in Node /\ nextFrame[n] \in Nat /\ \A f \in Frame : f \in Nat
  BY Ranges, Sizes DEF Peers
<1>2. /\ SnapshotsAreExact(n)' /\ NotYetStepped(n)' /\ AppliedSoFar(n)'
      /\ RollbackInWindow(n)' /\ DroppedAgree(n)'
  BY DEF PeerInv, SnapshotsAreExact, NotYetStepped, AppliedSoFar, RollbackInWindow, DroppedAgree
<1>3. RemoteRecordsAreCanonical(n)'
  BY DEF PeerInv, RemoteRecordsAreCanonical, IsCanonical
<1>4. WindowIsHeld(n)'
  BY DEF PeerInv, WindowIsHeld
<1>5. OldRecordsAreConfirmed(n)'
  <2>1. ASSUME NEW f \in Frame, f < nextFrame[n] - BufferedFrames PROVE ~(nextFrame[n] <= f)
    BY <1>1, <2>1, Sizes
  <2> QED
    BY <2>1 DEF PeerInv, OldRecordsAreConfirmed
<1>6. HeardBehindWindow(n)'
  BY DEF PeerInv, HeardBehindWindow, IsCanonical
<1>7. WrongIsPending(n)'
  <2>1. ASSUME NEW p \in Player, NEW f \in Frame, f < nextFrame[n],
               buffer'[n][p][f] # buffer[n][p][f]
        PROVE  FALSE
    <3>1. /\ buffer[n][p][f] = NoRecord
          /\ Owner[p] = n /\ nextLocal[n] <= f
      BY <1>1, <2>1
    <3>2. f < nextFrame[n] - BufferedFrames
      <4>1. ~(nextFrame[n] - BufferedFrames <= f)
        BY <2>1, <3>1 DEF PeerInv, WindowIsHeld
      <4> QED
        BY <1>1, <4>1, Sizes
    <3>3. f < nextFrame[Host]
      BY <3>2 DEF PeerInv, DroppedAgree
    <3>4. f < nextLocal[n]
      BY <3>1, <3>3, HostInput
    <3> QED
      BY <1>1, <3>1, <3>4, Ranges
  <2> QED
    BY <2>1 DEF PeerInv, WrongIsPending
<1> QED
  BY <1>2, <1>3, <1>4, <1>5, <1>6, <1>7 DEF PeerInv

\* Queueing and a frame that cannot be built are such changes.
LEMMA PeerMaintains ==
    ASSUME IInv, NEW n \in Peers, PeerInv(n), NEW sample \in Samples(n),
           MaintainInputLockstepTransport(n, sample)
    PROVE  PeerInv(n)'
<1>1. n \in Node
  BY DEF Peers
<1>2. buffer' = [buffer EXCEPT ![n] = Queued(n, sample)]
  BY DEF MaintainInputLockstepTransport
<1>3. buffer'[n] = Queued(n, sample)
  BY <1>1, <1>2 DEF IInv, TypeInv, TypeOK
<1>4. ASSUME NEW p \in Player, NEW f \in Frame
      PROVE  \/ buffer'[n][p][f] = buffer[n][p][f]
             \/ /\ buffer[n][p][f] = NoRecord /\ buffer'[n][p][f] # NoRecord
                /\ Owner[p] = n /\ nextLocal[n] <= f
                /\ ~buffer'[n][p][f].predicted
  <2>1. CASE buffer'[n][p][f] # buffer[n][p][f]
    <3>1. /\ p \in LocalPlayers(n) /\ nextLocal[n] <= f
          /\ buffer[n][p][f] = NoRecord
          /\ buffer'[n][p][f] = OwnerRecord(f + 1, sample[p])
      BY <1>1, <1>3, <2>1, QueueFills
    <3> QED
      BY <2>1, <3>1 DEF LocalPlayers, OwnerRecord
  <2> QED
    BY <2>1
<1>5. UNCHANGED <<nextFrame, game, snapshots, rollback>>
  BY DEF MaintainInputLockstepTransport
<1> QED
  BY <1>4, <1>5, PeerFills

LEMMA PeerCannotBuild ==
    ASSUME IInv, NEW n \in Peers, PeerInv(n), StepFrame(n),
           ~CanBuild(n, buffer[n], nextFrame[n])
    PROVE  PeerInv(n)'
<1> DEFINE F == nextFrame[n]
           only == {F}
           slots == BuildOrPredictFrameInputs(n, buffer[n], only)
<1>1. n \in Node /\ F \in Nat
  BY Ranges DEF Peers
<1>2. buffer' = [buffer EXCEPT ![n] = slots] /\ UNCHANGED <<nextFrame, game, snapshots, rollback>>
  BY DEF StepFrame
<1> HIDE DEF slots
<1>3. buffer'[n] = slots
  BY <1>1, <1>2 DEF IInv, TypeInv, TypeOK
<1>4. ASSUME NEW p \in Player, NEW f \in Frame
      PROVE  \/ buffer'[n][p][f] = buffer[n][p][f]
             \/ /\ buffer[n][p][f] = NoRecord /\ buffer'[n][p][f] # NoRecord
                /\ nextFrame[n] <= f /\ buffer'[n][p][f].predicted
  <2>1. \/ slots[p][f] = buffer[n][p][f]
        \/ /\ buffer[n][p][f] = NoRecord /\ slots[p][f] # NoRecord
           /\ f \in only /\ slots[p][f].predicted
    <3> HIDE DEF only
    <3> QED
      BY PeerBuilds DEF BuildsOrGuesses, slots
  <2> QED
    BY <1>1, <1>3, <2>1
<1> QED
  BY <1>2, <1>4, PeerFills

\* A rollback leaves nothing wrong.
LEMMA PeerReplaysInv ==
    ASSUME IInv, NEW n \in Peers, PeerInv(n), ReplayRollbackWindow(n)
    PROVE  PeerInv(n)'
<1>1. /\ buffer' = buffer /\ nextFrame' = nextFrame
      /\ \A f \in Frame : game'[n][f] =
            IF rollback[n] <= f /\ f < nextFrame[n]
              THEN [p \in Player |-> buffer[n][p][f].input] ELSE game[n][f]
      /\ \A f \in Frame : (nextFrame[n] - (MaxRollback + KeepSlack) <= f /\ f < nextFrame[n])
            => snapshots'[n][f] = StateBefore(game'[n], f)
      /\ rollback'[n] = NoFrame
  BY PeerReplays
<1>2. /\ n \in Node /\ n # Host /\ nextFrame[n] \in Nat /\ \A f \in Frame : f \in Nat
      /\ rollback[n] # NoFrame /\ rollback[n] \in Nat
      /\ nextFrame[n] - BufferedFrames <= rollback[n]
  <2>1. n \in Node /\ n # Host /\ rollback[n] # NoFrame
    BY DEF Peers, ReplayRollbackWindow
  <2>2. nextFrame[n] \in Nat /\ rollback[n] \in Nat /\ \A f \in Frame : f \in Nat
    BY <2>1, Ranges, Sizes
  <2>3. nextFrame[n] - (MaxRollback + KeepSlack) <= rollback[n]
    BY <2>1 DEF PeerInv, RollbackInWindow
  <2> QED
    BY <2>1, <2>2, <2>3, Sizes
<1>3. /\ RemoteRecordsAreCanonical(n)' /\ WindowIsHeld(n)' /\ OldRecordsAreConfirmed(n)'
      /\ HeardBehindWindow(n)'
  BY <1>1 DEF PeerInv, RemoteRecordsAreCanonical, WindowIsHeld, OldRecordsAreConfirmed,
              HeardBehindWindow, IsCanonical
<1>4. SnapshotsAreExact(n)' /\ RollbackInWindow(n)'
  BY <1>1 DEF SnapshotsAreExact, RollbackInWindow
<1>5. NotYetStepped(n)'
  <2>1. ASSUME NEW f \in Frame, nextFrame[n] <= f PROVE ~(f < nextFrame[n])
    BY <1>2, <2>1
  <2> QED
    BY <1>1, <2>1 DEF PeerInv, NotYetStepped
<1>6. ASSUME NEW f \in Frame, rollback[n] <= f, f < nextFrame[n]
      PROVE  /\ \A p \in Player : buffer[n][p][f] \in Record
             /\ game'[n][f] \in InputVector
  <2>1. nextFrame[n] - BufferedFrames <= f
    BY <1>2, <1>6, Sizes
  <2>2. \A p \in Player : buffer[n][p][f] # NoRecord
    BY <1>6, <2>1 DEF PeerInv, WindowIsHeld
  <2>3. \A p \in Player : buffer[n][p][f] \in Record
    BY <1>2, <2>2 DEF IInv, TypeInv, TypeOK
  <2>4. \A p \in Player : buffer[n][p][f].input \in Input
    BY <2>3 DEF Record
  <2> QED
    BY <1>1, <1>6, <2>3, <2>4 DEF InputVector
<1>7. AppliedSoFar(n)'
  BY <1>1, <1>6 DEF PeerInv, AppliedSoFar
<1>8. WrongIsPending(n)'
  <2>1. ASSUME NEW p \in Player, NEW f \in Frame, f < nextFrame[n], buffer[n][p][f] # NoRecord
        PROVE  game'[n][f][p] = buffer[n][p][f].input
    <3>1. CASE rollback[n] <= f
      BY <1>1, <2>1, <3>1
    <3>2. CASE ~(rollback[n] <= f)
      BY <1>1, <2>1, <3>2 DEF PeerInv, WrongIsPending
    <3> QED
      BY <3>1, <3>2
  <2> QED
    BY <1>1, <2>1 DEF WrongIsPending
<1>9. DroppedAgree(n)'
  <2>1. game'[Host] = game[Host]
    BY <1>2, NodeAssumption, PeerReplays
  <2>2. ASSUME NEW f \in Frame, f < nextFrame[n] - BufferedFrames
        PROVE  game'[n][f] = game[n][f]
    <3>1. ~(rollback[n] <= f)
      BY <1>2, <2>2, Sizes
    <3> QED
      BY <1>1, <3>1
  <2> QED
    BY <1>1, <2>1, <2>2 DEF PeerInv, DroppedAgree
<1> QED
  BY <1>3, <1>4, <1>5, <1>7, <1>8, <1>9 DEF PeerInv

\* A packet of canonical records asks for the rollback it makes necessary.
LEMMA PeerHandles ==
    ASSUME IInv, NEW n \in Peers, PeerInv(n), NEW m \in network,
           HandleInputFrameRecords(n, m)
    PROVE  PeerInv(n)'
<1>1. /\ n \in Node /\ n # Host /\ nextFrame[n] \in Nat /\ \A f \in Frame : f \in Nat
      /\ rollback[n] \in Frame \cup {NoFrame}
  BY Ranges, Sizes DEF Peers
<1>2. UNCHANGED <<nextFrame, game, snapshots>>
  BY DEF HandleInputFrameRecords
<1>3. ASSUME NEW p \in Player, NEW f \in Frame
      PROVE  /\ buffer[n][p][f] # NoRecord => buffer'[n][p][f] # NoRecord
             /\ IsCanonical(n, p, f) => IsCanonical(n, p, f)'
             /\ buffer'[n][p][f] # buffer[n][p][f] =>
                   /\ buffer'[n][p][f] # NoRecord /\ ~buffer'[n][p][f].predicted
                   /\ IsCanonical(n, p, f)'
                   /\ Circulates(p, f, buffer'[n][p][f].input)
                   /\ buffer'[n][p][f].input \in Input
             /\ (/\ buffer[n][p][f] # NoRecord
                 /\ buffer'[n][p][f].input # buffer[n][p][f].input
                 /\ f < nextFrame[n])
                => f \in Corrected(n, m)
  BY <1>1, HandleStores
<1>4. /\ SnapshotsAreExact(n)' /\ NotYetStepped(n)' /\ AppliedSoFar(n)' /\ DroppedAgree(n)'
  BY <1>2 DEF PeerInv, SnapshotsAreExact, NotYetStepped, AppliedSoFar, DroppedAgree
<1>5. RemoteRecordsAreCanonical(n)'
  <2>1. ASSUME NEW p \in Player, NEW f \in Frame, Owner[p] # n,
               buffer'[n][p][f] # NoRecord, ~buffer'[n][p][f].predicted
        PROVE  IsCanonical(n, p, f)'
    <3>1. CASE buffer'[n][p][f] = buffer[n][p][f]
      <4>1. IsCanonical(n, p, f)
        BY <2>1, <3>1 DEF PeerInv, RemoteRecordsAreCanonical
      <4> QED
        BY <1>3, <4>1
    <3> QED
      BY <1>3, <3>1
  <2> QED
    BY <2>1 DEF RemoteRecordsAreCanonical
<1>6. WindowIsHeld(n)' /\ HeardBehindWindow(n)'
  BY <1>2, <1>3 DEF PeerInv, WindowIsHeld, HeardBehindWindow
<1>7. OldRecordsAreConfirmed(n)'
  BY <1>2, <1>3 DEF PeerInv, OldRecordsAreConfirmed
<1>8. RollbackInWindow(n)'
  <2>1. rollback'[n] \in Corrected(n, m) \cup {rollback[n]}
    BY <1>1, EarliestAsked
  <2>2. CASE rollback'[n] \in Corrected(n, m)
    <3>1. rollback'[n] \in Frame /\ nextFrame[n] - MaxRollback <= rollback'[n]
      BY <2>2, CorrectedInWindow
    <3>2. rollback'[n] \in Nat
      BY <1>1, <3>1
    <3>3. nextFrame[n] - (MaxRollback + KeepSlack) <= rollback'[n]
      BY <1>1, <3>1, <3>2, Sizes
    <3> QED
      BY <1>2, <3>3 DEF RollbackInWindow
  <2>3. CASE rollback'[n] = rollback[n]
    BY <1>2, <2>3 DEF PeerInv, RollbackInWindow
  <2> QED
    BY <2>1, <2>2, <2>3
<1>9. WrongIsPending(n)'
  <2>1. SUFFICES ASSUME NEW p \in Player, NEW f \in Frame, f < nextFrame[n],
                        buffer'[n][p][f] # NoRecord,
                        game[n][f][p] # buffer'[n][p][f].input
                 PROVE  rollback'[n] # NoFrame /\ rollback'[n] <= f
    BY <1>2 DEF WrongIsPending
  <2>2. f \in Corrected(n, m) => rollback'[n] # NoFrame /\ rollback'[n] <= f
    BY <1>1, EarliestAsked
  <2>3. CASE buffer[n][p][f] # NoRecord /\ game[n][f][p] # buffer[n][p][f].input
    <3>1. rollback[n] # NoFrame /\ rollback[n] <= f
      BY <2>1, <2>3 DEF PeerInv, WrongIsPending
    <3>2. rollback'[n] # NoFrame /\ rollback'[n] <= rollback[n]
      BY <1>1, <3>1, EarliestAsked
    <3>3. rollback'[n] \in Frame
      BY <1>1, <3>1, <3>2, EarliestAsked, CorrectedInWindow
    <3>4. rollback'[n] \in Nat /\ rollback[n] \in Nat /\ f \in Nat
      BY <1>1, <3>1, <3>3
    <3> QED
      BY <3>1, <3>2, <3>4
  <2>4. CASE buffer[n][p][f] # NoRecord /\ game[n][f][p] = buffer[n][p][f].input
    <3>1. f \in Corrected(n, m)
      BY <1>3, <2>1, <2>4
    <3> QED
      BY <2>2, <3>1
  <2>5. CASE buffer[n][p][f] = NoRecord
    <3>1. Circulates(p, f, buffer'[n][p][f].input) /\ buffer'[n][p][f].input \in Input
      BY <1>3, <2>1, <2>5
    <3>2. f < nextFrame[n] - BufferedFrames
      <4>1. ~(nextFrame[n] - BufferedFrames <= f)
        BY <2>1, <2>5 DEF PeerInv, WindowIsHeld
      <4> QED
        BY <1>1, <4>1, Sizes
    <3>3. f < nextFrame[Host] /\ game[n][f] = game[Host][f]
      BY <3>2 DEF PeerInv, DroppedAgree
    <3>4. buffer'[n][p][f].input = game[Host][f][p]
      BY <3>1, <3>3, HostInput
    <3> QED
      BY <2>1, <3>3, <3>4
  <2> QED
    BY <2>3, <2>4, <2>5
<1> QED
  BY <1>4, <1>5, <1>6, <1>7, <1>8, <1>9 DEF PeerInv

-----------------------------------------------------------------------------
(* Every step, for the whole session.                                      *)

\* The other peers' part of the invariant, when one node acts.
LEMMA OthersKeep ==
    ASSUME IInv, RInv, NEW n \in Node,
           \A i \in Node : i # n =>
               /\ buffer'[i] = buffer[i] /\ nextFrame'[i] = nextFrame[i]
               /\ game'[i] = game[i] /\ snapshots'[i] = snapshots[i]
               /\ rollback'[i] = rollback[i],
           nextFrame[Host] <= nextFrame'[Host], nextFrame'[Host] \in Nat,
           \A f \in Frame : f < nextFrame[Host] => game'[Host][f] = game[Host][f],
           n # Host => PeerInv(n)'
    PROVE  \A i \in Peers : PeerInv(i)'
<1> SUFFICES ASSUME NEW i \in Peers PROVE PeerInv(i)'
  OBVIOUS
<1>1. i \in Node /\ i # Host /\ PeerInv(i)
  BY DEF Peers, RInv
<1>2. CASE i = n
  BY <1>1, <1>2
<1>3. CASE i # n
  BY <1>1, <1>3, Untouched
<1> QED
  BY <1>2, <1>3

\* A transport pump.
LEMMA MaintainRInv ==
    ASSUME IInv, RInv, NEW n \in Node, NEW sample \in Samples(n),
           MaintainInputLockstepTransport(n, sample)
    PROVE  RInv'
<1>1. /\ buffer' = [buffer EXCEPT ![n] = Queued(n, sample)]
      /\ nextLocal' = [nextLocal EXCEPT ![n] = LocalFrameAfterQueue(n)]
      /\ tick' = [node |-> n, at |-> "prepare"]
      /\ UNCHANGED <<nextFrame, rollback, snapshots, game>>
  BY DEF MaintainInputLockstepTransport
<1>2. /\ buffer'[n] = Queued(n, sample) /\ nextLocal'[n] = LocalFrameAfterQueue(n)
      /\ \A i \in Node : i # n => buffer'[i] = buffer[i] /\ nextLocal'[i] = nextLocal[i]
  BY <1>1 DEF IInv, TypeInv, TypeOK
<1>3. \A i \in Node : nextFrame[i] \in Nat /\ nextLocal[i] \in Nat
  BY Ranges
<1>4. \A i \in Peers : PeerInv(i)'
  <2>1. n # Host => PeerInv(n)'
    BY PeerMaintains DEF RInv, Peers
  <2>2. nextFrame[Host] <= nextFrame'[Host] /\ nextFrame'[Host] \in Nat
    BY <1>1, <1>3, NodeAssumption
  <2> QED
    BY <1>1, <1>2, <2>1, <2>2, OthersKeep
<1>5. ASSUME NEW p \in Player, NEW f \in Frame, buffer[Host][p][f] # NoRecord
      PROVE  buffer'[Host][p][f] = buffer[Host][p][f]
  BY <1>2, <1>5, NodeAssumption, QueueFills
<1>6. HostKeepsCanonical'
  BY <1>1, <1>5 DEF RInv, HostKeepsCanonical, IsCanonical
<1>7. HostHasItsOwn'
  <2>1. ASSUME NEW p \in LocalPlayers(Host), NEW f \in Frame,
               nextFrame[Host] <= f, f < nextLocal'[Host]
        PROVE  buffer'[Host][p][f] # NoRecord
    <3>1. CASE f < nextLocal[Host]
      <4>1. p \in Player /\ buffer[Host][p][f] # NoRecord
        BY <2>1, <3>1 DEF RInv, HostHasItsOwn, LocalPlayers
      <4> QED
        BY <1>5, <4>1
    <3>2. CASE ~(f < nextLocal[Host])
      <4>1. n = Host /\ nextLocal'[Host] = nextFrame[Host] + InputDelay + 1
        BY <1>2, <2>1, <3>2, NodeAssumption DEF LocalFrameAfterQueue
      <4>2. f \in nextLocal[n] .. (nextFrame[n] + InputDelay) /\ p \in Player
        BY <1>3, <2>1, <3>2, <4>1, NodeAssumption, Sizes DEF LocalPlayers
      <4>3. buffer'[Host][p][f] = Store(buffer[n][p][f], OwnerRecord(f + 1, sample[p]))
        BY <1>2, <2>1, <4>1, <4>2 DEF Queued
      <4>4. buffer[n][p][f] \in Slot
        BY <4>2, Ranges DEF Slots
      <4>5. OwnerRecord(f + 1, sample[p]) \in Record
        <5>1. sample[p] \in Input
          BY <2>1, <4>1 DEF Samples
        <5>2. f + 1 \in Nat
          BY Sizes
        <5> QED
          BY <5>1, <5>2 DEF OwnerRecord, Record
      <4> QED
        BY <4>3, <4>4, <4>5, StoreResult, NoRecordAssumption
    <3> QED
      BY <3>1, <3>2
  <2> QED
    BY <1>1, <2>1 DEF HostHasItsOwn, LocalPlayers
<1>8. QueuedToTheDelay'
  <2>1. ASSUME NEW i \in Node PROVE nextLocal'[i] <= nextFrame[i] + InputDelay + 1
    <3>1. nextLocal[i] <= nextFrame[i] + InputDelay + 1
      BY DEF RInv, QueuedToTheDelay
    <3> QED
      BY <1>2, <1>3, <3>1, Sizes DEF LocalFrameAfterQueue
  <2> QED
    BY <1>1, <2>1 DEF QueuedToTheDelay
<1>9. StepsAfterReplay'
  BY <1>1 DEF StepsAfterReplay, At
<1>10. WithinWindow'
  BY <1>1 DEF RInv, WithinWindow
<1> QED
  BY <1>4, <1>6, <1>7, <1>8, <1>9, <1>10 DEF RInv

\* A packet.
LEMMA HandleRInv ==
    ASSUME IInv, RInv, NEW n \in Node, NEW m \in network, HandleInputFrameRecords(n, m)
    PROVE  RInv'
<1>1. UNCHANGED <<nextFrame, nextLocal, snapshots, game, tick>> /\ tick = Idle
  BY DEF HandleInputFrameRecords
<1>2. \A i \in Node : i # n => buffer'[i] = buffer[i] /\ rollback'[i] = rollback[i]
  <2>1. \E slots : buffer' = [buffer EXCEPT ![n] = slots]
    BY DEF HandleInputFrameRecords
  <2>2. \A i \in Node : i # n => buffer'[i] = buffer[i]
    BY <2>1 DEF IInv, TypeInv, TypeOK
  <2> QED
    BY <2>2, EarliestAsked
<1>3. \A i \in Peers : PeerInv(i)'
  <2>1. n # Host => PeerInv(n)'
    BY PeerHandles DEF RInv, Peers
  <2>2. nextFrame[Host] <= nextFrame'[Host] /\ nextFrame'[Host] \in Nat
    BY <1>1, NodeAssumption, Ranges
  <2> QED
    BY <1>1, <1>2, <2>1, <2>2, OthersKeep
<1>4. ASSUME NEW p \in Player, NEW f \in Frame
      PROVE  /\ buffer[Host][p][f] # NoRecord => buffer'[Host][p][f] # NoRecord
             /\ IsCanonical(Host, p, f) => IsCanonical(Host, p, f)'
  <2>1. CASE n = Host
    BY <2>1, NodeAssumption, HandleStores
  <2>2. CASE n # Host
    BY <1>2, <2>2, NodeAssumption DEF IsCanonical
  <2> QED
    BY <2>1, <2>2
<1>5. HostKeepsCanonical' /\ HostHasItsOwn'
  BY <1>1, <1>4 DEF RInv, HostKeepsCanonical, HostHasItsOwn, LocalPlayers
<1>6. QueuedToTheDelay' /\ WithinWindow'
  BY <1>1 DEF RInv, QueuedToTheDelay, WithinWindow
<1>7. StepsAfterReplay'
  BY <1>1 DEF StepsAfterReplay, At, Idle
<1> QED
  BY <1>3, <1>5, <1>6, <1>7 DEF RInv

\* A rollback, which only a peer does.
LEMMA ReplayRInv ==
    ASSUME IInv, RInv, NEW n \in Node, ReplayRollbackWindow(n)
    PROVE  RInv'
<1>1. n \in Peers /\ PeerInv(n)
  BY DEF ReplayRollbackWindow, IInv, HostNeverAsks, Peers, RInv
<1>2. /\ buffer' = buffer /\ nextFrame' = nextFrame /\ rollback'[n] = NoFrame
      /\ \A i \in Node : i # n =>
            game'[i] = game[i] /\ snapshots'[i] = snapshots[i] /\ rollback'[i] = rollback[i]
  BY <1>1, PeerReplays
<1>3. /\ UNCHANGED nextLocal /\ CanStepWithoutRunningAheadOfRemoteInputs(n)
      /\ tick' \in {[node |-> n, at |-> "step"], Idle}
  BY DEF ReplayRollbackWindow
<1>4. \A i \in Peers : PeerInv(i)'
  <2>1. n # Host /\ PeerInv(n)'
    BY <1>1, PeerReplaysInv DEF Peers
  <2>2. nextFrame[Host] <= nextFrame'[Host] /\ nextFrame'[Host] \in Nat
    BY <1>2, NodeAssumption, Ranges
  <2> QED
    BY <1>2, <2>1, <2>2, NodeAssumption, OthersKeep
<1>5. HostKeepsCanonical' /\ HostHasItsOwn' /\ QueuedToTheDelay' /\ WithinWindow'
  BY <1>2, <1>3 DEF RInv, HostKeepsCanonical, HostHasItsOwn, LocalPlayers, IsCanonical,
                   QueuedToTheDelay, WithinWindow
<1>6. StepsAfterReplay'
  <2>1. ASSUME NEW i \in Node, At(i, "step")'
        PROVE  rollback'[i] = NoFrame /\ CanStepWithoutRunningAheadOfRemoteInputs(i)'
    <3>1. i = n
      BY <1>3, <2>1 DEF At, Idle
    <3> QED
      BY <1>2, <1>3, <3>1 DEF CanStepWithoutRunningAheadOfRemoteInputs, LocalPlayers
  <2> QED
    BY <2>1 DEF StepsAfterReplay
<1> QED
  BY <1>4, <1>5, <1>6 DEF RInv

\* The steps that only end a tick: the snapshot of a requested rollback is
\* never missing.
LEMMA OtherStepsRInv ==
    ASSUME IInv, RInv,
           \/ \E n \in Node : \/ ModeDoesNotAdvance(n)
                              \/ WaitForRemoteInputs(n)
                              \/ RollbackSnapshotMissing(n)
           \/ UNCHANGED vars
    PROVE  RInv'
<1>1. ASSUME NEW n \in Node PROVE ~RollbackSnapshotMissing(n)
  <2>1. SUFFICES ASSUME rollback[n] # NoFrame, snapshots[n][rollback[n]] = NoSnapshot
                 PROVE  FALSE
    BY DEF RollbackSnapshotMissing
  <2>2. n \in Peers /\ PeerInv(n)
    BY <2>1 DEF IInv, HostNeverAsks, Peers, RInv
  <2>3. rollback[n] \in Frame /\ rollback[n] < nextFrame[n] /\ game[n] \in GameLog
    BY <2>1, Ranges
  <2>4. snapshots[n][rollback[n]] = StateBefore(game[n], rollback[n])
    BY <2>1, <2>2, <2>3 DEF PeerInv, SnapshotsAreExact, RollbackInWindow
  <2>5. StateBefore(game[n], rollback[n]) \in GameLog
    BY <2>3 DEF StateBefore, GameLog
  <2> QED
    BY <2>1, <2>4, <2>5, NoSnapshotAssumption
<1>2. /\ UNCHANGED <<nextFrame, nextLocal, buffer, rollback, snapshots, game>>
      /\ tick' = Idle \/ tick' = tick
  BY <1>1 DEF ModeDoesNotAdvance, WaitForRemoteInputs, vars
<1>3. \A i \in Peers : PeerInv(i)'
  <2>1. ASSUME NEW i \in Peers PROVE PeerInv(i)'
    <3>1. nextFrame[Host] <= nextFrame'[Host] /\ nextFrame'[Host] \in Nat
      BY <1>2, NodeAssumption, Ranges
    <3> QED
      BY <1>2, <3>1, Untouched DEF RInv
  <2> QED
    BY <2>1
<1>4. HostKeepsCanonical' /\ HostHasItsOwn' /\ QueuedToTheDelay' /\ WithinWindow'
  BY <1>2 DEF RInv, HostKeepsCanonical, HostHasItsOwn, LocalPlayers, IsCanonical,
             QueuedToTheDelay, WithinWindow
<1>5. StepsAfterReplay'
  <2>1. CASE tick' = Idle
    BY <2>1 DEF StepsAfterReplay, At, Idle
  <2>2. CASE tick' = tick
    BY <1>2, <2>2 DEF RInv, StepsAfterReplay, At, CanStepWithoutRunningAheadOfRemoteInputs, LocalPlayers
  <2> QED
    BY <1>2, <2>1, <2>2
<1> QED
  BY <1>3, <1>4, <1>5 DEF RInv

\* Building at the host leaves other frames alone, and loses nothing.
LEMMA HostBuilds ==
    ASSUME IInv, NEW F \in Frame, NEW p \in Player, NEW f \in Frame
    PROVE  LET built == BuildOrPredictFrameInputs(Host, buffer[Host], {F})[p][f]
           IN  /\ f # F => built = buffer[Host][p][f]
               /\ buffer[Host][p][f] # NoRecord => built # NoRecord
<1> DEFINE built == BuildOrPredictFrameInputs(Host, buffer[Host], {F})[p][f]
<1>1. built = buffer[Host][p][f] \/ (f = F /\ built = BuiltRecord(Host, buffer[Host], p, f))
  BY DEF BuildOrPredictFrameInputs
<1>2. BuiltRecord(Host, buffer[Host], p, f) # NoRecord
  BY NodeAssumption, Ranges, BuiltRecordType, NoRecordAssumption
<1> HIDE DEF built
<1> QED
  BY <1>1, <1>2 DEF built

\* A frame cannot be built: nothing but the buffer changes.
LEMMA CannotBuildRInv ==
    ASSUME IInv, RInv, NEW n \in Node, StepFrame(n), ~CanBuild(n, buffer[n], nextFrame[n])
    PROVE  RInv'
<1> DEFINE F == nextFrame[n]
           slots == BuildOrPredictFrameInputs(n, buffer[n], {F})
<1>1. /\ buffer' = [buffer EXCEPT ![n] = slots] /\ tick' = Idle
      /\ UNCHANGED <<nextFrame, nextLocal, rollback, snapshots, game>>
  BY DEF StepFrame
<1>2. F \in Frame /\ F \in Nat /\ \A f \in Frame : f \in Nat
  BY Ranges, Sizes
<1> HIDE DEF slots
<1>3. buffer'[n] = slots /\ \A i \in Node : i # n => buffer'[i] = buffer[i]
  BY <1>1 DEF IInv, TypeInv, TypeOK
<1>4. \A i \in Peers : PeerInv(i)'
  <2>1. n # Host => PeerInv(n)'
    BY PeerCannotBuild DEF RInv, Peers
  <2>2. nextFrame[Host] <= nextFrame'[Host] /\ nextFrame'[Host] \in Nat
    BY <1>1, NodeAssumption, Ranges
  <2> QED
    BY <1>1, <1>3, <2>1, <2>2, OthersKeep
<1>5. ASSUME NEW p \in Player, NEW f \in Frame
      PROVE  /\ buffer[Host][p][f] # NoRecord => buffer'[Host][p][f] # NoRecord
             /\ f < nextFrame[Host] => buffer'[Host][p][f] = buffer[Host][p][f]
  <2>1. CASE n = Host
    <3>1. /\ f # F => slots[p][f] = buffer[Host][p][f]
          /\ buffer[Host][p][f] # NoRecord => slots[p][f] # NoRecord
      <4> HIDE DEF F
      <4> QED
        BY <1>2, <2>1, HostBuilds DEF slots
    <3>2. f < nextFrame[Host] => f # F
      BY <1>2, <2>1
    <3> QED
      BY <1>3, <2>1, <3>1, <3>2
  <2>2. CASE n # Host
    BY <1>3, <2>2, NodeAssumption
  <2> QED
    BY <2>1, <2>2
<1>6. HostKeepsCanonical' /\ HostHasItsOwn'
  BY <1>1, <1>5 DEF RInv, HostKeepsCanonical, HostHasItsOwn, IsCanonical, LocalPlayers
<1>7. QueuedToTheDelay' /\ WithinWindow'
  BY <1>1 DEF RInv, QueuedToTheDelay, WithinWindow
<1>8. StepsAfterReplay'
  BY <1>1 DEF StepsAfterReplay, At, Idle
<1> QED
  BY <1>4, <1>6, <1>7, <1>8 DEF RInv

\* The host steps no frame that a peer has not queued, nor one beyond the
\* rollback window of a peer.
LEMMA HostStaysWithin ==
    ASSUME IInv, QueuedToTheDelay, CanBuild(Host, buffer[Host], nextFrame[Host]),
           CanStepWithoutRunningAheadOfRemoteInputs(Host),
           NEW p \in Player, Owner[p] # Host
    PROVE  /\ nextFrame[Host] <= nextFrame[Owner[p]] + MaxRollback
           /\ nextFrame[Host] <= nextFrame[Owner[p]] + InputDelay
<1> DEFINE F == nextFrame[Host]
           o == Owner[p]
<1>1. o \in Node /\ F \in Frame /\ F \in Nat /\ nextFrame[o] \in Nat /\ nextLocal[o] \in Nat
  <2>1. o \in Node
    BY PlayerAssumption
  <2> QED
    BY <2>1, NodeAssumption, Ranges
<1>2. nextLocal[o] <= nextFrame[o] + InputDelay + 1
  BY <1>1 DEF QueuedToTheDelay
<1>3. PICK h \in ConfirmedFrames(buffer[Host][p]) :
        h >= InputDelay /\ F <= h - InputDelay + MaxRollback
  BY DEF CanStepWithoutRunningAheadOfRemoteInputs, LocalPlayers
<1>4. h \in Frame /\ h \in Nat /\ buffer[Host][p][h] # NoRecord
  <2>1. buffer[Host][p] \in [Frame -> Slot]
    BY NodeAssumption, Ranges DEF Slots
  <2> QED
    BY <2>1, Sizes DEF ConfirmedFrames
<1>5. h < nextLocal[o]
  BY <1>4, NodeAssumption, OwnRecord, HeldInput
<1>6. buffer[Host][p][F] # NoRecord
  BY DEF CanBuild, Available
<1>7. F < nextLocal[o]
  BY <1>1, <1>6, NodeAssumption, OwnRecord, HeldInput
<1> HIDE DEF F, o
<1>8. F <= nextFrame[o] + MaxRollback /\ F <= nextFrame[o] + InputDelay
  BY <1>1, <1>2, <1>3, <1>4, <1>5, <1>7, Sizes
<1> QED
  BY <1>8 DEF F, o

\* A frame is stepped.
LEMMA StepRInv ==
    ASSUME IInv, RInv, SomebodyElsePlays, HeardWithoutGaps,
           NEW n \in Node, StepFrame(n), CanBuild(n, buffer[n], nextFrame[n])
    PROVE  RInv'
<1> DEFINE F == nextFrame[n]
           slots == BuildOrPredictFrameInputs(n, buffer[n], {F})
<1>1. /\ F \in Frame /\ nextFrame' = [nextFrame EXCEPT ![n] = F + 1]
      /\ nextFrame'[n] = F + 1
      /\ \A p \in Player, f \in Frame :
            buffer'[n][p][f] = IF f < F + 1 - BufferedFrames THEN NoRecord ELSE slots[p][f]
      /\ \A f \in Frame : f # F => game'[n][f] = game[n][f]
      /\ \A i \in Node : i # n =>
            /\ buffer'[i] = buffer[i] /\ game'[i] = game[i]
            /\ snapshots'[i] = snapshots[i] /\ nextFrame'[i] = nextFrame[i]
      /\ UNCHANGED <<nextLocal, rollback, network>>
  BY StepChanges
<1>2. CanStepWithoutRunningAheadOfRemoteInputs(n)
  BY DEF StepFrame, RInv, StepsAfterReplay
<1>3. F \in Nat /\ (\A f \in Frame : f \in Nat) /\ \A i \in Node : nextFrame[i] \in Nat
  BY Ranges, Sizes
<1>4. n = Host => \A p \in Player, f \in Frame :
         /\ f # F => slots[p][f] = buffer[Host][p][f]
         /\ slots[p][F] # NoRecord /\ slots[p][F].canonical
  <2>1. F \in Frame /\ CanBuild(n, buffer[n], F)
    BY <1>1
  <2> HIDE DEF F
  <2> QED
    BY <2>1, HostBuilds, BuiltIsHeld
<1> HIDE DEF slots
<1>5. \A i \in Peers : PeerInv(i)'
  <2>1. n # Host => PeerInv(n)'
    BY PeerStepsFrame DEF RInv, Peers
  <2>2. nextFrame[Host] <= nextFrame'[Host] /\ nextFrame'[Host] \in Nat
    BY <1>1, <1>3, NodeAssumption
  <2>3. \A f \in Frame : f < nextFrame[Host] => game'[Host][f] = game[Host][f]
    BY <1>1, <1>3, NodeAssumption
  <2>4. \A i \in Node : i # n =>
          /\ buffer'[i] = buffer[i] /\ nextFrame'[i] = nextFrame[i]
          /\ game'[i] = game[i] /\ snapshots'[i] = snapshots[i]
          /\ rollback'[i] = rollback[i]
    BY <1>1
  <2> QED
    BY <2>1, <2>2, <2>3, <2>4, OthersKeep
<1>6. HostKeepsCanonical'
  <2>1. CASE n = Host
    <3>1. ASSUME NEW p \in Player, NEW f \in Frame,
                 F + 1 - BufferedFrames <= f, f < F + 1
          PROVE  IsCanonical(Host, p, f)'
      <4>1. buffer'[Host][p][f] = slots[p][f]
        <5>1. ~(f < F + 1 - BufferedFrames)
          BY <1>3, <3>1, Sizes
        <5> QED
          BY <1>1, <2>1, <5>1
      <4>2. CASE f = F
        BY <1>4, <2>1, <4>1, <4>2 DEF IsCanonical
      <4>3. CASE f # F
        <5>1. nextFrame[Host] - BufferedFrames <= f /\ f < nextFrame[Host]
          BY <1>3, <2>1, <3>1, <4>3, Sizes
        <5>2. IsCanonical(Host, p, f)
          BY <5>1 DEF RInv, HostKeepsCanonical
        <5>3. slots[p][f] = buffer[Host][p][f]
          BY <1>4, <2>1, <4>3
        <5> QED
          BY <4>1, <5>2, <5>3 DEF IsCanonical
      <4> QED
        BY <4>2, <4>3
    <3>2. nextFrame'[Host] = F + 1
      BY <1>1, <2>1
    <3> HIDE DEF F
    <3> QED
      BY <1>3, <3>1, <3>2, Sizes DEF HostKeepsCanonical
  <2>2. CASE n # Host
    BY <1>1, <2>2, NodeAssumption DEF RInv, HostKeepsCanonical, IsCanonical
  <2> QED
    BY <2>1, <2>2
<1>7. HostHasItsOwn'
  <2>1. CASE n = Host
    <3>1. ASSUME NEW p \in LocalPlayers(Host), NEW f \in Frame,
                 F + 1 <= f, f < nextLocal[Host]
          PROVE  buffer'[Host][p][f] # NoRecord
      <4>1. p \in Player /\ f # F /\ F <= f /\ ~(f < F + 1 - BufferedFrames)
        BY <1>3, <3>1, Sizes DEF LocalPlayers
      <4>2. buffer[Host][p][f] # NoRecord
        BY <2>1, <3>1, <4>1 DEF RInv, HostHasItsOwn
      <4> QED
        BY <1>1, <1>4, <2>1, <4>1, <4>2
    <3>2. nextFrame'[Host] = F + 1 /\ nextLocal' = nextLocal
      BY <1>1, <2>1
    <3> HIDE DEF F
    <3> QED
      BY <1>3, <3>1, <3>2, Sizes DEF HostHasItsOwn, LocalPlayers
  <2>2. CASE n # Host
    BY <1>1, <2>2, NodeAssumption DEF RInv, HostHasItsOwn, LocalPlayers
  <2> QED
    BY <2>1, <2>2
<1>8. QueuedToTheDelay'
  <2>1. ASSUME NEW i \in Node PROVE nextLocal[i] <= nextFrame'[i] + InputDelay + 1
    <3>1. nextLocal[i] <= nextFrame[i] + InputDelay + 1 /\ nextLocal[i] \in Nat
      BY Ranges DEF RInv, QueuedToTheDelay
    <3>2. nextFrame'[i] \in {nextFrame[i], nextFrame[i] + 1}
      BY <1>1
    <3> QED
      BY <1>3, <3>1, <3>2, Sizes
  <2> QED
    BY <1>1, <2>1 DEF QueuedToTheDelay
<1>9. StepsAfterReplay'
  BY DEF StepFrame, StepsAfterReplay, At, Idle
<1>10. WithinWindow'
  <2>1. SUFFICES ASSUME NEW p \in Player, Owner[p] # Host
                 PROVE  /\ nextFrame'[Host] <= nextFrame'[Owner[p]] + 1 + MaxRollback
                        /\ nextFrame'[Host] <= nextFrame'[Owner[p]] + 1 + InputDelay
                        /\ nextFrame'[Owner[p]] > 0 =>
                              nextFrame'[Owner[p]] <= nextFrame'[Host] - InputDelay + MaxRollback
    BY DEF WithinWindow
  <2> DEFINE o == Owner[p]
  <2>2. o \in Node /\ nextFrame[o] \in Nat /\ nextFrame[Host] \in Nat
    BY <1>3, PlayerAssumption, NodeAssumption
  <2>3. /\ nextFrame[Host] <= nextFrame[o] + 1 + MaxRollback
        /\ nextFrame[Host] <= nextFrame[o] + 1 + InputDelay
        /\ nextFrame[o] > 0 => nextFrame[o] <= nextFrame[Host] - InputDelay + MaxRollback
    BY <2>1 DEF RInv, WithinWindow
  <2>4. CASE n = Host
    <3>1. nextFrame[Host] <= nextFrame[o] + MaxRollback /\ nextFrame[Host] <= nextFrame[o] + InputDelay
      BY <1>2, <2>1, <2>4, HostStaysWithin DEF RInv
    <3>2. nextFrame'[Host] = nextFrame[Host] + 1 /\ nextFrame'[o] = nextFrame[o]
      BY <1>1, <2>1, <2>2, <2>4
    <3> HIDE DEF o
    <3> QED
      BY <2>2, <2>3, <3>1, <3>2, Sizes DEF o
  <2>5. CASE n = o
    <3>1. n \in Peers /\ RemoteRecordsAreCanonical(n)
      BY <2>1, <2>5 DEF Peers, RInv, PeerInv
    <3>2. PICK h \in Frame : F + InputDelay - MaxRollback <= h /\ h < nextFrame[Host]
      BY <1>2, <3>1, HeardFrontier
    <3>3. nextFrame'[Host] = nextFrame[Host] /\ nextFrame'[o] = F + 1 /\ nextFrame[o] = F
      BY <1>1, <2>1, <2>5, NodeAssumption
    <3> HIDE DEF o, F
    <3> QED
      BY <1>3, <2>2, <2>3, <3>2, <3>3, Sizes DEF o
  <2>6. CASE n # Host /\ n # o
    BY <1>1, <2>2, <2>3, <2>6, NodeAssumption
  <2> QED
    BY <2>4, <2>5, <2>6
<1> QED
  BY <1>5, <1>6, <1>7, <1>8, <1>9, <1>10 DEF RInv

\* Every step keeps the invariant, as long as what peers hear has no gaps.
LEMMA NextRInv ==
    ASSUME SomebodyElsePlays
    PROVE  IInv /\ RInv /\ HeardWithoutGaps /\ [Next]_vars => RInv'
<1>1. ASSUME IInv, RInv, HeardWithoutGaps, NEW n \in Node, StepFrame(n) PROVE RInv'
  BY <1>1, StepRInv, CannotBuildRInv
<1> QED
  BY <1>1, MaintainRInv, HandleRInv, ReplayRInv, OtherStepsRInv
  DEF Next, PrepareInputLockstepFrame, Maintain

\* A session starts with it.
LEMMA InitRInv == Init => RInv
<1> SUFFICES ASSUME Init PROVE RInv
  OBVIOUS
<1>1. /\ \A n \in Node : /\ nextFrame[n] = 0 /\ nextLocal[n] = 0 /\ rollback[n] = NoFrame
                         /\ \A p \in Player, f \in Frame : buffer[n][p][f] = NoRecord
                         /\ \A f \in Frame : game[n][f] = NotStepped
      /\ tick = Idle
  BY DEF Init
<1>2. \A f \in Frame : f \in Nat
  BY Sizes
<1>3. ASSUME NEW n \in Peers PROVE PeerInv(n)
  <2>1. n \in Node
    BY DEF Peers
  <2>2. \A f \in Frame : ~(f < nextFrame[n]) /\ ~(f < nextFrame[n] - BufferedFrames)
    BY <1>1, <1>2, <2>1, Sizes
  <2>3. RemoteRecordsAreCanonical(n) /\ WindowIsHeld(n) /\ OldRecordsAreConfirmed(n)
    BY <1>1, <2>1, <2>2 DEF RemoteRecordsAreCanonical, WindowIsHeld, OldRecordsAreConfirmed
  <2>4. HeardBehindWindow(n)
    BY <1>1, <2>1 DEF HeardBehindWindow
  <2>5. SnapshotsAreExact(n) /\ NotYetStepped(n) /\ AppliedSoFar(n) /\ RollbackInWindow(n)
    BY <1>1, <2>1, <2>2 DEF SnapshotsAreExact, NotYetStepped, AppliedSoFar, RollbackInWindow
  <2>6. WrongIsPending(n) /\ DroppedAgree(n)
    BY <2>2 DEF WrongIsPending, DroppedAgree
  <2> QED
    BY <2>3, <2>4, <2>5, <2>6 DEF PeerInv
<1>4. HostKeepsCanonical /\ HostHasItsOwn
  <2>1. \A f \in Frame : ~(f < nextFrame[Host]) /\ ~(f < nextLocal[Host])
    BY <1>1, <1>2, NodeAssumption
  <2> QED
    BY <2>1 DEF HostKeepsCanonical, HostHasItsOwn
<1>5. QueuedToTheDelay /\ StepsAfterReplay
  BY <1>1, Sizes DEF QueuedToTheDelay, StepsAfterReplay, At, Idle
<1>6. WithinWindow
  BY <1>1, Sizes, PlayerAssumption, NodeAssumption DEF WithinWindow
<1> QED
  BY <1>3, <1>4, <1>5, <1>6 DEF RInv

\* It holds always, as long as what peers hear has no gaps.
LEMMA RInvInvariant ==
    ASSUME SomebodyElsePlays
    PROVE  Spec /\ []HeardWithoutGaps => []RInv
<1>1. IInv /\ RInv /\ HeardWithoutGaps /\ [Next]_vars => RInv'
  BY NextRInv
<1> QED
  BY <1>1, InitRInv, IInvInvariant, PTL DEF Spec

-----------------------------------------------------------------------------
(* What it gives, for every delay, rollback window, history and packet     *)
(* size, whatever the network loses, repeats or reorders.                  *)

\* The properties follow from the invariant; for the host from IInv alone.
LEMMA RInvGives ==
    ASSUME IInv, RInv
    PROVE  WrongInputIsRolledBack /\ RollbackIsExact /\ DroppedFramesAgree
<1>1. WrongInputIsRolledBack
  <2> SUFFICES ASSUME NEW n \in Node, NEW p \in Player, NEW f \in Frame, f < nextFrame[n],
                      buffer[n][p][f] # NoRecord, game[n][f][p] # buffer[n][p][f].input
               PROVE  rollback[n] # NoFrame /\ rollback[n] <= f
    BY DEF WrongInputIsRolledBack
  <2>1. CASE n = Host
    BY <2>1, OwnRecord, HeldInput, HostInput
  <2>2. CASE n # Host
    BY <2>2 DEF RInv, PeerInv, WrongIsPending, Peers
  <2> QED
    BY <2>1, <2>2
<1>2. RollbackIsExact
  <2> SUFFICES ASSUME NEW n \in Node, rollback[n] # NoFrame
               PROVE  snapshots[n][rollback[n]] = StateBefore(game[n], rollback[n])
    BY DEF RollbackIsExact
  <2>1. PeerInv(n)
    BY DEF IInv, HostNeverAsks, RInv, Peers
  <2>2. rollback[n] \in Frame /\ rollback[n] < nextFrame[n]
    BY Ranges
  <2> QED
    BY <2>1, <2>2 DEF PeerInv, RollbackInWindow, SnapshotsAreExact
<1>3. DroppedFramesAgree
  BY DEF RInv, PeerInv, DroppedAgree, DroppedFramesAgree
<1> QED
  BY <1>1, <1>2, <1>3

\* A node whose simulation used another input than its buffer now holds has
\* the rollback pending: no correction is forgotten (Store,
\* RequestRollbackFromFrame, ReplayRollbackWindow).
THEOREM CorrectionsArePending ==
    ASSUME SomebodyElsePlays
    PROVE  Spec /\ []HeardWithoutGaps => []WrongInputIsRolledBack
<1>1. IInv /\ RInv => WrongInputIsRolledBack
  BY RInvGives
<1>2. Spec /\ []HeardWithoutGaps => []RInv
  BY RInvInvariant
<1> QED
  BY <1>1, <1>2, IInvInvariant, PTL

\* The snapshot of a requested rollback is there, and is exactly the
\* simulation before that frame (SaveRollbackSnapshot, PruneRollbackSnapshots).
THEOREM RollbacksAreExact ==
    ASSUME SomebodyElsePlays
    PROVE  Spec /\ []HeardWithoutGaps => []RollbackIsExact
<1>1. IInv /\ RInv => RollbackIsExact
  BY RInvGives
<1>2. Spec /\ []HeardWithoutGaps => []RInv
  BY RInvInvariant
<1> QED
  BY <1>1, <1>2, IInvInvariant, PTL

\* A frame whose records have left a peer's buffer was stepped with the host's
\* inputs.
THEOREM DroppedFramesAreTheHosts ==
    ASSUME SomebodyElsePlays
    PROVE  Spec /\ []HeardWithoutGaps => []DroppedFramesAgree
<1>1. IInv /\ RInv => DroppedFramesAgree
  BY RInvGives
<1>2. Spec /\ []HeardWithoutGaps => []RInv
  BY RInvInvariant
<1> QED
  BY <1>1, <1>2, IInvInvariant, PTL

\* Host and peers stay within the delay and the rollback window of each other
\* (CanStepWithoutRunningAheadOfRemoteInputs).
THEOREM NobodyRunsAway ==
    ASSUME SomebodyElsePlays
    PROVE  Spec /\ []HeardWithoutGaps => []WithinWindow
<1>1. RInv => WithinWindow
  BY DEF RInv
<1>2. Spec /\ []HeardWithoutGaps => []RInv
  BY RInvInvariant
<1> QED
  BY <1>1, <1>2, PTL

\* A rollback is always replayed up to the present frame: no node ever has
\* fewer frames stepped after a step than before it (ReplayRollbackWindow).
NoFrameIsTakenBack == [][\A n \in Node : nextFrame'[n] >= nextFrame[n]]_vars

\* No step takes a frame back.
LEMMA NextGrows ==
    ASSUME IInv, RInv, [Next]_vars
    PROVE  \A n \in Node : nextFrame'[n] >= nextFrame[n]
<1> DEFINE Grows == \A n \in Node : nextFrame'[n] >= nextFrame[n]
<1> SUFFICES Grows
  OBVIOUS
<1>0. \A n \in Node : nextFrame[n] \in Nat
  BY Ranges
<1>1. CASE nextFrame' = nextFrame
  BY <1>0, <1>1
<1>2. ASSUME NEW n \in Node, StepFrame(n) PROVE Grows
  <2>1. CASE CanBuild(n, buffer[n], nextFrame[n])
    <3>1. /\ nextFrame'[n] = nextFrame[n] + 1
          /\ \A i \in Node : i # n => nextFrame'[i] = nextFrame[i]
      BY <1>2, <2>1, StepChanges
    <3> QED
      BY <1>0, <3>1
  <2>2. CASE ~CanBuild(n, buffer[n], nextFrame[n])
    BY <1>1, <1>2, <2>2 DEF StepFrame
  <2> QED
    BY <2>1, <2>2
<1>3. ASSUME NEW n \in Node, ReplayRollbackWindow(n) PROVE Grows
  <2>1. n \in Peers /\ PeerInv(n)
    BY <1>3 DEF ReplayRollbackWindow, IInv, HostNeverAsks, Peers, RInv
  <2>2. nextFrame' = nextFrame
    BY <1>3, <2>1, PeerReplays
  <2> QED
    BY <1>1, <2>2
<1>4. ASSUME NEW n \in Node,
             \/ Maintain(n) \/ ModeDoesNotAdvance(n)
             \/ WaitForRemoteInputs(n) \/ RollbackSnapshotMissing(n)
      PROVE  nextFrame' = nextFrame
  BY <1>4 DEF Maintain, MaintainInputLockstepTransport, ModeDoesNotAdvance,
              WaitForRemoteInputs, RollbackSnapshotMissing
<1>5. ASSUME NEW n \in Node, NEW m \in network, HandleInputFrameRecords(n, m)
      PROVE  nextFrame' = nextFrame
  BY <1>5 DEF HandleInputFrameRecords
<1>6. ASSUME UNCHANGED vars PROVE nextFrame' = nextFrame
  BY <1>6 DEF vars
<1> HIDE DEF Grows
<1> QED
  <2>1. CASE Next
    <3>1. PICK n \in Node : \/ Maintain(n) \/ ModeDoesNotAdvance(n)
                            \/ PrepareInputLockstepFrame(n)
                            \/ \E m \in network : HandleInputFrameRecords(n, m)
      BY <2>1 DEF Next
    <3>2. CASE \E m \in network : HandleInputFrameRecords(n, m)
      BY <1>1, <1>5, <3>2
    <3>3. CASE PrepareInputLockstepFrame(n)
      BY <1>1, <1>2, <1>3, <1>4, <3>3 DEF PrepareInputLockstepFrame
    <3>4. CASE Maintain(n) \/ ModeDoesNotAdvance(n)
      BY <1>1, <1>4, <3>4
    <3> QED
      BY <3>1, <3>2, <3>3, <3>4
  <2>2. CASE UNCHANGED vars
    BY <1>1, <1>6, <2>2
  <2> QED
    BY <2>1, <2>2

\* The same, as a theorem: for every window, history and packet size.
THEOREM ReplaysReachThePresent ==
    ASSUME SomebodyElsePlays
    PROVE  Spec /\ []HeardWithoutGaps => NoFrameIsTakenBack
<1> DEFINE Grows == \A n \in Node : nextFrame'[n] >= nextFrame[n]
<1>1. IInv /\ RInv /\ [Next]_vars => [Grows]_vars
  BY NextGrows
<1>2. Spec /\ []HeardWithoutGaps => []RInv
  BY RInvInvariant
<1>3. Spec /\ []HeardWithoutGaps => [][Grows]_vars
  BY <1>1, <1>2, IInvInvariant, PTL DEF Spec
<1> QED
  BY <1>3 DEF NoFrameIsTakenBack

-----------------------------------------------------------------------------
(* Resending.                                                              *)

\* Every process has a player of its own.
EveryNodePlays == \A n \in Node : LocalPlayers(n) # {}

LEMMA SomebodyElseDoes == EveryNodePlays => SomebodyElsePlays
  BY NodeAssumption DEF EveryNodePlays, SomebodyElsePlays, LocalPlayers, Peers

\* The frames resent reach back over the delay and the rollback window.
HistoryCoversWindow == InputDelay <= InputHistory /\ MaxRollback <= InputHistory

\* A peer's distance from the host, when every process plays.
LEMMA HostIsNear ==
    ASSUME IInv, RInv, EveryNodePlays, NEW n \in Peers
    PROVE  /\ nextFrame[Host] <= nextFrame[n] + 1 + MaxRollback
           /\ nextFrame[Host] <= nextFrame[n] + 1 + InputDelay
<1>1. PICK p \in Player : Owner[p] = n
  BY DEF EveryNodePlays, LocalPlayers, Peers
<1> QED
  BY <1>1 DEF RInv, WithinWindow, Peers

\* The batch that ends with frame last starts at a frame not after f, when f is
\* at most InputHistory frames earlier.
LEMMA HistoryStart ==
    ASSUME NEW last \in Int, NEW f \in Nat, last - InputHistory <= f
    PROVE  FirstInputHistoryFrame(last) <= f
  BY Sizes DEF FirstInputHistoryFrame

\* What a node still misses is still being resent, when the history covers the
\* delay and the window (FirstInputHistoryFrame).
LEMMA RInvResends ==
    ASSUME IInv, RInv, EveryNodePlays, HistoryCoversWindow
    PROVE  MissingInputIsResent
<1>1. ASSUME NEW n \in Peers, NEW p \in Player, NEW f \in Frame,
             f >= nextFrame[n] - BufferedFrames, ~IsCanonical(n, p, f)
      PROVE  FirstInputHistoryFrame(nextFrame[Host] - 1) <= f
  <2>1. n \in Node /\ nextFrame[n] \in Nat /\ nextFrame[Host] \in Nat /\ f \in Nat
    BY NodeAssumption, Ranges, Sizes DEF Peers
  <2>2. nextFrame[n] > 0 => ~(f < nextFrame[n] + InputDelay - MaxRollback)
    <3>1. nextFrame[n] - BufferedFrames <= f
      BY <1>1, <2>1, Sizes
    <3> QED
      BY <1>1, <3>1 DEF RInv, PeerInv, HeardBehindWindow
  <2>3. /\ nextFrame[Host] <= nextFrame[n] + 1 + MaxRollback
        /\ nextFrame[Host] <= nextFrame[n] + 1 + InputDelay
    BY HostIsNear
  <2>4. (nextFrame[Host] - 1) - InputHistory <= f
    BY <2>1, <2>2, <2>3, Sizes DEF HistoryCoversWindow
  <2> QED
    BY <2>1, <2>4, HistoryStart
<1>2. ASSUME NEW p \in Player, nextFrame[Host] < nextLocal[Owner[p]],
             buffer[Host][p][nextFrame[Host]] = NoRecord
      PROVE  FirstInputHistoryFrame(nextLocal[Owner[p]] - 1) <= nextFrame[Host]
  <2> DEFINE o == Owner[p]
             F == nextFrame[Host]
  <2>1. /\ o \in Node /\ F \in Nat /\ F \in Frame
        /\ nextFrame[o] \in Nat /\ nextLocal[o] \in Nat
    <3>1. o \in Node
      BY PlayerAssumption
    <3> QED
      BY <3>1, NodeAssumption, Ranges
  <2>2. o # Host
    BY <1>2, <2>1 DEF RInv, HostHasItsOwn, LocalPlayers
  <2>3. nextLocal[o] <= nextFrame[o] + InputDelay + 1
    BY <2>1 DEF RInv, QueuedToTheDelay
  <2>4. nextFrame[o] > 0 => nextFrame[o] <= F - InputDelay + MaxRollback
    BY <2>2 DEF RInv, WithinWindow
  <2> HIDE DEF o, F
  <2>5. (nextLocal[o] - 1) - InputHistory <= F
    BY <2>1, <2>3, <2>4, Sizes DEF HistoryCoversWindow
  <2>6. FirstInputHistoryFrame(nextLocal[o] - 1) <= F
    BY <2>1, <2>5, HistoryStart
  <2> QED
    BY <2>6 DEF o, F
<1>3. \A n \in Peers, p \in Player, f \in Frame :
        (/\ f < nextFrame[Host] /\ f >= nextFrame[n] - BufferedFrames
         /\ ~IsCanonical(n, p, f))
        => FirstInputHistoryFrame(nextFrame[Host] - 1) <= f
  BY <1>1
<1>4. \A p \in Player :
        (/\ nextFrame[Host] < nextLocal[Owner[p]]
         /\ buffer[Host][p][nextFrame[Host]] = NoRecord)
        => FirstInputHistoryFrame(nextLocal[Owner[p]] - 1) <= nextFrame[Host]
  BY <1>2
<1> QED
  BY <1>3, <1>4 DEF MissingInputIsResent

\* The same, as an invariant of the specification.
THEOREM MissingInputsAreResent ==
    ASSUME EveryNodePlays, HistoryCoversWindow
    PROVE  Spec /\ []HeardWithoutGaps => []MissingInputIsResent
<1>1. IInv /\ RInv => MissingInputIsResent
  BY RInvResends
<1>2. Spec /\ []HeardWithoutGaps => []RInv
  BY RInvInvariant, SomebodyElseDoes
<1> QED
  BY <1>1, <1>2, IInvInvariant, PTL
=============================================================================
