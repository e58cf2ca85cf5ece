---------------------------- MODULE InputLockstep ----------------------------
(***************************************************************************)
(* Deterministic input lockstep with prediction and rollback, within one   *)
(* stage and a fixed set of players (src/network/net_lobby_input_          *)
(* lockstep.cpp).                                                          *)
(*                                                                         *)
(* One node is the host.  A peer sends the inputs of its own players to    *)
(* the host; the host fixes (makes canonical) the inputs of every player   *)
(* for the frame it steps and sends the canonical records of its last      *)
(* frames to the peers.  A peer that has not heard a remote input predicts *)
(* it, and rolls back to a snapshot and replays when the canonical record  *)
(* differs from what it used.                                              *)
(*                                                                         *)
(* The simulation is a deterministic function of the inputs applied, so    *)
(* the game state of a node is the log of input vectors it has applied.    *)
(* A tick is Maintain (pump, queue, send) followed by Prepare; packets     *)
(* reach a node only in its pump, so they are delivered between ticks.     *)
(* What a tick does after sending touches the node's own state only, so    *)
(* one node's tick is not interleaved with another's.                      *)
(***************************************************************************)
EXTENDS LockstepInputBuffer

CONSTANTS
    Node,               \* processes of the session
    Host,               \* the hosting process
    Player,             \* player ids, naturals: the code sorts them
    Owner,              \* the process a player is local to
    Sampled,            \* the inputs each player may be sampled with
    InputDelay,         \* lockstep_input_delay_frames
    MaxRollback,        \* lockstep_max_rollback_frames
    InputHistory,       \* kInputHistoryFrames (12)
    KeepSlack,          \* extra frames kept behind the window (4)
    RecordsPerPacket,   \* kNetInputFrameRecordsPerPacket (16)
    NotStepped,         \* a frame the simulation has not reached
    NoSnapshot,         \* FindRollbackSnapshot returned nullptr
    MaxFrame,           \* bound: frames stepped in a behaviour
    OnlyNewestSurvive   \* whether sending again loses the packets sent before

ASSUME NodeAssumption == Host \in Node
ASSUME PlayerAssumption ==
    /\ Player \subseteq Nat
    /\ Owner \in [Player -> Node]
    /\ Sampled \in [Player -> SUBSET Input]
ASSUME WindowAssumption ==
    /\ InputDelay \in Nat /\ MaxRollback \in Nat
    /\ InputHistory \in Nat /\ KeepSlack \in Nat
    /\ RecordsPerPacket \in Nat \ {0}
    /\ MaxFrame \in Nat
ASSUME LossAssumption == OnlyNewestSurvive \in BOOLEAN

Frame == 0 .. (MaxFrame + InputDelay)
NoFrame == -1
InputVector == [Player -> Input]
GameLog == [Frame -> InputVector \cup {NotStepped}]

ASSUME NotSteppedAssumption == NotStepped \notin InputVector
ASSUME NoSnapshotAssumption == NoSnapshot \notin GameLog

VARIABLES
    nextFrame,  \* lockstep_next_frame_to_step
    nextLocal,  \* lockstep_next_local_input_frame
    buffer,     \* lockstep_input_buffer
    rollback,   \* lockstep_rollback_requested_frame
    snapshots,  \* lockstep_rollback_snapshots
    game,       \* the simulation: the input vectors applied to it
    tick,       \* the node whose tick is under way, and how far it is
    network     \* packets sent and not lost

vars == <<nextFrame, nextLocal, buffer, rollback, snapshots, game, tick, network>>

Peers == Node \ {Host}
LocalPlayers(n) == {p \in Player : Owner[p] = n}

Key == Player \X Frame

\* No tick is under way.
Idle == [node |-> Host, at |-> "pump"]
At(n, place) == tick = [node |-> n, at |-> place]

-----------------------------------------------------------------------------
(* Sending: BuildLocalInputFramePackets.                                   *)

\* Fault: the batch is one frame shorter.
FirstInputHistoryFrameTooLate(last) ==
    IF last + 1 <= InputHistory THEN 0 ELSE last - InputHistory + 1

FirstInputHistoryFrame(last) ==
    IF last + 1 <= InputHistory + 1 THEN 0 ELSE last - InputHistory

\* The records in the last frames: CollectCanonicalRecords on the host,
\* CollectRecords of the local players on a peer.
CollectRecords(n, slots, last) ==
    {k \in Key :
        /\ k[2] <= last /\ FirstInputHistoryFrame(last) <= k[2]
        /\ slots[k[1]][k[2]] # NoRecord
        /\ IF n = Host THEN slots[k[1]][k[2]].canonical
                       ELSE k[1] \in LocalPlayers(n)}

\* Fault: the host also sends the frame it is still gathering.
RecordsToSendTooEarly(n, slots, next, local) ==
    CollectRecords(n, slots, IF n = Host THEN next ELSE local - 1)

\* Fault: the host sends the frame it stepped last and no earlier one.
RecordsToSendNewest(n, slots, next, local) ==
    {k \in CollectRecords(n, slots, IF n = Host THEN next - 1 ELSE local - 1) :
        n = Host => k[2] = next - 1}

\* The host sends frames it has stepped, a peer frames it has queued.
RecordsToSend(n, slots, next, local) ==
    CollectRecords(n, slots, IF n = Host THEN next - 1 ELSE local - 1)

\* Records go out ordered by frame and then player.
Position(k, keys) ==
    Cardinality({j \in keys : j[2] < k[2] \/ (j[2] = k[2] /\ j[1] < k[1])})

\* MakeInputFrameRecordEntry then MakeLockstepInputRecord: the predicted
\* flag is not on the wire.
OnTheWire(record) == [record EXCEPT !.predicted = FALSE]

\* A packet carries at most RecordsPerPacket records.
Packetize(slots, keys) ==
    LET chunk(k) == Position(k, keys) \div RecordsPerPacket
    IN  {[k \in {j \in keys : chunk(j) = c} |-> OnTheWire(slots[k[1]][k[2]])]
            : c \in {chunk(k) : k \in keys}}

Destinations(n) == IF n = Host THEN Peers ELSE {Host}

-----------------------------------------------------------------------------
(* Stepping: the inputs of a frame, built or predicted.                    *)

\* Fault: the input delay is counted twice.
CanStepWithTheDelayOnTop(n) ==
    \A p \in Player \ LocalPlayers(n) :
        \E f \in ConfirmedFrames(buffer[n][p]) : nextFrame[n] <= f + MaxRollback

\* CanStepWithoutRunningAheadOfRemoteInputs: every remote player's latest
\* confirmed frame is at least InputDelay and within the rollback window.
CanStepWithoutRunningAheadOfRemoteInputs(n) ==
    \A p \in Player \ LocalPlayers(n) :
        \E f \in ConfirmedFrames(buffer[n][p]) :
            f >= InputDelay /\ nextFrame[n] <= f - InputDelay + MaxRollback

\* Fault: the host predicts like a peer.
AvailableToHost(n, slots, p, f) ==
    slots[p][f] # NoRecord \/ p \notin LocalPlayers(n)

\* An input is found, or a peer may predict it.
Available(n, slots, p, f) ==
    \/ slots[p][f] # NoRecord
    \/ n # Host /\ p \notin LocalPlayers(n)

CanBuild(n, slots, f) == \A p \in Player : Available(n, slots, p, f)

\* The host makes the record canonical; a peer predicts a missing one.
BuiltRecord(n, slots, p, f) ==
    IF slots[p][f] = NoRecord
        THEN PredictedRecord(PredictRemoteInputForFrame(slots[p], f))
    ELSE IF n = Host /\ ~slots[p][f].canonical
        THEN CanonicalRecord(slots[p][f].input)
    ELSE slots[p][f]

\* BuildOrPredictFrameInputs on each of the frames: players are visited in
\* order, and the visit ends at the first player whose input is missing.
BuildOrPredictFrameInputs(n, slots, frames) ==
    [p \in Player |-> [f \in Frame |->
        IF f \in frames /\ \A q \in Player : q <= p => Available(n, slots, q, f)
            THEN BuiltRecord(n, slots, p, f)
            ELSE slots[p][f]]]

FrameInputs(slots, f) == [p \in Player |-> slots[p][f].input]

\* The simulation state in which frame f is about to be stepped.
StateBefore(log, f) == [g \in Frame |-> IF g < f THEN log[g] ELSE NotStepped]

\* Fault: snapshots are dropped while corrections may still come.
PruneRollbackSnapshotsTooEarly(saved, next) ==
    [f \in Frame |-> IF f < next - 1 THEN NoSnapshot ELSE saved[f]]

PruneRollbackSnapshots(saved, next) ==
    [f \in Frame |-> IF f < next - (MaxRollback + KeepSlack)
                         THEN NoSnapshot ELSE saved[f]]

BufferedFrames ==
    IF InputHistory > MaxRollback + KeepSlack
        THEN InputHistory ELSE MaxRollback + KeepSlack

-----------------------------------------------------------------------------
TypeOK ==
    /\ nextFrame \in [Node -> 0 .. MaxFrame]
    /\ nextLocal \in [Node -> 0 .. (MaxFrame + InputDelay + 1)]
    /\ buffer \in [Node -> [Player -> [Frame -> Record \cup {NoRecord}]]]
    /\ rollback \in [Node -> Frame \cup {NoFrame}]
    /\ snapshots \in [Node -> [Frame -> GameLog \cup {NoSnapshot}]]
    /\ game \in [Node -> GameLog]
    /\ tick \in [node : Node, at : {"pump", "prepare", "step"}]
    /\ \A m \in network :
          /\ m.dst \in Node
          /\ DOMAIN m.records \subseteq Key
          /\ \A k \in DOMAIN m.records : m.records[k] \in Record

\* ResetInputLockstepState, with the same freshly loaded stage on each node.
Init ==
    /\ nextFrame = [n \in Node |-> 0]
    /\ nextLocal = [n \in Node |-> 0]
    /\ buffer = [n \in Node |-> [p \in Player |-> [f \in Frame |-> NoRecord]]]
    /\ rollback = [n \in Node |-> NoFrame]
    /\ snapshots = [n \in Node |-> [f \in Frame |-> NoSnapshot]]
    /\ game = [n \in Node |-> [f \in Frame |-> NotStepped]]
    /\ tick = Idle
    /\ network = {}

\* Fault: the counter advances even when nothing was queued.
LocalFrameAfterQueueAlways(n) ==
    IF nextLocal[n] <= nextFrame[n] + InputDelay
        THEN nextFrame[n] + InputDelay + 1 ELSE nextLocal[n] + 1

\* QueueLocalInputsThroughTargetFrame: the next frame to queue afterwards.
LocalFrameAfterQueue(n) ==
    IF nextLocal[n] <= nextFrame[n] + InputDelay
        THEN nextFrame[n] + InputDelay + 1 ELSE nextLocal[n]

\* Fault: frames queued but not stepped yet are sampled again.
QueuedAgain(n, sample) ==
    [p \in Player |-> [f \in Frame |->
        IF p \in LocalPlayers(n) /\ f \in nextFrame[n] .. (nextFrame[n] + InputDelay)
            THEN Store(buffer[n][p][f], OwnerRecord(f + 1, sample[p]))
            ELSE buffer[n][p][f]]]

\* QueueLocalInputsThroughTargetFrame: the input sampled now fills every
\* frame up to the input delay ahead.
Queued(n, sample) ==
    [p \in Player |-> [f \in Frame |->
        IF p \in LocalPlayers(n) /\ f \in nextLocal[n] .. (nextFrame[n] + InputDelay)
            THEN Store(buffer[n][p][f], OwnerRecord(f + 1, sample[p]))
            ELSE buffer[n][p][f]]]

\* GetCurrentLocalInputFrame: what the local players' devices may say now.
Samples(n) ==
    {s \in [LocalPlayers(n) -> Input] : \A p \in LocalPlayers(n) : s[p] \in Sampled[p]}

\* The packets still in flight when n sends again.  A packet that is never
\* delivered is a lost one, and delivery leaves a packet in place, so it may
\* arrive late, twice or after a newer one.  When only the newest survive,
\* nothing but the batch being resent can still arrive.
InFlight(n) == {m \in network : OnlyNewestSurvive => m.src # n}

\* MaintainInputLockstepTransport: queue, then SendLocalInputFramePacket.
MaintainInputLockstepTransport(n, sample) ==
    LET slots == Queued(n, sample)
        local == LocalFrameAfterQueue(n)
        keys  == RecordsToSend(n, slots, nextFrame[n], local)
    IN  /\ tick = Idle
        /\ buffer' = [buffer EXCEPT ![n] = slots]
        /\ nextLocal' = [nextLocal EXCEPT ![n] = local]
        /\ network' = InFlight(n) \cup
              {[src |-> n, dst |-> d, records |-> r] :
                  d \in Destinations(n), r \in Packetize(slots, keys)}
        /\ tick' = [node |-> n, at |-> "prepare"]
        /\ UNCHANGED <<nextFrame, rollback, snapshots, game>>

Maintain(n) == \E sample \in Samples(n) : MaintainInputLockstepTransport(n, sample)

\* A mode that does not advance the simulation (a menu, a transition screen)
\* maintains the transport and skips PrepareInputLockstepFrame.
ModeDoesNotAdvance(n) ==
    /\ At(n, "prepare")
    /\ tick' = Idle
    /\ UNCHANGED <<nextFrame, nextLocal, buffer, rollback, snapshots, game, network>>

\* PrepareInputLockstepFrame: too far ahead of a remote player's inputs.
WaitForRemoteInputs(n) ==
    /\ At(n, "prepare")
    /\ ~CanStepWithoutRunningAheadOfRemoteInputs(n)
    /\ tick' = Idle
    /\ UNCHANGED <<nextFrame, nextLocal, buffer, rollback, snapshots, game, network>>

\* ReplayRollbackWindow without a snapshot of the frame: the request is
\* gone, nothing is replayed and the frame is not stepped.
RollbackSnapshotMissing(n) ==
    /\ At(n, "prepare")
    /\ CanStepWithoutRunningAheadOfRemoteInputs(n)
    /\ rollback[n] # NoFrame
    /\ snapshots[n][rollback[n]] = NoSnapshot
    /\ rollback' = [rollback EXCEPT ![n] = NoFrame]
    /\ tick' = Idle
    /\ UNCHANGED <<nextFrame, nextLocal, buffer, snapshots, game, network>>

\* ReplayRollbackWindow: restore the snapshot and step again, with the
\* inputs the buffer has now, every frame up to the present one.
ReplayRollbackWindow(n) ==
    LET first   == rollback[n]
        present == nextFrame[n]
        stop    == Min({f \in first .. present :
                          f = present \/ ~CanBuild(n, buffer[n], f)})
        slots   == BuildOrPredictFrameInputs(n, buffer[n], first .. (present - 1))
        log     == [f \in Frame |-> IF f \in first .. (stop - 1)
                                        THEN FrameInputs(slots, f)
                                        ELSE snapshots[n][first][f]]
        saved   == [f \in Frame |-> IF f \in first .. (stop - 1)
                                        THEN StateBefore(log, f)
                                        ELSE snapshots[n][f]]
    IN  /\ At(n, "prepare")
        /\ CanStepWithoutRunningAheadOfRemoteInputs(n)
        /\ first # NoFrame
        /\ snapshots[n][first] # NoSnapshot
        /\ buffer' = [buffer EXCEPT ![n] = slots]
        /\ game' = [game EXCEPT ![n] = log]
        /\ snapshots' = [snapshots EXCEPT ![n] = PruneRollbackSnapshots(saved, stop)]
        /\ nextFrame' = [nextFrame EXCEPT ![n] = stop]
        /\ rollback' = [rollback EXCEPT ![n] = NoFrame]
        /\ tick' = IF stop = present /\ present < MaxFrame
                       THEN [node |-> n, at |-> "step"] ELSE Idle
        /\ UNCHANGED <<nextLocal, network>>

\* The rest of PrepareInputLockstepFrame: build the inputs of the next frame
\* (the host waits for a missing one), save a snapshot, apply the inputs,
\* drop what lies behind the window.
StepFrame(n) ==
    LET f     == nextFrame[n]
        slots == BuildOrPredictFrameInputs(n, buffer[n], {f})
        saved == [snapshots[n] EXCEPT ![f] = game[n]]
    IN  /\ \/ At(n, "step")
           \/ /\ At(n, "prepare")
              /\ CanStepWithoutRunningAheadOfRemoteInputs(n)
              /\ rollback[n] = NoFrame
        /\ f < MaxFrame
        /\ IF CanBuild(n, buffer[n], f)
             THEN /\ game' = [game EXCEPT ![n][f] = FrameInputs(slots, f)]
                  /\ nextFrame' = [nextFrame EXCEPT ![n] = f + 1]
                  /\ buffer' = [buffer EXCEPT ![n] =
                        [p \in Player |-> ClearBefore(slots[p], f + 1 - BufferedFrames)]]
                  /\ snapshots' = [snapshots EXCEPT ![n] =
                        PruneRollbackSnapshots(saved, f + 1)]
             ELSE /\ buffer' = [buffer EXCEPT ![n] = slots]
                  /\ UNCHANGED <<game, nextFrame, snapshots>>
        /\ tick' = Idle
        /\ UNCHANGED <<nextLocal, rollback, network>>

\* Fault: a later request replaces an earlier one.
RequestRollbackLatest(requested, frames) ==
    IF frames = {} THEN requested ELSE Min(frames)

\* RequestRollbackFromFrame for each of the frames: the earliest is kept.
RequestRollbackFromFrame(requested, frames) ==
    LET asked == IF requested = NoFrame THEN frames ELSE frames \cup {requested}
    IN  IF asked = {} THEN NoFrame ELSE Min(asked)

\* HandleInputFrameRecords: a peer takes only canonical records and the host
\* only others; a record that changes an input already stepped requests a
\* rollback.
HandleInputFrameRecords(n, m) ==
    LET accepted == {k \in DOMAIN m.records : m.records[k].canonical = (n # Host)}
        wrong    == {k[2] : k \in {j \in accepted :
                        /\ Mismatch(buffer[n][j[1]][j[2]], m.records[j])
                        /\ j[2] < nextFrame[n]}}
    IN  /\ tick = Idle
        /\ m \in network /\ m.dst = n
        /\ buffer' = [buffer EXCEPT ![n] =
              [p \in Player |-> [f \in Frame |->
                  IF <<p, f>> \in accepted
                      THEN Store(buffer[n][p][f], m.records[<<p, f>>])
                      ELSE buffer[n][p][f]]]]
        /\ rollback' = [rollback EXCEPT ![n] =
              RequestRollbackFromFrame(rollback[n], wrong)]
        /\ UNCHANGED <<nextFrame, nextLocal, snapshots, game, tick, network>>

PrepareInputLockstepFrame(n) ==
    \/ WaitForRemoteInputs(n)
    \/ RollbackSnapshotMissing(n)
    \/ ReplayRollbackWindow(n)
    \/ StepFrame(n)

Next ==
    \E n \in Node :
        \/ Maintain(n)
        \/ ModeDoesNotAdvance(n)
        \/ PrepareInputLockstepFrame(n)
        \/ \E m \in network : HandleInputFrameRecords(n, m)

Spec == Init /\ [][Next]_vars

-----------------------------------------------------------------------------
(* Safety.                                                                 *)

IsCanonical(n, p, f) == buffer[n][p][f] # NoRecord /\ buffer[n][p][f].canonical

\* Some process holds, carries or has applied x as the input of player p for
\* frame f, and not as a prediction.
Circulates(p, f, x) ==
    \/ \E n \in Node : /\ buffer[n][p][f] # NoRecord
                       /\ ~buffer[n][p][f].predicted
                       /\ buffer[n][p][f].input = x
    \/ \E m \in network : /\ <<p, f>> \in DOMAIN m.records
                          /\ m.records[<<p, f>>].input = x
    \/ f < nextFrame[Host] /\ game[Host][f][p] = x

\* A player has one input per frame: whatever is resent, reordered or late,
\* no two confirmed records for a player and a frame differ, and none differs
\* from what the host stepped (QueueLocalInputsThroughTargetFrame, Store).
OneInputPerFrame ==
    \A p \in Player, f \in Frame : \A x, y \in Input :
        Circulates(p, f, x) /\ Circulates(p, f, y) => x = y

\* Two processes never hold different canonical inputs for one player and
\* frame, and the canonical inputs of a frame the host has stepped are the
\* ones the host stepped it with (StoreHostCanonicalInput,
\* HandleInputFrameRecords).
CanonicalAgreement ==
    \A n \in Node, p \in Player, f \in Frame :
        IsCanonical(n, p, f) =>
            /\ n # Host => f < nextFrame[Host]
            /\ f < nextFrame[Host] => buffer[n][p][f].input = game[Host][f][p]

\* A node whose simulation used an input other than the one its buffer holds
\* for a stepped frame has a rollback to that frame or earlier requested:
\* no correction is forgotten (Store, RequestRollbackFromFrame,
\* ReplayRollbackWindow).
WrongInputIsRolledBack ==
    \A n \in Node, p \in Player, f \in Frame :
        (/\ f < nextFrame[n]
         /\ buffer[n][p][f] # NoRecord
         /\ game[n][f][p] # buffer[n][p][f].input)
        => rollback[n] # NoFrame /\ rollback[n] <= f

\* The snapshot of the frame a rollback was requested for is still kept and
\* is exactly the simulation before that frame (SaveRollbackSnapshot,
\* PruneRollbackSnapshots).
RollbackIsExact ==
    \A n \in Node :
        rollback[n] # NoFrame =>
            snapshots[n][rollback[n]] = StateBefore(game[n], rollback[n])

\* A frame a peer can no longer roll back to, because its records have left
\* the buffer, was stepped with the host's inputs.
DroppedFramesAgree ==
    \A n \in Peers, f \in Frame :
        f < nextFrame[n] - BufferedFrames =>
            f < nextFrame[Host] /\ game[n][f] = game[Host][f]

\* What a node still misses is still being resent: a canonical record a peer
\* lacks is in the host's next batch, and the input the host waits for is in
\* its owner's next batch (FirstInputHistoryFrame).
MissingInputIsResent ==
    /\ \A n \in Peers, p \in Player, f \in Frame :
          (/\ f < nextFrame[Host] /\ f >= nextFrame[n] - BufferedFrames
           /\ ~IsCanonical(n, p, f))
          => FirstInputHistoryFrame(nextFrame[Host] - 1) <= f
    /\ \A p \in Player :
          (/\ nextFrame[Host] < nextLocal[Owner[p]]
           /\ buffer[Host][p][nextFrame[Host]] = NoRecord)
          => FirstInputHistoryFrame(nextLocal[Owner[p]] - 1) <= nextFrame[Host]

\* No node runs away from another: the host stays within the inputs a peer
\* has queued, a peer within the rollback window of the host
\* (CanStepWithoutRunningAheadOfRemoteInputs).
WithinWindow ==
    \A p \in Player :
        LET n == Owner[p]
        IN  n # Host =>
              /\ nextFrame[Host] <= nextFrame[n] + 1 + MaxRollback
              /\ nextFrame[Host] <= nextFrame[n] + 1 + InputDelay
              /\ nextFrame[n] > 0 =>
                    nextFrame[n] <= nextFrame[Host] - InputDelay + MaxRollback

\* The host never changes a frame it has stepped.
HostNeverRewrites ==
    [][\A f \in Frame : f < nextFrame[Host] => game'[Host][f] = game[Host][f]]_vars

-----------------------------------------------------------------------------
(* Liveness.  The game loop ticks every node and keeps returning to a mode *)
(* that steps; a remote input that is sent again and again gets through.   *)

ReceivesRecord(n, k) ==
    \E m \in network : k \in DOMAIN m.records /\ HandleInputFrameRecords(n, m)

FairSpec ==
    /\ Spec
    /\ \A n \in Node :
          /\ SF_vars(Maintain(n))
          /\ WF_vars(ModeDoesNotAdvance(n) \/ PrepareInputLockstepFrame(n))
          /\ SF_vars(RollbackSnapshotMissing(n) \/ ReplayRollbackWindow(n) \/ StepFrame(n))
    /\ \A n \in Node : \A k \in Key :
          Owner[k[1]] # n => SF_vars(ReceivesRecord(n, k))

\* Nobody waits forever for an input and all simulations end up equal: every
\* node steps every frame, and once corrected stays with what the host
\* simulated.
Converges ==
    <>[](\A n \in Node : nextFrame[n] = MaxFrame /\ game[n] = game[Host])
=============================================================================
