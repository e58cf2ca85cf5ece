---------------------------- MODULE LockstepHashes ----------------------------
(***************************************************************************)
(* The exchange of simulation hashes, and what a process does when its own *)
(* differs from another's: a rollback to the frame after the last one that *)
(* agreed, or a snapshot of the host (src/network/net_lobby_input_         *)
(* lockstep.cpp).                                                          *)
(*                                                                         *)
(* A simulation is kept as the set of its flaws: a frame stepped with a    *)
(* wrong guess of an input, or a frame in which the process itself went    *)
(* wrong.  A hash of a frame stands for the flaws up to it.  Of input      *)
(* lockstep there is only which canonical inputs a peer has heard          *)
(* (InputLockstep has the rest), of the repair by a snapshot only its end  *)
(* (SnapshotRepair has the rest).                                          *)
(***************************************************************************)
EXTENDS Queues, FiniteSetsExt, Functions

CONSTANTS
    Peer,           \* processes other than the host
    Host,           \* the host
    Interval,       \* lockstep_hash_send_interval_frames
    InputDelay,     \* lockstep_input_delay_frames
    Window,         \* lockstep_max_rollback_frames at first
    Windows,        \* those a change of settings may put in force
    SettingsFrames, \* kLockstepSettingsApplySafetyFrames
    InputHistory,   \* kInputHistoryFrames: inputs sent again in every batch
    KeepSlack,      \* frames of snapshots kept besides the window (4)
    KeptHashes,     \* frames of hashes kept
    MaxPending,     \* kMaxPendingRemoteHashes
    MaxFrame,       \* bound: frames stepped
    MaxFaults,      \* bound: frames in which a process goes wrong
    MaxMisses,      \* bound: wrong guesses
    NoFrame         \* std::nullopt

ASSUME ProcessAssumption == Host \notin Peer /\ "input" \notin Peer \cup {Host}
ASSUME BoundAssumption ==
    /\ Interval \in Nat \ {0} /\ Window \in Nat \ {0}
    /\ Windows \subseteq Nat \ {0} /\ SettingsFrames \in Nat
    /\ InputDelay \in Nat /\ InputHistory \in Nat \ {0} /\ KeepSlack \in Nat
    /\ KeptHashes \in Nat /\ MaxPending \in Nat \ {0}
    /\ MaxFrame \in Nat /\ MaxFaults \in Nat /\ MaxMisses \in Nat
    /\ NoFrame \notin Nat

VARIABLES
    node,       \* the lockstep_* fields of every process
    sim,        \* the flaws of every process' simulation
    hashes,     \* hash packets sent and not lost
    faults,     \* frames in which a process went wrong
    misses      \* wrong guesses

vars == <<node, sim, hashes, faults, misses>>

Process == Peer \cup {Host}
Mode == {"None", "PendingRollback", "RollbackRepaired", "SnapshotCatchup", "FatalDesync"}
Guess(f) == [frame |-> f, by |-> "input"]
Fault(f, n) == [frame |-> f, by |-> n]
HashOf(flaws, f) == {x \in flaws : x.frame <= f}

-----------------------------------------------------------------------------
(* The fields of a process.                                                *)

\* IsSnapshotResyncBlocking.
CatchingUp(s) == s.mode = "SnapshotCatchup"

Local(s, f) == {r \in s.history : r.frame = f}
SameSample(r, q) == r.peer = q.peer /\ r.frame = q.frame

\* Fault: a frame counts as confirmed when an earlier one is.
ConfirmedBefore(s, f) == f >= s.base /\ \A g \in s.base .. f - 1 : g \in s.canonical

\* AllRequiredInputsConfirmedForFrame: also those of the frames before it,
\* as far as the buffer goes back.
AllRequiredInputsConfirmed(s, f) == f >= s.base /\ \A g \in s.base .. f : g \in s.canonical

IsScheduled(f) == f # 0 /\ f % Interval = 0

\* ShouldRecordCompletedLockstepHash.
ShouldRecord(s, f) ==
    IsScheduled(f) \/ \E r \in s.remote \cup Range(s.pending) : r.frame = f

RequestRollbackFromFrame(s, f) ==
    IF f < s.next /\ (s.rollback = NoFrame \/ f < s.rollback)
    THEN [s EXCEPT !.rollback = f] ELSE s

\* StartOrQueueHostSnapshotResync: a peer only ever asks for itself.
StartResync(n, s, p) ==
    [s EXCEPT !.mode = "SnapshotCatchup", !.repair = @ \cup {IF n = Host THEN p ELSE n}]

\* FindLastMatchingHashWithPeer.
LastMatch(s, r) ==
    LET matches == {q \in s.remote : q.peer = r.peer /\ q.frame < r.frame
                       /\ \E l \in Local(s, q.frame) : l.hash = q.hash}
    IN  IF matches = {} THEN NoFrame ELSE Max({q.frame : q \in matches})

\* Fault: a rollback is requested whether it can be done or not.
GoesBackAnyway(s, f) == TRUE

\* FindRollbackSnapshot.
CanGoBack(s, f) == f \in s.saved

\* The second half of CompareLockstepHash, for hashes that differ.
Disagree(n, s, r) ==
    LET match  == LastMatch(s, r)
        noted  == [s EXCEPT !.mismatchPeer = r.peer]
    IN  IF match = NoFrame \/ ~CanGoBack(s, match + 1) THEN StartResync(n, noted, r.peer)
        ELSE RequestRollbackFromFrame([noted EXCEPT !.mode = "PendingRollback"], match + 1)

\* CompareLockstepHash: while a snapshot is under way a difference is noted
\* with the sample and nothing else is done about it.
CompareLockstepHash(n, s, r) ==
    LET sampled == [s EXCEPT !.remote = {q \in @ : ~SameSample(q, r)} \cup {r}]
        same    == \E l \in Local(s, r.frame) : l.hash = r.hash
    IN  IF Local(s, r.frame) = {} THEN s
        ELSE IF CatchingUp(s) THEN sampled
        ELSE IF ~same THEN Disagree(n, sampled, r)
        ELSE [sampled EXCEPT !.mode = IF @ = "PendingRollback" THEN "RollbackRepaired" ELSE @]

\* Fault: a sample that came too early is never looked at again.
ProcessNoPending(n, s) == s

\* The samples of frames that have a hash now are compared one after the other.
ProcessPendingRemoteHashes(n, s) ==
    LET due(r) == Local(s, r.frame) # {}
        compared[i \in 0 .. Len(s.pending)] ==
            IF i = 0 THEN s
            ELSE IF due(s.pending[i]) THEN CompareLockstepHash(n, compared[i - 1], s.pending[i])
            ELSE compared[i - 1]
    IN  [compared[Len(s.pending)] EXCEPT
            !.pending = Without(s.pending, {r \in Range(s.pending) : due(r)})]

\* PruneLockstepHashHistory.
Prune(s) ==
    LET kept(r) == r.frame + KeptHashes >= s.next
    IN  [s EXCEPT !.history = {r \in @ : kept(r)}, !.remote = {r \in @ : kept(r)},
                  !.pending = Without(s.pending, {r \in Range(s.pending) : ~kept(r)})]

\* RecordCompletedLockstepHash.
RecordCompletedLockstepHash(n, s, f, flaws) ==
    IF ~AllRequiredInputsConfirmed(s, f) \/ s.recorded = f THEN s
    ELSE ProcessPendingRemoteHashes(n, Prune([s EXCEPT
            !.history = (@ \ Local(s, f)) \cup {[frame |-> f, hash |-> HashOf(flaws, f)]},
            !.recorded = f]))

\* RecordPreviousCompletedLockstepHash.
RecordPrevious(n, s) ==
    IF CatchingUp(s) \/ s.next = 0 \/ ~ShouldRecord(s, s.next - 1) THEN s
    ELSE RecordCompletedLockstepHash(n, s, s.next - 1, sim[n])

\* SendDueLockstepHash: the hash recorded last, once.
HashIsDue(s) ==
    /\ ~CatchingUp(s) /\ s.recorded # NoFrame /\ IsScheduled(s.recorded)
    /\ s.sent = NoFrame \/ s.recorded > s.sent
    /\ Local(s, s.recorded) # {}
DueHash(n, s) ==
    {[peer |-> n, frame |-> s.recorded, hash |-> l.hash] : l \in Local(s, s.recorded)}

\* Fault: the record of the frame the rollback starts at is kept.
DiscardLockstepHashesAfterFrame(s, f) ==
    [s EXCEPT !.history = {r \in @ : r.frame <= f}]

\* DiscardLockstepHashesFromFrame: samples of the others are kept.
DiscardLockstepHashesFromFrame(s, f) ==
    LET kept == {r \in s.history : r.frame < f}
    IN  [s EXCEPT !.history = kept,
                  !.recorded = IF @ = NoFrame \/ @ < f THEN @
                               ELSE IF kept = {} THEN NoFrame ELSE Max({r.frame : r \in kept}),
                  !.sent = IF @ = NoFrame \/ @ < f THEN @ ELSE NoFrame]

\* ValidateRemoteHashesAfterReplay of the frames from first on.
ValidateRemoteHashes(n, s, first, end) ==
    LET checked == {r \in s.remote : r.frame \in first .. end - 1 /\ Local(s, r.frame) # {}}
        differ  == {r \in checked : \A l \in Local(s, r.frame) : l.hash # r.hash}
    IN  IF differ # {}
          THEN IF first = 0 THEN [s EXCEPT !.mode = "FatalDesync"]
               ELSE StartResync(n, s, (CHOOSE r \in differ : TRUE).peer)
        ELSE IF checked # {} /\ s.mode \in {"PendingRollback", "SnapshotCatchup"}
          THEN [s EXCEPT !.mode = "RollbackRepaired", !.repair = {}]
        ELSE s

\* ReplayRollbackWindow, without a snapshot to start from.
NoSnapshot(n, s) ==
    StartResync(n, [s EXCEPT !.rollback = NoFrame], s.mismatchPeer)

\* ReplayRollbackWindow: flaws are those of the timeline replayed.
Replayed(n, s, flaws) ==
    LET from   == s.rollback
        back   == DiscardLockstepHashesFromFrame([s EXCEPT !.rollback = NoFrame], from)
        step(t, f) ==
            LET stepped == [t EXCEPT !.next = f + 1, !.saved = @ \cup {f}]
            IN  IF ShouldRecord(stepped, f)
                THEN RecordCompletedLockstepHash(n, stepped, f, flaws) ELSE stepped
        again[i \in 0 .. s.next - from] ==
            IF i = 0 THEN back ELSE step(again[i - 1], from + i - 1)
    IN  ValidateRemoteHashes(n, again[s.next - from], from, s.next)

\* PruneRollbackSnapshots.
KeepSnapshots(s) ==
    [s EXCEPT !.saved = {f \in @ : f + s.window + KeepSlack >= s.next}]

-----------------------------------------------------------------------------
Init ==
    /\ node = [n \in Process |->
          [next |-> 0, window |-> Window, base |-> 0, canonical |-> {}, rollback |-> NoFrame, saved |-> {},
           history |-> {}, remote |-> {}, pending |-> <<>>, recorded |-> NoFrame,
           sent |-> NoFrame, mode |-> "None", repair |-> {}, mismatchPeer |-> Host]]
    /\ sim = [n \in Process |-> {}]
    /\ hashes = {}
    /\ faults = 0 /\ misses = 0

-----------------------------------------------------------------------------
(* A tick of a process after its packet pump.                              *)

\* The step gate: the host waits for the inputs the peers have queued, a peer
\* stays within the window of what it heard of the host.
MayStep(n) ==
    /\ node[n].next <= MaxFrame
    /\ n = Host => \A p \in Peer : node[Host].next <= node[p].next + InputDelay
    /\ n # Host => \E f \in node[n].canonical :
                      f >= InputDelay /\ node[n].next <= f - InputDelay + node[n].window

\* ApplyPendingLockstepSettings, of a change the host has scheduled ahead of
\* itself (StageSession has how it is announced), heard late or not.
ApplyPendingLockstepSettings(n, w) ==
    /\ w # node[n].window /\ node[n].next >= InputDelay + SettingsFrames
    /\ node' = [node EXCEPT ![n] = KeepSnapshots([@ EXCEPT !.window = w])]
    /\ UNCHANGED <<sim, hashes, faults, misses>>

\* The hash of the frame stepped last is recorded and sent, then nothing is
\* stepped.
TickWithoutStep(n) ==
    LET s == RecordPrevious(n, node[n])
    IN  /\ node[n].mode # "FatalDesync"
        /\ IF HashIsDue(s)
             THEN /\ hashes' = hashes \cup DueHash(n, s)
                  /\ node' = [node EXCEPT ![n] = [s EXCEPT !.sent = s.recorded]]
             ELSE /\ node' = [node EXCEPT ![n] = s]
                  /\ UNCHANGED hashes
        /\ UNCHANGED <<sim, faults, misses>>

\* The same, then a replay that is due; wrong are the frames replayed with
\* wrong guesses.  Without anything to replay the next frame is stepped.
TickAndReplay(n, wrong) ==
    LET s        == RecordPrevious(n, node[n])
        sent     == IF HashIsDue(s) THEN [s EXCEPT !.sent = s.recorded] ELSE s
        flaws    == {x \in sim[n] : x.frame < s.rollback} \cup {Guess(f) : f \in wrong}
        exists   == s.rollback \in s.saved
    IN  /\ node[n].mode # "FatalDesync" /\ ~CatchingUp(s) /\ MayStep(n)
        /\ s.rollback # NoFrame
        /\ wrong \subseteq IF exists THEN (s.rollback .. s.next - 1) \ s.canonical ELSE {}
        /\ misses + Cardinality(wrong) <= MaxMisses
        /\ hashes' = IF HashIsDue(s) THEN hashes \cup DueHash(n, s) ELSE hashes
        /\ node' = [node EXCEPT ![n] = IF exists THEN KeepSnapshots(Replayed(n, sent, flaws))
                                       ELSE NoSnapshot(n, sent)]
        /\ sim' = [sim EXCEPT ![n] = IF exists THEN flaws ELSE @]
        /\ misses' = misses + Cardinality(wrong)
        /\ UNCHANGED faults

TickAndStep(n, new) ==
    LET s       == RecordPrevious(n, node[n])
        sent    == IF HashIsDue(s) THEN [s EXCEPT !.sent = s.recorded] ELSE s
        stepped == [sent EXCEPT !.saved = @ \cup {s.next}, !.next = @ + 1,
                                !.canonical = IF n = Host THEN @ \cup {s.next} ELSE @]
    IN  /\ node[n].mode # "FatalDesync" /\ ~CatchingUp(s) /\ MayStep(n)
        /\ s.rollback = NoFrame
        /\ Guess(s.next) \in new => n # Host /\ s.next \notin s.canonical
        /\ node' = [node EXCEPT ![n] = KeepSnapshots(stepped)]
        /\ hashes' = IF HashIsDue(s) THEN hashes \cup DueHash(n, s) ELSE hashes
        /\ sim' = [sim EXCEPT ![n] = @ \cup new]
        /\ faults' = faults + Cardinality(new \ {Guess(s.next)})
        /\ misses' = misses + Cardinality(new \cap {Guess(s.next)})
        /\ faults' <= MaxFaults /\ misses' <= MaxMisses

-----------------------------------------------------------------------------
(* The packet pump.                                                        *)

\* HandleInputFrameRecords on a peer: a packet of the host holds the inputs
\* of its last frames.
HandleInputFrameRecords(p, last) ==
    LET heard == {f \in last - InputHistory .. last : f >= node[p].base}
        wrong == {f \in heard : Guess(f) \in sim[p]}
        s     == [node[p] EXCEPT !.canonical = @ \cup heard]
    IN  /\ last < node[Host].next /\ ~(heard \subseteq node[p].canonical)
        /\ node' = [node EXCEPT ![p] =
              IF wrong = {} THEN s ELSE RequestRollbackFromFrame(s, Min(wrong))]
        /\ UNCHANGED <<sim, hashes, faults, misses>>

Refreshed(q, r) == [i \in DOMAIN q |-> IF SameSample(q[i], r) THEN r ELSE q[i]]

\* Fault: nothing leaves the queue for what comes in.
QueuedWithoutLimit(s, r) ==
    IF \E i \in DOMAIN s.pending : SameSample(s.pending[i], r)
        THEN [s EXCEPT !.pending = Refreshed(@, r)]
        ELSE [s EXCEPT !.pending = Append(@, r)]

\* StoreOrCompareRemoteHash, of a frame without a hash yet: the oldest sample
\* makes room.
QueuePending(s, r) ==
    IF \E i \in DOMAIN s.pending : SameSample(s.pending[i], r)
        THEN [s EXCEPT !.pending = Refreshed(@, r)]
        ELSE [s EXCEPT !.pending =
                LET longer == Append(@, r)
                IN  IF Len(longer) > MaxPending THEN Tail(longer) ELSE longer]

\* HandleLockstepHashPacket; the host relays the hashes of a peer to the
\* others.
HandleLockstepHashPacket(n, r) ==
    LET s == node[n]
    IN  /\ r \in hashes /\ r.peer # n /\ ~CatchingUp(s)
        /\ node' = [node EXCEPT ![n] =
              IF Local(s, r.frame) # {} THEN CompareLockstepHash(n, s, r)
                                        ELSE QueuePending(s, r)]
        /\ UNCHANGED <<sim, hashes, faults, misses>>

\* HandleSnapshotResyncRequest: the host waits for the peer's repair.
HandleSnapshotResyncRequest(p) ==
    /\ p \in node[p].repair /\ p \notin node[Host].repair
    /\ node[Host].mode # "FatalDesync"
    /\ node' = [node EXCEPT ![Host] = StartResync(Host, @, p)]
    /\ UNCHANGED <<sim, hashes, faults, misses>>

\* HandleSnapshotResyncChunk with the last chunk, and the acknowledgement.
RepairBySnapshot(p) ==
    LET repaired == node[Host].repair \ {p}
    IN  /\ p \in node[Host].repair
        /\ sim' = [sim EXCEPT ![p] = sim[Host]]
        /\ node' = [node EXCEPT
              ![Host] = [@ EXCEPT !.repair = repaired,
                           !.mode = IF repaired = {} THEN "RollbackRepaired"
                                    ELSE node[Host].mode],
              ![p] = [@ EXCEPT !.next = node[Host].next, !.base = node[Host].next,
                        !.canonical = {}, !.rollback = NoFrame, !.saved = {},
                        !.history = {}, !.remote = {}, !.pending = <<>>,
                        !.recorded = NoFrame, !.sent = NoFrame,
                        !.mode = "RollbackRepaired", !.repair = {}]]
        /\ UNCHANGED <<hashes, faults, misses>>

-----------------------------------------------------------------------------
Replays(n) ==
    node[n].rollback # NoFrame /\ \E wrong \in SUBSET (node[n].rollback .. node[n].next - 1) :
        TickAndReplay(n, wrong)
Steps(n) ==
    \E new \in SUBSET {Guess(node[n].next), Fault(node[n].next, n)} : TickAndStep(n, new)
Receives(n) == \E r \in hashes : HandleLockstepHashPacket(n, r)

Next ==
    \/ \E n \in Process :
          \/ \E w \in Windows : ApplyPendingLockstepSettings(n, w)
          \/ TickWithoutStep(n)
          \/ Replays(n)
          \/ Steps(n)
          \/ Receives(n)
    \/ \E p \in Peer :
          \/ \E f \in 0 .. MaxFrame : HandleInputFrameRecords(p, f)
          \/ HandleSnapshotResyncRequest(p)
          \/ RepairBySnapshot(p)

Spec == Init /\ [][Next]_vars

-----------------------------------------------------------------------------
Flaw == [frame : 0 .. MaxFrame, by : Process \cup {"input"}]
Sample == [peer : Process, frame : Nat, hash : SUBSET Flaw]
Frame == Nat \cup {NoFrame}
NodeFields == [
    next : Nat, window : Nat, base : Nat, canonical : SUBSET Nat, rollback : Frame, saved : SUBSET Nat,
    history : SUBSET [frame : Nat, hash : SUBSET Flaw], remote : SUBSET Sample,
    pending : Seq(Sample), recorded : Frame, sent : Frame, mode : Mode,
    repair : SUBSET Peer, mismatchPeer : Process]

\* The variables have the types of the code's fields, the queue of early
\* samples its limit, and a rollback goes to a frame already stepped.
TypeOK ==
    /\ DOMAIN node = Process
    /\ \A n \in Process :
          /\ node[n] \in NodeFields
          /\ Len(node[n].pending) <= MaxPending
          /\ node[n].rollback # NoFrame => node[n].rollback < node[n].next
          /\ sim[n] \subseteq Flaw
    /\ hashes \subseteq Sample
    /\ faults \in 0 .. MaxFaults /\ misses \in 0 .. MaxMisses

\* What a process has recorded is what its simulation was, up to the frame
\* it will go back to: a rollback leaves no hash of the timeline it undoes.
HistoryIsCurrent ==
    \A n \in Process : \A r \in node[n].history :
        (node[n].rollback = NoFrame \/ r.frame < node[n].rollback) =>
            r.hash = HashOf(sim[n], r.frame)

\* A sample that came before its frame was hashed is compared when it is:
\* it does not stay in the queue beside its answer.
PendingIsUnanswered ==
    \A n \in Process : \A i \in DOMAIN node[n].pending :
        Local(node[n], node[n].pending[i].frame) = {}

\* Where a process is to go back to it has a snapshot of.
RequestedSnapshotExists ==
    \A n \in Process : node[n].rollback # NoFrame => node[n].rollback \in node[n].saved

\* A rollback that is due is not deprived of its snapshot: "Decreasing the
\* window prunes only snapshots older than the new window after apply_frame;
\* it must not delete snapshots needed for already-known pending rollback"
\* (docs/plans/input_lockstep_rollback_plan.md).
PendingRollbackKeepsItsSnapshot ==
    [][\A n \in Process :
          node[n].rollback # NoFrame /\ node'[n].rollback = node[n].rollback
          /\ node[n].rollback \in node[n].saved => node[n].rollback \in node'[n].saved]_vars

NewHashes(n) == {r \in hashes' \ hashes : r.peer = n}

\* Unless a correction has arrived that is not yet replayed, a peer tells of
\* frames only the inputs of which are final, so that a difference is a
\* fault (AllRequiredInputsConfirmedForFrame).
SettledHashesAreSent ==
    [][\A p \in Peer : node[p].rollback = NoFrame =>
          \A r \in NewHashes(p) : \A x \in r.hash : x.by # "input"]_vars
=============================================================================
