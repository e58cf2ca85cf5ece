------------------------- MODULE LockstepHashesProofs -------------------------
(***************************************************************************)
(* Proofs about LockstepHashes, for every set of peers, every interval,    *)
(* delay, window, length of the histories and number of faults.            *)
(***************************************************************************)
EXTENDS LockstepHashes, QueueProofs, FiniteSetTheorems

-----------------------------------------------------------------------------
(* The inductive invariant.                                                *)

Confirmed(s, f) == s.base <= f /\ \A g \in s.base .. f : g \in s.canonical

\* Samples come from others, and a host that is to go back was told so by a
\* peer: so it is a peer that a repair is asked for (StartResync).
Sound(n, s) ==
    /\ s \in NodeFields
    /\ \A r \in s.remote : r.peer # n
    /\ \A i \in DOMAIN s.pending : s.pending[i].peer # n
    /\ n = Host /\ s.rollback # NoFrame => s.mismatchPeer # Host

\* No sample waits beside the hash it is to be compared with.
Unanswered(s) == \A i \in DOMAIN s.pending : Local(s, s.pending[i].frame) = {}

\* What is recorded is of final inputs and of the timeline now in force.
RecordsHold(s, flaws) ==
    \A r \in s.history :
        r.frame < s.next /\ Confirmed(s, r.frame) /\ r.hash = HashOf(flaws, r.frame)

\* A guess in the simulation that turned out wrong is to be replayed, unless
\* a snapshot is on its way.
GuessesArePending(s, flaws) ==
    \A x \in flaws : x.by = "input" =>
        /\ s.base <= x.frame
        /\ x.frame \in s.canonical =>
              CatchingUp(s) \/ (s.rollback # NoFrame /\ s.rollback <= x.frame)

NodeInv(n, s, flaws) ==
    /\ Sound(n, s)
    /\ Len(s.pending) <= MaxPending
    /\ s.base <= s.next /\ s.next <= MaxFrame + 1
    /\ s.rollback # NoFrame => s.base <= s.rollback /\ s.rollback < s.next
    /\ \A f \in s.saved : s.base <= f /\ f < s.next
    /\ flaws \subseteq Flaw
    /\ \A x \in flaws : x.frame < s.next
    /\ Unanswered(s)
    /\ RecordsHold(s, flaws)
    /\ GuessesArePending(s, flaws)
    /\ n = Host => /\ s.base = 0 /\ 0 .. s.next - 1 \subseteq s.canonical
                   /\ \A x \in flaws : x.by # "input"

IInv ==
    /\ node \in [Process -> NodeFields] /\ sim \in [Process -> SUBSET Flaw]
    /\ \A n \in Process : NodeInv(n, node[n], sim[n])
    /\ hashes \subseteq Sample
    /\ faults \in 0 .. MaxFaults /\ misses \in 0 .. MaxMisses

-----------------------------------------------------------------------------
(* Comparing one sample.                                                   *)

\* What no comparison changes.
SameTimeline(s, t) ==
    /\ t.next = s.next /\ t.window = s.window /\ t.base = s.base
    /\ t.canonical = s.canonical /\ t.saved = s.saved /\ t.history = s.history
    /\ t.pending = s.pending /\ t.recorded = s.recorded /\ t.sent = s.sent

\* A rollback that is asked for goes to a snapshot, and further back than the
\* one that was due; while a snapshot of the host is on its way none is.
AsksForMore(s, t) ==
    /\ CatchingUp(s) => CatchingUp(t) /\ t.rollback = s.rollback
    /\ t.rollback # s.rollback =>
          /\ t.rollback # NoFrame /\ t.rollback \in s.saved /\ t.rollback < s.next
          /\ s.rollback # NoFrame => t.rollback < s.rollback

Compares(n, s, t) == Sound(n, t) /\ SameTimeline(s, t) /\ AsksForMore(s, t)

LEMMA ComparesIsTransitive ==
    ASSUME NEW n, NEW s, NEW t, NEW u, Sound(n, s), Compares(n, s, t), Compares(n, t, u)
    PROVE  Compares(n, s, u)
<1>1. /\ s.rollback \in Nat \cup {NoFrame} /\ t.rollback \in Nat \cup {NoFrame}
      /\ u.rollback \in Nat \cup {NoFrame}
  BY DEF Compares, Sound, NodeFields, Frame
<1> QED
  BY <1>1, BoundAssumption DEF Compares, SameTimeline, AsksForMore

LEMMA ComparesIsReflexive ==
    ASSUME NEW n, NEW s, Sound(n, s) PROVE Compares(n, s, s)
  BY DEF Compares, SameTimeline, AsksForMore

LEMMA StartResyncCompares ==
    ASSUME NEW n \in Process, NEW s, NEW p \in Process, Sound(n, s), p # n, ~CatchingUp(s)
    PROVE  Compares(n, s, StartResync(n, s, p))
<1> DEFINE t == StartResync(n, s, p)
           who == IF n = Host THEN p ELSE n
<1>1. who \in Peer
  BY DEF Process
<1>2. /\ s \in NodeFields /\ s.repair \cup {who} \in SUBSET Peer
      /\ t = [s EXCEPT !.mode = "SnapshotCatchup", !.repair = s.repair \cup {who}]
  BY <1>1 DEF Sound, NodeFields, StartResync
<1>3. /\ t \in NodeFields /\ SameTimeline(s, t) /\ t.rollback = s.rollback
      /\ t.remote = s.remote /\ t.mismatchPeer = s.mismatchPeer
  BY <1>2 DEF NodeFields, Mode, SameTimeline
<1> HIDE DEF t
<1>4. Sound(n, t)
  BY <1>3 DEF Sound, SameTimeline
<1> QED
  BY <1>3, <1>4 DEF Compares, AsksForMore, t

LEMMA DisagreeCompares ==
    ASSUME NEW n \in Process, NEW s, NEW r \in Sample, Sound(n, s), r.peer # n, ~CatchingUp(s)
    PROVE  Compares(n, s, Disagree(n, s, r))
<1> DEFINE match == LastMatch(s, r)
           noted == [s EXCEPT !.mismatchPeer = r.peer]
           asked == [noted EXCEPT !.mode = "PendingRollback"]
           back  == RequestRollbackFromFrame(asked, match + 1)
<1>1. r.peer \in Process /\ s \in NodeFields
  BY DEF Sample, Sound
<1>2. /\ noted \in NodeFields /\ SameTimeline(s, noted) /\ noted.rollback = s.rollback
      /\ noted.remote = s.remote /\ noted.mismatchPeer = r.peer /\ noted.mode = s.mode
  BY <1>1 DEF NodeFields, SameTimeline
<1>3. Sound(n, noted)
  BY <1>2 DEF Sound, SameTimeline
<1>4. Compares(n, s, noted) /\ ~CatchingUp(noted)
  BY <1>2, <1>3 DEF Compares, AsksForMore, CatchingUp
<1> HIDE DEF noted
<1>5. Compares(n, s, StartResync(n, noted, r.peer))
  BY <1>1, <1>3, <1>4, StartResyncCompares, ComparesIsTransitive
<1>6. ASSUME match + 1 \in noted.saved PROVE Compares(n, s, back)
  <2>1. /\ asked \in NodeFields /\ SameTimeline(noted, asked) /\ asked.rollback = noted.rollback
        /\ asked.remote = noted.remote /\ asked.mismatchPeer = r.peer /\ asked.mode = "PendingRollback"
    BY <1>2 DEF NodeFields, Mode, SameTimeline
  <2>2. match + 1 \in Nat
    BY <1>2, <1>6 DEF NodeFields
  <2> DEFINE f == match + 1
  <2> HIDE DEF asked, f
  <2>3. CASE back = asked
    BY <1>2, <1>3, <1>4, <2>1, <2>3 DEF Compares, Sound, SameTimeline, AsksForMore
  <2>4. CASE back # asked
    <3>1. /\ f < asked.next /\ (asked.rollback = NoFrame \/ f < asked.rollback)
          /\ back = [asked EXCEPT !.rollback = f]
      BY <2>4 DEF RequestRollbackFromFrame, f
    <3>2. f \in Nat /\ f # NoFrame /\ f \in s.saved
      BY <1>2, <1>6, <2>2, BoundAssumption DEF f, SameTimeline
    <3>3. /\ back \in NodeFields /\ SameTimeline(asked, back) /\ back.rollback = f
          /\ back.remote = asked.remote /\ back.mismatchPeer = r.peer
      BY <2>1, <3>1, <3>2 DEF NodeFields, Frame, SameTimeline
    <3> HIDE DEF back
    <3>4. Sound(n, back)
      BY <1>2, <1>3, <2>1, <3>3 DEF Sound, SameTimeline
    <3>5. SameTimeline(s, back)
      BY <1>2, <2>1, <3>3 DEF SameTimeline
    <3>6. asked.rollback = s.rollback /\ asked.next = s.next
      BY <1>2, <2>1 DEF SameTimeline
    <3> QED
      BY <3>1, <3>2, <3>3, <3>4, <3>5, <3>6 DEF Compares, AsksForMore
  <2> QED
    BY <2>3, <2>4
<1> QED
  BY <1>5, <1>6 DEF Disagree, CanGoBack, noted

LEMMA CompareCompares ==
    ASSUME NEW n \in Process, NEW s, NEW r \in Sample, Sound(n, s), r.peer # n
    PROVE  Compares(n, s, CompareLockstepHash(n, s, r))
<1> DEFINE sampled == [s EXCEPT !.remote = {q \in s.remote : ~SameSample(q, r)} \cup {r}]
           agreed  == [sampled EXCEPT !.mode = IF sampled.mode = "PendingRollback"
                                               THEN "RollbackRepaired" ELSE sampled.mode]
           same    == \E l \in Local(s, r.frame) : l.hash = r.hash
<1>1. s \in NodeFields /\ {q \in s.remote : ~SameSample(q, r)} \cup {r} \in SUBSET Sample
  BY DEF Sound, NodeFields
<1>2. /\ sampled \in NodeFields /\ SameTimeline(s, sampled) /\ sampled.rollback = s.rollback
      /\ sampled.remote \subseteq s.remote \cup {r} /\ sampled.mismatchPeer = s.mismatchPeer
      /\ sampled.mode = s.mode
  BY <1>1 DEF NodeFields, SameTimeline
<1>3. CompareLockstepHash(n, s, r) =
          IF Local(s, r.frame) = {} THEN s
          ELSE IF CatchingUp(s) THEN sampled
          ELSE IF ~same THEN Disagree(n, sampled, r) ELSE agreed
  BY DEF CompareLockstepHash
<1> HIDE DEF sampled
<1>4. Sound(n, sampled)
  BY <1>2 DEF Sound, SameTimeline
<1>5. Compares(n, s, sampled)
  BY <1>2, <1>4 DEF Compares, AsksForMore, CatchingUp
<1>6. ASSUME ~CatchingUp(s) PROVE Compares(n, s, Disagree(n, sampled, r))
  BY <1>2, <1>4, <1>5, <1>6, DisagreeCompares, ComparesIsTransitive DEF CatchingUp
<1>7. ASSUME ~CatchingUp(s) PROVE Compares(n, s, agreed)
  <2>1. /\ agreed \in NodeFields /\ SameTimeline(sampled, agreed)
        /\ agreed.rollback = sampled.rollback /\ agreed.remote = sampled.remote
        /\ agreed.mismatchPeer = sampled.mismatchPeer
    BY <1>2 DEF NodeFields, Mode, SameTimeline
  <2> HIDE DEF agreed
  <2>2. Sound(n, agreed)
    BY <1>4, <2>1 DEF Sound, SameTimeline
  <2> QED
    BY <1>2, <1>7, <2>1, <2>2 DEF Compares, SameTimeline, AsksForMore
<1> QED
  BY <1>3, <1>5, <1>6, <1>7, ComparesIsReflexive

-----------------------------------------------------------------------------
(* Comparing what has waited.                                              *)

\* The sample of every round is compared, or none.
LEMMA ComparisonsUnfold ==
    ASSUME NEW n \in Process, NEW s, Sound(n, s)
    PROVE  \E t : /\ Compares(n, s, t)
                  /\ ProcessPendingRemoteHashes(n, s) =
                        [t EXCEPT !.pending = Without(s.pending,
                            {r \in Range(s.pending) : Local(s, r.frame) # {}})]
<1> DEFINE k == Len(s.pending)
           S == {t \in NodeFields : Compares(n, s, t)}
           Made(i, x) == IF Local(s, s.pending[i].frame) # {}
                         THEN CompareLockstepHash(n, x, s.pending[i]) ELSE x
           Def(g) == [i \in 0 .. k |-> IF i = 0 THEN s ELSE Made(i, g[i - 1])]
           Round == {t \in (1 .. k) \X S \X S : t[3] = Made(t[1], t[2])}
           compared == CHOOSE g : g = Def(g)
<1>1. s.pending \in Seq(Sample)
  BY DEF Sound, NodeFields
<1>2. /\ k \in Nat /\ DOMAIN s.pending = 1 .. k
      /\ \A i \in 1 .. k : s.pending[i] \in Sample /\ s.pending[i].peer # n
  BY <1>1 DEF Sound
<1>3. s \in S
  BY ComparesIsReflexive DEF Sound
<1>4. ASSUME NEW i \in 1 .. k, NEW x \in S PROVE Made(i, x) \in S
  <2> DEFINE r == s.pending[i]
             y == CompareLockstepHash(n, x, r)
  <2>1. r \in Sample /\ r.peer # n
    BY <1>2
  <2>2. Sound(n, x) /\ Compares(n, s, x)
    BY DEF Compares
  <2> HIDE DEF r
  <2>3. Compares(n, x, y)
    BY <2>1, <2>2, CompareCompares
  <2> HIDE DEF y
  <2>4. Compares(n, s, y) /\ y \in NodeFields
    BY <2>2, <2>3, ComparesIsTransitive DEF Compares, Sound
  <2> QED
    BY <2>4 DEF y, r
<1> HIDE DEF k, S, Made
<1>5. CanGoOn(S, k, Round)
  BY <1>4 DEF CanGoOn
<1>6. PICK g \in [0 .. k -> S] :
          g[0] = s /\ \A i \in 1 .. k : <<i, g[i - 1], g[i]>> \in Round
  <2> HIDE DEF Round
  <2>1. Courses(S, k, s, Round) # {}
    BY <1>2, <1>3, <1>5, CoursesExist
  <2> QED
    BY <2>1 DEF Courses
<1>7. g = Def(g)
  <2>1. ASSUME NEW i \in 0 .. k PROVE g[i] = Def(g)[i]
    <3>1. CASE i = 0
      BY <1>6, <3>1
    <3>2. CASE i # 0
      <4>1. i \in 1 .. k
        BY <1>2, <3>2
      <4> QED
        BY <1>6, <3>2, <4>1
    <3> QED
      BY <3>1, <3>2
  <2>2. g = [i \in 0 .. k |-> g[i]]
    BY <1>6
  <2> QED
    BY <2>1, <2>2
<1>8. compared = Def(compared)
  <2> HIDE DEF Def
  <2> QED
    BY <1>7
<1>9. ProcessPendingRemoteHashes(n, s) =
          [compared[k] EXCEPT !.pending = Without(s.pending,
              {r \in Range(s.pending) : Local(s, r.frame) # {}})]
  BY DEF ProcessPendingRemoteHashes, Made, k
<1> HIDE DEF compared
<1>10. /\ compared[0] = s
       /\ \A i \in 1 .. k : compared[i] = Made(i, compared[i - 1])
  BY <1>2, <1>8
<1>11. compared[k] \in S
  <2> DEFINE Good == {i \in 0 .. k : compared[i] \in S}
  <2>1. 0 \in Good
    BY <1>2, <1>3, <1>10
  <2>2. ASSUME NEW i \in 1 .. k, i - 1 \in Good PROVE i \in Good
    <3>1. i - 1 \in 0 .. k /\ compared[i - 1] \in S
      BY <1>2, <2>2
    <3>2. compared[i] \in S
      BY <1>4, <1>10, <3>1
    <3> QED
      BY <1>2, <3>2
  <2> HIDE DEF Good
  <2>3. 0 .. k \subseteq Good
    BY <1>2, <2>1, <2>2, Induction
  <2>4. k \in Good
    BY <1>2, <2>3
  <2> QED
    BY <2>4 DEF Good
<1> QED
  BY <1>9, <1>11 DEF S

\* What recording a hash leaves as it was, and what it may ask for.
SamePosition(s, t) ==
    /\ t.next = s.next /\ t.window = s.window /\ t.base = s.base
    /\ t.canonical = s.canonical /\ t.saved = s.saved /\ t.sent = s.sent
    /\ Len(t.pending) <= Len(s.pending)

LEMMA ProcessPendingEffects ==
    ASSUME NEW n \in Process, NEW s, Sound(n, s)
    PROVE  LET t == ProcessPendingRemoteHashes(n, s)
           IN  /\ Sound(n, t) /\ SamePosition(s, t) /\ AsksForMore(s, t)
               /\ t.history = s.history /\ t.recorded = s.recorded
               /\ Unanswered(t)
<1> DEFINE due  == {r \in Range(s.pending) : Local(s, r.frame) # {}}
           left == Without(s.pending, due)
           t    == ProcessPendingRemoteHashes(n, s)
<1>1. PICK c : Compares(n, s, c) /\ t = [c EXCEPT !.pending = left]
  BY ComparisonsUnfold
<1>2. s.pending \in Seq(Sample)
  BY DEF Sound, NodeFields
<1>3. /\ left \in Seq(Sample) /\ Len(left) <= Len(s.pending)
      /\ \A i \in DOMAIN left : left[i] \notin due /\ \E k \in DOMAIN s.pending : s.pending[k] = left[i]
  <2> DEFINE q == s.pending
  <2> HIDE DEF due, q
  <2>1. /\ Without(q, due) \in Seq(Sample) /\ Len(Without(q, due)) <= Len(q)
        /\ \A x : (\E i \in 1 .. Len(Without(q, due)) : Without(q, due)[i] = x)
                     <=> x \notin due /\ \E i \in 1 .. Len(q) : q[i] = x
    BY <1>2, WithoutProperties DEF q
  <2>2. DOMAIN Without(q, due) = 1 .. Len(Without(q, due)) /\ DOMAIN q = 1 .. Len(q)
    BY <1>2, <2>1 DEF q
  <2> QED
    BY <2>1, <2>2 DEF q
<1>4. \A i \in DOMAIN left : /\ left[i].peer # n
                             /\ Local(s, left[i].frame) = {}
  BY <1>3 DEF Sound, Range
<1> HIDE DEF left, t
<1>5. c \in NodeFields /\ SameTimeline(s, c) /\ AsksForMore(s, c) /\ Sound(n, c)
  BY <1>1 DEF Compares, Sound
<1>6. /\ t \in NodeFields /\ t.pending = left /\ t.next = c.next /\ t.window = c.window
      /\ t.base = c.base /\ t.canonical = c.canonical /\ t.saved = c.saved
      /\ t.sent = c.sent /\ t.history = c.history /\ t.recorded = c.recorded
      /\ t.rollback = c.rollback /\ t.mode = c.mode /\ t.remote = c.remote
      /\ t.mismatchPeer = c.mismatchPeer
  BY <1>1, <1>3, <1>5 DEF NodeFields
<1>7. Sound(n, t)
  BY <1>4, <1>5, <1>6 DEF Sound
<1>8. SamePosition(s, t) /\ t.history = s.history /\ t.recorded = s.recorded
  BY <1>3, <1>5, <1>6 DEF SamePosition, SameTimeline
<1>9. AsksForMore(s, t)
  BY <1>5, <1>6 DEF AsksForMore, CatchingUp
<1>10. Unanswered(t)
  BY <1>4, <1>6, <1>8 DEF Unanswered, Local
<1> QED
  BY <1>7, <1>8, <1>9, <1>10 DEF t

-----------------------------------------------------------------------------
(* Recording the hash of a frame.                                          *)

LEMMA PruneEffects ==
    ASSUME NEW n \in Process, NEW s, Sound(n, s)
    PROVE  LET t == Prune(s)
           IN  /\ Sound(n, t) /\ SamePosition(s, t) /\ AsksForMore(s, t)
               /\ t.history \subseteq s.history /\ t.recorded = s.recorded
               /\ t.mode = s.mode
<1> DEFINE kept(r) == r.frame + KeptHashes >= s.next
           gone == {r \in Range(s.pending) : ~kept(r)}
           left == Without(s.pending, gone)
           history == {r \in s.history : kept(r)}
           remote == {r \in s.remote : kept(r)}
           t    == Prune(s)
<1>1. s.pending \in Seq(Sample) /\ s \in NodeFields
  BY DEF Sound, NodeFields
<1>2. /\ left \in Seq(Sample) /\ Len(left) <= Len(s.pending)
      /\ \A i \in DOMAIN left : \E k \in DOMAIN s.pending : s.pending[k] = left[i]
  <2> DEFINE q == s.pending
  <2> HIDE DEF gone, q
  <2>1. /\ Without(q, gone) \in Seq(Sample) /\ Len(Without(q, gone)) <= Len(q)
        /\ \A x : (\E i \in 1 .. Len(Without(q, gone)) : Without(q, gone)[i] = x)
                     <=> x \notin gone /\ \E i \in 1 .. Len(q) : q[i] = x
    BY <1>1, WithoutProperties DEF q
  <2>2. DOMAIN Without(q, gone) = 1 .. Len(Without(q, gone)) /\ DOMAIN q = 1 .. Len(q)
    BY <1>1, <2>1 DEF q
  <2> QED
    BY <2>1, <2>2 DEF q
<1>3. t = [s EXCEPT !.history = history, !.remote = remote, !.pending = left]
  BY DEF Prune
<1>4. history \subseteq s.history /\ remote \subseteq s.remote
  OBVIOUS
<1> HIDE DEF left, t, history, remote, gone
<1>5. /\ t \in NodeFields /\ t.pending = left /\ t.next = s.next /\ t.window = s.window
      /\ t.base = s.base /\ t.canonical = s.canonical /\ t.saved = s.saved
      /\ t.sent = s.sent /\ t.history = history /\ t.recorded = s.recorded
      /\ t.rollback = s.rollback /\ t.mode = s.mode /\ t.remote = remote
      /\ t.mismatchPeer = s.mismatchPeer
  BY <1>1, <1>2, <1>3, <1>4 DEF NodeFields
<1>6. Sound(n, t)
  BY <1>2, <1>4, <1>5 DEF Sound
<1>7. SamePosition(s, t) /\ AsksForMore(s, t)
  BY <1>2, <1>5 DEF SamePosition, AsksForMore, CatchingUp
<1> QED
  BY <1>4, <1>5, <1>6, <1>7 DEF t

\* The only hash that is new is that of the frame, and its inputs are final.
Records(n, s, f, flaws, t) ==
    /\ Sound(n, t) /\ SamePosition(s, t) /\ AsksForMore(s, t)
    /\ Unanswered(s) => Unanswered(t)
    /\ \A r \in t.history :
          r \in s.history \/ (r.frame = f /\ Confirmed(s, f) /\ r.hash = HashOf(flaws, f))

LEMMA RecordCompletedEffects ==
    ASSUME NEW n \in Process, NEW s, Sound(n, s), NEW f \in Nat, NEW flaws \in SUBSET Flaw
    PROVE  Records(n, s, f, flaws, RecordCompletedLockstepHash(n, s, f, flaws))
<1> DEFINE record == [frame |-> f, hash |-> HashOf(flaws, f)]
           history == (s.history \ Local(s, f)) \cup {record}
           u == [s EXCEPT !.history = history, !.recorded = f]
           v == Prune(u)
           t == ProcessPendingRemoteHashes(n, v)
<1>1. CASE ~AllRequiredInputsConfirmed(s, f) \/ s.recorded = f
  <2>1. RecordCompletedLockstepHash(n, s, f, flaws) = s
    BY <1>1 DEF RecordCompletedLockstepHash
  <2>2. Len(s.pending) \in Nat
    BY DEF Sound, NodeFields
  <2> QED
    BY <2>1, <2>2 DEF Records, SamePosition, AsksForMore
<1>2. CASE AllRequiredInputsConfirmed(s, f) /\ s.recorded # f
  <2>1. RecordCompletedLockstepHash(n, s, f, flaws) = t
    BY <1>2 DEF RecordCompletedLockstepHash
  <2>2. Confirmed(s, f)
    BY <1>2 DEF AllRequiredInputsConfirmed, Confirmed, Sound, NodeFields
  <2>3. s \in NodeFields /\ history \in SUBSET [frame : Nat, hash : SUBSET Flaw]
    BY DEF Sound, NodeFields, HashOf
  <2>4. \A r \in history : r \in s.history \/ r = record
    OBVIOUS
  <2> HIDE DEF history
  <2>5. /\ u \in NodeFields /\ u.pending = s.pending /\ u.next = s.next /\ u.window = s.window
        /\ u.base = s.base /\ u.canonical = s.canonical /\ u.saved = s.saved
        /\ u.sent = s.sent /\ u.history = history
        /\ u.rollback = s.rollback /\ u.mode = s.mode /\ u.remote = s.remote
        /\ u.mismatchPeer = s.mismatchPeer
    BY <2>3 DEF NodeFields, Frame
  <2> HIDE DEF u
  <2>6. Sound(n, u)
    BY <2>5 DEF Sound
  <2>7. /\ Sound(n, v) /\ SamePosition(u, v) /\ AsksForMore(u, v)
        /\ v.history \subseteq u.history /\ v.mode = u.mode
    BY <2>6, PruneEffects
  <2> HIDE DEF v
  <2>8. /\ Sound(n, t) /\ SamePosition(v, t) /\ AsksForMore(v, t)
        /\ t.history = v.history /\ Unanswered(t)
    BY <2>7, ProcessPendingEffects
  <2> HIDE DEF t
  <2>9. SamePosition(s, t)
    <3>1. Len(s.pending) \in Nat /\ Len(v.pending) \in Nat /\ Len(t.pending) \in Nat
      BY <2>7, <2>8 DEF Sound, NodeFields
    <3> QED
      BY <2>5, <2>7, <2>8, <3>1 DEF SamePosition
  <2>10. AsksForMore(s, t)
    <3>1. /\ s.rollback \in Nat \cup {NoFrame} /\ v.rollback \in Nat \cup {NoFrame}
          /\ t.rollback \in Nat \cup {NoFrame} /\ u.rollback \in Nat \cup {NoFrame}
      BY <2>5, <2>7, <2>8 DEF Sound, NodeFields, Frame
    <3>2. AsksForMore(s, v)
      BY <2>5, <2>7, <3>1 DEF AsksForMore, SamePosition, CatchingUp
    <3>3. v.saved = s.saved /\ v.next = s.next
      BY <2>5, <2>7 DEF SamePosition
    <3>4. CatchingUp(s) => CatchingUp(t) /\ t.rollback = s.rollback
      BY <2>8, <3>2 DEF AsksForMore
    <3> QED
      BY <2>8, <3>1, <3>2, <3>3, <3>4, BoundAssumption DEF AsksForMore
  <2>11. \A r \in t.history :
            r \in s.history \/ (r.frame = f /\ Confirmed(s, f) /\ r.hash = HashOf(flaws, f))
    BY <2>2, <2>4, <2>5, <2>7, <2>8
  <2> QED
    BY <2>1, <2>8, <2>9, <2>10, <2>11 DEF Records
<1> QED
  BY <1>1, <1>2

-----------------------------------------------------------------------------
(* The operations of a tick on the fields of a process.                    *)

\* To ask for more than was asked for keeps everything in place.
LEMMA AskingKeeps ==
    ASSUME NEW n \in Process, NEW s, NEW flaws, NodeInv(n, s, flaws), NEW t, Sound(n, t),
           SamePosition(s, t), AsksForMore(s, t), Unanswered(t), RecordsHold(t, flaws)
    PROVE  NodeInv(n, t, flaws)
<1>1. s \in NodeFields /\ t \in NodeFields
  BY DEF NodeInv, Sound
<1>2. /\ s.next \in Nat /\ s.base \in Nat /\ s.rollback \in Nat \cup {NoFrame}
      /\ t.rollback \in Nat \cup {NoFrame} /\ Len(s.pending) \in Nat /\ Len(t.pending) \in Nat
      /\ s.saved \subseteq Nat
  BY <1>1 DEF NodeFields, Frame
<1>3. Len(t.pending) <= MaxPending
  BY <1>2, BoundAssumption DEF SamePosition, NodeInv
<1>4. t.rollback # NoFrame => t.base <= t.rollback /\ t.rollback < t.next
  BY <1>2 DEF SamePosition, AsksForMore, NodeInv
<1>5. GuessesArePending(t, flaws)
  <2> SUFFICES ASSUME NEW x \in flaws, x.by = "input"
               PROVE  /\ t.base <= x.frame
                      /\ x.frame \in t.canonical =>
                            CatchingUp(t) \/ (t.rollback # NoFrame /\ t.rollback <= x.frame)
    BY DEF GuessesArePending
  <2>1. /\ s.base <= x.frame /\ x.frame \in Nat
        /\ x.frame \in s.canonical =>
              CatchingUp(s) \/ (s.rollback # NoFrame /\ s.rollback <= x.frame)
    <3>1. x \in Flaw
      BY DEF NodeInv
    <3> QED
      BY <3>1, BoundAssumption DEF NodeInv, GuessesArePending, Flaw
  <2>2. CASE CatchingUp(s)
    BY <2>1, <2>2 DEF SamePosition, AsksForMore
  <2>3. CASE s.rollback # NoFrame /\ s.rollback <= x.frame
    <3>1. t.rollback # NoFrame /\ t.rollback <= x.frame
      BY <1>2, <2>1, <2>3 DEF AsksForMore
    <3> QED
      BY <2>1, <3>1 DEF SamePosition
  <2>4. CASE x.frame \notin s.canonical
    BY <2>1, <2>4 DEF SamePosition
  <2> QED
    BY <2>1, <2>2, <2>3, <2>4
<1> QED
  BY <1>3, <1>4, <1>5 DEF NodeInv, SamePosition

LEMMA RecordKeeps ==
    ASSUME NEW n \in Process, NEW s, NEW flaws, NodeInv(n, s, flaws),
           NEW f \in Nat, f < s.next, NEW t, Records(n, s, f, flaws, t)
    PROVE  NodeInv(n, t, flaws)
<1>1. SamePosition(s, t) /\ AsksForMore(s, t) /\ Sound(n, t)
  BY DEF Records
<1>2. Unanswered(t)
  BY DEF Records, NodeInv
<1>3. RecordsHold(t, flaws)
  <2>1. \A r \in t.history :
            r \in s.history \/ (r.frame = f /\ Confirmed(s, f) /\ r.hash = HashOf(flaws, f))
    BY DEF Records
  <2>2. \A r \in s.history :
            r.frame < s.next /\ Confirmed(s, r.frame) /\ r.hash = HashOf(flaws, r.frame)
    BY DEF NodeInv, RecordsHold
  <2>3. \A g : Confirmed(s, g) => Confirmed(t, g)
    BY <1>1 DEF Confirmed, SamePosition
  <2> QED
    BY <1>1, <2>1, <2>2, <2>3 DEF RecordsHold, SamePosition
<1> QED
  BY <1>1, <1>2, <1>3, AskingKeeps

LEMMA ComparesKeeps ==
    ASSUME NEW n \in Process, NEW s, NEW flaws, NodeInv(n, s, flaws), NEW t, Compares(n, s, t)
    PROVE  NodeInv(n, t, flaws)
<1>1. Sound(n, t) /\ SameTimeline(s, t) /\ AsksForMore(s, t)
  BY DEF Compares
<1>2. Len(s.pending) \in Nat
  BY DEF NodeInv, Sound, NodeFields
<1>3. SamePosition(s, t)
  BY <1>1, <1>2 DEF SameTimeline, SamePosition
<1>4. Unanswered(t) /\ RecordsHold(t, flaws)
  BY <1>1 DEF SameTimeline, NodeInv, Unanswered, Local, RecordsHold, Confirmed
<1> QED
  BY <1>1, <1>3, <1>4, AskingKeeps

LEMMA RecordPreviousKeeps ==
    ASSUME NEW n \in Process, NodeInv(n, node[n], sim[n])
    PROVE  /\ NodeInv(n, RecordPrevious(n, node[n]), sim[n])
           /\ SamePosition(node[n], RecordPrevious(n, node[n]))
           /\ AsksForMore(node[n], RecordPrevious(n, node[n]))
<1> DEFINE s == node[n]
           t == RecordCompletedLockstepHash(n, s, s.next - 1, sim[n])
<1>1. /\ Sound(n, s) /\ s.next \in Nat /\ sim[n] \in SUBSET Flaw /\ Len(s.pending) \in Nat
  BY DEF NodeInv, Sound, NodeFields
<1>2. CASE CatchingUp(s) \/ s.next = 0 \/ ~ShouldRecord(s, s.next - 1)
  <2>1. RecordPrevious(n, s) = s
    BY <1>2 DEF RecordPrevious
  <2> QED
    BY <1>1, <2>1 DEF SamePosition, AsksForMore
<1>3. CASE ~(CatchingUp(s) \/ s.next = 0 \/ ~ShouldRecord(s, s.next - 1))
  <2>1. RecordPrevious(n, s) = t
    BY <1>3 DEF RecordPrevious
  <2>2. s.next - 1 \in Nat /\ s.next - 1 < s.next
    BY <1>1, <1>3
  <2> DEFINE f == s.next - 1
             flaws == sim[n]
  <2>3. Records(n, s, f, flaws, t)
    <3> HIDE DEF f, flaws, s
    <3>1. Records(n, s, f, flaws, RecordCompletedLockstepHash(n, s, f, flaws))
      BY <1>1, <2>2, RecordCompletedEffects DEF f, flaws
    <3> QED
      BY <3>1 DEF f, flaws
  <2>4. NodeInv(n, t, flaws)
    <3> HIDE DEF f, flaws, s, t
    <3> QED
      BY <2>2, <2>3, RecordKeeps DEF f, flaws, s
  <2> QED
    BY <2>1, <2>3, <2>4 DEF Records
<1> QED
  BY <1>2, <1>3

LEMMA SentKeeps ==
    ASSUME NEW n \in Process, NEW s, NEW flaws, NodeInv(n, s, flaws)
    PROVE  NodeInv(n, [s EXCEPT !.sent = s.recorded], flaws)
<1> DEFINE t == [s EXCEPT !.sent = s.recorded]
<1>1. s \in NodeFields
  BY DEF NodeInv, Sound
<1>2. /\ t \in NodeFields /\ t.pending = s.pending /\ t.next = s.next
      /\ t.base = s.base /\ t.canonical = s.canonical /\ t.saved = s.saved
      /\ t.history = s.history /\ t.rollback = s.rollback /\ t.mode = s.mode
      /\ t.remote = s.remote /\ t.mismatchPeer = s.mismatchPeer
  BY <1>1 DEF NodeFields
<1> HIDE DEF t
<1>3. Sound(n, t) /\ Unanswered(t)
  BY <1>2 DEF NodeInv, Sound, Unanswered, Local
<1>4. RecordsHold(t, flaws) /\ GuessesArePending(t, flaws)
  BY <1>2 DEF NodeInv, RecordsHold, Confirmed, GuessesArePending, CatchingUp
<1>5. NodeInv(n, t, flaws)
  BY <1>2, <1>3, <1>4 DEF NodeInv
<1> QED
  BY <1>5 DEF t

LEMMA KeepSnapshotsKeeps ==
    ASSUME NEW n \in Process, NEW s, NEW flaws, NodeInv(n, s, flaws)
    PROVE  NodeInv(n, KeepSnapshots(s), flaws)
<1> DEFINE saved == {f \in s.saved : f + s.window + KeepSlack >= s.next}
           t == [s EXCEPT !.saved = saved]
<1>1. s \in NodeFields /\ saved \subseteq s.saved /\ KeepSnapshots(s) = t
  BY DEF NodeInv, Sound, KeepSnapshots
<1> HIDE DEF saved
<1>2. /\ t \in NodeFields /\ t.pending = s.pending /\ t.next = s.next
      /\ t.base = s.base /\ t.canonical = s.canonical /\ t.saved = saved
      /\ t.history = s.history /\ t.rollback = s.rollback /\ t.mode = s.mode
      /\ t.remote = s.remote /\ t.mismatchPeer = s.mismatchPeer
  BY <1>1 DEF NodeFields
<1> HIDE DEF t
<1>3. Sound(n, t) /\ Unanswered(t)
  BY <1>2 DEF NodeInv, Sound, Unanswered, Local
<1>4. RecordsHold(t, flaws) /\ GuessesArePending(t, flaws)
  BY <1>2 DEF NodeInv, RecordsHold, Confirmed, GuessesArePending, CatchingUp
<1>5. NodeInv(n, t, flaws)
  BY <1>1, <1>2, <1>3, <1>4 DEF NodeInv
<1> QED
  BY <1>1, <1>5

-----------------------------------------------------------------------------
(* The replay of a rollback.                                               *)

LEMMA MaxOfBounded ==
    ASSUME NEW S \in SUBSET Nat, S # {}, NEW b \in Nat, \A x \in S : x <= b
    PROVE  Max(S) \in S
<1> DEFINE R == {r \in Nat \X Nat : r[1] < r[2]}
           below == {b - x : x \in S}
<1>1. IsWellFoundedOn(R, Nat)
  BY NatLessThanWellFounded DEF OpToRel
<1>2. below \subseteq Nat /\ below # {}
  <2>1. \A x \in S : x \in Nat /\ b - x \in Nat
    OBVIOUS
  <2>2. PICK x \in S : TRUE
    OBVIOUS
  <2>3. b - x \in below
    OBVIOUS
  <2> QED
    BY <2>1, <2>3
<1>3. PICK d \in below : \A y \in below : ~(<<y, d>> \in R)
  <2> HIDE DEF R, below
  <2> QED
    BY <1>1, <1>2, WFMin
<1>4. PICK x \in S : d = b - x
  OBVIOUS
<1>5. \A y \in S : x >= y
  <2> SUFFICES ASSUME NEW y \in S, y > x PROVE FALSE
    OBVIOUS
  <2>1. b - y \in below /\ b - y \in Nat /\ d \in Nat /\ b - y < d
    BY <1>2, <1>4
  <2> QED
    BY <1>3, <2>1
<1> QED
  BY <1>5 DEF Max

\* Where a replay starts.
LEMMA DiscardEffects ==
    ASSUME NEW n \in Process, NEW s, NEW flaws, NodeInv(n, s, flaws), s.rollback # NoFrame
    PROVE  LET t == DiscardLockstepHashesFromFrame([s EXCEPT !.rollback = NoFrame], s.rollback)
           IN  /\ Sound(n, t) /\ Unanswered(t)
               /\ t.next = s.next /\ t.window = s.window /\ t.base = s.base
               /\ t.canonical = s.canonical /\ t.saved = s.saved /\ t.pending = s.pending
               /\ t.rollback = NoFrame
               /\ t.history = {r \in s.history : r.frame < s.rollback}
<1> DEFINE from == s.rollback
           u == [s EXCEPT !.rollback = NoFrame]
           kept == {r \in s.history : r.frame < from}
           recorded == IF s.recorded = NoFrame \/ s.recorded < from THEN s.recorded
                       ELSE IF kept = {} THEN NoFrame ELSE Max({r.frame : r \in kept})
           sent == IF s.sent = NoFrame \/ s.sent < from THEN s.sent ELSE NoFrame
           t == [u EXCEPT !.history = kept, !.recorded = recorded, !.sent = sent]
<1>1. s \in NodeFields /\ from \in Nat /\ kept \subseteq s.history
  BY DEF NodeInv, Sound, NodeFields, Frame
<1>2. recorded \in Frame
  <2>1. ASSUME kept # {} PROVE Max({r.frame : r \in kept}) \in Nat
    <3> DEFINE frames == {r.frame : r \in kept}
    <3>1. \A r \in kept : r.frame \in Nat /\ r.frame <= from
      BY <1>1 DEF NodeFields
    <3>2. PICK r \in kept : TRUE
      BY <2>1
    <3>3. r.frame \in frames
      OBVIOUS
    <3>4. frames \subseteq Nat /\ \A x \in frames : x <= from
      <4> HIDE DEF kept
      <4> QED
        BY <3>1
    <3>5. frames # {}
      BY <3>3
    <3> HIDE DEF frames
    <3>6. Max(frames) \in frames
      BY <1>1, <3>4, <3>5, MaxOfBounded
    <3>7. Max(frames) \in Nat
      BY <3>4, <3>6
    <3> QED
      BY <3>7 DEF frames
  <2>2. s.recorded \in Frame
    BY <1>1 DEF NodeFields
  <2> HIDE DEF kept
  <2> QED
    BY <2>1, <2>2 DEF Frame
<1>3. sent \in Frame
  BY <1>1 DEF NodeFields, Frame
<1>4. DiscardLockstepHashesFromFrame(u, from) = t
  <2>1. u.history = s.history /\ u.recorded = s.recorded /\ u.sent = s.sent
    BY <1>1 DEF NodeFields
  <2> HIDE DEF u
  <2> QED
    BY <2>1 DEF DiscardLockstepHashesFromFrame
<1> HIDE DEF recorded, sent, kept
<1>5. u \in NodeFields /\ u.rollback = NoFrame
  BY <1>1 DEF NodeFields, Frame
<1>6. /\ u.next = s.next /\ u.window = s.window /\ u.base = s.base
      /\ u.canonical = s.canonical /\ u.saved = s.saved /\ u.pending = s.pending
      /\ u.remote = s.remote
  BY <1>1 DEF NodeFields
<1> HIDE DEF u
<1>7. /\ t \in NodeFields /\ t.next = s.next /\ t.window = s.window /\ t.base = s.base
      /\ t.canonical = s.canonical /\ t.saved = s.saved /\ t.pending = s.pending
      /\ t.rollback = NoFrame /\ t.remote = s.remote /\ t.history = kept
  BY <1>1, <1>2, <1>3, <1>5, <1>6 DEF NodeFields
<1> HIDE DEF t
<1>8. Sound(n, t)
  BY <1>7 DEF NodeInv, Sound
<1>9. Unanswered(t)
  BY <1>1, <1>7 DEF NodeInv, Unanswered, Local
<1> QED
  BY <1>4, <1>7, <1>8, <1>9 DEF u, kept

\* One frame of a replay.
ReplayedFrame(n, t, f, flaws) ==
    LET stepped == [t EXCEPT !.next = f + 1, !.saved = t.saved \cup {f}]
    IN  IF ShouldRecord(stepped, f)
        THEN RecordCompletedLockstepHash(n, stepped, f, flaws) ELSE stepped

LEMMA ReplayedFrameEffects ==
    ASSUME NEW n \in Process, NEW t, Sound(n, t), NEW f \in Nat, NEW flaws \in SUBSET Flaw
    PROVE  \E stepped :
              /\ Sound(n, stepped)
              /\ stepped.next = f + 1 /\ stepped.saved = t.saved \cup {f}
              /\ stepped.window = t.window /\ stepped.base = t.base
              /\ stepped.canonical = t.canonical /\ stepped.pending = t.pending
              /\ stepped.rollback = t.rollback /\ stepped.history = t.history
              /\ Records(n, stepped, f, flaws, ReplayedFrame(n, t, f, flaws))
<1> DEFINE stepped == [t EXCEPT !.next = f + 1, !.saved = t.saved \cup {f}]
           u == RecordCompletedLockstepHash(n, stepped, f, flaws)
<1>1. t \in NodeFields /\ f + 1 \in Nat /\ t.saved \cup {f} \in SUBSET Nat
  BY DEF Sound, NodeFields
<1>2. /\ stepped \in NodeFields /\ stepped.next = f + 1 /\ stepped.saved = t.saved \cup {f}
      /\ stepped.window = t.window /\ stepped.base = t.base
      /\ stepped.canonical = t.canonical /\ stepped.pending = t.pending
      /\ stepped.rollback = t.rollback /\ stepped.history = t.history
      /\ stepped.remote = t.remote /\ stepped.mismatchPeer = t.mismatchPeer
  BY <1>1 DEF NodeFields
<1>3. ReplayedFrame(n, t, f, flaws) = IF ShouldRecord(stepped, f) THEN u ELSE stepped
  BY DEF ReplayedFrame
<1> HIDE DEF stepped
<1>4. Sound(n, stepped)
  BY <1>2 DEF Sound
<1>5. Records(n, stepped, f, flaws, u)
  BY <1>4, RecordCompletedEffects
<1>6. Records(n, stepped, f, flaws, stepped)
  <2>1. Len(stepped.pending) \in Nat
    BY <1>2 DEF NodeFields
  <2> QED
    BY <1>4, <2>1 DEF Records, SamePosition, AsksForMore
<1> QED
  BY <1>2, <1>3, <1>4, <1>5, <1>6

\* Where a replay from frame from stands after i frames.
Replaying(n, s, from, i, flaws, t) ==
    /\ Sound(n, t) /\ Unanswered(t) /\ Len(t.pending) <= MaxPending
    /\ t.base = s.base /\ t.canonical = s.canonical /\ t.window = s.window
    /\ t.next = IF i = 0 THEN s.next ELSE from + i
    /\ s.saved \subseteq t.saved
    /\ \A f \in t.saved : f \in s.saved \/ f \in from .. from + i - 1
    /\ t.rollback # NoFrame =>
          /\ i # 0 /\ t.base <= t.rollback /\ t.rollback < from + i
          /\ t.rollback \in t.saved
    /\ \A r \in t.history : r.frame < from + i /\ Confirmed(s, r.frame)
                            /\ r.hash = HashOf(flaws, r.frame)

LEMMA ReplayingGoesOn ==
    ASSUME NEW n \in Process, NEW s, NEW old, NodeInv(n, s, old),
           NEW from \in Nat, s.base <= from, NEW flaws \in SUBSET Flaw,
           NEW i \in Nat \ {0}, NEW t, Replaying(n, s, from, i - 1, flaws, t)
    PROVE  Replaying(n, s, from, i, flaws, ReplayedFrame(n, t, from + i - 1, flaws))
<1> DEFINE f == from + i - 1
           u == ReplayedFrame(n, t, f, flaws)
<1>1. f \in Nat /\ f + 1 = from + i /\ s.base \in Nat /\ s.base <= f
  BY DEF NodeInv, Sound, NodeFields
<1>2. Sound(n, t)
  BY DEF Replaying
<1> HIDE DEF f
<1>3. PICK v :
          /\ Sound(n, v)
          /\ v.next = f + 1 /\ v.saved = t.saved \cup {f}
          /\ v.window = t.window /\ v.base = t.base
          /\ v.canonical = t.canonical /\ v.pending = t.pending
          /\ v.rollback = t.rollback /\ v.history = t.history
          /\ Records(n, v, f, flaws, u)
  BY <1>1, <1>2, ReplayedFrameEffects
<1> HIDE DEF u
<1>4. SamePosition(v, u) /\ AsksForMore(v, u) /\ Sound(n, u)
  BY <1>3 DEF Records
<1>5. /\ v.rollback \in Nat \cup {NoFrame} /\ u.rollback \in Nat \cup {NoFrame}
      /\ Len(u.pending) \in Nat /\ Len(t.pending) \in Nat /\ u.saved \subseteq Nat
  BY <1>2, <1>3, <1>4 DEF Sound, NodeFields, Frame
<1>6. Unanswered(u)
  <2>1. Unanswered(v)
    BY <1>3 DEF Replaying, Unanswered, Local
  <2> QED
    BY <1>3, <2>1 DEF Records
<1>7. Len(u.pending) <= MaxPending
  BY <1>3, <1>4, <1>5, BoundAssumption DEF Replaying, SamePosition
<1>8. /\ u.base = s.base /\ u.canonical = s.canonical /\ u.window = s.window
      /\ u.next = from + i /\ u.saved = t.saved \cup {f}
  BY <1>1, <1>3, <1>4 DEF Replaying, SamePosition
<1>9. \A g \in u.saved : g \in s.saved \/ g \in from .. from + i - 1
  <2>1. \A g \in t.saved : g \in s.saved \/ g \in from .. from + i - 2
    BY DEF Replaying
  <2> QED
    BY <1>8, <2>1 DEF f
<1>10. u.rollback # NoFrame => /\ u.base <= u.rollback /\ u.rollback < from + i
                               /\ u.rollback \in u.saved
  <2>1. CASE u.rollback = v.rollback /\ u.rollback # NoFrame
    <3>1. /\ t.base <= t.rollback /\ t.rollback < from + i - 1 /\ t.rollback \in t.saved
      BY <1>3, <2>1 DEF Replaying
    <3> QED
      BY <1>3, <1>5, <1>8, <2>1, <3>1 DEF Replaying
  <2>2. CASE u.rollback # v.rollback
    <3>1. u.rollback \in v.saved /\ u.rollback < v.next
      BY <1>4, <2>2 DEF AsksForMore
    <3>2. u.rollback \in u.saved /\ u.rollback < from + i
      BY <1>1, <1>3, <1>8, <3>1
    <3>3. u.rollback \in s.saved => s.base <= u.rollback
      BY DEF NodeInv
    <3>4. u.rollback \in from .. from + i - 1 => s.base <= u.rollback
      BY <1>1
    <3> QED
      BY <1>8, <1>9, <3>2, <3>3, <3>4
  <2> QED
    BY <2>1, <2>2
<1>11. \A r \in u.history : r.frame < from + i /\ Confirmed(s, r.frame)
                            /\ r.hash = HashOf(flaws, r.frame)
  <2> SUFFICES ASSUME NEW r \in u.history
               PROVE  r.frame < from + i /\ Confirmed(s, r.frame)
                      /\ r.hash = HashOf(flaws, r.frame)
    OBVIOUS
  <2>1. CASE r \in t.history
    <3>1. /\ r.frame < from + i - 1 /\ Confirmed(s, r.frame) /\ r.hash = HashOf(flaws, r.frame)
      BY <2>1 DEF Replaying
    <3>2. r.frame \in Nat
      BY <1>2, <2>1 DEF Sound, NodeFields
    <3> QED
      BY <3>1, <3>2
  <2>2. CASE r.frame = f /\ Confirmed(v, f) /\ r.hash = HashOf(flaws, f)
    <3>1. Confirmed(s, f)
      BY <1>3, <2>2 DEF Confirmed, Replaying
    <3> QED
      BY <1>1, <2>2, <3>1
  <2> QED
    BY <1>3, <2>1, <2>2 DEF Records
<1>12. i # 0 /\ s.saved \subseteq u.saved
  BY <1>8 DEF Replaying
<1>13. Replaying(n, s, from, i, flaws, u)
  BY <1>4, <1>6, <1>7, <1>8, <1>9, <1>10, <1>11, <1>12 DEF Replaying
<1> QED
  BY <1>13 DEF u, f

LEMMA ReplayUnfolds ==
    ASSUME NEW n \in Process, NEW s, NEW old, NodeInv(n, s, old),
           s.rollback # NoFrame, NEW flaws \in SUBSET Flaw,
           Replaying(n, s, s.rollback, 0, flaws,
                     DiscardLockstepHashesFromFrame([s EXCEPT !.rollback = NoFrame], s.rollback))
    PROVE  \E t : /\ Replaying(n, s, s.rollback, s.next - s.rollback, flaws, t)
                  /\ Replayed(n, s, flaws) = ValidateRemoteHashes(n, t, s.rollback, s.next)
<1> DEFINE from == s.rollback
           back == DiscardLockstepHashesFromFrame([s EXCEPT !.rollback = NoFrame], from)
           k == s.next - from
           S == {t \in NodeFields : Sound(n, t)}
           Made(i, x) == ReplayedFrame(n, x, from + i - 1, flaws)
           Def(g) == [i \in 0 .. k |-> IF i = 0 THEN back ELSE Made(i, g[i - 1])]
           Round == {t \in (1 .. k) \X S \X S : t[3] = Made(t[1], t[2])}
           again == CHOOSE g : g = Def(g)
<1>1. from \in Nat /\ s.next \in Nat /\ from < s.next /\ s.base <= from /\ k \in Nat
  BY DEF NodeInv, Sound, NodeFields, Frame
<1>2. Replayed(n, s, flaws) = ValidateRemoteHashes(n, again[k], from, s.next)
  BY DEF Replayed, ReplayedFrame
<1> HIDE DEF k
<1>3. back \in S
  BY DEF Replaying, Sound
<1> HIDE DEF back, from
<1>4. ASSUME NEW i \in 1 .. k, NEW x \in S PROVE Made(i, x) \in S
  <2> DEFINE f == from + i - 1
  <2>1. f \in Nat
    BY <1>1
  <2> HIDE DEF f
  <2>2. PICK v : Records(n, v, f, flaws, ReplayedFrame(n, x, f, flaws))
    BY <2>1, ReplayedFrameEffects
  <2>3. ReplayedFrame(n, x, f, flaws) \in S
    BY <2>2 DEF Records, Sound
  <2> QED
    BY <2>3 DEF f
<1> HIDE DEF S, Made
<1>5. CanGoOn(S, k, Round)
  BY <1>4 DEF CanGoOn
<1>6. PICK g \in [0 .. k -> S] :
          g[0] = back /\ \A i \in 1 .. k : <<i, g[i - 1], g[i]>> \in Round
  <2> HIDE DEF Round
  <2>1. Courses(S, k, back, Round) # {}
    BY <1>1, <1>3, <1>5, CoursesExist
  <2> QED
    BY <2>1 DEF Courses
<1>7. g = Def(g)
  <2>1. ASSUME NEW i \in 0 .. k PROVE g[i] = Def(g)[i]
    <3>1. CASE i = 0
      BY <1>6, <3>1
    <3>2. CASE i # 0
      <4>1. i \in 1 .. k
        BY <1>1, <3>2
      <4> QED
        BY <1>6, <3>2, <4>1
    <3> QED
      BY <3>1, <3>2
  <2>2. g = [i \in 0 .. k |-> g[i]]
    BY <1>6
  <2> QED
    BY <2>1, <2>2
<1>8. again = Def(again)
  <2> HIDE DEF Def
  <2> QED
    BY <1>7
<1> HIDE DEF again
<1>9. again[0] = back /\ \A i \in 1 .. k : again[i] = Made(i, again[i - 1])
  BY <1>1, <1>8
<1>10. Replaying(n, s, from, k, flaws, again[k])
  <2> DEFINE Good == {i \in 0 .. k : Replaying(n, s, from, i, flaws, again[i])}
  <2>1. 0 \in Good
    BY <1>1, <1>9 DEF back, from
  <2>2. ASSUME NEW i \in 1 .. k, i - 1 \in Good PROVE i \in Good
    <3>1. i \in Nat \ {0} /\ i \in 0 .. k /\ Replaying(n, s, from, i - 1, flaws, again[i - 1])
      BY <1>1, <2>2
    <3>2. Replaying(n, s, from, i, flaws, ReplayedFrame(n, again[i - 1], from + i - 1, flaws))
      BY <1>1, <3>1, ReplayingGoesOn
    <3> QED
      BY <1>9, <3>1, <3>2 DEF Made
  <2> HIDE DEF Good
  <2>3. 0 .. k \subseteq Good
    BY <1>1, <2>1, <2>2, Induction
  <2>4. k \in Good
    BY <1>1, <2>3
  <2> QED
    BY <2>4 DEF Good
<1> QED
  BY <1>2, <1>10 DEF k, from

\* The comparison after a replay settles what becomes of the process, not
\* where it is.
LEMMA ValidateEffects ==
    ASSUME NEW n \in Process, NEW s, Sound(n, s), NEW first, NEW end
    PROVE  LET t == ValidateRemoteHashes(n, s, first, end)
           IN  /\ Sound(n, t)
               /\ t.next = s.next /\ t.window = s.window /\ t.base = s.base
               /\ t.canonical = s.canonical /\ t.saved = s.saved /\ t.pending = s.pending
               /\ t.rollback = s.rollback /\ t.history = s.history
<1> DEFINE checked == {r \in s.remote : r.frame \in first .. end - 1 /\ Local(s, r.frame) # {}}
           differ  == {r \in checked : \A l \in Local(s, r.frame) : l.hash # r.hash}
           who     == IF n = Host THEN (CHOOSE r \in differ : TRUE).peer ELSE n
           fatal   == [s EXCEPT !.mode = "FatalDesync"]
           asking  == [s EXCEPT !.mode = "SnapshotCatchup", !.repair = s.repair \cup {who}]
           done    == [s EXCEPT !.mode = "RollbackRepaired", !.repair = {}]
           Same(t) == /\ t \in NodeFields /\ t.remote = s.remote /\ t.mismatchPeer = s.mismatchPeer
                      /\ t.next = s.next /\ t.window = s.window /\ t.base = s.base
                      /\ t.canonical = s.canonical /\ t.saved = s.saved /\ t.pending = s.pending
                      /\ t.rollback = s.rollback /\ t.history = s.history
           t == ValidateRemoteHashes(n, s, first, end)
<1>1. s \in NodeFields
  BY DEF Sound
<1>2. ASSUME differ # {} PROVE s.repair \cup {who} \in SUBSET Peer
  <2> DEFINE r == CHOOSE r \in differ : TRUE
  <2>1. r \in differ
    BY <1>2
  <2>2. r \in s.remote
    BY <2>1
  <2> HIDE DEF r
  <2>3. r.peer \in Process /\ r.peer # n
    BY <1>1, <2>2 DEF Sound, NodeFields, Sample
  <2>4. who \in Peer
    BY <2>3 DEF Process, r
  <2> QED
    BY <1>1, <2>4 DEF NodeFields
<1>3. \/ differ # {} /\ (t = fatal \/ t = asking)
      \/ t = done \/ t = s
  BY DEF ValidateRemoteHashes, StartResync
<1> HIDE DEF checked, differ, who, t
<1>4. Same(s) /\ Same(fatal) /\ Same(done)
  BY <1>1 DEF NodeFields, Mode
<1>5. ASSUME differ # {} PROVE Same(asking)
  BY <1>1, <1>2, <1>5 DEF NodeFields, Mode
<1> HIDE DEF fatal, asking, done
<1>6. Same(t)
  BY <1>3, <1>4, <1>5
<1>7. Sound(n, t)
  BY <1>6 DEF Sound
<1> QED
  BY <1>6, <1>7 DEF t

\* A replay with the inputs known now leaves a timeline without wrong guesses
\* of final inputs, and only hashes of that timeline.
Regained(s, flaws, t) ==
    /\ t.next = s.next /\ t.base = s.base /\ t.canonical = s.canonical /\ t.window = s.window
    /\ s.saved \subseteq t.saved
    /\ \A f \in t.saved : f \in s.saved \/ f \in s.rollback .. s.next - 1
    /\ t.rollback # NoFrame => t.rollback \in t.saved
    /\ \A x \in flaws : x.by = "input" => x.frame \notin s.canonical

LEMMA ReplayedKeeps ==
    ASSUME NEW n \in Process, NEW s, NEW old, NodeInv(n, s, old),
           s.rollback # NoFrame, ~CatchingUp(s),
           NEW wrong, wrong \subseteq (s.rollback .. s.next - 1) \ s.canonical,
           NEW flaws, flaws = {x \in old : x.frame < s.rollback} \cup {Guess(f) : f \in wrong}
    PROVE  /\ NodeInv(n, Replayed(n, s, flaws), flaws)
           /\ Regained(s, flaws, Replayed(n, s, flaws))
<1> DEFINE from == s.rollback
           back == DiscardLockstepHashesFromFrame([s EXCEPT !.rollback = NoFrame], from)
           t == Replayed(n, s, flaws)
<1>1. /\ s \in NodeFields /\ from \in Nat /\ s.next \in Nat /\ s.base \in Nat /\ from < s.next
      /\ s.base <= from /\ s.next <= MaxFrame + 1 /\ s.saved \subseteq Nat
  BY DEF NodeInv, Sound, NodeFields, Frame
<1>2. ASSUME NEW x \in flaws
      PROVE  /\ x \in Flaw /\ x.frame \in Nat /\ x.frame < s.next
             /\ \/ x \in old /\ x.frame < from
                \/ x.by = "input" /\ x.frame \in wrong
  <2>1. CASE x \in old /\ x.frame < from
    <3>1. x \in Flaw
      BY <2>1 DEF NodeInv
    <3>2. x.frame \in Nat
      BY <3>1, BoundAssumption DEF Flaw
    <3>3. x.frame < s.next
      BY <1>1, <2>1, <3>2
    <3> QED
      BY <2>1, <3>1, <3>2, <3>3
  <2>2. ASSUME NEW f \in wrong, x = Guess(f)
        PROVE  x \in Flaw /\ x.frame \in Nat /\ x.frame < s.next
               /\ x.by = "input" /\ x.frame \in wrong
    <3>1. f \in Nat /\ from <= f /\ f < s.next
      BY <1>1
    <3>2. f \in 0 .. MaxFrame
      BY <1>1, <3>1, BoundAssumption
    <3>3. x.by = "input" /\ x.frame = f /\ x \in Flaw
      BY <2>2, <3>2 DEF Guess, Flaw
    <3> QED
      BY <3>1, <3>3
  <2> QED
    BY <2>1, <2>2
<1>3. flaws \in SUBSET Flaw
  BY <1>2
<1>4. ASSUME NEW f \in Nat, f < from PROVE HashOf(flaws, f) = HashOf(old, f)
  <2>1. ASSUME NEW x, x.frame <= f, x \in flaws PROVE x \in old
    <3>1. x.frame \in Nat /\ (x \in old \/ x.frame \in wrong)
      BY <1>2, <2>1
    <3>2. x.frame \notin wrong
      BY <1>1, <1>4, <2>1, <3>1
    <3> QED
      BY <3>1, <3>2
  <2>2. ASSUME NEW x, x.frame <= f, x \in old PROVE x \in flaws
    <3>1. x \in Flaw
      BY <2>2 DEF NodeInv
    <3>2. x.frame \in Nat
      BY <3>1, BoundAssumption DEF Flaw
    <3>3. x.frame < from
      BY <1>1, <1>4, <2>2, <3>2
    <3> QED
      BY <2>2, <3>3
  <2> QED
    BY <2>1, <2>2 DEF HashOf
<1>5. /\ Sound(n, back) /\ Unanswered(back)
      /\ back.next = s.next /\ back.window = s.window /\ back.base = s.base
      /\ back.canonical = s.canonical /\ back.saved = s.saved /\ back.pending = s.pending
      /\ back.rollback = NoFrame
      /\ back.history = {r \in s.history : r.frame < from}
  BY DiscardEffects
<1> HIDE DEF back
<1>6. Replaying(n, s, from, 0, flaws, back)
  <2>1. Len(back.pending) <= MaxPending
    BY <1>5 DEF NodeInv
  <2>2. ASSUME NEW r \in back.history
        PROVE  r.frame < from + 0 /\ Confirmed(s, r.frame) /\ r.hash = HashOf(flaws, r.frame)
    <3>1. r \in s.history /\ r.frame < from
      BY <1>5
    <3>2. r.frame \in Nat
      BY <1>1, <3>1 DEF NodeFields
    <3>3. Confirmed(s, r.frame) /\ r.hash = HashOf(old, r.frame)
      BY <3>1 DEF NodeInv, RecordsHold
    <3>4. from + 0 = from
      BY <1>1
    <3> QED
      BY <1>4, <3>1, <3>2, <3>3, <3>4
  <2> QED
    BY <1>5, <2>1, <2>2 DEF Replaying
<1>7. PICK u : /\ Replaying(n, s, from, s.next - from, flaws, u)
               /\ t = ValidateRemoteHashes(n, u, from, s.next)
  BY <1>3, <1>6, ReplayUnfolds DEF back
<1>8. Sound(n, u)
  BY <1>7 DEF Replaying
<1> HIDE DEF t
<1>9. /\ Sound(n, t)
      /\ t.next = u.next /\ t.window = u.window /\ t.base = u.base
      /\ t.canonical = u.canonical /\ t.saved = u.saved /\ t.pending = u.pending
      /\ t.rollback = u.rollback /\ t.history = u.history
  BY <1>7, <1>8, ValidateEffects
<1>10. s.next - from \in Nat /\ s.next - from # 0 /\ from + (s.next - from) = s.next
  BY <1>1
<1>11. /\ u.base = s.base /\ u.canonical = s.canonical /\ u.next = s.next
       /\ u.window = s.window /\ s.saved \subseteq u.saved
       /\ Unanswered(u) /\ Len(u.pending) <= MaxPending
       /\ \A f \in u.saved : f \in s.saved \/ f \in from .. s.next - 1
       /\ u.rollback # NoFrame => /\ u.base <= u.rollback /\ u.rollback < s.next
                                  /\ u.rollback \in u.saved
       /\ \A r \in u.history : r.frame < s.next /\ Confirmed(s, r.frame)
                               /\ r.hash = HashOf(flaws, r.frame)
  <2> DEFINE k == s.next - from
  <2>1. /\ u.next = IF k = 0 THEN s.next ELSE from + k
        /\ \A f \in u.saved : f \in s.saved \/ f \in from .. from + k - 1
        /\ u.rollback # NoFrame => /\ u.base <= u.rollback /\ u.rollback < from + k
                                   /\ u.rollback \in u.saved
        /\ \A r \in u.history : r.frame < from + k /\ Confirmed(s, r.frame)
                                /\ r.hash = HashOf(flaws, r.frame)
        /\ u.base = s.base /\ u.canonical = s.canonical
        /\ u.window = s.window /\ s.saved \subseteq u.saved
        /\ Unanswered(u) /\ Len(u.pending) <= MaxPending
    <3> HIDE DEF k
    <3> QED
      BY <1>7 DEF Replaying, k
  <2>2. k # 0 /\ from + k = s.next /\ from + k - 1 = s.next - 1
    BY <1>1
  <2> DEFINE end == from + k
  <2> HIDE DEF k
  <2>3. /\ u.next = end
        /\ \A f \in u.saved : f \in s.saved \/ f \in from .. end - 1
        /\ u.rollback # NoFrame => /\ u.base <= u.rollback /\ u.rollback < end
                                   /\ u.rollback \in u.saved
        /\ \A r \in u.history : r.frame < end /\ Confirmed(s, r.frame)
                                /\ r.hash = HashOf(flaws, r.frame)
    BY <2>1, <2>2
  <2>4. end = s.next
    BY <2>2
  <2> HIDE DEF end
  <2> QED
    BY <2>1, <2>3, <2>4
<1>12. \A f \in t.saved : t.base <= f /\ f < t.next
  <2>1. \A f \in s.saved : s.base <= f /\ f < s.next
    BY DEF NodeInv
  <2>2. \A f \in from .. s.next - 1 : s.base <= f /\ f < s.next
    BY <1>1
  <2> QED
    BY <1>9, <1>11, <2>1, <2>2
<1>13. Unanswered(t)
  BY <1>9, <1>11 DEF Unanswered, Local
<1>14. RecordsHold(t, flaws)
  BY <1>9, <1>11 DEF RecordsHold, Confirmed
<1>15. ASSUME NEW x \in flaws, x.by = "input"
       PROVE  s.base <= x.frame /\ x.frame \notin s.canonical
  <2>1. CASE x \in old /\ x.frame < from
    <3>1. /\ s.base <= x.frame
          /\ x.frame \in s.canonical =>
                CatchingUp(s) \/ (s.rollback # NoFrame /\ from <= x.frame)
      BY <1>15, <2>1 DEF NodeInv, GuessesArePending
    <3>2. x.frame \in Nat /\ ~(from <= x.frame)
      BY <1>1, <1>2, <2>1
    <3> QED
      BY <3>1, <3>2
  <2>2. CASE x.frame \in wrong
    <3>1. \A f \in wrong : s.base <= f /\ f \notin s.canonical
      BY <1>1
    <3> QED
      BY <2>2, <3>1
  <2> QED
    BY <1>2, <2>1, <2>2
<1>16. GuessesArePending(t, flaws)
  BY <1>9, <1>11, <1>15 DEF GuessesArePending
<1>17. ASSUME n = Host
       PROVE  /\ t.base = 0 /\ 0 .. t.next - 1 \subseteq t.canonical
              /\ \A x \in flaws : x.by # "input"
  <2>1. s.base = 0 /\ 0 .. s.next - 1 \subseteq s.canonical
    BY <1>17 DEF NodeInv
  <2>2. ASSUME NEW x \in flaws, x.by = "input" PROVE FALSE
    <3>1. x.frame \in 0 .. s.next - 1
      BY <1>1, <1>2
    <3> QED
      BY <1>15, <2>1, <2>2, <3>1
  <2> QED
    BY <1>9, <1>11, <2>1, <2>2
<1>18. \A x \in flaws : x.frame < t.next
  BY <1>2, <1>9, <1>11
<1>19. NodeInv(n, t, flaws)
  BY <1>1, <1>3, <1>9, <1>11, <1>12, <1>13, <1>14, <1>16, <1>17, <1>18 DEF NodeInv
<1>20. Regained(s, flaws, t)
  BY <1>9, <1>11, <1>15 DEF Regained
<1> QED
  BY <1>19, <1>20 DEF t

-----------------------------------------------------------------------------
(* The other changes of the fields of a process.                           *)

LEMMA WindowKeeps ==
    ASSUME NEW n \in Process, NEW s, NEW flaws, NodeInv(n, s, flaws), NEW w \in Nat
    PROVE  NodeInv(n, [s EXCEPT !.window = w], flaws)
<1> DEFINE t == [s EXCEPT !.window = w]
<1>1. s \in NodeFields
  BY DEF NodeInv, Sound
<1>2. /\ t \in NodeFields /\ t.pending = s.pending /\ t.next = s.next
      /\ t.base = s.base /\ t.canonical = s.canonical /\ t.saved = s.saved
      /\ t.history = s.history /\ t.rollback = s.rollback /\ t.mode = s.mode
      /\ t.remote = s.remote /\ t.mismatchPeer = s.mismatchPeer
  BY <1>1 DEF NodeFields
<1> HIDE DEF t
<1>3. Sound(n, t) /\ Unanswered(t)
  BY <1>2 DEF NodeInv, Sound, Unanswered, Local
<1>4. RecordsHold(t, flaws) /\ GuessesArePending(t, flaws)
  BY <1>2 DEF NodeInv, RecordsHold, Confirmed, GuessesArePending, CatchingUp
<1>5. NodeInv(n, t, flaws)
  BY <1>2, <1>3, <1>4 DEF NodeInv
<1> QED
  BY <1>5 DEF t

\* To wait for a snapshot is always allowed.
LEMMA ResyncKeeps ==
    ASSUME NEW n \in Process, NEW s, NEW flaws, NodeInv(n, s, flaws),
           NEW p \in Process, n = Host => p # Host,
           NEW rollback, rollback \in {s.rollback, NoFrame}
    PROVE  NodeInv(n, StartResync(n, [s EXCEPT !.rollback = rollback], p), flaws)
<1> DEFINE who == IF n = Host THEN p ELSE n
           u == [s EXCEPT !.rollback = rollback]
           t == [u EXCEPT !.mode = "SnapshotCatchup", !.repair = u.repair \cup {who}]
<1>1. /\ s \in NodeFields /\ rollback \in Frame
  BY DEF NodeInv, Sound, NodeFields, Frame
<1>2. StartResync(n, u, p) = t
  BY DEF StartResync
<1>3. who \in Peer
  BY DEF Process
<1>4. s.repair \cup {who} \in SUBSET Peer
  BY <1>1, <1>3 DEF NodeFields
<1>5. /\ u \in NodeFields /\ u.repair = s.repair /\ u.pending = s.pending /\ u.next = s.next
      /\ u.base = s.base /\ u.canonical = s.canonical /\ u.saved = s.saved
      /\ u.history = s.history /\ u.rollback = rollback
      /\ u.remote = s.remote /\ u.mismatchPeer = s.mismatchPeer
  BY <1>1 DEF NodeFields
<1> HIDE DEF u, who
<1>6. /\ t \in NodeFields /\ t.pending = s.pending /\ t.next = s.next
      /\ t.base = s.base /\ t.canonical = s.canonical /\ t.saved = s.saved
      /\ t.history = s.history /\ t.rollback = rollback /\ t.mode = "SnapshotCatchup"
      /\ t.remote = s.remote /\ t.mismatchPeer = s.mismatchPeer
  BY <1>4, <1>5 DEF NodeFields, Mode
<1> HIDE DEF t
<1>7. Sound(n, t) /\ Unanswered(t)
  BY <1>6 DEF NodeInv, Sound, Unanswered, Local
<1>8. RecordsHold(t, flaws)
  BY <1>6 DEF NodeInv, RecordsHold, Confirmed
<1>9. GuessesArePending(t, flaws)
  BY <1>6 DEF NodeInv, GuessesArePending, CatchingUp
<1>10. t.rollback # NoFrame => t.base <= t.rollback /\ t.rollback < t.next
  BY <1>6 DEF NodeInv
<1>11. NodeInv(n, t, flaws)
  BY <1>6, <1>7, <1>8, <1>9, <1>10 DEF NodeInv
<1> QED
  BY <1>2, <1>11 DEF u

\* A step of the simulation: a guess is made only of an input that is not
\* final yet.
LEMMA StepKeeps ==
    ASSUME NEW n \in Process, NEW s, NEW flaws, NodeInv(n, s, flaws),
           s.rollback = NoFrame, s.next <= MaxFrame,
           NEW new, new \subseteq {Guess(s.next), Fault(s.next, n)},
           Guess(s.next) \in new => n # Host /\ s.next \notin s.canonical
    PROVE  NodeInv(n, [s EXCEPT !.saved = s.saved \cup {s.next}, !.next = s.next + 1,
                            !.canonical = IF n = Host THEN s.canonical \cup {s.next}
                                          ELSE s.canonical],
                   flaws \cup new)
<1> DEFINE f == s.next
           canonical == IF n = Host THEN s.canonical \cup {f} ELSE s.canonical
           all == flaws \cup new
           t == [s EXCEPT !.saved = s.saved \cup {f}, !.next = f + 1, !.canonical = canonical]
<1>1. /\ s \in NodeFields /\ f \in 0 .. MaxFrame /\ s.base \in Nat /\ s.saved \subseteq Nat
      /\ s.canonical \subseteq Nat /\ s.base <= f
  BY BoundAssumption DEF NodeInv, Sound, NodeFields
<1>2. ASSUME NEW x \in new
      PROVE  x \in Flaw /\ x.frame = f /\ (x.by = "input" => n # Host /\ f \notin s.canonical)
  <2>1. CASE x = Guess(f)
    BY <1>1, <2>1 DEF Guess, Flaw
  <2>2. CASE x = Fault(f, n)
    <3>1. x.by # "input"
      BY <2>2, ProcessAssumption DEF Fault, Process
    <3> QED
      BY <1>1, <2>2, <3>1 DEF Fault, Flaw, Process
  <2> QED
    BY <2>1, <2>2
<1>3. \A x \in flaws : x \in Flaw /\ x.frame \in Nat /\ x.frame < f
  BY BoundAssumption DEF NodeInv, Flaw
<1>4. ASSUME NEW g \in Nat, g < f PROVE HashOf(all, g) = HashOf(flaws, g)
  <2>1. \A x \in new : ~(x.frame <= g)
    BY <1>1, <1>2, <1>4
  <2> QED
    BY <2>1 DEF HashOf
<1>5. /\ canonical \subseteq Nat /\ s.canonical \subseteq canonical
      /\ n # Host => canonical = s.canonical
      /\ n = Host => canonical = s.canonical \cup {f}
  BY <1>1
<1> HIDE DEF canonical
<1>6. /\ t \in NodeFields /\ t.pending = s.pending /\ t.next = f + 1
      /\ t.base = s.base /\ t.canonical = canonical /\ t.saved = s.saved \cup {f}
      /\ t.history = s.history /\ t.rollback = s.rollback /\ t.mode = s.mode
      /\ t.remote = s.remote /\ t.mismatchPeer = s.mismatchPeer
  <2>1. f + 1 \in Nat /\ s.saved \cup {f} \in SUBSET Nat /\ canonical \in SUBSET Nat
    BY <1>1, <1>5
  <2>2. s \in NodeFields
    BY <1>1
  <2> HIDE DEF f
  <2> QED
    BY <2>1, <2>2 DEF NodeFields
<1> HIDE DEF t
<1>7. Sound(n, t) /\ Unanswered(t)
  BY <1>6 DEF NodeInv, Sound, Unanswered, Local
<1>8. RecordsHold(t, all)
  <2> SUFFICES ASSUME NEW r \in s.history
               PROVE  r.frame < f + 1 /\ Confirmed(t, r.frame) /\ r.hash = HashOf(all, r.frame)
    BY <1>6 DEF RecordsHold
  <2>1. r.frame \in Nat
    BY <1>1 DEF NodeFields
  <2>2. r.frame < f /\ Confirmed(s, r.frame) /\ r.hash = HashOf(flaws, r.frame)
    BY DEF NodeInv, RecordsHold
  <2>3. Confirmed(t, r.frame)
    BY <1>5, <1>6, <2>2 DEF Confirmed
  <2>4. r.frame < f + 1
    BY <1>1, <2>1, <2>2
  <2> HIDE DEF f, all
  <2> QED
    BY <1>4, <2>1, <2>2, <2>3, <2>4
<1>9. GuessesArePending(t, all)
  <2> SUFFICES ASSUME NEW x \in all, x.by = "input"
               PROVE  s.base <= x.frame /\ (x.frame \in canonical => CatchingUp(t))
    BY <1>6 DEF GuessesArePending
  <2>1. CASE x \in new
    BY <1>1, <1>2, <1>5, <2>1
  <2>2. CASE x \in flaws
    <3>1. s.base <= x.frame /\ (x.frame \in s.canonical => CatchingUp(s))
      BY <2>2 DEF NodeInv, GuessesArePending
    <3>2. n # Host
      BY <2>2 DEF NodeInv
    <3> QED
      BY <1>5, <1>6, <3>1, <3>2 DEF CatchingUp
  <2> QED
    BY <2>1, <2>2
<1>10. \A g \in t.saved : t.base <= g /\ g < t.next
  BY <1>1, <1>6 DEF NodeInv
<1>11. /\ t.base <= t.next /\ t.next <= MaxFrame + 1
       /\ \A x \in all : x \in Flaw /\ x.frame < t.next
  BY <1>1, <1>2, <1>3, <1>6, BoundAssumption
<1>12. ASSUME n = Host
       PROVE  /\ t.base = 0 /\ 0 .. t.next - 1 \subseteq t.canonical
              /\ \A x \in all : x.by # "input"
  <2>1. s.base = 0 /\ 0 .. f - 1 \subseteq s.canonical /\ \A x \in flaws : x.by # "input"
    BY <1>12 DEF NodeInv
  <2>2. 0 .. t.next - 1 = (0 .. f - 1) \cup {f}
    BY <1>1, <1>6
  <2> QED
    BY <1>2, <1>5, <1>6, <1>12, <2>1, <2>2
<1>13. NodeInv(n, t, all)
  BY <1>6, <1>7, <1>8, <1>9, <1>10, <1>11, <1>12 DEF NodeInv
<1> QED
  BY <1>13 DEF t, canonical

\* A correction is replayed from the first frame it puts right.
Hears(s, heard, wrong, t) ==
    /\ t \in NodeFields /\ t.pending = s.pending /\ t.next = s.next /\ t.window = s.window
    /\ t.base = s.base /\ t.canonical = s.canonical \cup heard /\ t.saved = s.saved
    /\ t.history = s.history /\ t.mode = s.mode
    /\ t.remote = s.remote /\ t.mismatchPeer = s.mismatchPeer
    /\ \/ t.rollback = s.rollback
       \/ t.rollback \in wrong /\ (s.rollback = NoFrame \/ t.rollback < s.rollback)
    /\ \A f \in wrong : t.rollback # NoFrame /\ t.rollback <= f

LEMMA HearEffects ==
    ASSUME NEW s \in NodeFields, NEW heard \in SUBSET Nat,
           NEW wrong \in SUBSET heard, \A f \in wrong : f < s.next
    PROVE  LET u == [s EXCEPT !.canonical = s.canonical \cup heard]
           IN  Hears(s, heard, wrong,
                     IF wrong = {} THEN u ELSE RequestRollbackFromFrame(u, Min(wrong)))
<1> DEFINE canonical == s.canonical \cup heard
           u == [s EXCEPT !.canonical = canonical]
           m == Min(wrong)
           asks == wrong # {} /\ m < s.next /\ (s.rollback = NoFrame \/ m < s.rollback)
           rollback == IF asks THEN m ELSE s.rollback
           t == [u EXCEPT !.rollback = rollback]
<1>1. /\ s.next \in Nat /\ s.rollback \in Nat \cup {NoFrame} /\ canonical \in SUBSET Nat
  BY DEF NodeFields, Frame
<1>2. ASSUME wrong # {}
      PROVE  m \in wrong /\ m \in Nat /\ m < s.next /\ \A f \in wrong : m <= f
  <2>1. wrong \in SUBSET Nat
    OBVIOUS
  <2>2. m \in wrong /\ \A f \in wrong : m <= f
    <3> HIDE DEF m
    <3> QED
      BY <1>2, <2>1, MinOfNaturals DEF m
  <2> QED
    BY <2>1, <2>2
<1> HIDE DEF canonical, m
<1>3. rollback \in Frame
  BY <1>1, <1>2 DEF Frame
<1>4. /\ u \in NodeFields /\ u.pending = s.pending /\ u.next = s.next /\ u.window = s.window
      /\ u.base = s.base /\ u.canonical = canonical /\ u.saved = s.saved
      /\ u.history = s.history /\ u.rollback = s.rollback /\ u.mode = s.mode
      /\ u.remote = s.remote /\ u.mismatchPeer = s.mismatchPeer
  BY <1>1 DEF NodeFields
<1> HIDE DEF u
<1>5. (IF wrong = {} THEN u ELSE RequestRollbackFromFrame(u, m)) = t
  <2>1. ~asks => t = u
    BY <1>4 DEF NodeFields
  <2>2. asks => t = [u EXCEPT !.rollback = m]
    OBVIOUS
  <2> HIDE DEF t
  <2>3. RequestRollbackFromFrame(u, m) =
            IF m < s.next /\ (s.rollback = NoFrame \/ m < s.rollback)
            THEN [u EXCEPT !.rollback = m] ELSE u
    BY <1>4 DEF RequestRollbackFromFrame
  <2> QED
    BY <2>1, <2>2, <2>3
<1>6. \/ rollback = s.rollback
      \/ rollback \in wrong /\ (s.rollback = NoFrame \/ rollback < s.rollback)
  BY <1>2
<1>7. ASSUME NEW f \in wrong PROVE rollback # NoFrame /\ rollback <= f
  <2>1. m \in Nat /\ m < s.next /\ m <= f /\ f \in Nat
    BY <1>2
  <2>2. rollback \in Nat /\ rollback <= m
    BY <1>1, <2>1
  <2> QED
    BY <2>1, <2>2, BoundAssumption
<1> HIDE DEF asks, rollback
<1>8. /\ t \in NodeFields /\ t.pending = s.pending /\ t.next = s.next /\ t.window = s.window
      /\ t.base = s.base /\ t.canonical = canonical /\ t.saved = s.saved
      /\ t.history = s.history /\ t.rollback = rollback /\ t.mode = s.mode
      /\ t.remote = s.remote /\ t.mismatchPeer = s.mismatchPeer
  BY <1>3, <1>4 DEF NodeFields
<1> HIDE DEF t
<1>9. Hears(s, heard, wrong, t)
  BY <1>6, <1>7, <1>8 DEF Hears, canonical
<1> QED
  BY <1>5, <1>9 DEF u, canonical, m

LEMMA HearKeeps ==
    ASSUME NEW p \in Peer, NEW s, NEW flaws, NodeInv(p, s, flaws),
           NEW heard \in SUBSET Nat, \A f \in heard : s.base <= f,
           NEW wrong, wrong = {f \in heard : Guess(f) \in flaws},
           NEW t, Hears(s, heard, wrong, t)
    PROVE  NodeInv(p, t, flaws)
<1>1. /\ s.next \in Nat /\ s.base \in Nat /\ s.rollback \in Nat \cup {NoFrame}
      /\ t.rollback \in Nat \cup {NoFrame} /\ t \in NodeFields
  BY DEF NodeInv, Sound, NodeFields, Frame, Hears
<1>2. p # Host /\ p \in Process
  BY ProcessAssumption DEF Process
<1>3. \A f \in wrong : f \in Nat /\ s.base <= f /\ f < s.next
  <2> SUFFICES ASSUME NEW f \in wrong PROVE f \in Nat /\ s.base <= f /\ f < s.next
    OBVIOUS
  <2>1. Guess(f) \in flaws /\ f \in heard
    OBVIOUS
  <2>2. Guess(f).frame < s.next
    BY <2>1 DEF NodeInv
  <2> QED
    BY <2>1, <2>2 DEF Guess
<1>4. t.rollback # NoFrame => s.base <= t.rollback /\ t.rollback < s.next
  BY <1>3 DEF NodeInv, Hears
<1>5. s.rollback # NoFrame => t.rollback # NoFrame /\ t.rollback <= s.rollback
  <2>1. CASE t.rollback = s.rollback
    BY <1>1, <2>1
  <2>2. CASE t.rollback \in wrong /\ (s.rollback = NoFrame \/ t.rollback < s.rollback)
    <3>1. t.rollback \in Nat /\ t.rollback # NoFrame
      BY <1>3, <2>2, BoundAssumption
    <3> QED
      BY <1>1, <2>2, <3>1
  <2> QED
    BY <2>1, <2>2 DEF Hears
<1>6. Sound(p, t) /\ Unanswered(t)
  BY <1>1, <1>2 DEF NodeInv, Sound, Unanswered, Local, Hears
<1>7. RecordsHold(t, flaws)
  BY DEF NodeInv, RecordsHold, Confirmed, Hears
<1>8. GuessesArePending(t, flaws)
  <2> SUFFICES ASSUME NEW x \in flaws, x.by = "input"
               PROVE  /\ s.base <= x.frame
                      /\ x.frame \in s.canonical \cup heard =>
                            CatchingUp(s) \/ (t.rollback # NoFrame /\ t.rollback <= x.frame)
    BY DEF GuessesArePending, CatchingUp, Hears
  <2>1. /\ s.base <= x.frame
        /\ x.frame \in s.canonical =>
              CatchingUp(s) \/ (s.rollback # NoFrame /\ s.rollback <= x.frame)
    BY DEF NodeInv, GuessesArePending
  <2>2. x \in Flaw
    BY DEF NodeInv
  <2>3. x.frame \in Nat /\ x = Guess(x.frame)
    BY <2>2, BoundAssumption DEF Flaw, Guess
  <2>4. CASE x.frame \in s.canonical
    BY <1>1, <1>5, <2>1, <2>3, <2>4
  <2>5. CASE x.frame \in heard
    <3>1. x.frame \in wrong
      BY <2>3, <2>5
    <3> QED
      BY <2>1, <3>1 DEF Hears
  <2> QED
    BY <2>1, <2>4, <2>5
<1> QED
  BY <1>2, <1>4, <1>6, <1>7, <1>8 DEF NodeInv, Hears

LEMMA PendingKeeps ==
    ASSUME NEW n \in Process, NEW s, NEW flaws, NodeInv(n, s, flaws),
           NEW q \in Seq(Sample), Len(q) <= MaxPending,
           \A i \in DOMAIN q : q[i].peer # n /\ Local(s, q[i].frame) = {}
    PROVE  NodeInv(n, [s EXCEPT !.pending = q], flaws)
<1> DEFINE t == [s EXCEPT !.pending = q]
<1>1. s \in NodeFields
  BY DEF NodeInv, Sound
<1>2. /\ t \in NodeFields /\ t.pending = q /\ t.next = s.next
      /\ t.base = s.base /\ t.canonical = s.canonical /\ t.saved = s.saved
      /\ t.history = s.history /\ t.rollback = s.rollback /\ t.mode = s.mode
      /\ t.remote = s.remote /\ t.mismatchPeer = s.mismatchPeer
  BY <1>1 DEF NodeFields
<1> HIDE DEF t
<1>3. Sound(n, t) /\ Unanswered(t)
  BY <1>2 DEF NodeInv, Sound, Unanswered, Local
<1>4. RecordsHold(t, flaws) /\ GuessesArePending(t, flaws)
  BY <1>2 DEF NodeInv, RecordsHold, Confirmed, GuessesArePending, CatchingUp
<1>5. NodeInv(n, t, flaws)
  BY <1>2, <1>3, <1>4 DEF NodeInv
<1> QED
  BY <1>5 DEF t

LEMMA QueueKeeps ==
    ASSUME NEW n \in Process, NEW s, NEW flaws, NodeInv(n, s, flaws),
           NEW r \in Sample, r.peer # n, Local(s, r.frame) = {}
    PROVE  NodeInv(n, QueuePending(s, r), flaws)
<1> DEFINE q       == s.pending
           newer   == Refreshed(q, r)
           longer  == Append(q, r)
           shorter == Tail(longer)
           Good(x) == /\ x \in Seq(Sample) /\ Len(x) <= MaxPending
                      /\ \A i \in DOMAIN x : x[i].peer # n /\ Local(s, x[i].frame) = {}
<1>1. /\ q \in Seq(Sample) /\ Len(q) \in Nat /\ Len(q) <= MaxPending
      /\ \A i \in 1 .. Len(q) : q[i].peer # n /\ Local(s, q[i].frame) = {}
  <2>1. q \in Seq(Sample)
    BY DEF NodeInv, Sound, NodeFields
  <2>2. DOMAIN q = 1 .. Len(q) /\ Len(q) \in Nat
    BY <2>1
  <2> HIDE DEF q
  <2> QED
    BY <2>1, <2>2 DEF NodeInv, Sound, Unanswered, q
<1> HIDE DEF q
<1>2. Good(newer)
  <2>1. DOMAIN q = 1 .. Len(q) /\ \A i \in 1 .. Len(q) : q[i] \in Sample
    BY <1>1
  <2>2. newer = [i \in 1 .. Len(q) |-> IF SameSample(q[i], r) THEN r ELSE q[i]]
    BY <2>1 DEF Refreshed
  <2>3. newer \in Seq(Sample) /\ Len(newer) = Len(q) /\ DOMAIN newer = 1 .. Len(q)
    <3>1. newer \in [1 .. Len(q) -> Sample]
      BY <2>1, <2>2
    <3> HIDE DEF newer
    <3> QED
      BY <1>1, <3>1
  <2>4. \A i \in 1 .. Len(q) : newer[i] = r \/ newer[i] = q[i]
    BY <2>2
  <2> HIDE DEF newer
  <2> QED
    BY <1>1, <2>3, <2>4
<1>3. /\ longer \in Seq(Sample) /\ Len(longer) = Len(q) + 1 /\ DOMAIN longer = 1 .. Len(q) + 1
      /\ \A i \in 1 .. Len(q) + 1 : longer[i].peer # n /\ Local(s, longer[i].frame) = {}
  <2>1. /\ longer \in Seq(Sample) /\ Len(longer) = Len(q) + 1 /\ DOMAIN longer = 1 .. Len(q) + 1
        /\ \A i \in 1 .. Len(q) : longer[i] = q[i]
        /\ longer[Len(q) + 1] = r
    BY <1>1
  <2>2. \A i \in 1 .. Len(q) + 1 : i \in 1 .. Len(q) \/ i = Len(q) + 1
    BY <1>1
  <2> HIDE DEF longer
  <2> QED
    BY <1>1, <2>1, <2>2
<1>4. ASSUME ~(Len(longer) > MaxPending) PROVE Good(longer)
  <2> HIDE DEF longer
  <2>1. Len(longer) <= MaxPending
    BY <1>1, <1>3, <1>4, BoundAssumption
  <2>2. \A i \in DOMAIN longer : longer[i].peer # n /\ Local(s, longer[i].frame) = {}
    BY <1>3
  <2> QED
    BY <1>3, <2>1, <2>2
<1>5. Good(shorter)
  <2> HIDE DEF longer
  <2>1. /\ shorter \in Seq(Sample) /\ Len(shorter) = Len(q) /\ DOMAIN shorter = 1 .. Len(q)
        /\ \A i \in 1 .. Len(q) : shorter[i] = longer[i + 1] /\ i + 1 \in 1 .. Len(q) + 1
    BY <1>1, <1>3
  <2> HIDE DEF shorter
  <2> QED
    BY <1>1, <1>3, <2>1
<1>6. \/ QueuePending(s, r) = [s EXCEPT !.pending = newer]
      \/ QueuePending(s, r) = [s EXCEPT !.pending = longer] /\ ~(Len(longer) > MaxPending)
      \/ QueuePending(s, r) = [s EXCEPT !.pending = shorter]
  BY DEF QueuePending, q
<1> HIDE DEF newer, longer, shorter
<1>7. \A x : Good(x) => NodeInv(n, [s EXCEPT !.pending = x], flaws)
  <2> SUFFICES ASSUME NEW x, Good(x) PROVE NodeInv(n, [s EXCEPT !.pending = x], flaws)
    OBVIOUS
  <2> QED
    BY PendingKeeps
<1> HIDE DEF Good
<1> QED
  BY <1>2, <1>4, <1>5, <1>6, <1>7

\* A peer that has the host's simulation starts from it.
LEMMA InstallKeeps ==
    ASSUME NEW p \in Peer, NEW s, NEW old, NodeInv(p, s, old),
           NEW h, NEW flaws, NodeInv(Host, h, flaws)
    PROVE  NodeInv(p, [s EXCEPT !.next = h.next, !.base = h.next,
                        !.canonical = {}, !.rollback = NoFrame, !.saved = {},
                        !.history = {}, !.remote = {}, !.pending = <<>>,
                        !.recorded = NoFrame, !.sent = NoFrame,
                        !.mode = "RollbackRepaired", !.repair = {}], flaws)
<1> DEFINE t == [s EXCEPT !.next = h.next, !.base = h.next,
                        !.canonical = {}, !.rollback = NoFrame, !.saved = {},
                        !.history = {}, !.remote = {}, !.pending = <<>>,
                        !.recorded = NoFrame, !.sent = NoFrame,
                        !.mode = "RollbackRepaired", !.repair = {}]
<1>1. s \in NodeFields /\ h.next \in Nat /\ p # Host /\ h.next <= MaxFrame + 1
  BY ProcessAssumption DEF NodeInv, Sound, NodeFields
<1>2. <<>> \in Seq(Sample) /\ NoFrame \in Frame
  BY DEF Frame
<1>3. /\ t \in NodeFields /\ t.pending = <<>> /\ t.next = h.next
      /\ t.base = h.next /\ t.canonical = {} /\ t.saved = {}
      /\ t.history = {} /\ t.rollback = NoFrame /\ t.remote = {}
  BY <1>1, <1>2 DEF NodeFields, Mode
<1> HIDE DEF t
<1>4. Len(t.pending) = 0 /\ DOMAIN t.pending = {}
  BY <1>3
<1>5. Sound(p, t) /\ Unanswered(t)
  BY <1>1, <1>3, <1>4 DEF Sound, Unanswered
<1>6. flaws \subseteq Flaw /\ \A x \in flaws : x.frame < h.next /\ x.by # "input"
  BY DEF NodeInv
<1>7. RecordsHold(t, flaws) /\ GuessesArePending(t, flaws)
  BY <1>3, <1>6 DEF RecordsHold, GuessesArePending
<1>8. NodeInv(p, t, flaws)
  BY <1>1, <1>3, <1>4, <1>5, <1>6, <1>7, BoundAssumption DEF NodeInv
<1> QED
  BY <1>8 DEF t

LEMMA AcknowledgedKeeps ==
    ASSUME NEW s, NEW flaws, NodeInv(Host, s, flaws),
           NEW repair \in SUBSET s.repair
    PROVE  NodeInv(Host, [s EXCEPT !.repair = repair,
                            !.mode = IF repair = {} THEN "RollbackRepaired" ELSE s.mode], flaws)
<1> DEFINE mode == IF repair = {} THEN "RollbackRepaired" ELSE s.mode
           t == [s EXCEPT !.repair = repair, !.mode = mode]
<1>1. s \in NodeFields /\ mode \in Mode
  BY DEF NodeInv, Sound, NodeFields, Mode
<1> HIDE DEF mode
<1>2. repair \in SUBSET Peer
  BY <1>1 DEF NodeFields
<1>3. /\ t \in NodeFields /\ t.pending = s.pending /\ t.next = s.next
      /\ t.base = s.base /\ t.canonical = s.canonical /\ t.saved = s.saved
      /\ t.history = s.history /\ t.rollback = s.rollback
      /\ t.remote = s.remote /\ t.mismatchPeer = s.mismatchPeer
  BY <1>1, <1>2 DEF NodeFields
<1> HIDE DEF t
<1>4. Sound(Host, t) /\ Unanswered(t)
  BY <1>3 DEF NodeInv, Sound, Unanswered, Local
<1>5. RecordsHold(t, flaws)
  BY <1>3 DEF NodeInv, RecordsHold, Confirmed
<1>6. GuessesArePending(t, flaws)
  BY DEF NodeInv, GuessesArePending
<1>7. NodeInv(Host, t, flaws)
  BY <1>3, <1>4, <1>5, <1>6 DEF NodeInv
<1> QED
  BY <1>7 DEF t, mode

-----------------------------------------------------------------------------
(* The actions.                                                            *)

CountsHold == faults \in 0 .. MaxFaults /\ misses \in 0 .. MaxMisses

LEMMA OneChanges ==
    ASSUME IInv, NEW n \in Process, NEW s, NEW flaws, NodeInv(n, s, flaws),
           node' = [node EXCEPT ![n] = s],
           sim' = [sim EXCEPT ![n] = flaws] \/ (sim' = sim /\ flaws = sim[n]),
           hashes' \subseteq Sample, CountsHold'
    PROVE  IInv'
<1>1. /\ s \in NodeFields /\ flaws \in SUBSET Flaw
      /\ node \in [Process -> NodeFields] /\ sim \in [Process -> SUBSET Flaw]
  BY DEF IInv, NodeInv, Sound
<1>2. /\ node' \in [Process -> NodeFields] /\ sim' \in [Process -> SUBSET Flaw]
      /\ node'[n] = s /\ sim'[n] = flaws
      /\ \A m \in Process \ {n} : node'[m] = node[m] /\ sim'[m] = sim[m]
  BY <1>1
<1>3. ASSUME NEW m \in Process PROVE NodeInv(m, node'[m], sim'[m])
  <2>1. CASE m = n
    BY <1>2, <2>1
  <2>2. CASE m # n
    <3>1. node'[m] = node[m] /\ sim'[m] = sim[m]
      BY <1>2, <2>2
    <3> QED
      BY <3>1 DEF IInv
  <2> QED
    BY <2>1, <2>2
<1> QED
  BY <1>2, <1>3 DEF IInv, CountsHold

\* What a tick begins with: the hash of the last frame, and its sending.
Begun(n) ==
    LET s == RecordPrevious(n, node[n])
    IN  IF HashIsDue(s) THEN [s EXCEPT !.sent = s.recorded] ELSE s

LEMMA BegunKeeps ==
    ASSUME IInv, NEW n \in Process
    PROVE  LET s == RecordPrevious(n, node[n])
               t == Begun(n)
           IN  /\ NodeInv(n, s, sim[n]) /\ NodeInv(n, t, sim[n])
               /\ SamePosition(node[n], s) /\ AsksForMore(node[n], s)
               /\ t.next = s.next /\ t.rollback = s.rollback /\ t.saved = s.saved
               /\ t.canonical = s.canonical /\ t.mode = s.mode
               /\ HashIsDue(s) => DueHash(n, s) \subseteq Sample
<1> DEFINE s == RecordPrevious(n, node[n])
           u == [s EXCEPT !.sent = s.recorded]
<1>1. NodeInv(n, node[n], sim[n])
  BY DEF IInv
<1>2. NodeInv(n, s, sim[n]) /\ SamePosition(node[n], s) /\ AsksForMore(node[n], s)
  BY <1>1, RecordPreviousKeeps
<1>3. Begun(n) = IF HashIsDue(s) THEN u ELSE s
  BY DEF Begun
<1> HIDE DEF s
<1>4. NodeInv(n, u, sim[n])
  BY <1>2, SentKeeps
<1>5. s \in NodeFields
  BY <1>2 DEF NodeInv, Sound
<1>6. /\ u.next = s.next /\ u.rollback = s.rollback /\ u.saved = s.saved
      /\ u.canonical = s.canonical /\ u.mode = s.mode
  BY <1>5 DEF NodeFields
<1>7. HashIsDue(s) => DueHash(n, s) \subseteq Sample
  <2> SUFFICES ASSUME HashIsDue(s), NEW l \in Local(s, s.recorded)
               PROVE  [peer |-> n, frame |-> s.recorded, hash |-> l.hash] \in Sample
    BY DEF DueHash
  <2>1. s.recorded \in Nat
    BY <1>5 DEF HashIsDue, NodeFields, Frame
  <2>2. l.hash \in SUBSET Flaw
    BY <1>5 DEF Local, NodeFields
  <2> QED
    BY <2>1, <2>2 DEF Sample
<1> HIDE DEF u
<1> QED
  BY <1>2, <1>3, <1>4, <1>6, <1>7 DEF s

LEMMA SettingsStep ==
    ASSUME IInv, NEW n \in Process, NEW w \in Windows, ApplyPendingLockstepSettings(n, w)
    PROVE  IInv'
<1> DEFINE s == node[n]
           t == [s EXCEPT !.window = w]
           u == KeepSnapshots(t)
<1>1. NodeInv(n, s, sim[n]) /\ w \in Nat
  BY BoundAssumption DEF IInv
<1>2. /\ node' = [node EXCEPT ![n] = u] /\ sim' = sim /\ hashes' = hashes
      /\ faults' = faults /\ misses' = misses
  BY DEF ApplyPendingLockstepSettings
<1> HIDE DEF s
<1>3. NodeInv(n, t, sim[n])
  BY <1>1, WindowKeeps
<1> HIDE DEF t
<1>4. NodeInv(n, u, sim[n])
  BY <1>3, KeepSnapshotsKeeps
<1> HIDE DEF u
<1>5. hashes' \subseteq Sample /\ CountsHold'
  BY <1>2 DEF IInv, CountsHold
<1> QED
  BY <1>2, <1>4, <1>5, OneChanges

LEMMA WaitStep ==
    ASSUME IInv, NEW n \in Process, TickWithoutStep(n) PROVE IInv'
<1> DEFINE s == RecordPrevious(n, node[n])
           t == Begun(n)
<1>1. /\ NodeInv(n, t, sim[n])
      /\ HashIsDue(s) => DueHash(n, s) \subseteq Sample
  BY BegunKeeps
<1>2. /\ node' = [node EXCEPT ![n] = t] /\ sim' = sim
      /\ hashes' = hashes \/ (HashIsDue(s) /\ hashes' = hashes \cup DueHash(n, s))
      /\ faults' = faults /\ misses' = misses
  BY DEF TickWithoutStep, Begun
<1> HIDE DEF s, t
<1>3. hashes' \subseteq Sample /\ CountsHold'
  BY <1>1, <1>2 DEF IInv, CountsHold
<1> QED
  BY <1>1, <1>2, <1>3, OneChanges

LEMMA ReplayStep ==
    ASSUME IInv, NEW n \in Process, NEW wrong, TickAndReplay(n, wrong) PROVE IInv'
<1> DEFINE s == RecordPrevious(n, node[n])
           t == Begun(n)
           flaws  == {x \in sim[n] : x.frame < s.rollback} \cup {Guess(f) : f \in wrong}
           exists == s.rollback \in s.saved
           back   == KeepSnapshots(Replayed(n, t, flaws))
           none   == NoSnapshot(n, t)
<1>1. /\ NodeInv(n, t, sim[n]) /\ NodeInv(n, s, sim[n])
      /\ t.next = s.next /\ t.rollback = s.rollback /\ t.saved = s.saved
      /\ t.canonical = s.canonical /\ t.mode = s.mode
      /\ HashIsDue(s) => DueHash(n, s) \subseteq Sample
  BY BegunKeeps
<1>2. /\ node' = [node EXCEPT ![n] = IF exists THEN back ELSE none]
      /\ sim' = [sim EXCEPT ![n] = IF exists THEN flaws ELSE sim[n]]
      /\ hashes' = IF HashIsDue(s) THEN hashes \cup DueHash(n, s) ELSE hashes
      /\ faults' = faults /\ misses' = misses + Cardinality(wrong)
      /\ misses + Cardinality(wrong) <= MaxMisses
      /\ ~CatchingUp(s) /\ s.rollback # NoFrame
      /\ wrong \subseteq IF exists THEN (s.rollback .. s.next - 1) \ s.canonical ELSE {}
  BY DEF TickAndReplay, Begun
<1> HIDE DEF s, t
<1>3. ASSUME exists PROVE NodeInv(n, back, flaws)
  <2>1. /\ wrong \subseteq (t.rollback .. t.next - 1) \ t.canonical
        /\ flaws = {x \in sim[n] : x.frame < t.rollback} \cup {Guess(f) : f \in wrong}
        /\ t.rollback # NoFrame /\ ~CatchingUp(t)
    BY <1>1, <1>2, <1>3 DEF CatchingUp
  <2> HIDE DEF flaws
  <2>2. NodeInv(n, Replayed(n, t, flaws), flaws)
    BY <1>1, <2>1, ReplayedKeeps
  <2> QED
    BY <2>2, KeepSnapshotsKeeps
<1>4. NodeInv(n, none, sim[n])
  <2>1. t.rollback # NoFrame
    BY <1>1, <1>2
  <2>2. t.mismatchPeer \in Process /\ (n = Host => t.mismatchPeer # Host)
    BY <1>1, <2>1 DEF NodeInv, Sound, NodeFields
  <2> DEFINE none1 == StartResync(n, [t EXCEPT !.rollback = NoFrame], t.mismatchPeer)
  <2>3. NodeInv(n, none1, sim[n])
    BY <1>1, <2>2, ResyncKeeps
  <2>4. none = none1
    BY DEF NoSnapshot
  <2> QED
    BY <2>3, <2>4
<1> HIDE DEF flaws, back, none
<1>5. hashes' \subseteq Sample
  BY <1>1, <1>2 DEF IInv
<1>6. CountsHold'
  <2>1. IsFiniteSet(wrong)
    <3>1. s.next \in Nat /\ s.rollback \in Nat
      BY <1>1, <1>2 DEF NodeInv, Sound, NodeFields, Frame
    <3>2. IsFiniteSet(s.rollback .. s.next - 1)
      BY <3>1, FS_Interval
    <3>3. wrong \subseteq s.rollback .. s.next - 1
      BY <1>2
    <3> QED
      BY <3>2, <3>3, FS_Subset
  <2>2. Cardinality(wrong) \in Nat
    BY <2>1, FS_CardinalityType
  <2> QED
    BY <1>2, <2>2, BoundAssumption DEF IInv, CountsHold
<1>7. CASE exists
  BY <1>2, <1>3, <1>5, <1>6, <1>7, OneChanges
<1>8. CASE ~exists
  BY <1>2, <1>4, <1>5, <1>6, <1>8, OneChanges
<1> QED
  BY <1>7, <1>8

LEMMA StepStep ==
    ASSUME IInv, NEW n \in Process,
           NEW new \in SUBSET {Guess(node[n].next), Fault(node[n].next, n)}, TickAndStep(n, new)
    PROVE  IInv'
<1> DEFINE s == RecordPrevious(n, node[n])
           t == Begun(n)
           u == [t EXCEPT !.saved = t.saved \cup {t.next}, !.next = t.next + 1,
                          !.canonical = IF n = Host THEN t.canonical \cup {t.next}
                                        ELSE t.canonical]
           flaws == sim[n] \cup new
<1>1. /\ NodeInv(n, t, sim[n]) /\ NodeInv(n, s, sim[n]) /\ s.next = node[n].next
      /\ t.next = s.next /\ t.rollback = s.rollback /\ t.saved = s.saved
      /\ t.canonical = s.canonical /\ t.mode = s.mode
      /\ HashIsDue(s) => DueHash(n, s) \subseteq Sample
  BY BegunKeeps DEF SamePosition
<1>2. node' = [node EXCEPT ![n] = KeepSnapshots(
                  [t EXCEPT !.saved = @ \cup {s.next}, !.next = @ + 1,
                            !.canonical = IF n = Host THEN @ \cup {s.next} ELSE @])]
  BY DEF TickAndStep, Begun
<1>3. /\ sim' = [sim EXCEPT ![n] = flaws]
      /\ hashes' = IF HashIsDue(s) THEN hashes \cup DueHash(n, s) ELSE hashes
      /\ faults' = faults + Cardinality(new \ {Guess(s.next)})
      /\ misses' = misses + Cardinality(new \cap {Guess(s.next)})
      /\ faults' <= MaxFaults /\ misses' <= MaxMisses
      /\ s.rollback = NoFrame /\ node[n].next <= MaxFrame
      /\ Guess(s.next) \in new => n # Host /\ s.next \notin s.canonical
  BY DEF TickAndStep, MayStep
<1> HIDE DEF s, t
<1>4. node' = [node EXCEPT ![n] = KeepSnapshots(u)]
  BY <1>1, <1>2
<1>5. NodeInv(n, u, flaws)
  <2>1. /\ t.rollback = NoFrame /\ t.next <= MaxFrame
        /\ new \subseteq {Guess(t.next), Fault(t.next, n)}
        /\ Guess(t.next) \in new => n # Host /\ t.next \notin t.canonical
    BY <1>1, <1>3
  <2> QED
    BY <1>1, <2>1, StepKeeps
<1> HIDE DEF u, flaws
<1>6. NodeInv(n, KeepSnapshots(u), flaws)
  BY <1>5, KeepSnapshotsKeeps
<1>7. hashes' \subseteq Sample
  BY <1>1, <1>3 DEF IInv
<1>8. CountsHold'
  <2>1. IsFiniteSet({Guess(node[n].next)}) /\ IsFiniteSet({Fault(node[n].next, n)})
    BY FS_Singleton
  <2>2. IsFiniteSet({Guess(node[n].next)} \cup {Fault(node[n].next, n)})
    BY <2>1, FS_Union
  <2>3. /\ new \ {Guess(s.next)} \subseteq {Guess(node[n].next)} \cup {Fault(node[n].next, n)}
        /\ new \cap {Guess(s.next)} \subseteq {Guess(node[n].next)} \cup {Fault(node[n].next, n)}
    OBVIOUS
  <2>4. /\ IsFiniteSet(new \ {Guess(s.next)}) /\ IsFiniteSet(new \cap {Guess(s.next)})
    BY <2>2, <2>3, FS_Subset
  <2>5. /\ Cardinality(new \ {Guess(s.next)}) \in Nat
        /\ Cardinality(new \cap {Guess(s.next)}) \in Nat
    BY <2>4, FS_CardinalityType
  <2> QED
    BY <1>3, <2>5, BoundAssumption DEF IInv, CountsHold
<1> QED
  BY <1>3, <1>4, <1>6, <1>7, <1>8, OneChanges

\* What a peer hears of the host's frames up to last.
Heard(p, last) == {f \in last - InputHistory .. last : f >= node[p].base}
WronglyGuessed(p, heard) == {f \in heard : Guess(f) \in sim[p]}

LEMMA InputsEffects ==
    ASSUME IInv, NEW p \in Peer, NEW last \in 0 .. MaxFrame, HandleInputFrameRecords(p, last)
    PROVE  /\ \E t : /\ node' = [node EXCEPT ![p] = t] /\ NodeInv(p, t, sim[p])
                     /\ Hears(node[p], Heard(p, last), WronglyGuessed(p, Heard(p, last)), t)
           /\ sim' = sim /\ hashes' = hashes /\ faults' = faults /\ misses' = misses
           /\ Heard(p, last) \in SUBSET Nat /\ last < node[Host].next
<1> DEFINE s == node[p]
           heard == Heard(p, last)
           wrong == WronglyGuessed(p, heard)
           u == [s EXCEPT !.canonical = s.canonical \cup heard]
           t == IF wrong = {} THEN u ELSE RequestRollbackFromFrame(u, Min(wrong))
<1>1. p \in Process /\ NodeInv(p, s, sim[p])
  BY DEF IInv, Process
<1>2. s.base \in Nat /\ s \in NodeFields
  BY <1>1 DEF NodeInv, Sound, NodeFields
<1>3. /\ node' = [node EXCEPT ![p] = t] /\ sim' = sim /\ hashes' = hashes
      /\ faults' = faults /\ misses' = misses /\ last < node[Host].next
  BY DEF HandleInputFrameRecords, Heard, WronglyGuessed
<1>4. heard \in SUBSET Nat /\ \A f \in heard : s.base <= f
  <2>1. \A f \in last - InputHistory .. last : f >= s.base => f \in Nat /\ s.base <= f
    BY <1>2, BoundAssumption
  <2> QED
    BY <2>1 DEF Heard
<1>5. wrong = {f \in heard : Guess(f) \in sim[p]}
  BY DEF WronglyGuessed
<1> HIDE DEF heard, wrong
<1>6. wrong \in SUBSET heard /\ \A f \in wrong : f < s.next
  <2>1. \A f \in wrong : Guess(f).frame < s.next
    BY <1>1, <1>5 DEF NodeInv
  <2> QED
    BY <1>5, <2>1 DEF Guess
<1>7. Hears(s, heard, wrong, t)
  <2> HIDE DEF s
  <2> QED
    BY <1>2, <1>4, <1>6, HearEffects
<1>8. NodeInv(p, t, sim[p])
  <2> HIDE DEF s, t
  <2> QED
    BY <1>1, <1>4, <1>5, <1>7, HearKeeps
<1> HIDE DEF t
<1> QED
  BY <1>3, <1>4, <1>7, <1>8 DEF heard, wrong

LEMMA InputsStep ==
    ASSUME IInv, NEW p \in Peer, NEW last \in 0 .. MaxFrame, HandleInputFrameRecords(p, last)
    PROVE  IInv'
<1>1. p \in Process
  BY DEF Process
<1>2. PICK t : node' = [node EXCEPT ![p] = t] /\ NodeInv(p, t, sim[p])
  BY InputsEffects
<1>3. sim' = sim /\ hashes' \subseteq Sample /\ CountsHold'
  BY InputsEffects DEF IInv, CountsHold
<1> QED
  BY <1>1, <1>2, <1>3, OneChanges

LEMMA HashesStep ==
    ASSUME IInv, NEW n \in Process, NEW r \in hashes, HandleLockstepHashPacket(n, r)
    PROVE  IInv'
<1> DEFINE s == node[n]
           c == CompareLockstepHash(n, s, r)
           q == QueuePending(s, r)
<1>1. NodeInv(n, s, sim[n]) /\ r \in Sample
  BY DEF IInv
<1>2. /\ node' = [node EXCEPT ![n] = IF Local(s, r.frame) # {} THEN c ELSE q]
      /\ sim' = sim /\ hashes' = hashes /\ faults' = faults /\ misses' = misses
      /\ r.peer # n
  BY DEF HandleLockstepHashPacket
<1> HIDE DEF s
<1>3. NodeInv(n, c, sim[n])
  <2>1. Compares(n, s, c)
    BY <1>1, <1>2, CompareCompares DEF NodeInv
  <2> HIDE DEF c
  <2> QED
    BY <1>1, <2>1, ComparesKeeps
<1>4. Local(s, r.frame) = {} => NodeInv(n, q, sim[n])
  BY <1>1, <1>2, QueueKeeps
<1> HIDE DEF c, q
<1>5. hashes' \subseteq Sample /\ CountsHold'
  BY <1>2 DEF IInv, CountsHold
<1>6. CASE Local(s, r.frame) # {}
  BY <1>2, <1>3, <1>5, <1>6, OneChanges
<1>7. CASE Local(s, r.frame) = {}
  BY <1>2, <1>4, <1>5, <1>7, OneChanges
<1> QED
  BY <1>6, <1>7

LEMMA RequestStep ==
    ASSUME IInv, NEW p \in Peer, HandleSnapshotResyncRequest(p)
    PROVE  IInv'
<1> DEFINE s == node[Host]
           t == StartResync(Host, s, p)
<1>1. /\ Host \in Process /\ p \in Process /\ p # Host /\ NodeInv(Host, s, sim[Host])
  BY ProcessAssumption DEF IInv, Process
<1>2. /\ node' = [node EXCEPT ![Host] = t] /\ sim' = sim /\ hashes' = hashes
      /\ faults' = faults /\ misses' = misses
  BY DEF HandleSnapshotResyncRequest
<1>3. s = [s EXCEPT !.rollback = s.rollback]
  BY <1>1 DEF NodeInv, Sound, NodeFields
<1> HIDE DEF s
<1>4. NodeInv(Host, StartResync(Host, [s EXCEPT !.rollback = s.rollback], p), sim[Host])
  BY <1>1, ResyncKeeps
<1>5. NodeInv(Host, t, sim[Host])
  BY <1>3, <1>4
<1> HIDE DEF t
<1>6. hashes' \subseteq Sample /\ CountsHold'
  BY <1>2 DEF IInv, CountsHold
<1> QED
  BY <1>1, <1>2, <1>5, <1>6, OneChanges

LEMMA RepairStep ==
    ASSUME IInv, NEW p \in Peer, RepairBySnapshot(p)
    PROVE  IInv'
<1> DEFINE s == node[p]
           h == node[Host]
           repaired == h.repair \ {p}
           t == [s EXCEPT !.next = h.next, !.base = h.next,
                        !.canonical = {}, !.rollback = NoFrame, !.saved = {},
                        !.history = {}, !.remote = {}, !.pending = <<>>,
                        !.recorded = NoFrame, !.sent = NoFrame,
                        !.mode = "RollbackRepaired", !.repair = {}]
           g == [h EXCEPT !.repair = repaired,
                          !.mode = IF repaired = {} THEN "RollbackRepaired" ELSE h.mode]
<1>1. /\ Host \in Process /\ p \in Process /\ p # Host
      /\ NodeInv(Host, h, sim[Host]) /\ NodeInv(p, s, sim[p])
      /\ node \in [Process -> NodeFields] /\ sim \in [Process -> SUBSET Flaw]
  BY ProcessAssumption DEF IInv, Process
<1>2. /\ node' = [node EXCEPT ![Host] = g, ![p] = t]
      /\ sim' = [sim EXCEPT ![p] = sim[Host]]
      /\ hashes' = hashes /\ faults' = faults /\ misses' = misses
  BY <1>1 DEF RepairBySnapshot
<1> HIDE DEF s, h
<1>3. NodeInv(p, t, sim[Host])
  BY <1>1, InstallKeeps
<1>4. NodeInv(Host, g, sim[Host])
  BY <1>1, AcknowledgedKeeps
<1> HIDE DEF t, g
<1>5. t \in NodeFields /\ g \in NodeFields /\ sim[Host] \in SUBSET Flaw
  BY <1>1, <1>3, <1>4 DEF NodeInv, Sound
<1>6. /\ node' \in [Process -> NodeFields] /\ sim' \in [Process -> SUBSET Flaw]
      /\ node'[Host] = g /\ node'[p] = t /\ sim'[p] = sim[Host] /\ sim'[Host] = sim[Host]
      /\ \A m \in Process \ {Host, p} : node'[m] = node[m] /\ sim'[m] = sim[m]
  BY <1>1, <1>2, <1>5
<1>7. ASSUME NEW m \in Process PROVE NodeInv(m, node'[m], sim'[m])
  <2>1. CASE m = Host
    BY <1>4, <1>6, <2>1
  <2>2. CASE m = p
    BY <1>3, <1>6, <2>2
  <2>3. CASE m \notin {Host, p}
    <3>1. node'[m] = node[m] /\ sim'[m] = sim[m]
      BY <1>6, <2>3
    <3> QED
      BY <3>1 DEF IInv
  <2> QED
    BY <2>1, <2>2, <2>3
<1> QED
  BY <1>2, <1>6, <1>7 DEF IInv

-----------------------------------------------------------------------------
(* The theorems.                                                           *)

LEMMA InitiallyIInv == Init => IInv
<1> SUFFICES ASSUME Init PROVE IInv
  OBVIOUS
<1> DEFINE s == [next |-> 0, window |-> Window, base |-> 0, canonical |-> {}, rollback |-> NoFrame,
                 saved |-> {}, history |-> {}, remote |-> {}, pending |-> <<>>,
                 recorded |-> NoFrame, sent |-> NoFrame, mode |-> "None", repair |-> {},
                 mismatchPeer |-> Host]
<1>1. node = [n \in Process |-> s] /\ sim = [n \in Process |-> {}]
  BY DEF Init
<1>2. <<>> \in Seq(Sample) /\ NoFrame \in Frame /\ Host \in Process
  BY DEF Frame, Process
<1>3. s \in NodeFields
  BY <1>2, BoundAssumption DEF NodeFields, Mode
<1>4. /\ s.next = 0 /\ s.base = 0 /\ s.canonical = {} /\ s.rollback = NoFrame /\ s.saved = {}
      /\ s.history = {} /\ s.remote = {} /\ s.pending = <<>>
  OBVIOUS
<1> HIDE DEF s
<1>5. Len(s.pending) = 0 /\ DOMAIN s.pending = {}
  BY <1>4
<1>6. ASSUME NEW n \in Process PROVE NodeInv(n, s, {})
  <2>1. Sound(n, s) /\ Unanswered(s)
    BY <1>3, <1>4, <1>5 DEF Sound, Unanswered
  <2>2. RecordsHold(s, {}) /\ GuessesArePending(s, {})
    BY <1>4 DEF RecordsHold, GuessesArePending
  <2> QED
    BY <1>4, <1>5, <2>1, <2>2, BoundAssumption DEF NodeInv
<1>7. node \in [Process -> NodeFields] /\ sim \in [Process -> SUBSET Flaw]
  BY <1>1, <1>3
<1>8. \A n \in Process : NodeInv(n, node[n], sim[n])
  BY <1>1, <1>6
<1>9. hashes \subseteq Sample /\ faults \in 0 .. MaxFaults /\ misses \in 0 .. MaxMisses
  BY BoundAssumption DEF Init
<1> QED
  BY <1>7, <1>8, <1>9 DEF IInv

LEMMA StepKeepsIInv == IInv /\ [Next]_vars => IInv'
<1> SUFFICES ASSUME IInv, [Next]_vars PROVE IInv'
  OBVIOUS
<1>1. ASSUME NEW n \in Process, NEW w \in Windows, ApplyPendingLockstepSettings(n, w) PROVE IInv'
  BY <1>1, SettingsStep
<1>2. ASSUME NEW n \in Process, TickWithoutStep(n) PROVE IInv'
  BY <1>2, WaitStep
<1>3. ASSUME NEW n \in Process, Replays(n) PROVE IInv'
  BY <1>3, ReplayStep DEF Replays
<1>4. ASSUME NEW n \in Process, Steps(n) PROVE IInv'
  BY <1>4, StepStep DEF Steps
<1>5. ASSUME NEW n \in Process, Receives(n) PROVE IInv'
  BY <1>5, HashesStep DEF Receives
<1>6. ASSUME NEW p \in Peer, NEW f \in 0 .. MaxFrame, HandleInputFrameRecords(p, f) PROVE IInv'
  BY <1>6, InputsStep
<1>7. ASSUME NEW p \in Peer, HandleSnapshotResyncRequest(p) PROVE IInv'
  BY <1>7, RequestStep
<1>8. ASSUME NEW p \in Peer, RepairBySnapshot(p) PROVE IInv'
  BY <1>8, RepairStep
<1>9. CASE UNCHANGED vars
  BY <1>9 DEF vars, IInv
<1> QED
  BY <1>1, <1>2, <1>3, <1>4, <1>5, <1>6, <1>7, <1>8, <1>9 DEF Next

LEMMA AlwaysIInv == Spec => []IInv
  BY InitiallyIInv, StepKeepsIInv, PTL DEF Spec

LEMMA IInvImplies == IInv => TypeOK /\ HistoryIsCurrent /\ PendingIsUnanswered
<1> SUFFICES ASSUME IInv PROVE TypeOK /\ HistoryIsCurrent /\ PendingIsUnanswered
  OBVIOUS
<1>1. \A n \in Process : NodeInv(n, node[n], sim[n])
  BY DEF IInv
<1>2. ASSUME NEW n \in Process
      PROVE  /\ node[n] \in NodeFields /\ Len(node[n].pending) <= MaxPending
             /\ node[n].rollback # NoFrame => node[n].rollback < node[n].next
             /\ sim[n] \subseteq Flaw
  BY <1>1 DEF NodeInv, Sound
<1>3. TypeOK
  BY <1>2 DEF TypeOK, IInv
<1>4. HistoryIsCurrent
  BY <1>1 DEF NodeInv, RecordsHold, HistoryIsCurrent
<1>5. PendingIsUnanswered
  BY <1>1 DEF NodeInv, Unanswered, PendingIsUnanswered
<1> QED
  BY <1>3, <1>4, <1>5

\* The fields of every process have their types in every reachable state, the
\* queue of samples that came early never outgrows kMaxPendingRemoteHashes
\* (StoreOrCompareRemoteHash), and a rollback goes to a frame already stepped
\* (RequestRollbackFromFrame).
THEOREM HashesAreTyped == Spec => []TypeOK
  BY AlwaysIInv, IInvImplies, PTL

\* What a process has on record for a frame before the one it will go back to
\* is the hash of the simulation it has now: no rollback, replay or snapshot
\* leaves the hash of a timeline that was given up
\* (DiscardLockstepHashesFromFrame, ReplayRollbackWindow).
THEOREM HistoryStaysCurrent == Spec => []HistoryIsCurrent
  BY AlwaysIInv, IInvImplies, PTL

\* No sample of another process waits in the queue beside the hash it should
\* be compared with (StoreOrCompareRemoteHash, ProcessPendingRemoteHashes,
\* also within a replay).
THEOREM PendingStaysUnanswered == Spec => []PendingIsUnanswered
  BY AlwaysIInv, IInvImplies, PTL

\* A hash is sent only by the tick of its process.
Sends(n) ==
    LET s == RecordPrevious(n, node[n])
    IN  HashIsDue(s) /\ hashes' = hashes \cup DueHash(n, s)

LEMMA TicksSend == [Next]_vars => hashes' = hashes \/ \E n \in Process : Sends(n)
<1> SUFFICES ASSUME [Next]_vars PROVE hashes' = hashes \/ \E n \in Process : Sends(n)
  OBVIOUS
<1>1. ASSUME NEW n \in Process, NEW w \in Windows, ApplyPendingLockstepSettings(n, w)
      PROVE  hashes' = hashes
  BY <1>1 DEF ApplyPendingLockstepSettings
<1>2. ASSUME NEW n \in Process, TickWithoutStep(n) PROVE hashes' = hashes \/ Sends(n)
  BY <1>2 DEF TickWithoutStep, Sends
<1>3. ASSUME NEW n \in Process, Replays(n) PROVE hashes' = hashes \/ Sends(n)
  BY <1>3 DEF Replays, TickAndReplay, Sends
<1>4. ASSUME NEW n \in Process, Steps(n) PROVE hashes' = hashes \/ Sends(n)
  BY <1>4 DEF Steps, TickAndStep, Sends
<1>5. ASSUME NEW n \in Process, Receives(n) PROVE hashes' = hashes
  BY <1>5 DEF Receives, HandleLockstepHashPacket
<1>6. ASSUME NEW p \in Peer, NEW f \in 0 .. MaxFrame, HandleInputFrameRecords(p, f)
      PROVE  hashes' = hashes
  BY <1>6 DEF HandleInputFrameRecords
<1>7. ASSUME NEW p \in Peer, HandleSnapshotResyncRequest(p) PROVE hashes' = hashes
  BY <1>7 DEF HandleSnapshotResyncRequest
<1>8. ASSUME NEW p \in Peer, RepairBySnapshot(p) PROVE hashes' = hashes
  BY <1>8 DEF RepairBySnapshot
<1>9. CASE UNCHANGED vars
  BY <1>9 DEF vars
<1> QED
  BY <1>1, <1>2, <1>3, <1>4, <1>5, <1>6, <1>7, <1>8, <1>9 DEF Next

\* What a process says of a frame is what its simulation now is, and the
\* inputs of it are final.
LEMMA SentIsCurrent ==
    ASSUME IInv, NEW n \in Process, Sends(n), NEW r \in hashes' \ hashes
    PROVE  /\ r.peer = n /\ r.hash = HashOf(sim[n], r.frame) /\ r.frame \in Nat
           /\ ~CatchingUp(node[n]) /\ Confirmed(node[n], r.frame)
<1> DEFINE s == RecordPrevious(n, node[n])
<1>1. /\ NodeInv(n, s, sim[n]) /\ SamePosition(node[n], s) /\ AsksForMore(node[n], s)
  BY BegunKeeps
<1>2. HashIsDue(s) /\ r \in DueHash(n, s)
  BY DEF Sends
<1> HIDE DEF s
<1>3. PICK l \in Local(s, s.recorded) : r = [peer |-> n, frame |-> s.recorded, hash |-> l.hash]
  BY <1>2 DEF DueHash
<1>4. l \in s.history /\ l.frame = s.recorded
  BY DEF Local
<1>5. l.hash = HashOf(sim[n], s.recorded) /\ Confirmed(s, s.recorded)
  BY <1>1, <1>4 DEF NodeInv, RecordsHold
<1>6. s.recorded \in Nat
  BY <1>1, <1>2 DEF NodeInv, Sound, NodeFields, Frame, HashIsDue
<1>7. ~CatchingUp(node[n])
  BY <1>1, <1>2 DEF HashIsDue, AsksForMore
<1>8. Confirmed(node[n], s.recorded)
  BY <1>1, <1>5 DEF SamePosition, Confirmed
<1> QED
  BY <1>3, <1>5, <1>6, <1>7, <1>8

\* A peer without a correction to replay tells the others of frames stepped
\* with final inputs only: a hash it sends has no wrong guess in it, and a
\* difference is a fault (AllRequiredInputsConfirmedForFrame,
\* SendDueLockstepHash).
THEOREM SettledHashesSent == Spec => SettledHashesAreSent
<1> DEFINE Settled == \A p \in Peer : node[p].rollback = NoFrame =>
                         \A r \in NewHashes(p) : \A x \in r.hash : x.by # "input"
<1>1. IInv /\ [Next]_vars => Settled
  <2> SUFFICES ASSUME IInv, [Next]_vars, NEW p \in Peer, node[p].rollback = NoFrame,
                      NEW r \in NewHashes(p), NEW x \in r.hash, x.by = "input"
               PROVE  FALSE
    OBVIOUS
  <2>1. r \in hashes' \ hashes /\ r.peer = p
    BY DEF NewHashes
  <2>2. PICK n \in Process : Sends(n)
    BY <2>1, TicksSend
  <2>3. /\ r.peer = n /\ r.hash = HashOf(sim[n], r.frame) /\ r.frame \in Nat
        /\ ~CatchingUp(node[n]) /\ Confirmed(node[n], r.frame)
    BY <2>1, <2>2, SentIsCurrent
  <2>4. n = p
    BY <2>1, <2>3
  <2>5. NodeInv(p, node[p], sim[p])
    BY <2>2, <2>4 DEF IInv
  <2>6. x \in sim[p] /\ x.frame <= r.frame
    BY <2>3, <2>4 DEF HashOf
  <2>7. /\ node[p].base <= x.frame
        /\ x.frame \in node[p].canonical => CatchingUp(node[p])
    BY <2>5, <2>6 DEF NodeInv, GuessesArePending
  <2>8. x.frame \in Nat /\ node[p].base \in Nat
    <3>1. x \in Flaw
      BY <2>5, <2>6 DEF NodeInv
    <3> QED
      BY <2>5, <3>1, BoundAssumption DEF NodeInv, Sound, NodeFields, Flaw
  <2>9. x.frame \in node[p].base .. r.frame
    BY <2>3, <2>6, <2>7, <2>8
  <2> QED
    BY <2>3, <2>4, <2>7, <2>9 DEF Confirmed
<1>2. Spec => [][Settled]_vars
  BY <1>1, AlwaysIInv, PTL DEF Spec
<1> QED
  BY <1>2 DEF SettledHashesAreSent

-----------------------------------------------------------------------------
(* That what a process is to go back to exists.  It does not when a change *)
(* of the settings lets the window grow beyond the inputs sent again, or   *)
(* shrink while a rollback is due.                                         *)

\* The window stays within the inputs a batch repeats (kInputHistoryFrames).
BatchCoversWindow ==
    /\ InputDelay <= InputHistory
    /\ \A w \in Windows \cup {Window} : w <= InputHistory

WindowNeverShrinks == [][\A n \in Process : node[n].window <= node'[n].window]_vars

\* A process has a snapshot of every frame it may have to go back to: those
\* without final inputs, and the one it was told to go back to.
Ground(n, s, flaws) ==
    /\ s.window <= InputHistory
    /\ \A f \in s.saved : f + s.window + KeepSlack >= s.next
    /\ \A f \in s.base .. s.next - 1 : f \notin s.canonical => f \in s.saved
    /\ s.rollback # NoFrame => s.rollback \in s.saved
    /\ \A x \in flaws : x.by = "input" /\ x.frame \in s.canonical =>
          s.rollback # NoFrame /\ s.rollback <= x.frame
    \* Final inputs have no gaps, and the last step was within the window of
    \* one of them.
    /\ n # Host =>
          /\ \A f \in s.canonical : s.base <= f /\ \A g \in s.base .. f : g \in s.canonical
          /\ s.next = s.base \/ \E f \in s.canonical : s.next + InputDelay <= f + s.window + 1

HostIsNear == \A p \in Peer : node[Host].next <= node[p].next + InputDelay + 1

GroundInv == HostIsNear /\ \A n \in Process : Ground(n, node[n], sim[n])

SamePlaces(s, t) ==
    /\ t.next = s.next /\ t.window = s.window /\ t.base = s.base
    /\ t.canonical = s.canonical /\ t.saved = s.saved

LEMMA SameGround ==
    ASSUME NEW n, NEW s, NEW t, NEW flaws, Ground(n, s, flaws), SamePlaces(s, t),
           t.rollback = s.rollback
    PROVE  Ground(n, t, flaws)
  BY DEF Ground, SamePlaces

LEMMA AskingGrounds ==
    ASSUME NEW n, NEW s, NEW t, NEW flaws, NodeInv(n, s, flaws), NodeInv(n, t, flaws),
           Ground(n, s, flaws), SamePlaces(s, t), AsksForMore(s, t)
    PROVE  Ground(n, t, flaws)
<1>1. /\ s.rollback \in Nat \cup {NoFrame} /\ t.rollback \in Nat \cup {NoFrame}
      /\ flaws \subseteq Flaw
  BY DEF NodeInv, Sound, NodeFields, Frame
<1>2. t.rollback # NoFrame => t.rollback \in t.saved
  BY DEF Ground, SamePlaces, AsksForMore
<1>3. ASSUME NEW x \in flaws, x.by = "input" /\ x.frame \in t.canonical
      PROVE  t.rollback # NoFrame /\ t.rollback <= x.frame
  <2>1. x.frame \in Nat
    BY <1>1, BoundAssumption DEF Flaw
  <2>2. s.rollback # NoFrame /\ s.rollback <= x.frame
    BY <1>3 DEF Ground, SamePlaces
  <2> QED
    BY <1>1, <2>1, <2>2 DEF AsksForMore
<1> QED
  BY <1>2, <1>3 DEF Ground, SamePlaces

LEMMA KeepGrounds ==
    ASSUME NEW n, NEW s, NEW flaws, NodeInv(n, s, flaws), Ground(n, s, flaws)
    PROVE  Ground(n, KeepSnapshots(s), flaws) /\ SamePlaces(s, KeepSnapshots(s))
<1> DEFINE saved == {f \in s.saved : f + s.window + KeepSlack >= s.next}
           t == [s EXCEPT !.saved = saved]
<1>1. s \in NodeFields /\ KeepSnapshots(s) = t
  BY DEF NodeInv, Sound, KeepSnapshots
<1>2. saved = s.saved
  BY DEF Ground
<1> HIDE DEF saved
<1>3. /\ t.next = s.next /\ t.window = s.window /\ t.base = s.base /\ t.rollback = s.rollback
      /\ t.canonical = s.canonical /\ t.saved = saved
  BY <1>1 DEF NodeFields
<1> HIDE DEF t
<1>4. SamePlaces(s, t)
  BY <1>2, <1>3 DEF SamePlaces
<1> QED
  BY <1>1, <1>3, <1>4, SameGround

LEMMA WindowGrounds ==
    ASSUME NEW n \in Process, NEW s, NEW flaws, NodeInv(n, s, flaws), Ground(n, s, flaws),
           NEW w \in Nat, s.window <= w, w <= InputHistory
    PROVE  Ground(n, [s EXCEPT !.window = w], flaws)
<1> DEFINE t == [s EXCEPT !.window = w]
<1>1. /\ s \in NodeFields /\ s.window \in Nat /\ s.next \in Nat /\ s.saved \subseteq Nat
      /\ s.canonical \subseteq Nat
  BY DEF NodeInv, Sound, NodeFields
<1>2. /\ t.next = s.next /\ t.window = w /\ t.base = s.base /\ t.rollback = s.rollback
      /\ t.canonical = s.canonical /\ t.saved = s.saved
  BY <1>1 DEF NodeFields
<1> HIDE DEF t
<1>3. ASSUME NEW f \in t.saved PROVE f + t.window + KeepSlack >= t.next
  <2>1. f \in Nat /\ f + s.window + KeepSlack >= s.next
    BY <1>1, <1>2 DEF Ground
  <2> QED
    BY <1>1, <1>2, <2>1, BoundAssumption
<1>4. ASSUME NEW f \in t.canonical, s.next + InputDelay <= f + s.window + 1
      PROVE  t.next + InputDelay <= f + t.window + 1
  <2>1. f \in Nat
    BY <1>1, <1>2
  <2> QED
    BY <1>1, <1>2, <1>4, <2>1, BoundAssumption
<1>5. n # Host => t.next = t.base \/ \E f \in t.canonical : t.next + InputDelay <= f + t.window + 1
  BY <1>2, <1>4 DEF Ground
<1>6. Ground(n, t, flaws)
  BY <1>2, <1>3, <1>5 DEF Ground
<1> QED
  BY <1>6 DEF t

\* A replay steps again what was stepped before.
LEMMA ReplayGrounds ==
    ASSUME NEW n \in Process, NEW s, NEW old, NodeInv(n, s, old), Ground(n, s, old),
           s.rollback # NoFrame, NEW t, NEW flaws, Regained(s, flaws, t), NodeInv(n, t, flaws)
    PROVE  Ground(n, t, flaws)
<1>1. /\ s.window \in Nat /\ s.next \in Nat /\ s.saved \subseteq Nat /\ s.rollback \in Nat
  BY DEF NodeInv, Sound, NodeFields, Frame
<1>2. /\ t.next = s.next /\ t.base = s.base /\ t.canonical = s.canonical /\ t.window = s.window
      /\ s.saved \subseteq t.saved
      /\ t.rollback # NoFrame => t.rollback \in t.saved
      /\ \A x \in flaws : x.by = "input" => x.frame \notin s.canonical
  BY DEF Regained
<1>3. ASSUME NEW f \in t.saved PROVE f + t.window + KeepSlack >= t.next
  <2>1. CASE f \in s.saved
    BY <1>2, <2>1 DEF Ground
  <2>2. CASE f \in s.rollback .. s.next - 1
    <3>1. s.rollback + s.window + KeepSlack >= s.next
      BY DEF Ground
    <3>2. f \in Nat /\ f >= s.rollback
      BY <1>1, <2>2
    <3> QED
      BY <1>1, <1>2, <3>1, <3>2, BoundAssumption
  <2> QED
    BY <2>1, <2>2 DEF Regained
<1> QED
  BY <1>2, <1>3 DEF Ground

\* A step goes no further than a window beyond the last final input, so it
\* leaves the snapshot of every frame that may turn out wrong.
LEMMA StepGrounds ==
    ASSUME NEW n \in Process, NEW s, NEW old, NodeInv(n, s, old), Ground(n, s, old),
           s.rollback = NoFrame, NEW flaws, NEW u, NodeInv(n, u, flaws),
           u.next = s.next + 1, u.window = s.window, u.base = s.base, u.rollback = NoFrame,
           u.canonical = IF n = Host THEN s.canonical \cup {s.next} ELSE s.canonical,
           u.saved = s.saved \cup {s.next},
           n # Host => \E f \in s.canonical : s.next <= f - InputDelay + s.window,
           \A x \in flaws : x \in old \/ x.frame = s.next,
           \A x \in flaws : x.by = "input" => n # Host,
           \A x \in flaws : x.by = "input" /\ x.frame = s.next => s.next \notin s.canonical
    PROVE  Ground(n, KeepSnapshots(u), flaws)
<1> DEFINE saved == {f \in u.saved : f + u.window + KeepSlack >= u.next}
           t == [u EXCEPT !.saved = saved]
<1>1. /\ s.window \in Nat /\ s.next \in Nat /\ s.saved \subseteq Nat /\ s.base \in Nat
      /\ s.canonical \subseteq Nat /\ u.canonical \subseteq Nat /\ s.base <= s.next
  BY DEF NodeInv, Sound, NodeFields
<1>2. u \in NodeFields /\ KeepSnapshots(u) = t
  BY DEF NodeInv, Sound, KeepSnapshots
<1> HIDE DEF saved
<1>3. /\ t.next = s.next + 1 /\ t.window = s.window /\ t.base = s.base /\ t.rollback = NoFrame
      /\ t.canonical = u.canonical /\ t.saved = saved
  BY <1>2 DEF NodeFields
<1> HIDE DEF t
<1>4. \A f \in t.saved : f + t.window + KeepSlack >= t.next
  BY <1>3 DEF saved
<1>5. ASSUME n # Host
      PROVE  /\ t.canonical = s.canonical
             /\ \E f \in t.canonical : t.next + InputDelay <= f + t.window + 1
  <2>1. PICK f \in s.canonical : s.next <= f - InputDelay + s.window
    BY <1>5
  <2>2. t.canonical = s.canonical
    BY <1>3, <1>5
  <2>3. f \in Nat /\ s.next + 1 + InputDelay <= f + s.window + 1
    BY <1>1, <2>1, BoundAssumption
  <2> QED
    BY <1>3, <2>2, <2>3
<1>6. ASSUME NEW f \in t.base .. t.next - 1, f \notin t.canonical PROVE f \in t.saved
  <2>1. f \in Nat /\ s.base <= f /\ f <= s.next
    BY <1>1, <1>3
  <2>2. f \in u.saved
    <3>1. CASE f = s.next
      BY <3>1
    <3>2. CASE f # s.next
      <4>1. f \in s.base .. s.next - 1 /\ f \notin s.canonical
        BY <1>1, <1>3, <1>6, <2>1, <3>2
      <4> QED
        BY <4>1 DEF Ground
    <3> QED
      BY <3>1, <3>2
  <2>3. n # Host
    BY <1>3, <1>6, <2>1 DEF NodeInv
  <2>4. PICK k \in s.canonical : k \in Nat /\ s.next + 1 + InputDelay <= k + s.window + 1
    BY <1>1, <1>3, <1>5, <2>3
  <2>5. ~(f <= k)
    <3> SUFFICES ASSUME f <= k PROVE FALSE
      OBVIOUS
    <3>1. f \in s.base .. k
      BY <1>1, <2>1, <2>4
    <3>2. f \in s.canonical
      BY <2>3, <2>4, <3>1 DEF Ground
    <3> QED
      BY <1>5, <1>6, <2>3, <3>2
  <2>6. f + s.window + KeepSlack >= s.next + 1
    BY <1>1, <2>1, <2>4, <2>5, BoundAssumption
  <2> QED
    BY <1>3, <2>2, <2>6 DEF saved
<1>7. ASSUME NEW x \in flaws, x.by = "input", x.frame \in t.canonical PROVE FALSE
  <2>1. n # Host /\ t.canonical = s.canonical
    BY <1>5, <1>7
  <2>2. CASE x \in old
    BY <1>7, <2>1, <2>2 DEF Ground
  <2>3. CASE x.frame = s.next
    BY <1>7, <2>1, <2>3
  <2> QED
    BY <2>2, <2>3
<1>8. n # Host => \A f \in t.canonical : t.base <= f /\ \A g \in t.base .. f : g \in t.canonical
  BY <1>3, <1>5 DEF Ground
<1>9. t.window <= InputHistory /\ t.rollback = NoFrame
  BY <1>3 DEF Ground
<1>10. Ground(n, t, flaws)
  BY <1>4, <1>5, <1>6, <1>7, <1>8, <1>9 DEF Ground
<1> QED
  BY <1>2, <1>10

\* What is heard joins what was heard before, as the host is not further
\* ahead of a peer than a batch reaches back.
LEMMA HearGrounds ==
    ASSUME BatchCoversWindow, NEW p \in Peer, NEW s, NEW flaws,
           NodeInv(p, s, flaws), Ground(p, s, flaws),
           NEW last \in Nat, last <= s.next + InputDelay,
           NEW heard, heard = {f \in last - InputHistory .. last : f >= s.base},
           NEW wrong, wrong = {f \in heard : Guess(f) \in flaws},
           NEW t, Hears(s, heard, wrong, t)
    PROVE  Ground(p, t, flaws)
<1>1. /\ s.window \in Nat /\ s.next \in Nat /\ s.saved \subseteq Nat /\ s.base \in Nat
      /\ s.canonical \subseteq Nat /\ s.rollback \in Nat \cup {NoFrame} /\ p # Host
      /\ s.window <= InputHistory /\ InputDelay <= InputHistory
  BY ProcessAssumption DEF NodeInv, Sound, NodeFields, Frame, Ground, BatchCoversWindow
<1>2. \A f \in heard : f \in Nat /\ s.base <= f /\ f <= last /\ last - InputHistory <= f
  BY <1>1, BoundAssumption
<1>3. t.rollback # NoFrame => t.rollback \in t.saved
  <2>1. CASE t.rollback = s.rollback
    BY <2>1 DEF Hears, Ground
  <2>2. CASE t.rollback \in wrong /\ (s.rollback = NoFrame \/ t.rollback < s.rollback)
    <3> DEFINE m == t.rollback
    <3>1. Guess(m) \in flaws /\ m \in heard
      BY <2>2
    <3>2. Guess(m).frame = m /\ Guess(m).by = "input"
      BY DEF Guess
    <3>3. m \in Nat /\ s.base <= m /\ m < s.next
      BY <1>2, <3>1, <3>2 DEF NodeInv
    <3>4. m \notin s.canonical
      <4>1. m \in s.canonical => s.rollback # NoFrame /\ s.rollback <= m
        BY <3>1, <3>2 DEF Ground
      <4> QED
        BY <1>1, <2>2, <3>3, <4>1
    <3>5. m \in s.base .. s.next - 1
      BY <1>1, <3>3
    <3>6. m \in s.saved
      BY <3>4, <3>5 DEF Ground
    <3> QED
      BY <3>6 DEF Hears
  <2> QED
    BY <2>1, <2>2 DEF Hears
<1>4. s.rollback # NoFrame => t.rollback # NoFrame /\ t.rollback <= s.rollback
  <2>1. CASE t.rollback = s.rollback
    BY <1>1, <2>1
  <2>2. CASE t.rollback \in wrong /\ (s.rollback = NoFrame \/ t.rollback < s.rollback)
    BY <1>1, <1>2, <2>2, BoundAssumption
  <2> QED
    BY <2>1, <2>2 DEF Hears
<1>5. ASSUME NEW x \in flaws, x.by = "input" /\ x.frame \in t.canonical
      PROVE  t.rollback # NoFrame /\ t.rollback <= x.frame
  <2>1. x \in Flaw
    BY DEF NodeInv
  <2>2. x.frame \in Nat /\ x = Guess(x.frame)
    BY <1>5, <2>1, BoundAssumption DEF Flaw, Guess
  <2>3. CASE x.frame \in s.canonical
    <3>1. s.rollback # NoFrame /\ s.rollback <= x.frame
      BY <1>5, <2>3 DEF Ground
    <3>2. t.rollback \in Nat
      BY <1>4, <3>1 DEF Hears, NodeFields, Frame
    <3> QED
      BY <1>1, <1>4, <2>2, <3>1, <3>2
  <2>4. CASE x.frame \in heard
    BY <2>2, <2>4 DEF Hears
  <2> QED
    BY <1>5, <2>3, <2>4 DEF Hears
<1>6. ASSUME NEW f \in s.canonical \cup heard, NEW g \in s.base .. f
      PROVE  g \in s.canonical \cup heard
  <2>1. CASE f \in s.canonical
    BY <1>1, <2>1 DEF Ground
  <2>2. CASE f \in heard /\ last - InputHistory <= g
    <3>1. g \in last - InputHistory .. last /\ g >= s.base
      BY <1>1, <1>2, <2>2, BoundAssumption
    <3> QED
      BY <3>1
  <2>3. CASE f \in heard /\ ~(last - InputHistory <= g)
    <3>1. g \in Nat /\ s.base <= g /\ g < last - InputHistory
      BY <1>1, <1>2, <2>3, BoundAssumption
    <3>2. s.next # s.base
      BY <1>1, <3>1, BoundAssumption
    <3>3. PICK k \in s.canonical : s.next + InputDelay <= k + s.window + 1
      BY <1>1, <3>2 DEF Ground
    <3>4. g \in s.base .. k
      BY <1>1, <3>1, <3>3, BoundAssumption
    <3> QED
      BY <1>1, <3>3, <3>4 DEF Ground
  <2> QED
    BY <2>1, <2>2, <2>3
<1>7. \A f \in t.canonical : t.base <= f /\ \A g \in t.base .. f : g \in t.canonical
  BY <1>1, <1>2, <1>6 DEF Hears, Ground
<1>8. t.next = t.base \/ \E f \in t.canonical : t.next + InputDelay <= f + t.window + 1
  BY <1>1 DEF Hears, Ground
<1>9. \A f \in t.base .. t.next - 1 : f \notin t.canonical => f \in t.saved
  BY DEF Hears, Ground
<1>10. t.window <= InputHistory /\ \A f \in t.saved : f + t.window + KeepSlack >= t.next
  BY DEF Hears, Ground
<1> QED
  BY <1>3, <1>5, <1>7, <1>8, <1>9, <1>10 DEF Ground

LEMMA GroundOfOne ==
    ASSUME IInv, GroundInv, NEW n \in Process, NEW s, NEW flaws,
           NodeInv(n, s, flaws), Ground(n, s, flaws),
           node' = [node EXCEPT ![n] = s],
           sim' = [sim EXCEPT ![n] = flaws] \/ (sim' = sim /\ flaws = sim[n]),
           node[n].next <= s.next,
           n = Host => \A p \in Peer : s.next <= node[p].next + InputDelay + 1
    PROVE  GroundInv'
<1>1. /\ node'[n] = s /\ sim'[n] = flaws
      /\ \A m \in Process \ {n} : node'[m] = node[m] /\ sim'[m] = sim[m]
  BY DEF IInv
<1>2. ASSUME NEW m \in Process PROVE Ground(m, node'[m], sim'[m])
  <2>1. CASE m = n
    BY <1>1, <2>1
  <2>2. CASE m # n
    <3>1. node'[m] = node[m] /\ sim'[m] = sim[m]
      BY <1>1, <2>2
    <3> QED
      BY <3>1 DEF GroundInv
  <2> QED
    BY <2>1, <2>2
<1>3. ASSUME NEW p \in Peer PROVE node'[Host].next <= node'[p].next + InputDelay + 1
  <2>1. p \in Process /\ Host \in Process /\ p # Host
    BY ProcessAssumption DEF Process
  <2>2. /\ node[p].next \in Nat /\ s.next \in Nat /\ node[Host].next \in Nat
    BY <2>1 DEF IInv, NodeInv, Sound, NodeFields
  <2>3. node[Host].next <= node[p].next + InputDelay + 1
    BY DEF GroundInv, HostIsNear
  <2>4. CASE n = Host
    BY <1>1, <2>1, <2>4
  <2>5. CASE n = p
    BY <1>1, <2>1, <2>2, <2>3, <2>5, BoundAssumption
  <2>6. CASE n # Host /\ n # p
    BY <1>1, <2>1, <2>3, <2>6
  <2> QED
    BY <2>4, <2>5, <2>6
<1> QED
  BY <1>2, <1>3 DEF GroundInv, HostIsNear

\* As long as the process stands where it stood, the host stays near.
LEMMA GroundOfOneStanding ==
    ASSUME IInv, GroundInv, NEW n \in Process, NEW s, NEW flaws,
           NodeInv(n, s, flaws), Ground(n, s, flaws),
           node' = [node EXCEPT ![n] = s],
           sim' = [sim EXCEPT ![n] = flaws] \/ (sim' = sim /\ flaws = sim[n]),
           s.next = node[n].next
    PROVE  GroundInv'
<1>1. node[n].next \in Nat
  BY DEF IInv, NodeInv, Sound, NodeFields
<1>2. n = Host => \A p \in Peer : s.next <= node[p].next + InputDelay + 1
  BY DEF GroundInv, HostIsNear
<1>3. node[n].next <= s.next
  BY <1>1
<1> QED
  BY <1>2, <1>3, GroundOfOne

LEMMA BegunGrounds ==
    ASSUME IInv, GroundInv, NEW n \in Process
    PROVE  Ground(n, Begun(n), sim[n]) /\ SamePlaces(node[n], Begun(n))
<1> DEFINE s == RecordPrevious(n, node[n])
           t == Begun(n)
           u == [s EXCEPT !.sent = s.recorded]
<1>1. /\ NodeInv(n, s, sim[n]) /\ NodeInv(n, t, sim[n])
      /\ SamePosition(node[n], s) /\ AsksForMore(node[n], s)
  BY BegunKeeps
<1>2. NodeInv(n, node[n], sim[n]) /\ Ground(n, node[n], sim[n])
  BY DEF IInv, GroundInv
<1>3. t = IF HashIsDue(s) THEN u ELSE s
  BY DEF Begun
<1> HIDE DEF s
<1>4. s \in NodeFields
  BY <1>1 DEF NodeInv, Sound
<1>5. SamePlaces(s, u) /\ u.rollback = s.rollback
  BY <1>4 DEF NodeFields, SamePlaces
<1> HIDE DEF u
<1>6. SamePlaces(s, t) /\ t.rollback = s.rollback
  BY <1>3, <1>5 DEF SamePlaces
<1> HIDE DEF t
<1>7. SamePlaces(node[n], s)
  BY <1>1 DEF SamePosition, SamePlaces
<1>8. Ground(n, s, sim[n])
  BY <1>1, <1>2, <1>7, AskingGrounds
<1>9. Ground(n, t, sim[n])
  BY <1>6, <1>8, SameGround
<1>10. SamePlaces(node[n], t)
  BY <1>6, <1>7 DEF SamePlaces
<1> QED
  BY <1>9, <1>10 DEF t

LEMMA SettingsGround ==
    ASSUME IInv, GroundInv, BatchCoversWindow, NEW n \in Process, NEW w \in Windows,
           ApplyPendingLockstepSettings(n, w), node[n].window <= node'[n].window
    PROVE  GroundInv'
<1> DEFINE s == node[n]
           t == [s EXCEPT !.window = w]
           u == KeepSnapshots(t)
<1>1. /\ NodeInv(n, s, sim[n]) /\ Ground(n, s, sim[n]) /\ w \in Nat /\ w <= InputHistory
      /\ node \in [Process -> NodeFields] /\ s \in NodeFields
  BY BoundAssumption DEF IInv, GroundInv, BatchCoversWindow
<1>2. node' = [node EXCEPT ![n] = u] /\ sim' = sim
  BY DEF ApplyPendingLockstepSettings
<1>3. node'[n] = u /\ t.window = w /\ t.next = s.next
  BY <1>1, <1>2 DEF NodeFields
<1>4. NodeInv(n, t, sim[n])
  <2> HIDE DEF s
  <2> QED
    BY <1>1, WindowKeeps
<1>5. NodeInv(n, u, sim[n])
  <2> HIDE DEF t
  <2> QED
    BY <1>4, KeepSnapshotsKeeps
<1>6. u.window = t.window
  <2>1. t \in NodeFields
    BY <1>4 DEF NodeInv, Sound
  <2> HIDE DEF t
  <2> QED
    BY <2>1 DEF KeepSnapshots, NodeFields
<1>7. s.window <= w
  BY <1>3, <1>6
<1>8. Ground(n, t, sim[n])
  <2> HIDE DEF s
  <2> QED
    BY <1>1, <1>7, WindowGrounds
<1>9. Ground(n, u, sim[n]) /\ SamePlaces(t, u)
  <2> HIDE DEF t
  <2> QED
    BY <1>4, <1>8, KeepGrounds
<1>10. u.next = node[n].next
  BY <1>3, <1>9 DEF SamePlaces
<1> HIDE DEF u
<1> QED
  BY <1>2, <1>5, <1>9, <1>10, GroundOfOneStanding

LEMMA WaitGround ==
    ASSUME IInv, GroundInv, NEW n \in Process, TickWithoutStep(n) PROVE GroundInv'
<1> DEFINE t == Begun(n)
<1>1. NodeInv(n, t, sim[n]) /\ Ground(n, t, sim[n]) /\ t.next = node[n].next
  BY BegunKeeps, BegunGrounds DEF SamePlaces
<1>2. node' = [node EXCEPT ![n] = t] /\ sim' = sim
  BY DEF TickWithoutStep, Begun
<1> HIDE DEF t
<1> QED
  BY <1>1, <1>2, GroundOfOneStanding

LEMMA ReplayGround ==
    ASSUME IInv, GroundInv, NEW n \in Process, NEW wrong, TickAndReplay(n, wrong)
    PROVE  GroundInv'
<1> DEFINE s == RecordPrevious(n, node[n])
           t == Begun(n)
           flaws == {x \in sim[n] : x.frame < t.rollback} \cup {Guess(f) : f \in wrong}
           again == Replayed(n, t, flaws)
           back  == KeepSnapshots(again)
<1>1. /\ NodeInv(n, t, sim[n]) /\ t.next = s.next /\ t.rollback = s.rollback
      /\ t.saved = s.saved /\ t.canonical = s.canonical /\ t.mode = s.mode
  BY BegunKeeps
<1>2. Ground(n, t, sim[n]) /\ SamePlaces(node[n], t)
  BY BegunGrounds
<1>3. s.rollback # NoFrame /\ ~CatchingUp(s)
  BY DEF TickAndReplay
<1>4. s.rollback \in s.saved
  BY <1>1, <1>2, <1>3 DEF Ground
<1>5. /\ node' = [node EXCEPT ![n] = back] /\ sim' = [sim EXCEPT ![n] = flaws]
      /\ wrong \subseteq (s.rollback .. s.next - 1) \ s.canonical
  BY <1>1, <1>4 DEF TickAndReplay, Begun
<1> HIDE DEF s, t
<1>6. NodeInv(n, again, flaws) /\ Regained(t, flaws, again)
  <2>1. t.rollback # NoFrame /\ ~CatchingUp(t)
    BY <1>1, <1>3 DEF CatchingUp
  <2>2. wrong \subseteq (t.rollback .. t.next - 1) \ t.canonical
    BY <1>1, <1>5
  <2> QED
    BY <1>1, <2>1, <2>2, ReplayedKeeps
<1> HIDE DEF flaws, again
<1>7. Ground(n, again, flaws)
  BY <1>1, <1>2, <1>3, <1>6, ReplayGrounds
<1>8. Ground(n, back, flaws) /\ SamePlaces(again, back) /\ NodeInv(n, back, flaws)
  BY <1>6, <1>7, KeepGrounds, KeepSnapshotsKeeps
<1>9. back.next = node[n].next
  BY <1>2, <1>6, <1>8 DEF SamePlaces, Regained
<1> HIDE DEF back
<1> QED
  BY <1>5, <1>8, <1>9, GroundOfOneStanding

LEMMA StepGround ==
    ASSUME IInv, GroundInv, NEW n \in Process,
           NEW new \in SUBSET {Guess(node[n].next), Fault(node[n].next, n)}, TickAndStep(n, new)
    PROVE  GroundInv'
<1> DEFINE s == RecordPrevious(n, node[n])
           t == Begun(n)
           canonical == IF n = Host THEN t.canonical \cup {t.next} ELSE t.canonical
           u == [t EXCEPT !.saved = t.saved \cup {t.next}, !.next = t.next + 1,
                          !.canonical = canonical]
           flaws == sim[n] \cup new
           back == KeepSnapshots(u)
<1>1. /\ NodeInv(n, t, sim[n]) /\ t.next = s.next /\ t.rollback = s.rollback
      /\ t.saved = s.saved /\ t.canonical = s.canonical /\ t.mode = s.mode
  BY BegunKeeps
<1>2. Ground(n, t, sim[n]) /\ SamePlaces(node[n], t)
  BY BegunGrounds
<1>3. node' = [node EXCEPT ![n] = KeepSnapshots(
                  [t EXCEPT !.saved = @ \cup {s.next}, !.next = @ + 1,
                            !.canonical = IF n = Host THEN @ \cup {s.next} ELSE @])]
  BY DEF TickAndStep, Begun
<1>4. /\ sim' = [sim EXCEPT ![n] = flaws]
      /\ s.rollback = NoFrame /\ MayStep(n)
      /\ Guess(s.next) \in new => n # Host /\ s.next \notin s.canonical
  BY DEF TickAndStep
<1>5. /\ t.next = node[n].next /\ t.canonical = node[n].canonical /\ t.window = node[n].window
      /\ t.base = node[n].base
  BY <1>2 DEF SamePlaces
<1> HIDE DEF s, t
<1>6. node' = [node EXCEPT ![n] = back]
  BY <1>1, <1>3
<1>7. /\ t.rollback = NoFrame /\ t.next <= MaxFrame
      /\ new \subseteq {Guess(t.next), Fault(t.next, n)}
      /\ Guess(t.next) \in new => n # Host /\ t.next \notin t.canonical
  BY <1>1, <1>4, <1>5 DEF MayStep
<1>8. NodeInv(n, u, flaws)
  BY <1>1, <1>7, StepKeeps
<1>9. t \in NodeFields
  BY <1>1 DEF NodeInv, Sound
<1> HIDE DEF canonical
<1>10. /\ u.next = t.next + 1 /\ u.window = t.window /\ u.base = t.base
       /\ u.rollback = NoFrame /\ u.canonical = canonical /\ u.saved = t.saved \cup {t.next}
  BY <1>7, <1>9 DEF NodeFields
<1>11. n # Host => \E f \in t.canonical : t.next <= f - InputDelay + t.window
  BY <1>4, <1>5 DEF MayStep
<1>12. ASSUME NEW x \in new
       PROVE  /\ x.frame = t.next
              /\ x.by = "input" => n # Host /\ t.next \notin t.canonical
  <2>1. CASE x = Guess(t.next)
    BY <1>7, <2>1 DEF Guess
  <2>2. CASE x = Fault(t.next, n)
    BY <2>2, ProcessAssumption DEF Fault, Process
  <2> QED
    BY <1>7, <2>1, <2>2
<1>13. ASSUME NEW x \in sim[n] PROVE x.frame # t.next /\ (x.by = "input" => n # Host)
  <2>1. x \in Flaw /\ x.frame < t.next
    BY <1>1 DEF NodeInv
  <2>2. x.frame \in Nat /\ t.next \in Nat
    BY <1>9, <2>1, BoundAssumption DEF Flaw, NodeFields
  <2>3. x.by = "input" => n # Host
    BY <1>1 DEF NodeInv
  <2> QED
    BY <2>1, <2>2, <2>3
<1>14. /\ \A x \in flaws : x \in sim[n] \/ x.frame = t.next
       /\ \A x \in flaws : x.by = "input" => n # Host
       /\ \A x \in flaws : x.by = "input" /\ x.frame = t.next => t.next \notin t.canonical
  BY <1>12, <1>13
<1> HIDE DEF u, flaws
<1>15. Ground(n, back, flaws)
  BY <1>1, <1>2, <1>7, <1>8, <1>10, <1>11, <1>14, StepGrounds DEF canonical
<1>16. NodeInv(n, back, flaws)
  BY <1>8, KeepSnapshotsKeeps
<1>17. back.next = t.next + 1
  <2>1. u \in NodeFields
    BY <1>8 DEF NodeInv, Sound
  <2> QED
    BY <1>10, <2>1 DEF KeepSnapshots, NodeFields
<1> HIDE DEF back
<1>18. node[n].next \in Nat /\ node[n].next <= back.next
  BY <1>5, <1>9, <1>17 DEF NodeFields
<1>19. n = Host => \A p \in Peer : back.next <= node[p].next + InputDelay + 1
  <2> SUFFICES ASSUME n = Host, NEW p \in Peer
               PROVE  back.next <= node[p].next + InputDelay + 1
    OBVIOUS
  <2>1. node[n].next <= node[p].next + InputDelay
    BY <1>4 DEF MayStep
  <2>2. node[p].next \in Nat
    BY DEF IInv, Process, NodeInv, Sound, NodeFields
  <2> QED
    BY <1>5, <1>17, <1>18, <2>1, <2>2, BoundAssumption
<1> QED
  BY <1>4, <1>6, <1>15, <1>16, <1>18, <1>19, GroundOfOne

LEMMA InputsGround ==
    ASSUME IInv, GroundInv, BatchCoversWindow,
           NEW p \in Peer, NEW last \in 0 .. MaxFrame, HandleInputFrameRecords(p, last)
    PROVE  GroundInv'
<1> DEFINE s == node[p]
           heard == Heard(p, last)
           wrong == WronglyGuessed(p, heard)
<1>1. PICK t : /\ node' = [node EXCEPT ![p] = t] /\ NodeInv(p, t, sim[p])
               /\ Hears(s, heard, wrong, t)
  BY InputsEffects
<1>2. sim' = sim /\ last < node[Host].next
  BY InputsEffects
<1>3. /\ p \in Process /\ Host \in Process /\ NodeInv(p, s, sim[p]) /\ Ground(p, s, sim[p])
      /\ s.next \in Nat /\ node[Host].next \in Nat
  BY DEF IInv, GroundInv, Process, NodeInv, Sound, NodeFields
<1>4. last \in Nat /\ last <= s.next + InputDelay
  <2>1. node[Host].next <= s.next + InputDelay + 1
    BY DEF GroundInv, HostIsNear
  <2> QED
    BY <1>2, <1>3, <2>1, BoundAssumption
<1>5. /\ heard = {f \in last - InputHistory .. last : f >= s.base}
      /\ wrong = {f \in heard : Guess(f) \in sim[p]}
  BY DEF Heard, WronglyGuessed
<1> HIDE DEF s, heard, wrong
<1>6. Ground(p, t, sim[p])
  BY <1>1, <1>3, <1>4, <1>5, HearGrounds
<1>7. t.next = node[p].next
  BY <1>1 DEF Hears, s
<1> QED
  BY <1>1, <1>2, <1>3, <1>6, <1>7, GroundOfOneStanding

LEMMA HashesGround ==
    ASSUME IInv, GroundInv, NEW n \in Process, NEW r \in hashes, HandleLockstepHashPacket(n, r)
    PROVE  GroundInv'
<1> DEFINE s == node[n]
           c == CompareLockstepHash(n, s, r)
           q == QueuePending(s, r)
<1>1. /\ NodeInv(n, s, sim[n]) /\ Ground(n, s, sim[n]) /\ r \in Sample /\ s \in NodeFields
  BY DEF IInv, GroundInv
<1>2. /\ node' = [node EXCEPT ![n] = IF Local(s, r.frame) # {} THEN c ELSE q]
      /\ sim' = sim /\ r.peer # n
  BY DEF HandleLockstepHashPacket
<1> HIDE DEF s
<1>3. NodeInv(n, c, sim[n]) /\ Ground(n, c, sim[n]) /\ c.next = s.next
  <2>1. Compares(n, s, c)
    BY <1>1, <1>2, CompareCompares DEF NodeInv
  <2> HIDE DEF c
  <2>2. NodeInv(n, c, sim[n])
    BY <1>1, <2>1, ComparesKeeps
  <2>3. SamePlaces(s, c) /\ AsksForMore(s, c)
    BY <2>1 DEF Compares, SameTimeline, SamePlaces
  <2>4. Ground(n, c, sim[n])
    BY <1>1, <2>2, <2>3, AskingGrounds
  <2> QED
    BY <2>2, <2>3, <2>4 DEF SamePlaces
<1>4. ASSUME Local(s, r.frame) = {}
      PROVE  NodeInv(n, q, sim[n]) /\ Ground(n, q, sim[n]) /\ q.next = s.next
  <2>1. NodeInv(n, q, sim[n])
    BY <1>1, <1>2, <1>4, QueueKeeps
  <2>2. SamePlaces(s, q) /\ q.rollback = s.rollback
    BY <1>1 DEF QueuePending, SamePlaces, NodeFields
  <2> HIDE DEF q
  <2>3. Ground(n, q, sim[n])
    BY <1>1, <2>2, SameGround
  <2> QED
    BY <2>1, <2>2, <2>3 DEF SamePlaces
<1> HIDE DEF c, q
<1>5. CASE Local(s, r.frame) # {}
  BY <1>2, <1>3, <1>5, GroundOfOneStanding DEF s
<1>6. CASE Local(s, r.frame) = {}
  BY <1>2, <1>4, <1>6, GroundOfOneStanding DEF s
<1> QED
  BY <1>5, <1>6

LEMMA RequestGround ==
    ASSUME IInv, GroundInv, NEW p \in Peer, HandleSnapshotResyncRequest(p)
    PROVE  GroundInv'
<1> DEFINE s == node[Host]
           t == StartResync(Host, s, p)
<1>1. /\ Host \in Process /\ s \in NodeFields /\ Ground(Host, s, sim[Host])
      /\ node \in [Process -> NodeFields]
  BY DEF IInv, GroundInv, Process
<1>2. node' = [node EXCEPT ![Host] = t] /\ sim' = sim
  BY DEF HandleSnapshotResyncRequest
<1>3. SamePlaces(s, t) /\ t.rollback = s.rollback
  BY <1>1 DEF StartResync, SamePlaces, NodeFields
<1>4. IInv'
  BY RequestStep
<1>5. t = node'[Host]
  BY <1>1, <1>2
<1> HIDE DEF t
<1>6. NodeInv(Host, t, sim[Host])
  BY <1>1, <1>2, <1>4, <1>5 DEF IInv
<1>7. Ground(Host, t, sim[Host])
  <2> HIDE DEF s
  <2> QED
    BY <1>1, <1>3, SameGround
<1>8. t.next = node[Host].next
  BY <1>3 DEF SamePlaces
<1> QED
  BY <1>1, <1>2, <1>6, <1>7, <1>8, GroundOfOneStanding

LEMMA RepairGround ==
    ASSUME IInv, GroundInv, BatchCoversWindow, NEW p \in Peer, RepairBySnapshot(p)
    PROVE  GroundInv'
<1> DEFINE s == node[p]
           h == node[Host]
           t == node'[p]
           g == node'[Host]
<1>1. /\ Host \in Process /\ p \in Process /\ p # Host
      /\ node \in [Process -> NodeFields] /\ sim \in [Process -> SUBSET Flaw]
      /\ NodeInv(Host, h, sim[Host]) /\ Ground(Host, h, sim[Host]) /\ Ground(p, s, sim[p])
  BY ProcessAssumption DEF IInv, GroundInv, Process
<1>2. s \in NodeFields /\ h \in NodeFields /\ h.next \in Nat
  BY <1>1 DEF NodeFields
<1>3. /\ t.next = h.next /\ t.base = h.next /\ t.canonical = {} /\ t.rollback = NoFrame
      /\ t.saved = {} /\ t.window = s.window
      /\ SamePlaces(h, g) /\ g.rollback = h.rollback
      /\ sim'[p] = sim[Host] /\ sim'[Host] = sim[Host]
  BY <1>1, <1>2 DEF RepairBySnapshot, SamePlaces, NodeFields
<1>4. \A m \in Process \ {Host, p} : node'[m] = node[m] /\ sim'[m] = sim[m]
  BY <1>1 DEF RepairBySnapshot
<1> HIDE DEF s, h, t, g
<1>5. Ground(p, t, sim[Host])
  <2>1. t.base .. t.next - 1 = {}
    BY <1>2, <1>3
  <2> QED
    BY <1>1, <1>3, <2>1 DEF Ground
<1>6. Ground(Host, g, sim[Host])
  BY <1>1, <1>3, SameGround
<1>7. ASSUME NEW m \in Process PROVE Ground(m, node'[m], sim'[m])
  <2>1. CASE m = Host
    BY <1>3, <1>6, <2>1 DEF g
  <2>2. CASE m = p
    BY <1>3, <1>5, <2>2 DEF t
  <2>3. CASE m \notin {Host, p}
    <3>1. node'[m] = node[m] /\ sim'[m] = sim[m]
      BY <1>4, <2>3
    <3> QED
      BY <3>1 DEF GroundInv
  <2> QED
    BY <2>1, <2>2, <2>3
<1>8. ASSUME NEW q \in Peer PROVE node'[Host].next <= node'[q].next + InputDelay + 1
  <2>1. node'[Host].next = h.next
    BY <1>3 DEF SamePlaces, g
  <2>2. CASE q = p
    BY <1>2, <1>3, <2>1, <2>2, BoundAssumption DEF t
  <2>3. CASE q # p
    <3>1. q \in Process \ {Host, p}
      BY <2>3, ProcessAssumption DEF Process
    <3>2. node'[q].next = node[q].next
      BY <1>4, <3>1
    <3> QED
      BY <2>1, <3>2 DEF GroundInv, HostIsNear, h
  <2> QED
    BY <2>2, <2>3
<1> QED
  BY <1>7, <1>8 DEF GroundInv, HostIsNear

LEMMA InitiallyGround == ASSUME BatchCoversWindow PROVE Init => GroundInv
<1> SUFFICES ASSUME Init PROVE GroundInv
  OBVIOUS
<1>1. /\ Host \in Process /\ \A p \in Peer : p \in Process
      /\ Window \in Nat /\ Window <= InputHistory
  BY BoundAssumption DEF Process, BatchCoversWindow
<1>2. ASSUME NEW n \in Process
      PROVE  /\ node[n].next = 0 /\ node[n].window = Window /\ node[n].base = 0
             /\ node[n].canonical = {} /\ node[n].rollback = NoFrame /\ node[n].saved = {}
             /\ sim[n] = {}
  BY DEF Init
<1>3. ASSUME NEW n \in Process PROVE Ground(n, node[n], sim[n])
  <2>1. node[n].base .. node[n].next - 1 = {}
    BY <1>2
  <2> QED
    BY <1>1, <1>2, <2>1 DEF Ground
<1>4. HostIsNear
  BY <1>1, <1>2, BoundAssumption DEF HostIsNear
<1> QED
  BY <1>3, <1>4 DEF GroundInv

LEMMA StepKeepsGround ==
    ASSUME BatchCoversWindow
    PROVE  /\ IInv /\ GroundInv /\ [Next]_vars
           /\ [\A n \in Process : node[n].window <= node'[n].window]_vars
           => GroundInv'
<1> SUFFICES ASSUME IInv, GroundInv, [Next]_vars,
                    [\A n \in Process : node[n].window <= node'[n].window]_vars
             PROVE  GroundInv'
  OBVIOUS
<1>1. CASE UNCHANGED vars
  BY <1>1 DEF vars, GroundInv, HostIsNear
<1>2. CASE Next /\ \A n \in Process : node[n].window <= node'[n].window
  <2>1. ASSUME NEW n \in Process, NEW w \in Windows, ApplyPendingLockstepSettings(n, w)
        PROVE  GroundInv'
    BY <1>2, <2>1, SettingsGround
  <2>2. ASSUME NEW n \in Process, TickWithoutStep(n) PROVE GroundInv'
    BY <2>2, WaitGround
  <2>3. ASSUME NEW n \in Process, Replays(n) PROVE GroundInv'
    BY <2>3, ReplayGround DEF Replays
  <2>4. ASSUME NEW n \in Process, Steps(n) PROVE GroundInv'
    BY <2>4, StepGround DEF Steps
  <2>5. ASSUME NEW n \in Process, Receives(n) PROVE GroundInv'
    BY <2>5, HashesGround DEF Receives
  <2>6. ASSUME NEW p \in Peer, NEW f \in 0 .. MaxFrame, HandleInputFrameRecords(p, f)
        PROVE  GroundInv'
    BY <2>6, InputsGround
  <2>7. ASSUME NEW p \in Peer, HandleSnapshotResyncRequest(p) PROVE GroundInv'
    BY <2>7, RequestGround
  <2>8. ASSUME NEW p \in Peer, RepairBySnapshot(p) PROVE GroundInv'
    BY <2>8, RepairGround
  <2> QED
    BY <1>2, <2>1, <2>2, <2>3, <2>4, <2>5, <2>6, <2>7, <2>8 DEF Next
<1> QED
  BY <1>1, <1>2

\* As long as no change of the settings makes the window smaller, and the
\* windows stay within the inputs that are sent again (kInputHistoryFrames),
\* every rollback that is asked for finds its snapshot until it is replayed: a
\* late input never ends in a snapshot of the host for want of one
\* (RequestRollbackFromFrame, FindRollbackSnapshot, PruneRollbackSnapshots).
\* Both conditions are needed: model checking refutes the property without
\* either.
THEOREM RollbacksFindTheirSnapshot ==
    ASSUME BatchCoversWindow
    PROVE  Spec /\ WindowNeverShrinks => []RequestedSnapshotExists
<1>1. Init => GroundInv
  BY InitiallyGround
<1>2. /\ IInv /\ GroundInv /\ [Next]_vars
      /\ [\A n \in Process : node[n].window <= node'[n].window]_vars
      => GroundInv'
  BY StepKeepsGround
<1>3. GroundInv => RequestedSnapshotExists
  BY DEF GroundInv, Ground, RequestedSnapshotExists
<1> QED
  BY <1>1, <1>2, <1>3, AlwaysIInv, PTL DEF Spec, WindowNeverShrinks

=============================================================================
