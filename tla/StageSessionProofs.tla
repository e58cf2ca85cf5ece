-------------------------- MODULE StageSessionProofs --------------------------
(***************************************************************************)
(* Proofs about StageSession, for every set of peers, of whom any may join *)
(* late, and every delay, window and placing of the exits.  What must be   *)
(* assumed of users and network is a hypothesis of the theorem.            *)
(***************************************************************************)
EXTENDS StageSession, WellFoundedInduction, TLAPS

-----------------------------------------------------------------------------
(* Numbers.                                                                *)

LEMMA MaxOfTwo ==
    ASSUME NEW a \in Int, NEW b \in Int
    PROVE  /\ Max({a, b}) \in {a, b}
           /\ Max({a, b}) >= a /\ Max({a, b}) >= b
<1>1. \E x \in {a, b} : \A y \in {a, b} : x >= y
  <2>1. CASE a >= b
    BY <2>1
  <2>2. CASE b >= a
    BY <2>2
  <2> QED
    BY <2>1, <2>2
<1>2. Max({a, b}) \in {a, b} /\ \A y \in {a, b} : Max({a, b}) >= y
  BY <1>1 DEF Max
<1> QED
  BY <1>2

LEMMA MinOfNaturals ==
    ASSUME NEW S \in SUBSET Nat, S # {}
    PROVE  Min(S) \in S /\ \A y \in S : Min(S) <= y
<1> DEFINE R == {r \in Nat \X Nat : r[1] < r[2]}
<1>1. IsWellFoundedOn(R, Nat)
  BY NatLessThanWellFounded DEF OpToRel
<1>2. PICK x \in S : \A y \in S : ~(<<y, x>> \in R)
  BY <1>1, WFMin
<1>3. ASSUME NEW y \in S PROVE x <= y
  <2>1. <<y, x>> \in Nat \X Nat /\ ~(<<y, x>> \in R)
    BY <1>2
  <2> QED
    BY <2>1
<1> QED
  BY <1>3 DEF Min

LEMMA OverrunIsPositive ==
    Overrun \in Nat /\ Overrun >= 1 /\ Overrun >= Window - InputDelay + 1
<1>1. Window - InputDelay \in Int
  BY BoundAssumption
<1>2. /\ Max({Window - InputDelay, 0}) \in {Window - InputDelay, 0}
      /\ Max({Window - InputDelay, 0}) >= Window - InputDelay
      /\ Max({Window - InputDelay, 0}) >= 0
  BY <1>1, MaxOfTwo
<1> QED
  BY <1>1, <1>2 DEF Overrun

\* The frames all of whose inputs a process has.
LEMMA KnownIsLeast ==
    ASSUME NEW n \in Process, joined \subseteq Process, heard \in [Process -> [Process -> Nat]]
    PROVE  /\ Known(n) \in Nat
           /\ \A m \in Others(n) : Known(n) <= heard[n][m]
           /\ Others(n) # {} => \E m \in Others(n) : Known(n) = heard[n][m]
           /\ Others(n) = {} => Known(n) = Never + Window
<1> DEFINE S == {heard[n][m] : m \in Others(n)}
<1>1. S \in SUBSET Nat
  BY DEF Others
<1>2. CASE Others(n) = {}
  BY <1>2, BoundAssumption DEF Known, Never
<1>3. CASE Others(n) # {}
  <2>1. S # {} /\ Known(n) = Min(S)
    BY <1>3 DEF Known
  <2> HIDE DEF S
  <2>2. Min(S) \in S /\ \A y \in S : Min(S) <= y
    BY <1>1, <2>1, MinOfNaturals
  <2> QED
    BY <1>1, <1>3, <2>1, <2>2 DEF S
<1> QED
  BY <1>2, <1>3

LEMMA KnownNext ==
    ASSUME NEW n \in Process, joined' \subseteq Process,
           heard' \in [Process -> [Process -> Nat]]
    PROVE  /\ Known(n)' \in Nat
           /\ Others(n)' # {} => \E m \in Others(n)' : Known(n)' = heard'[n][m]
<1> DEFINE S == {heard'[n][m] : m \in Others(n)'}
<1>1. S \in SUBSET Nat
  BY DEF Others
<1>2. CASE Others(n)' = {}
  BY <1>2, BoundAssumption DEF Known, Never
<1>3. CASE Others(n)' # {}
  <2>1. S # {} /\ Known(n)' = Min(S)
    BY <1>3 DEF Known
  <2> HIDE DEF S
  <2>2. Min(S) \in S
    BY <1>1, <2>1, MinOfNaturals
  <2> QED
    BY <1>1, <1>3, <2>1, <2>2 DEF S
<1> QED
  BY <1>2, <1>3

-----------------------------------------------------------------------------
(* Types.  With them go the modes, which transitions belong to them, and   *)
(* the initial state of those who have not joined.                         *)

LEMMA NoLog == <<>> \in Seq(Entered) /\ Len(<<>>) = 0
  OBVIOUS

ModesOf(n) ==
    /\ Len(node[n].log) < MaxStage
    /\ node[n].mode = "Title" =>
          node[n].log = <<>> /\ node[n].transition = Nothing /\ node[n].next = 0
    /\ node[n].mode = "Playing" => node[n].transition = Nothing /\ node[n].log # <<>>
    /\ node[n].mode = "StageTransition" => node[n].transition # Nothing
    /\ restart[n].queued =>
          /\ restart[n].pending /\ ~restart[n].applied
          /\ node[n].mode = "StageTransition"
          /\ node[n].transition = Restart(restart[n].last)
    /\ n \notin joined =>
          /\ node[n].log = <<>> /\ node[n].transition = Nothing
          /\ restart[n] = NoRestart
          /\ n \in Peer => packets[n] = {}

Modes == \A n \in Process : ModesOf(n)

Typed == TypeOK /\ Modes

LEMMA TypesAtFirst == Init => Typed
<1> SUFFICES ASSUME Init PROVE Typed
  OBVIOUS
<1>1. joined \subseteq Process /\ Host \in joined
  BY ProcessAssumption DEF Init, Process
<1>2. node \in [Process -> [mode : {"Title", "Playing", "StageTransition"},
          log : Seq(Entered), next : Frame, rollback : Frame \cup {NoFrame},
          transition : Entered \cup {Nothing}]]
  BY NoLog DEF Init, Frame
<1>3. restart \in [Process -> [pending : BOOLEAN, queued : BOOLEAN, applied : BOOLEAN,
          next : Nat, last : Nat, at : Frame]]
  BY DEF Init, NoRestart, Frame
<1>4. settings \in [Process -> [inForce : Nat, pending : Nat, at : Frame, next : Nat,
          lastApplied : Nat, broadcast : SUBSET Packet]]
  BY DEF Init, NoSettings, Frame
<1>5. made \in [Process -> [Stage -> Nat]]
  BY BoundAssumption DEF Init
<1>6. heard \in [Process -> [Process -> Nat]]
  BY DEF Init, NoneHeard
<1>7. packets \in [Peer -> SUBSET Packet]
  BY DEF Init
<1>8. exitAt \in [Stage -> Nat]
  <2>1. ExitFrames \cup {Never} \subseteq Nat
    BY BoundAssumption DEF Never
  <2> QED
    BY <2>1 DEF Init
<1>9. Modes
  BY NoLog, BoundAssumption DEF Init, Modes, ModesOf, NoRestart
<1> QED
  BY <1>1, <1>2, <1>3, <1>4, <1>5, <1>6, <1>7, <1>8, <1>9 DEF Typed, TypeOK, Init, NoRestart

NodeRecord == [mode : {"Title", "Playing", "StageTransition"},
               log : Seq(Entered), next : Frame, rollback : Frame \cup {NoFrame},
               transition : Entered \cup {Nothing}]
RestartRecord == [pending : BOOLEAN, queued : BOOLEAN, applied : BOOLEAN,
                  next : Nat, last : Nat, at : Frame]
SettingsRecord == [inForce : Nat, pending : Nat, at : Frame, next : Nat,
                   lastApplied : Nat, broadcast : SUBSET Packet]

LEMMA Stages ==
    ASSUME Typed, NEW n \in Process
    PROVE  /\ node[n] \in NodeRecord /\ restart[n] \in RestartRecord
           /\ settings[n] \in SettingsRecord
           /\ StageOf(n) \in Stage /\ StageOf(n) = Len(node[n].log) + 1
           /\ Len(node[n].log) \in Nat /\ exitAt[StageOf(n)] \in Nat
<1>1. node[n] \in NodeRecord /\ restart[n] \in RestartRecord /\ settings[n] \in SettingsRecord
  BY DEF Typed, TypeOK, NodeRecord, RestartRecord, SettingsRecord
<1>2. Len(node[n].log) \in Nat
  BY <1>1 DEF NodeRecord
<1>3. StageOf(n) \in Stage
  BY <1>2, BoundAssumption DEF Typed, Modes, ModesOf, StageOf, Stage
<1> QED
  BY <1>1, <1>2, <1>3 DEF StageOf, Typed, TypeOK

LEMMA SendTyped ==
    ASSUME Typed, NEW sent \in SUBSET Packet, Send(sent)
    PROVE  /\ packets' \in [Peer -> SUBSET Packet]
           /\ \A p \in Peer : p \notin joined => packets'[p] = packets[p]
  BY DEF Typed, TypeOK, Send

LEMMA AnnouncedTyped ==
    ASSUME NEW r \in RestartRecord, NEW i \in Stage
    PROVE  Announced(r, i) \in SUBSET Packet
  BY DEF Announced, Packet, RestartRecord

\* A restart that is stored.
LEMMA Stored ==
    ASSUME NEW r \in RestartRecord, NEW k \in Nat, NEW f \in Nat
    PROVE  LET s == StorePendingRestart(r, k, f)
           IN  /\ s \in RestartRecord
               /\ s.pending /\ ~s.queued /\ ~s.applied
               /\ s.next = r.next /\ s.last = k /\ s.at = f
  BY DEF StorePendingRestart, RestartRecord, Frame

\* A request of the host, for a start or for a restart.
LEMMA AskActs ==
    ASSUME Typed, NEW f \in Nat, Ask(restart[Host].next, f)
    PROVE  /\ restart' \in [Process -> RestartRecord]
           /\ LET r == restart'[Host]
              IN  /\ r.pending /\ ~r.queued /\ ~r.applied
                  /\ r.next = restart[Host].next + 1 /\ r.last = restart[Host].next /\ r.at = f
           /\ \A n \in Process : n # Host => restart'[n] = restart[n]
           /\ packets' = [p \in Peer |-> packets[p] \cup
                   (IF p \in joined
                    THEN {[kind |-> "Restart", stage |-> StageOf(Host),
                           seq |-> restart[Host].next, at |-> f]}
                    ELSE {})]
           /\ UNCHANGED <<node, settings, joined, made, heard, exitAt>>
<1> DEFINE r == restart[Host]
           s == StorePendingRestart(r, r.next, f)
<1>1. Host \in Process
  BY DEF Process
<1>2. r \in RestartRecord /\ r.next \in Nat /\ restart \in [Process -> RestartRecord]
  BY <1>1 DEF Typed, TypeOK, RestartRecord
<1>3. /\ s \in RestartRecord
      /\ s.pending /\ ~s.queued /\ ~s.applied
      /\ s.next = r.next /\ s.last = r.next /\ s.at = f
  BY <1>2, Stored
<1>4. restart' = [restart EXCEPT ![Host] = [s EXCEPT !.next = r.next + 1]]
  BY DEF Ask
<1>5. Send(Announced(restart'[Host], StageOf(Host)))
  BY DEF Ask
<1>6. UNCHANGED <<node, settings, joined, made, heard, exitAt>>
  BY DEF Ask
<1> HIDE DEF s, r
<1>7. restart'[Host] = [s EXCEPT !.next = r.next + 1]
  BY <1>1, <1>2, <1>4
<1>8. /\ restart'[Host] \in RestartRecord
      /\ LET q == restart'[Host]
         IN  /\ q.pending /\ ~q.queued /\ ~q.applied
             /\ q.next = r.next + 1 /\ q.last = r.next /\ q.at = f
  BY <1>2, <1>3, <1>7 DEF RestartRecord
<1>9. restart' \in [Process -> RestartRecord] /\ \A n \in Process : n # Host => restart'[n] = restart[n]
  BY <1>1, <1>2, <1>4, <1>7, <1>8
<1>10. Announced(restart'[Host], StageOf(Host))
          = {[kind |-> "Restart", stage |-> StageOf(Host), seq |-> r.next, at |-> f]}
  BY <1>8 DEF Announced
<1> QED
  BY <1>5, <1>6, <1>8, <1>9, <1>10 DEF Send, r

LEMMA AskTyped ==
    ASSUME Typed, NEW f \in Nat, Ask(restart[Host].next, f)
    PROVE  Typed'
<1>1. Host \in Process /\ Host \notin Peer
  BY ProcessAssumption DEF Process
<1>2. /\ restart' \in [Process -> RestartRecord]
      /\ ~restart'[Host].queued
      /\ \A n \in Process : n # Host => restart'[n] = restart[n]
      /\ UNCHANGED <<node, settings, joined, made, heard, exitAt>>
  BY AskActs
<1> DEFINE m == [kind |-> "Restart", stage |-> StageOf(Host),
                 seq |-> restart[Host].next, at |-> f]
<1>3. m \in Packet
  BY <1>1, Stages DEF Packet, RestartRecord, Frame
<1>4. /\ packets' \in [Peer -> SUBSET Packet]
      /\ \A p \in Peer : p \notin joined => packets'[p] = packets[p]
  <2>1. packets' = [p \in Peer |-> packets[p] \cup (IF p \in joined THEN {m} ELSE {})]
    BY AskActs
  <2> HIDE DEF m
  <2> QED
    BY <1>3, <2>1 DEF Typed, TypeOK
<1>5. \A n \in Process : restart'[n].queued => restart'[n] = restart[n]
  BY <1>2
<1>6. TypeOK'
  <2>1. \A n \in Process : restart'[n].queued => node'[n].transition = Restart(restart'[n].last)
    BY <1>2, <1>5 DEF Typed, TypeOK
  <2> QED
    BY <1>2, <1>4, <2>1 DEF Typed, TypeOK, RestartRecord
<1>7. \A n \in Process : n \notin joined => restart'[n] = restart[n]
  BY <1>2 DEF Typed, TypeOK
<1>8. Modes'
  BY <1>2, <1>4, <1>5, <1>7 DEF Typed, Modes, ModesOf
<1> QED
  BY <1>6, <1>8 DEF Typed

\* A peer hears of a restart.
LEMMA HearActs ==
    ASSUME Typed, NEW p \in Peer, NEW m \in packets[p], HandleRunRestartPacket(p, m)
    PROVE  /\ p \in joined /\ p \in Process /\ m \in Packet /\ m.kind = "Restart"
           /\ RestartIsNew(restart[p], m) /\ RestartFrame(p, m) \in Nat
           /\ m.at = 0 => RestartFrame(p, m) = 0
           /\ m.at # 0 /\ node[p].next < m.at => RestartFrame(p, m) = m.at
           /\ restart' \in [Process -> RestartRecord]
           /\ LET r == restart'[p]
              IN  /\ r.pending /\ ~r.queued /\ ~r.applied
                  /\ r.next = restart[p].next /\ r.last = m.seq /\ r.at = RestartFrame(p, m)
           /\ \A n \in Process : n # p => restart'[n] = restart[n]
           /\ UNCHANGED <<node, settings, joined, made, heard, packets, exitAt>>
<1>1. p \in Process /\ m \in Packet
  BY DEF Process, Typed, TypeOK
<1>2. m.at \in Nat /\ m.seq \in Nat /\ node[p].next \in Nat /\ restart[p] \in RestartRecord
  BY <1>1, Stages DEF Packet, Frame, NodeRecord
<1>3. /\ Max({m.at, node[p].next + 1}) \in {m.at, node[p].next + 1}
      /\ Max({m.at, node[p].next + 1}) >= m.at
      /\ Max({m.at, node[p].next + 1}) >= node[p].next + 1
  <2>1. m.at \in Int /\ node[p].next + 1 \in Int
    BY <1>2
  <2> QED
    BY <2>1, MaxOfTwo
<1>4. /\ RestartFrame(p, m) \in Nat
      /\ m.at = 0 => RestartFrame(p, m) = 0
      /\ m.at # 0 /\ node[p].next < m.at => RestartFrame(p, m) = m.at
  BY <1>2, <1>3 DEF RestartFrame
<1> DEFINE f == RestartFrame(p, m)
           k == m.seq
           q == restart[p]
           s == StorePendingRestart(q, k, f)
<1>5. /\ s \in RestartRecord
      /\ s.pending /\ ~s.queued /\ ~s.applied
      /\ s.next = q.next /\ s.last = k /\ s.at = f
  <2>1. f \in Nat /\ k \in Nat /\ q \in RestartRecord
    BY <1>2, <1>4
  <2> HIDE DEF f, k, q
  <2> QED
    BY <2>1, Stored
<1>6. restart' = [restart EXCEPT ![p] = s]
  BY DEF HandleRunRestartPacket
<1> HIDE DEF s
<1>7. restart \in [Process -> RestartRecord]
  BY DEF Typed, TypeOK, RestartRecord
<1>8. restart' \in [Process -> RestartRecord] /\ restart'[p] = s
  BY <1>1, <1>5, <1>6, <1>7
<1>9. \A n \in Process : n # p => restart'[n] = restart[n]
  BY <1>6, <1>7
<1>10. p \in joined /\ m.kind = "Restart" /\ RestartIsNew(restart[p], m)
  BY DEF HandleRunRestartPacket
<1>11. UNCHANGED <<node, settings, joined, made, heard, packets, exitAt>>
  BY DEF HandleRunRestartPacket
<1> HIDE DEF HandleRunRestartPacket
<1> QED
  BY <1>1, <1>4, <1>5, <1>8, <1>9, <1>10, <1>11

LEMMA HearTyped ==
    ASSUME Typed, NEW p \in Peer, NEW m \in packets[p], HandleRunRestartPacket(p, m)
    PROVE  Typed'
<1>1. /\ p \in joined /\ restart' \in [Process -> RestartRecord]
      /\ ~restart'[p].queued
      /\ \A n \in Process : n # p => restart'[n] = restart[n]
      /\ UNCHANGED <<node, settings, joined, made, heard, packets, exitAt>>
  BY HearActs
<1>2. \A n \in Process : restart'[n].queued => restart'[n] = restart[n]
  BY <1>1
<1>3. TypeOK'
  <2>1. \A n \in Process : restart'[n].queued => node'[n].transition = Restart(restart'[n].last)
    BY <1>1, <1>2 DEF Typed, TypeOK
  <2> QED
    BY <1>1, <2>1 DEF Typed, TypeOK, RestartRecord
<1>4. \A n \in Process : n \notin joined => restart'[n] = restart[n]
  BY <1>1
<1>5. Modes'
  BY <1>1, <1>2, <1>4 DEF Typed, Modes, ModesOf
<1> QED
  BY <1>3, <1>5 DEF Typed

\* A restart is due.
LEMMA DueActs ==
    ASSUME Typed, NEW n \in Process, ApplyDueRunRestart(n)
    PROVE  /\ n \in joined /\ RestartIsDue(n)
           /\ node' \in [Process -> NodeRecord] /\ restart' \in [Process -> RestartRecord]
           /\ node'[n].mode = "StageTransition"
           /\ node'[n].transition = Restart(restart[n].last)
           /\ node'[n].log = node[n].log /\ node'[n].next = node[n].next
           /\ node'[n].rollback = node[n].rollback
           /\ LET r == restart'[n]
              IN  /\ r.pending /\ r.queued /\ ~r.applied
                  /\ r.next = restart[n].next /\ r.last = restart[n].last /\ r.at = restart[n].at
           /\ \A m \in Process : m # n => node'[m] = node[m] /\ restart'[m] = restart[m]
           /\ UNCHANGED <<settings, joined, made, heard, packets, exitAt>>
<1>1. node \in [Process -> NodeRecord] /\ restart \in [Process -> RestartRecord]
  BY DEF Typed, TypeOK, NodeRecord, RestartRecord
<1>2. Restart(restart[n].last) \in Entered
  BY <1>1 DEF Restart, Entered, RestartRecord, Frame
<1>3. /\ n \in joined /\ RestartIsDue(n)
      /\ restart[n].pending /\ ~restart[n].queued /\ ~restart[n].applied
      /\ UNCHANGED <<settings, joined, made, heard, packets, exitAt>>
  BY DEF ApplyDueRunRestart, RestartIsDue
<1>4. node' = [node EXCEPT ![n] = [@ EXCEPT !.mode = "StageTransition",
                                            !.transition = Restart(restart[n].last)]]
  BY <1>1 DEF ApplyDueRunRestart, NodeRecord
<1>5. restart' = [restart EXCEPT ![n] = [@ EXCEPT !.queued = TRUE]]
  BY <1>1 DEF ApplyDueRunRestart, RestartRecord
<1>6. /\ node' \in [Process -> NodeRecord]
      /\ node'[n].mode = "StageTransition"
      /\ node'[n].transition = Restart(restart[n].last)
      /\ node'[n].log = node[n].log /\ node'[n].next = node[n].next
      /\ node'[n].rollback = node[n].rollback
      /\ \A m \in Process : m # n => node'[m] = node[m]
  BY <1>1, <1>2, <1>4 DEF NodeRecord
<1>7. /\ restart' \in [Process -> RestartRecord]
      /\ LET r == restart'[n]
         IN  /\ r.pending = restart[n].pending /\ r.queued /\ r.applied = restart[n].applied
             /\ r.next = restart[n].next /\ r.last = restart[n].last /\ r.at = restart[n].at
      /\ \A m \in Process : m # n => restart'[m] = restart[m]
  BY <1>1, <1>5 DEF RestartRecord
<1> QED
  BY <1>3, <1>6, <1>7

LEMMA DueTyped ==
    ASSUME Typed, NEW n \in Process, ApplyDueRunRestart(n)
    PROVE  Typed'
<1>1. /\ n \in joined
      /\ node' \in [Process -> NodeRecord] /\ restart' \in [Process -> RestartRecord]
      /\ node'[n].mode = "StageTransition"
      /\ node'[n].transition = Restart(restart[n].last)
      /\ node'[n].log = node[n].log
      /\ LET r == restart'[n]
         IN  r.pending /\ r.queued /\ ~r.applied /\ r.last = restart[n].last
      /\ \A m \in Process : m # n => node'[m] = node[m] /\ restart'[m] = restart[m]
      /\ UNCHANGED <<settings, joined, made, heard, packets, exitAt>>
  BY DueActs
<1>2. Restart(restart[n].last) # Nothing
  BY Stages, BoundAssumption DEF Restart, RestartRecord
<1>3. TypeOK'
  <2>1. \A m \in Process : restart'[m].queued => node'[m].transition = Restart(restart'[m].last)
    BY <1>1 DEF Typed, TypeOK
  <2> QED
    BY <1>1, <2>1 DEF Typed, TypeOK, RestartRecord, NodeRecord
<1>4. Modes'
  BY <1>1, <1>2 DEF Typed, Modes, ModesOf
<1> QED
  BY <1>3, <1>4 DEF Typed

\* A frame is stepped.
From(n) == IF node[n].rollback = NoFrame THEN node[n].next ELSE node[n].rollback

LEMMA ExitsTyped ==
    ASSUME Typed, NEW n \in Process, NEW e \in Exits(n, From(n))
    PROVE  e \in Nat /\ Exit(e) \in Entered /\ Exit(e) # Nothing
<1>1. exitAt[StageOf(n)] \in Nat /\ node[n].next \in Nat /\ Known(n) \in Nat /\ Never \in Nat
  <2>1. exitAt[StageOf(n)] \in Nat /\ node[n].next \in Nat
    BY Stages DEF NodeRecord, Frame
  <2>2. Known(n) \in Nat
    BY KnownIsLeast DEF Typed, TypeOK
  <2> QED
    BY <2>1, <2>2, BoundAssumption DEF Never
<1>2. e \in Nat
  BY <1>1 DEF Exits
<1> QED
  BY <1>2, BoundAssumption DEF Exit, Entered, Frame

LEMMA StepActs ==
    ASSUME Typed, NEW n \in Process, StepFrame(n)
    PROVE  /\ n \in joined /\ node[n].mode = "Playing" /\ ~RestartIsDue(n) /\ CanStep(n)
           /\ CanBuild(n) /\ node[n].next + 1 <= MaxFrame + 1
           /\ "margin" \in Assumed => RestartIsHeard(n)
           /\ node' \in [Process -> NodeRecord] /\ restart' \in [Process -> RestartRecord]
           /\ node'[n].log = node[n].log /\ node'[n].next = node[n].next + 1
           /\ node'[n].rollback = NoFrame
           /\ \E e \in Exits(n, From(n)) :
                 IF e = Never
                 THEN node'[n].mode = "Playing" /\ node'[n].transition = Nothing
                 ELSE /\ node'[n].mode = "StageTransition"
                      /\ node'[n].transition = Exit(e) /\ Exit(e) # Nothing
           /\ LET r == restart'[n]
              IN  /\ r.pending => restart[n].pending
                  /\ restart[n].pending /\ ~restart[n].applied => r.pending
                  /\ restart[n].pending /\ n # Host => r.pending
                  /\ r.queued = restart[n].queued /\ r.applied = restart[n].applied
                  /\ r.next = restart[n].next /\ r.last = restart[n].last /\ r.at = restart[n].at
           /\ \A m \in Process : m # n => node'[m] = node[m] /\ restart'[m] = restart[m]
           /\ made' \in [Process -> [Stage -> Nat]]
           /\ UNCHANGED <<settings, joined, heard, packets, exitAt>>
<1>1. node \in [Process -> NodeRecord] /\ restart \in [Process -> RestartRecord]
  BY DEF Typed, TypeOK, NodeRecord, RestartRecord
<1>2. /\ n \in joined /\ node[n].mode = "Playing" /\ ~RestartIsDue(n) /\ CanStep(n)
      /\ CanBuild(n) /\ node[n].next + 1 <= MaxFrame + 1
      /\ "margin" \in Assumed => RestartIsHeard(n)
      /\ UNCHANGED <<settings, joined, heard, packets, exitAt>>
  BY DEF StepFrame
<1>3. node[n].transition = Nothing
  BY <1>2 DEF Typed, Modes, ModesOf
<1> DEFINE mode(e) == IF e = Never THEN node[n].mode ELSE "StageTransition"
           left(e) == IF e = Never THEN node[n].transition ELSE Exit(e)
<1>4. PICK e \in Exits(n, From(n)) :
          node' = [node EXCEPT ![n] = [node[n] EXCEPT
                  !.next = node[n].next + 1, !.rollback = NoFrame,
                  !.mode = mode(e), !.transition = left(e)]]
  BY DEF StepFrame, From
<1>5. Exit(e) \in Entered /\ Exit(e) # Nothing
  BY ExitsTyped
<1>6. node[n].next + 1 \in Frame
  BY <1>1 DEF NodeRecord, Frame
<1>15. /\ mode(e) \in {"Title", "Playing", "StageTransition"} /\ left(e) \in Entered \cup {Nothing}
       /\ IF e = Never
          THEN mode(e) = "Playing" /\ left(e) = Nothing
          ELSE mode(e) = "StageTransition" /\ left(e) = Exit(e)
  BY <1>2, <1>3, <1>5
<1> HIDE DEF mode, left
<1>7. /\ node' \in [Process -> NodeRecord]
      /\ node'[n].log = node[n].log /\ node'[n].next = node[n].next + 1
      /\ node'[n].rollback = NoFrame
      /\ node'[n].mode = mode(e) /\ node'[n].transition = left(e)
      /\ \A m \in Process : m # n => node'[m] = node[m]
  BY <1>1, <1>4, <1>6, <1>15 DEF NodeRecord
<1> DEFINE b == restart[n].pending /\
                ~(n = Host /\ restart[n].applied /\ node[n].next + 1 > restart[n].at)
<1>8. restart' = [restart EXCEPT ![n].pending = b]
  BY <1>1 DEF StepFrame, RestartRecord
<1>9. b \in BOOLEAN
  OBVIOUS
<1> HIDE DEF b
<1>10. /\ restart' \in [Process -> RestartRecord]
       /\ LET r == restart'[n]
          IN  /\ r.pending = b
              /\ r.queued = restart[n].queued /\ r.applied = restart[n].applied
              /\ r.next = restart[n].next /\ r.last = restart[n].last /\ r.at = restart[n].at
       /\ \A m \in Process : m # n => restart'[m] = restart[m]
  BY <1>1, <1>8, <1>9 DEF RestartRecord
<1>11. /\ b => restart[n].pending
       /\ restart[n].pending /\ ~restart[n].applied => b
       /\ restart[n].pending /\ n # Host => b
  BY DEF b
<1>12. made' \in [Process -> [Stage -> Nat]]
  <2>1. node[n].next + 1 + InputDelay + 1 \in Nat /\ StageOf(n) \in Stage
    BY <1>6, BoundAssumption, Stages DEF Frame
  <2>2. made' = [made EXCEPT ![n] = [@ EXCEPT ![StageOf(n)] = node[n].next + 1 + InputDelay + 1]]
    BY DEF StepFrame
  <2> QED
    BY <2>1, <2>2 DEF Typed, TypeOK
<1>13. restart'[n].pending => restart[n].pending
  BY <1>10, <1>11
<1>14. /\ restart[n].pending /\ ~restart[n].applied => restart'[n].pending
       /\ restart[n].pending /\ n # Host => restart'[n].pending
  BY <1>10, <1>11
<1> QED
  BY <1>2, <1>5, <1>7, <1>10, <1>12, <1>13, <1>14, <1>15

LEMMA StepTyped ==
    ASSUME Typed, NEW n \in Process, StepFrame(n)
    PROVE  Typed'
<1>1. /\ n \in joined /\ node[n].mode = "Playing"
      /\ node' \in [Process -> NodeRecord] /\ restart' \in [Process -> RestartRecord]
      /\ node'[n].log = node[n].log
      /\ \/ node'[n].mode = "Playing" /\ node'[n].transition = Nothing
         \/ node'[n].mode = "StageTransition" /\ node'[n].transition # Nothing
      /\ restart'[n].queued = restart[n].queued
      /\ \A m \in Process : m # n => node'[m] = node[m] /\ restart'[m] = restart[m]
      /\ made' \in [Process -> [Stage -> Nat]]
      /\ UNCHANGED <<settings, joined, heard, packets, exitAt>>
  BY StepActs
<1>2. ~restart'[n].queued
  BY <1>1 DEF Typed, Modes, ModesOf
<1>3. TypeOK'
  <2>1. \A m \in Process : restart'[m].queued => node'[m].transition = Restart(restart'[m].last)
    BY <1>1, <1>2 DEF Typed, TypeOK
  <2> QED
    BY <1>1, <2>1 DEF Typed, TypeOK, RestartRecord, NodeRecord
<1>4. Modes'
  BY <1>1, <1>2 DEF Typed, Modes, ModesOf
<1> QED
  BY <1>3, <1>4 DEF Typed

\* The next stage is loaded.
Loads(n) ==
    /\ restart[n].pending /\ restart[n].queued /\ ~restart[n].applied
    /\ node[n].transition = Restart(restart[n].last)

LEMMA LoadActs ==
    ASSUME Typed, NEW n \in Process, LoadStage(n)
    PROVE  /\ n \in joined /\ node[n].mode = "StageTransition" /\ ~RestartIsDue(n)
           /\ StageOf(n) < MaxStage
           /\ node[n].transition \in Entered
           /\ node' \in [Process -> NodeRecord] /\ restart' \in [Process -> RestartRecord]
           /\ node'[n].mode = "Playing" /\ node'[n].transition = Nothing
           /\ node'[n].log = Append(node[n].log, node[n].transition)
           /\ node'[n].next = 0 /\ node'[n].rollback = NoFrame
           /\ LET r == restart'[n]
              IN  /\ r.last = restart[n].last /\ r.at = restart[n].at /\ r.next = restart[n].next
                  /\ ~r.queued
                  /\ IF Loads(n)
                     THEN r.applied /\ r.pending = (n = Host)
                     ELSE r.applied = restart[n].applied /\ r.pending = restart[n].pending
           /\ \A m \in Process : m # n => node'[m] = node[m] /\ restart'[m] = restart[m]
           /\ Send(IF n = Host THEN Announced(restart'[n], StageOf(n) + 1) ELSE {})
           /\ UNCHANGED <<joined, exitAt>>
<1>1. node \in [Process -> NodeRecord] /\ restart \in [Process -> RestartRecord]
  BY DEF Typed, TypeOK, NodeRecord, RestartRecord
<1>2. /\ n \in joined /\ node[n].mode = "StageTransition" /\ ~RestartIsDue(n)
      /\ StageOf(n) < MaxStage /\ UNCHANGED <<joined, exitAt>>
  BY DEF LoadStage
<1>3. node[n].transition \in Entered
  BY <1>1, <1>2 DEF Typed, Modes, ModesOf, NodeRecord
<1> DEFINE x == [mode |-> "Playing", log |-> Append(node[n].log, node[n].transition), next |-> 0,
                 rollback |-> NoFrame, transition |-> Nothing]
           r == NotifyRunRestartStageLoaded(n, restart[n], node[n].transition)
<1>4. node' = [node EXCEPT ![n] = x] /\ restart' = [restart EXCEPT ![n] = r]
  BY DEF LoadStage
<1>5. x \in NodeRecord
  <2>1. Append(node[n].log, node[n].transition) \in Seq(Entered)
    BY <1>1, <1>3 DEF NodeRecord
  <2> QED
    BY <2>1 DEF NodeRecord, Frame
<1>6. /\ r \in RestartRecord
      /\ r.last = restart[n].last /\ r.at = restart[n].at /\ r.next = restart[n].next
      /\ ~r.queued
      /\ IF Loads(n)
         THEN r.applied /\ r.pending = (n = Host)
         ELSE r.applied = restart[n].applied /\ r.pending = restart[n].pending
  <2>1. restart[n].queued => Loads(n)
    BY DEF Typed, Modes, ModesOf, Loads
  <2>2. CASE Loads(n)
    BY <1>1, <2>2 DEF Loads, NotifyRunRestartStageLoaded, RestartRecord
  <2>3. CASE ~Loads(n)
    BY <1>1, <2>1, <2>3 DEF Loads, NotifyRunRestartStageLoaded, RestartRecord
  <2> QED
    BY <2>2, <2>3
<1>7. Send(IF n = Host THEN Announced(r, StageOf(n) + 1) ELSE {})
  BY DEF LoadStage
<1> HIDE DEF r
<1>8. restart'[n] = r
  BY <1>1, <1>4
<1>9. /\ node'[n] = x /\ node' \in [Process -> NodeRecord]
      /\ \A m \in Process : m # n => node'[m] = node[m] /\ restart'[m] = restart[m]
      /\ restart' \in [Process -> RestartRecord]
  BY <1>1, <1>4, <1>5, <1>6
<1>10. Send(IF n = Host THEN Announced(restart'[n], StageOf(n) + 1) ELSE {})
  BY <1>7, <1>8
<1> QED
  BY <1>2, <1>3, <1>6, <1>8, <1>9, <1>10

LEMMA LoadTyped ==
    ASSUME Typed, NEW n \in Process, LoadStage(n)
    PROVE  Typed'
<1>1. /\ n \in joined /\ StageOf(n) < MaxStage
      /\ node[n].transition \in Entered
      /\ node' \in [Process -> NodeRecord] /\ restart' \in [Process -> RestartRecord]
      /\ node'[n].mode = "Playing" /\ node'[n].transition = Nothing
      /\ node'[n].log = Append(node[n].log, node[n].transition)
      /\ ~restart'[n].queued
      /\ \A m \in Process : m # n => node'[m] = node[m] /\ restart'[m] = restart[m]
      /\ UNCHANGED <<joined, exitAt>>
  BY LoadActs
<1>2. Send(IF n = Host THEN Announced(restart'[n], StageOf(n) + 1) ELSE {})
  BY LoadActs
<1>3. StageOf(n) \in Stage /\ StageOf(n) + 1 \in Stage /\ StageOf(n) = Len(node[n].log) + 1
  BY <1>1, Stages, BoundAssumption DEF Stage
<1>4. /\ packets' \in [Peer -> SUBSET Packet]
      /\ \A p \in Peer : p \notin joined => packets'[p] = packets[p]
  <2>1. Announced(restart'[n], StageOf(n) + 1) \in SUBSET Packet
    BY <1>1, <1>3, AnnouncedTyped
  <2> QED
    BY <1>2, <2>1, SendTyped
<1>5. settings' \in [Process -> SettingsRecord]
  <2>1. settings' = [settings EXCEPT ![n] =
              [@ EXCEPT !.pending = 0, !.lastApplied = 0, !.broadcast = {}]]
    BY DEF LoadStage
  <2> QED
    BY <2>1 DEF Typed, TypeOK, SettingsRecord
<1>6. made' \in [Process -> [Stage -> Nat]]
  <2>1. made' = [made EXCEPT ![n] = [@ EXCEPT ![StageOf(n) + 1] = InputDelay + 1]]
    BY DEF LoadStage
  <2>2. InputDelay + 1 \in Nat
    BY BoundAssumption
  <2> QED
    BY <1>3, <2>1, <2>2 DEF Typed, TypeOK
<1>7. heard' \in [Process -> [Process -> Nat]]
  BY DEF LoadStage, NoneHeard, Typed, TypeOK
<1>8. TypeOK'
  <2>1. \A m \in Process : restart'[m].queued => node'[m].transition = Restart(restart'[m].last)
    BY <1>1 DEF Typed, TypeOK
  <2> QED
    BY <1>1, <1>4, <1>5, <1>6, <1>7, <2>1
       DEF Typed, TypeOK, RestartRecord, NodeRecord, SettingsRecord
<1>9. Len(node'[n].log) = StageOf(n) /\ node'[n].log # <<>>
  <2>1. node[n].log \in Seq(Entered)
    BY Stages DEF NodeRecord
  <2>2. Len(node'[n].log) = StageOf(n)
    BY <1>1, <1>3, <2>1
  <2> QED
    BY <1>3, <2>2, NoLog DEF Stage
<1>10. Modes'
  <2> SUFFICES ASSUME NEW m \in Process
               PROVE  ModesOf(m)'
    BY DEF Modes
  <2>1. CASE m = n
    BY <1>1, <1>3, <1>9, <2>1 DEF ModesOf, Stage
  <2>2. CASE m # n
    BY <1>1, <1>4, <2>2 DEF Typed, Modes, ModesOf
  <2> QED
    BY <2>1, <2>2
<1> QED
  BY <1>8, <1>10 DEF Typed

\* A peer joins.
LEMMA JoinActs ==
    ASSUME Typed, NEW p \in Peer, Join(p)
    PROVE  /\ p \notin joined /\ p \in Process /\ p # Host /\ joined' = joined \cup {p}
           /\ node[Host].mode = "Playing" /\ node[Host].transition = Nothing
           /\ \A n \in joined : /\ node[n].log = node[Host].log /\ node[n].mode = "Playing"
                                /\ node[n].next = node[Host].next /\ node[n].rollback = NoFrame
           /\ "joins" \in Assumed => ~restart[Host].pending
           /\ heard' = [n \in Process |-> [m \in Process |->
                 IF n \in joined' /\ m \in joined' \ {n} /\ p \in {n, m} THEN node[Host].next
                 ELSE heard[n][m]]]
           /\ node' \in [Process -> NodeRecord] /\ restart' \in [Process -> RestartRecord]
           /\ node'[p] = node[Host] /\ restart'[p] = NoRestart
           /\ \A n \in Process : n # p => node'[n] = node[n] /\ restart'[n] = restart[n]
           /\ packets'[p] = Announced(restart[Host], StageOf(Host))
                              \cup Broadcast(settings[Host], node[Host].next)
           /\ \A q \in Peer : q # p => packets'[q] = packets[q]
           /\ UNCHANGED exitAt
<1>1. /\ node \in [Process -> NodeRecord] /\ restart \in [Process -> RestartRecord]
      /\ packets \in [Peer -> SUBSET Packet] /\ Host \in Process /\ p \in Process /\ p # Host
  BY ProcessAssumption DEF Typed, TypeOK, NodeRecord, RestartRecord, Process
<1>2. /\ p \notin joined /\ joined' = joined \cup {p}
      /\ node[Host].mode = "Playing" /\ node[Host].transition = Nothing
      /\ \A n \in joined : /\ node[n].log = node[Host].log /\ node[n].mode = "Playing"
                           /\ node[n].next = node[Host].next /\ node[n].rollback = NoFrame
      /\ "joins" \in Assumed => ~restart[Host].pending
      /\ heard' = [n \in Process |-> [m \in Process |->
            IF n \in joined' /\ m \in joined' \ {n} /\ p \in {n, m} THEN node[Host].next
            ELSE heard[n][m]]]
      /\ UNCHANGED exitAt
  BY DEF Join
<1>3. node' = [node EXCEPT ![p] = node[Host]]
  BY DEF Join
<1>4. restart' = [restart EXCEPT ![p] = NoRestart] /\ NoRestart \in RestartRecord
  BY DEF Join, NoRestart, RestartRecord, Frame
<1>5. packets' = [packets EXCEPT ![p] = Announced(restart[Host], StageOf(Host))
                                          \cup Broadcast(settings[Host], node[Host].next)]
  BY DEF Join
<1>6. /\ packets'[p] = Announced(restart[Host], StageOf(Host))
                         \cup Broadcast(settings[Host], node[Host].next)
      /\ \A q \in Peer : q # p => packets'[q] = packets[q]
  BY <1>1, <1>5
<1>7. /\ node' \in [Process -> NodeRecord] /\ restart' \in [Process -> RestartRecord]
      /\ node'[p] = node[Host] /\ restart'[p] = NoRestart
      /\ \A n \in Process : n # p => node'[n] = node[n] /\ restart'[n] = restart[n]
  BY <1>1, <1>3, <1>4
<1> QED
  BY <1>1, <1>2, <1>6, <1>7

LEMMA JoinTyped ==
    ASSUME Typed, NEW p \in Peer, Join(p)
    PROVE  Typed'
<1>1. /\ p \notin joined /\ p \in Process /\ p # Host /\ joined' = joined \cup {p}
      /\ node[Host].mode = "Playing"
      /\ node' \in [Process -> NodeRecord] /\ restart' \in [Process -> RestartRecord]
      /\ node'[p] = node[Host] /\ restart'[p] = NoRestart
      /\ \A n \in Process : n # p => node'[n] = node[n] /\ restart'[n] = restart[n]
      /\ packets'[p] = Announced(restart[Host], StageOf(Host))
                         \cup Broadcast(settings[Host], node[Host].next)
      /\ \A q \in Peer : q # p => packets'[q] = packets[q]
      /\ UNCHANGED exitAt
  BY JoinActs
<1>2. /\ Host \in Process /\ node[Host].next \in Nat /\ StageOf(Host) \in Stage
      /\ restart[Host] \in RestartRecord /\ settings[Host] \in SettingsRecord
  BY Stages DEF Process, NodeRecord, Frame
<1>3. packets' \in [Peer -> SUBSET Packet]
  <2>1. Announced(restart[Host], StageOf(Host)) \in SUBSET Packet
    BY <1>2, AnnouncedTyped
  <2>2. Broadcast(settings[Host], node[Host].next) \in SUBSET Packet
    BY <1>2 DEF Broadcast, SettingsRecord
  <2>3. packets' = [packets EXCEPT ![p] = Announced(restart[Host], StageOf(Host))
                                           \cup Broadcast(settings[Host], node[Host].next)]
    BY DEF Join
  <2> QED
    BY <2>1, <2>2, <2>3 DEF Typed, TypeOK
<1>4. settings' \in [Process -> SettingsRecord]
  <2>1. settings' = [settings EXCEPT ![p] = [NoSettings EXCEPT
                                                   !.inForce = settings[Host].inForce]]
    BY DEF Join
  <2>2. [NoSettings EXCEPT !.inForce = settings[Host].inForce] \in SettingsRecord
    BY <1>2 DEF NoSettings, SettingsRecord, Frame
  <2> QED
    BY <2>1, <2>2 DEF Typed, TypeOK, SettingsRecord
<1>5. made' \in [Process -> [Stage -> Nat]]
  <2>1. made' = [made EXCEPT ![p] = [@ EXCEPT
                    ![StageOf(Host)] = node[Host].next + InputDelay + 1]]
    BY DEF Join
  <2>2. node[Host].next + InputDelay + 1 \in Nat
    BY <1>2, BoundAssumption
  <2> QED
    BY <1>2, <2>1, <2>2 DEF Typed, TypeOK
<1>6. heard' \in [Process -> [Process -> Nat]]
  <2>1. heard' = [n \in Process |-> [m \in Process |->
              IF n \in joined' /\ m \in joined' \ {n} /\ p \in {n, m} THEN node[Host].next
              ELSE heard[n][m]]]
    BY DEF Join
  <2> QED
    BY <1>2, <2>1 DEF Typed, TypeOK
<1>7. TypeOK'
  <2>1. \A n \in Process : restart'[n].queued => node'[n].transition = Restart(restart'[n].last)
    <3>1. ~restart'[p].queued
      BY <1>1 DEF NoRestart
    <3> QED
      BY <1>1, <3>1 DEF Typed, TypeOK
  <2>2. joined' \subseteq Process /\ Host \in joined'
    BY <1>1 DEF Typed, TypeOK
  <2> QED
    BY <1>1, <1>3, <1>4, <1>5, <1>6, <2>1, <2>2
       DEF Typed, TypeOK, RestartRecord, NodeRecord, SettingsRecord
<1>8. Modes'
  <2> SUFFICES ASSUME NEW n \in Process
               PROVE  ModesOf(n)'
    BY DEF Modes
  <2>1. CASE n = p
    BY <1>1, <1>2, <2>1 DEF Typed, Modes, ModesOf, NoRestart
  <2>2. CASE n # p
    BY <1>1, <2>2 DEF Typed, Modes, ModesOf
  <2> QED
    BY <2>1, <2>2
<1> QED
  BY <1>7, <1>8 DEF Typed

\* Inputs arrive.
LEMMA InputActs ==
    ASSUME Typed, NEW n \in Process, NEW m \in Process, HandleInputFrameRecords(n, m)
    PROVE  /\ n \in joined /\ m \in Others(n)
           /\ node' \in [Process -> NodeRecord] /\ heard' \in [Process -> [Process -> Nat]]
           /\ node'[n].mode = node[n].mode /\ node'[n].log = node[n].log
           /\ node'[n].next = node[n].next /\ node'[n].transition = node[n].transition
           /\ GuessesCorrected(n, Known(n)', node'[n].rollback)
           /\ \E g \in Frame \cup {NoFrame} :
                 /\ g # NoFrame => heard[n][m] <= g /\ g < node[n].next
                 /\ node'[n].rollback = EarlierOf(node[n].rollback, g)
           /\ \A q \in Process : heard[n][q] <= heard'[n][q]
           /\ \A q \in Process : q # n => node'[q] = node[q] /\ heard'[q] = heard[q]
           /\ UNCHANGED <<restart, settings, joined, made, packets, exitAt>>
<1>1. /\ node \in [Process -> NodeRecord] /\ heard \in [Process -> [Process -> Nat]]
      /\ made \in [Process -> [Stage -> Nat]]
  BY DEF Typed, TypeOK, NodeRecord
<1>2. PICK c \in heard[n][m] + 1 .. Said(n, m) :
      \E g \in {NoFrame} \cup {f \in heard[n][m] .. c - 1 : f < node[n].next} :
          LET knows == [heard[n] EXCEPT ![m] = c]
              known == Min({knows[q] : q \in Others(n)})
              back  == EarlierOf(node[n].rollback, g)
          IN  /\ GuessesCorrected(n, known, back)
              /\ heard' = [heard EXCEPT ![n] = knows]
              /\ node' = [node EXCEPT ![n].rollback = back]
  BY DEF HandleInputFrameRecords
<1> DEFINE knows == [heard[n] EXCEPT ![m] = c]
<1>3. PICK g \in {NoFrame} \cup {f \in heard[n][m] .. c - 1 : f < node[n].next} :
          /\ GuessesCorrected(n, Min({knows[q] : q \in Others(n)}), EarlierOf(node[n].rollback, g))
          /\ heard' = [heard EXCEPT ![n] = knows]
          /\ node' = [node EXCEPT ![n].rollback = EarlierOf(node[n].rollback, g)]
  BY <1>2
<1>4. /\ n \in joined /\ m \in Others(n)
      /\ UNCHANGED <<restart, settings, joined, made, packets, exitAt>>
  BY DEF HandleInputFrameRecords
<1>5. heard[n][m] \in Nat /\ c \in Int /\ c >= heard[n][m] + 1
  BY <1>1
<1>6. c \in Nat
  BY <1>5
<1>7. knows \in [Process -> Nat]
  BY <1>1, <1>6
<1>8. /\ heard' \in [Process -> [Process -> Nat]] /\ heard'[n] = knows
      /\ \A q \in Process : q # n => heard'[q] = heard[q]
  <2> HIDE DEF knows
  <2> QED
    BY <1>1, <1>3, <1>7
<1>9. g \in Frame \cup {NoFrame} /\ (g # NoFrame => heard[n][m] <= g /\ g < node[n].next)
  BY <1>5, <1>6 DEF Frame
<1>14. \A q \in Process : heard[n][q] <= heard'[n][q]
  BY <1>1, <1>5, <1>6, <1>8
<1>10. EarlierOf(node[n].rollback, g) \in Frame \cup {NoFrame}
  BY <1>1, <1>9 DEF EarlierOf, NodeRecord
<1>11. /\ node' \in [Process -> NodeRecord]
       /\ node'[n].mode = node[n].mode /\ node'[n].log = node[n].log
       /\ node'[n].next = node[n].next /\ node'[n].transition = node[n].transition
       /\ node'[n].rollback = EarlierOf(node[n].rollback, g)
       /\ \A q \in Process : q # n => node'[q] = node[q]
  <2> DEFINE back == EarlierOf(node[n].rollback, g)
  <2>1. node' = [node EXCEPT ![n].rollback = back] /\ back \in Frame \cup {NoFrame}
    BY <1>3, <1>10
  <2> HIDE DEF back
  <2>2. /\ node' \in [Process -> NodeRecord]
        /\ node'[n].mode = node[n].mode /\ node'[n].log = node[n].log
        /\ node'[n].next = node[n].next /\ node'[n].transition = node[n].transition
        /\ node'[n].rollback = back
        /\ \A q \in Process : q # n => node'[q] = node[q]
    BY <1>1, <2>1 DEF NodeRecord
  <2> QED
    BY <2>2 DEF back
<1>12. Known(n)' = Min({knows[q] : q \in Others(n)})
  <2>1. Others(n)' = Others(n) /\ Others(n) # {}
    BY <1>4 DEF Others
  <2>2. Known(n)' = Min({heard'[n][q] : q \in Others(n)})
    BY <2>1 DEF Known
  <2> HIDE DEF knows
  <2>3. {heard'[n][q] : q \in Others(n)} = {knows[q] : q \in Others(n)}
    BY <1>8
  <2> QED
    BY <2>2, <2>3
<1>13. GuessesCorrected(n, Known(n)', node'[n].rollback)
  BY <1>3, <1>11, <1>12
<1> QED
  BY <1>4, <1>8, <1>9, <1>11, <1>13, <1>14

LEMMA InputTyped ==
    ASSUME Typed, NEW n \in Process, NEW m \in Process, HandleInputFrameRecords(n, m)
    PROVE  Typed'
<1>1. /\ node' \in [Process -> NodeRecord] /\ heard' \in [Process -> [Process -> Nat]]
      /\ \A q \in Process :
            /\ node'[q].mode = node[q].mode /\ node'[q].log = node[q].log
            /\ node'[q].next = node[q].next /\ node'[q].transition = node[q].transition
      /\ UNCHANGED <<restart, settings, joined, made, packets, exitAt>>
  BY InputActs
<1>2. TypeOK'
  <2>1. \A q \in Process : restart'[q].queued => node'[q].transition = Restart(restart'[q].last)
    BY <1>1 DEF Typed, TypeOK
  <2> QED
    BY <1>1, <2>1 DEF Typed, TypeOK, NodeRecord
<1>3. Modes'
  BY <1>1 DEF Typed, Modes, ModesOf
<1> QED
  BY <1>2, <1>3 DEF Typed

\* The host announces a change of settings.
LEMMA ScheduleActs ==
    ASSUME Typed, ScheduleLockstepSettingsChange
    PROVE  /\ settings' \in [Process -> SettingsRecord]
           /\ \A n \in Process : n # Host => settings'[n] = settings[n]
           /\ \E m \in Packet : /\ m.kind = "Settings" /\ m.stage = StageOf(Host)
                               /\ m.seq = settings'[Host].pending /\ m.at = settings'[Host].at
                               /\ settings'[Host].broadcast = {m} /\ Send({m})
           /\ UNCHANGED <<node, restart, joined, made, heard, exitAt>>
<1> DEFINE s  == settings[Host]
           at == node[Host].next + InputDelay + SettingsFrames
           m  == [kind |-> "Settings", stage |-> StageOf(Host), seq |-> s.next, at |-> at]
<1>1. /\ Host \in Process /\ s \in SettingsRecord /\ StageOf(Host) \in Stage
      /\ node[Host].next \in Nat /\ settings \in [Process -> SettingsRecord]
  BY Stages DEF Process, NodeRecord, Frame, Typed, TypeOK, SettingsRecord
<1>2. at \in Nat /\ s.next \in Nat /\ s.next + 1 \in Nat
  BY <1>1, BoundAssumption DEF SettingsRecord
<1>3. m \in Packet
  BY <1>1, <1>2 DEF Packet, Frame
<1>4. settings' = [settings EXCEPT ![Host] =
          [s EXCEPT !.pending = s.next, !.at = at, !.next = s.next + 1, !.broadcast = {m}]]
  BY DEF ScheduleLockstepSettingsChange
<1>5. Send({m}) /\ UNCHANGED <<node, restart, joined, made, heard, exitAt>>
  BY DEF ScheduleLockstepSettingsChange
<1>6. m.kind = "Settings" /\ m.stage = StageOf(Host) /\ m.seq = s.next /\ m.at = at
  OBVIOUS
<1> HIDE DEF m, at
<1>7. /\ settings' \in [Process -> SettingsRecord]
      /\ \A n \in Process : n # Host => settings'[n] = settings[n]
      /\ settings'[Host].pending = s.next /\ settings'[Host].at = at
      /\ settings'[Host].broadcast = {m}
  BY <1>1, <1>2, <1>3, <1>4 DEF SettingsRecord, Frame
<1> QED
  BY <1>3, <1>5, <1>6, <1>7

\* A peer hears of one.
LEMMA TakeActs ==
    ASSUME Typed, NEW p \in Peer, HandleLockstepSettingsPacket(p)
    PROVE  /\ settings' \in [Process -> SettingsRecord]
           /\ \A n \in Process : n # p => settings'[n] = settings[n]
           /\ \E m \in packets[p] : /\ m.kind = "Settings" /\ m.stage = StageOf(p)
                                    /\ m.seq = settings'[p].pending /\ m.at = settings'[p].at
           /\ UNCHANGED <<node, restart, joined, made, heard, packets, exitAt>>
<1> DEFINE s == settings[p]
<1>1. p \in Process /\ s \in SettingsRecord /\ settings \in [Process -> SettingsRecord]
  BY Stages DEF Process, Typed, TypeOK, SettingsRecord
<1>2. PICK m \in packets[p] :
          /\ m.kind = "Settings" /\ SettingsAreOfThisStage(p, m)
          /\ settings' = [settings EXCEPT ![p] = [s EXCEPT !.pending = m.seq, !.at = m.at,
                                                    !.next = Max({s.next, m.seq + 1})]]
          /\ UNCHANGED <<node, restart, joined, made, heard, packets, exitAt>>
  BY DEF HandleLockstepSettingsPacket
<1>3. m.seq \in Nat /\ m.at \in Nat /\ s.next \in Nat
  <2>1. m \in Packet
    BY DEF Typed, TypeOK
  <2> QED
    BY <1>1, <2>1 DEF Packet, Frame, SettingsRecord
<1>4. Max({s.next, m.seq + 1}) \in Nat
  <2>1. s.next \in Int /\ m.seq + 1 \in Int
    BY <1>3
  <2>2. Max({s.next, m.seq + 1}) \in {s.next, m.seq + 1}
    BY <2>1, MaxOfTwo
  <2> QED
    BY <1>3, <2>2
<1> DEFINE next == Max({s.next, m.seq + 1})
<1>5. settings' = [settings EXCEPT ![p] = [s EXCEPT !.pending = m.seq, !.at = m.at, !.next = next]]
      /\ next \in Nat
  BY <1>2, <1>4
<1> HIDE DEF next
<1>6. /\ settings' \in [Process -> SettingsRecord]
      /\ \A n \in Process : n # p => settings'[n] = settings[n]
      /\ settings'[p].pending = m.seq /\ settings'[p].at = m.at
  BY <1>1, <1>3, <1>5 DEF SettingsRecord, Frame
<1> QED
  BY <1>2, <1>6 DEF SettingsAreOfThisStage

\* It is put in force.
LEMMA ForceActs ==
    ASSUME Typed, NEW n \in Process, ApplyDueLockstepSettings(n)
    PROVE  /\ settings' \in [Process -> SettingsRecord]
           /\ \A m \in Process : m # n => settings'[m] = settings[m]
           /\ settings'[n].pending = 0 /\ settings'[n].broadcast = settings[n].broadcast
           /\ UNCHANGED <<node, restart, joined, made, heard, packets, exitAt>>
<1> DEFINE s == settings[n]
<1>1. s \in SettingsRecord /\ settings \in [Process -> SettingsRecord]
  BY Stages DEF Typed, TypeOK, SettingsRecord
<1>2. s.lastApplied \in Nat /\ s.pending \in Nat
  BY <1>1 DEF SettingsRecord
<1> DEFINE last == Max({s.lastApplied, s.pending})
<1>3. last \in Nat
  <2>1. s.lastApplied \in Int /\ s.pending \in Int
    BY <1>2
  <2>2. Max({s.lastApplied, s.pending}) \in {s.lastApplied, s.pending}
    BY <2>1, MaxOfTwo
  <2> QED
    BY <1>2, <2>2
<1>4. /\ settings' = [settings EXCEPT ![n] =
             [s EXCEPT !.inForce = s.pending, !.pending = 0, !.lastApplied = last]]
      /\ UNCHANGED <<node, restart, joined, made, heard, packets, exitAt>>
  BY DEF ApplyDueLockstepSettings
<1> HIDE DEF last
<1> QED
  BY <1>1, <1>2, <1>3, <1>4 DEF SettingsRecord

\* What changes only settings and their packets leaves everything typed.
LEMMA SettingsTyped ==
    ASSUME Typed, settings' \in [Process -> SettingsRecord],
           packets' \in [Peer -> SUBSET Packet],
           \A p \in Peer : p \notin joined => packets'[p] = packets[p],
           UNCHANGED <<node, restart, joined, made, heard, exitAt>>
    PROVE  Typed'
<1>1. TypeOK'
  BY DEF Typed, TypeOK, SettingsRecord
<1>2. Modes'
  BY DEF Typed, Modes, ModesOf
<1> QED
  BY <1>1, <1>2 DEF Typed

\* A restart is asked for ahead of the frame it is asked in.
LEMMA RestartsAreAsked ==
    ASSUME Typed, RequestRunRestart
    PROVE  \E f \in Nat :
              /\ Ask(restart[Host].next, f) /\ node[Host].next < f
              /\ "settled" \in Assumed => Settled /\ ~restart[Host].pending
              /\ "apart" \in Assumed => ApartFromExits(f)
              /\ "margin" \in Assumed => \A n \in joined : node[n].next < f
<1> DEFINE d == Max({SafetyFrames, 2 * InputDelay})
           f == node[Host].next + d
<1>1. d \in Nat /\ d > 0
  <2>1. SafetyFrames \in Int /\ 2 * InputDelay \in Int
    BY BoundAssumption
  <2>2. d \in {SafetyFrames, 2 * InputDelay}
    BY <2>1, MaxOfTwo
  <2> QED
    BY <2>2, BoundAssumption
<1>2. Host \in Process
  BY DEF Process
<1> HIDE DEF d
<1>3. f \in Nat /\ node[Host].next < f
  BY <1>1, <1>2, Stages DEF NodeRecord, Frame
<1> QED
  BY <1>3 DEF RequestRunRestart, d

LEMMA TypesKept == Typed /\ [Next]_vars => Typed'
<1> SUFFICES ASSUME Typed, [Next]_vars PROVE Typed'
  OBVIOUS
<1>1. Host \in Process /\ \A p \in Peer : p \in Process
  BY DEF Process
<1>2. CASE RequestRunStart
  <2>1. Ask(restart[Host].next, 0)
    BY <1>2 DEF RequestRunStart
  <2> QED
    BY <2>1, AskTyped
<1>3. CASE RequestRunRestart
  <2>1. PICK f \in Nat : Ask(restart[Host].next, f)
    BY <1>3, RestartsAreAsked
  <2> QED
    BY <2>1, AskTyped
<1>4. CASE ScheduleLockstepSettingsChange
  <2>1. PICK m \in Packet : Send({m})
    BY <1>4, ScheduleActs
  <2>2. /\ packets' \in [Peer -> SUBSET Packet]
        /\ \A p \in Peer : p \notin joined => packets'[p] = packets[p]
    BY <2>1, SendTyped
  <2> QED
    BY <1>4, <2>2, ScheduleActs, SettingsTyped
<1>5. ASSUME NEW n \in Process, NEW m \in Process, HandleInputFrameRecords(n, m)
      PROVE  Typed'
  BY <1>5, InputTyped
<1>6. ASSUME NEW n \in Process, ApplyDueRunRestart(n) PROVE Typed'
  BY <1>6, DueTyped
<1>7. ASSUME NEW n \in Process, ApplyDueLockstepSettings(n) PROVE Typed'
  BY <1>7, ForceActs, SettingsTyped DEF Typed, TypeOK
<1>8. ASSUME NEW n \in Process, StepFrame(n) PROVE Typed'
  BY <1>8, StepTyped
<1>9. ASSUME NEW n \in Process, LoadStage(n) PROVE Typed'
  BY <1>9, LoadTyped
<1>10. ASSUME NEW p \in Peer, NEW m \in packets[p], HandleRunRestartPacket(p, m)
       PROVE  Typed'
  BY <1>10, HearTyped
<1>11. ASSUME NEW p \in Peer, HandleLockstepSettingsPacket(p) PROVE Typed'
  BY <1>11, TakeActs, SettingsTyped DEF Typed, TypeOK
<1>12. ASSUME NEW p \in Peer, Join(p) PROVE Typed'
  BY <1>12, JoinTyped
<1>13. CASE UNCHANGED vars
  BY <1>13 DEF vars, Typed, TypeOK, Modes, ModesOf, StageOf
<1> QED
  BY <1>2, <1>3, <1>4, <1>5, <1>6, <1>7, <1>8, <1>9, <1>10, <1>11, <1>12, <1>13 DEF Next

\* TypeOK: the variables keep their types, and a restart that is queued is the
\* transition under way, whatever is assumed of users and network.
THEOREM SessionIsTyped == Spec => []TypeOK
<1>1. Spec => []Typed
  BY TypesAtFirst, TypesKept, PTL DEF Spec
<1>2. Typed => TypeOK
  BY DEF Typed
<1> QED
  BY <1>1, <1>2, PTL

-----------------------------------------------------------------------------
(* Settings.                                                               *)

\* The settings that wait at a process were announced in its stage: by itself,
\* if it is the host, or in a packet it has been sent.
Announcements(n) == IF n = Host THEN settings[Host].broadcast ELSE packets[n]

SettingsAreAnnounced ==
    \A n \in joined : settings[n].pending # 0 =>
        \E m \in Announcements(n) :
            /\ m.kind = "Settings" /\ m.seq = settings[n].pending
            /\ m.stage = StageOf(n) /\ m.at = settings[n].at

\* It stays so where settings and stage do not change and nothing announced
\* is withdrawn.
LEMMA AnnouncedStays ==
    ASSUME SettingsAreAnnounced, NEW n \in joined,
           settings'[n].pending = settings[n].pending, settings'[n].at = settings[n].at,
           StageOf(n)' = StageOf(n), Announcements(n) \subseteq Announcements(n)'
    PROVE  settings'[n].pending # 0 =>
               \E m \in Announcements(n)' :
                   /\ m.kind = "Settings" /\ m.seq = settings'[n].pending
                   /\ m.stage = StageOf(n)' /\ m.at = settings'[n].at
  BY DEF SettingsAreAnnounced

LEMMA SentIsAdded ==
    ASSUME Typed, NEW sent, Send(sent), NEW p \in Peer
    PROVE  packets[p] \subseteq packets'[p]
  BY DEF Typed, TypeOK, Send

\* Steps that leave settings alone and withdraw nothing.
LEMMA AnnouncedElsewhere ==
    ASSUME Typed, SettingsAreAnnounced, UNCHANGED <<settings, joined>>,
           \A n \in Process : node'[n].log = node[n].log,
           \A p \in Peer : packets[p] \subseteq packets'[p]
    PROVE  SettingsAreAnnounced'
<1> SUFFICES ASSUME NEW n \in joined
             PROVE  settings'[n].pending # 0 =>
                        \E m \in Announcements(n)' :
                            /\ m.kind = "Settings" /\ m.seq = settings'[n].pending
                            /\ m.stage = StageOf(n)' /\ m.at = settings'[n].at
  BY DEF SettingsAreAnnounced
<1>1. n \in Process /\ (n # Host => n \in Peer)
  BY DEF Typed, TypeOK, Process
<1>2. StageOf(n)' = StageOf(n) /\ Announcements(n) \subseteq Announcements(n)'
  BY <1>1 DEF StageOf, Announcements
<1> QED
  BY <1>2, AnnouncedStays

LEMMA AnnouncedKept ==
    ASSUME Typed, SettingsAreAnnounced, [Next]_vars
    PROVE  SettingsAreAnnounced'
<1>1. Host \in Process /\ Host \in joined /\ joined \subseteq Process /\ Host \notin Peer
  BY ProcessAssumption DEF Process, Typed, TypeOK
<1> DEFINE Kept(n) == settings'[n].pending # 0 =>
               \E m \in Announcements(n)' :
                   /\ m.kind = "Settings" /\ m.seq = settings'[n].pending
                   /\ m.stage = StageOf(n)' /\ m.at = settings'[n].at
<1>2. ASSUME joined' = joined, \A n \in joined : Kept(n)
      PROVE  SettingsAreAnnounced'
  BY <1>2 DEF SettingsAreAnnounced
<1>3. \A n \in joined : n # Host => n \in Peer /\ n \in Process
  BY <1>1 DEF Process
<1>4. ASSUME NEW f \in Nat, Ask(restart[Host].next, f) PROVE SettingsAreAnnounced'
  <2>1. UNCHANGED <<node, settings, joined>>
    BY <1>4 DEF Ask
  <2>2. \A p \in Peer : packets[p] \subseteq packets'[p]
    BY <1>4, SentIsAdded DEF Ask
  <2> QED
    BY <2>1, <2>2, AnnouncedElsewhere
<1>5. CASE RequestRunStart
  BY <1>4, <1>5 DEF RequestRunStart
<1>6. CASE RequestRunRestart
  <2>1. UNCHANGED <<node, settings, joined>>
    BY <1>6 DEF RequestRunRestart, Ask
  <2>2. \A p \in Peer : packets[p] \subseteq packets'[p]
    BY <1>6, SentIsAdded DEF RequestRunRestart, Ask
  <2> QED
    BY <2>1, <2>2, AnnouncedElsewhere
<1>7. CASE ScheduleLockstepSettingsChange
  <2>1. /\ \A n \in Process : n # Host => settings'[n] = settings[n]
        /\ UNCHANGED <<node, joined>>
    BY <1>7, ScheduleActs
  <2>2. PICK m \in Packet :
            /\ m.kind = "Settings" /\ m.stage = StageOf(Host)
            /\ m.seq = settings'[Host].pending /\ m.at = settings'[Host].at
            /\ settings'[Host].broadcast = {m} /\ Send({m})
    BY <1>7, ScheduleActs
  <2>3. Kept(Host)
    BY <2>1, <2>2 DEF Announcements, StageOf
  <2>4. ASSUME NEW n \in joined, n # Host PROVE Kept(n)
    <3>1. StageOf(n)' = StageOf(n) /\ settings'[n] = settings[n]
      BY <1>1, <2>1, <2>4 DEF StageOf
    <3>2. Announcements(n) \subseteq Announcements(n)'
      BY <1>3, <2>2, <2>4, SentIsAdded DEF Announcements
    <3> QED
      BY <3>1, <3>2, AnnouncedStays
  <2> QED
    BY <1>2, <2>1, <2>3, <2>4
<1>8. ASSUME NEW n \in Process, NEW m \in Process, HandleInputFrameRecords(n, m)
      PROVE  SettingsAreAnnounced'
  BY <1>8, InputActs, AnnouncedElsewhere
<1>9. ASSUME NEW n \in Process, ApplyDueRunRestart(n) PROVE SettingsAreAnnounced'
  BY <1>9, DueActs, AnnouncedElsewhere
<1>10. ASSUME NEW n \in Process, ApplyDueLockstepSettings(n) PROVE SettingsAreAnnounced'
  <2>1. /\ \A m \in Process : m # n => settings'[m] = settings[m]
        /\ settings'[n].pending = 0 /\ settings'[n].broadcast = settings[n].broadcast
        /\ UNCHANGED <<node, joined, packets>>
    BY <1>10, ForceActs
  <2>2. Kept(n)
    BY <2>1
  <2>3. ASSUME NEW m \in joined, m # n PROVE Kept(m)
    <3>1. /\ StageOf(m)' = StageOf(m) /\ settings'[m] = settings[m]
          /\ settings'[Host].broadcast = settings[Host].broadcast
      BY <1>1, <2>1, <2>3 DEF StageOf
    <3>2. Announcements(m) \subseteq Announcements(m)'
      BY <2>1, <3>1 DEF Announcements
    <3> QED
      BY <3>1, <3>2, AnnouncedStays
  <2> QED
    BY <1>2, <2>1, <2>2, <2>3
<1>11. ASSUME NEW n \in Process, StepFrame(n) PROVE SettingsAreAnnounced'
  BY <1>11, StepActs, AnnouncedElsewhere
<1>12. ASSUME NEW n \in Process, LoadStage(n) PROVE SettingsAreAnnounced'
  <2>1. /\ \A m \in Process : m # n => node'[m] = node[m]
        /\ joined' = joined
    BY <1>12, LoadActs
  <2>2. settings' = [settings EXCEPT ![n] =
              [@ EXCEPT !.pending = 0, !.lastApplied = 0, !.broadcast = {}]]
    BY <1>12 DEF LoadStage
  <2>3. settings'[n].pending = 0 /\ \A m \in Process : m # n => settings'[m] = settings[m]
    BY <2>2 DEF Typed, TypeOK
  <2>4. Kept(n)
    BY <2>3
  <2>5. \A p \in Peer : packets[p] \subseteq packets'[p]
    BY <1>12, LoadActs, SentIsAdded
  <2>6. ASSUME NEW m \in joined, m # n PROVE Kept(m)
    <3>1. StageOf(m)' = StageOf(m) /\ settings'[m] = settings[m]
      BY <1>1, <2>1, <2>3, <2>6 DEF StageOf
    <3>2. Announcements(m) \subseteq Announcements(m)'
      BY <1>3, <2>5, <3>1 DEF Announcements
    <3> QED
      BY <3>1, <3>2, AnnouncedStays
  <2> QED
    BY <1>2, <2>1, <2>4, <2>6
<1>13. ASSUME NEW p \in Peer, NEW m \in packets[p], HandleRunRestartPacket(p, m)
       PROVE  SettingsAreAnnounced'
  BY <1>13, HearActs, AnnouncedElsewhere
<1>14. ASSUME NEW p \in Peer, HandleLockstepSettingsPacket(p) PROVE SettingsAreAnnounced'
  <2>1. /\ \A n \in Process : n # p => settings'[n] = settings[n]
        /\ UNCHANGED <<node, joined, packets>>
    BY <1>14, TakeActs
  <2>2. Kept(p)
    <3>1. PICK m \in packets[p] :
              /\ m.kind = "Settings" /\ m.stage = StageOf(p)
              /\ m.seq = settings'[p].pending /\ m.at = settings'[p].at
      BY <1>14, TakeActs
    <3> QED
      BY <1>1, <2>1, <3>1 DEF Announcements, StageOf
  <2>3. ASSUME NEW n \in joined, n # p PROVE Kept(n)
    <3>1. /\ StageOf(n)' = StageOf(n) /\ settings'[n] = settings[n]
          /\ settings'[Host] = settings[Host]
      BY <1>1, <2>1, <2>3 DEF StageOf
    <3>2. Announcements(n) \subseteq Announcements(n)'
      BY <2>1, <3>1 DEF Announcements
    <3> QED
      BY <3>1, <3>2, AnnouncedStays
  <2> QED
    BY <1>2, <2>1, <2>2, <2>3
<1>15. ASSUME NEW p \in Peer, Join(p) PROVE SettingsAreAnnounced'
  <2>1. /\ p \notin joined /\ p \in Process /\ joined' = joined \cup {p}
        /\ \A n \in Process : n # p => node'[n] = node[n]
        /\ \A q \in Peer : q # p => packets'[q] = packets[q]
    BY <1>15, JoinActs
  <2>2. settings' = [settings EXCEPT ![p] = [NoSettings EXCEPT
                                                   !.inForce = settings[Host].inForce]]
    BY <1>15 DEF Join
  <2>3. /\ settings'[p] = [NoSettings EXCEPT !.inForce = settings[Host].inForce]
        /\ \A n \in Process : n # p => settings'[n] = settings[n]
    BY <2>1, <2>2 DEF Typed, TypeOK
  <2>4. Kept(p)
    BY <2>3 DEF NoSettings
  <2>5. ASSUME NEW n \in joined PROVE Kept(n)
    <3>1. /\ n # p /\ StageOf(n)' = StageOf(n) /\ settings'[n] = settings[n]
          /\ settings'[Host] = settings[Host]
      BY <1>1, <2>1, <2>3 DEF StageOf
    <3>2. Announcements(n) \subseteq Announcements(n)'
      BY <1>3, <2>1, <3>1 DEF Announcements
    <3> QED
      BY <3>1, <3>2, AnnouncedStays
  <2> QED
    BY <2>1, <2>4, <2>5 DEF SettingsAreAnnounced
<1>16. CASE UNCHANGED vars
  BY <1>16, AnnouncedElsewhere DEF vars
<1> QED
  BY <1>5, <1>6, <1>7, <1>8, <1>9, <1>10, <1>11, <1>12, <1>13, <1>14, <1>15, <1>16 DEF Next

\* SettingsAreOfOneStage: settings wait only for a frame of the stage they were
\* announced in, however late or often their packets come, whenever stages
\* change and whoever joins (HandleLockstepSettingsPacket).
THEOREM SettingsKeepToTheirStage == Spec => []SettingsAreOfOneStage
<1>1. Init => SettingsAreAnnounced
  BY DEF Init, SettingsAreAnnounced, NoSettings, Process
<1>2. Spec => []Typed
  BY TypesAtFirst, TypesKept, PTL DEF Spec
<1>3. Typed /\ SettingsAreAnnounced /\ [Next]_vars => SettingsAreAnnounced'
  BY AnnouncedKept
<1>4. Typed /\ SettingsAreAnnounced => SettingsAreOfOneStage
  BY DEF SettingsAreAnnounced, Announcements, SettingsAreOfOneStage, Typed, TypeOK, Process
<1> QED
  BY <1>1, <1>2, <1>3, <1>4, PTL DEF Spec

-----------------------------------------------------------------------------
(* Restarts.  The requests of the host are numbered.  The numbers in a log *)
(* grow, and what a process may still take is ahead of those in its log:   *)
(* the restart it waits for, the transition under way, and the packets it  *)
(* has not taken.  So is what the host announces, for all it has reached.  *)

LogBelow(log, k) == \A i \in DOMAIN log : log[i].by = "restart" => log[i].of < k
Below(n, k) == LogBelow(node[n].log, k)

RestartsGrow(n) ==
    \A i, j \in DOMAIN node[n].log :
        (i < j /\ node[n].log[i].by = "restart" /\ node[n].log[j].by = "restart")
            => node[n].log[i].of < node[n].log[j].of

Heard(n) ==
    n \in Peer => \A m \in packets[n] : m.kind = "Restart" =>
        /\ 0 < m.seq /\ m.seq <= restart[Host].last
        /\ m.seq > restart[n].last => Below(n, m.seq)

OnceOf(n) ==
    /\ restart[n].last <= restart[Host].last
    /\ restart[n].last # 0 <=> restart[n].pending \/ restart[n].applied
    /\ RestartsGrow(n)
    /\ Below(n, restart[Host].last + 1)
    /\ restart[n].pending /\ ~restart[n].applied => Below(n, restart[n].last)
    /\ \A k \in Nat : node[n].transition = Restart(k) =>
          k <= restart[n].last /\ (k = restart[n].last => restart[n].queued) /\ Below(n, k)
    /\ Heard(n)
    /\ (n \in joined /\ n # Host /\ restart[Host].pending /\ restart[n].last < restart[Host].last)
          => Below(n, restart[Host].last)

Once ==
    /\ \A n \in Process : OnceOf(n)
    /\ restart[Host].last < restart[Host].next
    /\ \A m \in settings[Host].broadcast : m.kind = "Settings"

LEMMA EnteredIs ==
    ASSUME NEW t \in Entered
    PROVE  t.of \in Nat /\ (t = Exit(t.of) \/ t = Restart(t.of))
  BY DEF Entered, Exit, Restart, Frame

LEMMA ExitsAreNoRestarts ==
    ASSUME NEW k, NEW e
    PROVE  /\ Exit(e) # Restart(k)
           /\ k \in Nat => Restart(k) # Nothing
           /\ Restart(k).by = "restart" /\ Restart(k).of = k
           /\ Exit(e).by = "exit" /\ Exit(e).of = e
  BY BoundAssumption DEF Exit, Restart

\* A restart that is new to a peer has a greater number.
LEMMA NewIsGreater ==
    ASSUME Typed, NEW p \in Process, OnceOf(p), NEW m \in Packet, m.seq > 0,
           RestartIsNew(restart[p], m)
    PROVE  m.seq > restart[p].last
  BY Stages DEF RestartIsNew, OnceOf, Packet, RestartRecord

\* A process that a step leaves alone.
LEMMA OnceElsewhere ==
    ASSUME Typed, NEW n \in Process, OnceOf(n),
           restart[Host]'.last = restart[Host].last,
           restart[Host]'.pending => restart[Host].pending,
           node'[n].log = node[n].log,
           \/ node'[n].transition = node[n].transition
           \/ \A k \in Nat : node'[n].transition # Restart(k),
           restart'[n].last = restart[n].last,
           restart'[n].queued = restart[n].queued, restart'[n].applied = restart[n].applied,
           restart'[n].pending => restart[n].pending,
           restart[n].pending /\ ~restart[n].applied => restart'[n].pending,
           n \in joined' => n \in joined,
           n \in Peer => \A m \in packets'[n] :
               \/ m \in packets[n]
               \/ m.kind # "Restart"
               \/ n \in joined /\ n # Host /\ m.seq = restart[Host].last
                  /\ m.seq > 0 /\ restart[Host].pending
    PROVE  OnceOf(n)'
<1>1. /\ \A k : Below(n, k)' = Below(n, k)
      /\ RestartsGrow(n)' = RestartsGrow(n)
  BY DEF Below, LogBelow, RestartsGrow
<1>2. restart[n].last \in Nat /\ restart[Host].last \in Nat
  BY Stages DEF RestartRecord, Process
<1>3. Heard(n)'
  BY <1>1, <1>2 DEF OnceOf, Heard
<1> QED
  BY <1>1, <1>2, <1>3 DEF OnceOf

LEMMA PacketsTyped ==
    ASSUME Typed, NEW p \in Peer, NEW m \in packets[p]
    PROVE  m \in Packet /\ m.seq \in Nat /\ m.at \in Nat
<1>1. m \in Packet
  BY DEF Typed, TypeOK
<1> QED
  BY <1>1 DEF Packet, Frame

\* A request of the host.
LEMMA AskOnce ==
    ASSUME Typed, Once, NEW f \in Nat, Ask(restart[Host].next, f)
    PROVE  Once'
<1> DEFINE r == restart[Host]
           q == restart'[Host]
<1>1. /\ Host \in Process /\ Host \notin Peer
      /\ r.last \in Nat /\ r.next \in Nat /\ r.last < r.next
      /\ \A n \in Process : restart[n].last \in Nat
  BY ProcessAssumption, Stages DEF Process, RestartRecord, Once
<1>2. /\ q.pending /\ ~q.queued /\ ~q.applied /\ q.next = r.next + 1 /\ q.last = r.next
      /\ \A n \in Process : n # Host => restart'[n] = restart[n]
      /\ UNCHANGED <<node, settings, joined>>
  BY AskActs
<1>3. \A p \in Peer : \A m \in packets'[p] : m \in packets[p] \/ m.seq = r.next
  BY AskActs
<1>4. \A n \in Process : \A k : Below(n, k)' = Below(n, k)
  BY <1>2 DEF Below, LogBelow
<1>5. \A n \in Process, k \in Nat : Below(n, r.last + 1) /\ k >= r.last + 1 => Below(n, k)
  BY <1>1, EnteredIs, Stages DEF Below, LogBelow, NodeRecord
<1>6. ASSUME NEW n \in Process PROVE OnceOf(n)'
  <2>1. OnceOf(n) /\ Below(n, r.last + 1) /\ Below(n, r.next) /\ Below(n, r.next + 1)
    BY <1>1, <1>5 DEF Once, OnceOf
  <2>2. RestartsGrow(n)'
    BY <1>2, <2>1 DEF OnceOf, RestartsGrow
  <2>3. Heard(n)'
    <3> SUFFICES ASSUME n \in Peer, NEW m \in packets'[n], m.kind = "Restart"
                 PROVE  /\ 0 < m.seq /\ m.seq <= r.next
                        /\ m.seq > restart[n].last => Below(n, m.seq)
      BY <1>1, <1>2, <1>4 DEF Heard
    <3>1. CASE m \in packets[n]
      BY <1>1, <2>1, <3>1, PacketsTyped DEF OnceOf, Heard
    <3>2. CASE m.seq = r.next
      BY <1>1, <2>1, <3>2
    <3> QED
      BY <1>3, <3>1, <3>2
  <2>4. CASE n = Host
    <3>1. \A k \in Nat : node[n].transition = Restart(k) => k <= r.last /\ Below(n, k)
      BY <2>1, <2>4 DEF OnceOf
    <3> QED
      BY <1>1, <1>2, <1>4, <2>1, <2>2, <2>3, <2>4, <3>1 DEF OnceOf
  <2>5. CASE n # Host
    BY <1>1, <1>2, <1>4, <2>1, <2>2, <2>3, <2>5 DEF OnceOf
  <2> QED
    BY <2>4, <2>5
<1> QED
  BY <1>1, <1>2, <1>6 DEF Once

\* A restart is heard of.
LEMMA HearOnce ==
    ASSUME Typed, Once, NEW p \in Peer, NEW m \in packets[p], HandleRunRestartPacket(p, m)
    PROVE  Once'
<1>1. /\ p \in Process /\ p # Host /\ Host \in Process
      /\ \A n \in Process : restart[n].last \in Nat
  BY ProcessAssumption, Stages DEF Process, RestartRecord
<1>2. /\ p \in joined /\ m \in Packet /\ m.kind = "Restart" /\ RestartIsNew(restart[p], m)
      /\ restart'[p].pending /\ ~restart'[p].applied /\ restart'[p].last = m.seq
      /\ \A n \in Process : n # p => restart'[n] = restart[n]
      /\ UNCHANGED <<node, settings, joined, packets>>
  BY HearActs
<1>3. OnceOf(p) /\ Heard(p)
  BY <1>1 DEF Once, OnceOf
<1>4. m.seq \in Nat /\ 0 < m.seq /\ m.seq <= restart[Host].last
  BY <1>2, <1>3 DEF Heard, Packet
<1>5. m.seq > restart[p].last
  BY <1>1, <1>2, <1>3, <1>4, NewIsGreater
<1>6. Below(p, m.seq)
  BY <1>2, <1>3, <1>5 DEF Heard
<1>7. \A k : Below(p, k)' = Below(p, k)
  BY <1>2 DEF Below, LogBelow
<1>8. RestartsGrow(p)' /\ restart'[Host] = restart[Host]
  BY <1>1, <1>2, <1>3 DEF OnceOf, RestartsGrow
<1>9. Heard(p)'
  <2>1. ASSUME NEW o \in packets[p], o.kind = "Restart"
        PROVE  /\ 0 < o.seq /\ o.seq <= restart[Host].last
               /\ o.seq > m.seq => Below(p, o.seq)
    BY <1>1, <1>3, <1>4, <1>5, <2>1, PacketsTyped DEF Heard
  <2> QED
    BY <1>2, <1>7, <1>8, <2>1 DEF Heard
<1>10. OnceOf(p)'
  BY <1>1, <1>2, <1>3, <1>4, <1>5, <1>6, <1>7, <1>8, <1>9 DEF OnceOf
<1>11. ASSUME NEW n \in Process, n # p PROVE OnceOf(n)'
  BY <1>1, <1>2, <1>8, <1>11, OnceElsewhere DEF Once
<1> QED
  BY <1>1, <1>2, <1>8, <1>10, <1>11 DEF Once

\* A restart is due.
LEMMA DueOnce ==
    ASSUME Typed, Once, NEW n \in Process, ApplyDueRunRestart(n)
    PROVE  Once'
<1>1. /\ Host \in Process /\ restart[n].last \in Nat
      /\ restart[n].pending /\ ~restart[n].applied
      /\ node'[n].transition = Restart(restart[n].last) /\ node'[n].log = node[n].log
      /\ restart'[n].pending /\ restart'[n].queued /\ ~restart'[n].applied
      /\ restart'[n].next = restart[n].next /\ restart'[n].last = restart[n].last
      /\ \A m \in Process : m # n => node'[m] = node[m] /\ restart'[m] = restart[m]
      /\ UNCHANGED <<settings, joined, packets>>
  BY DueActs, Stages DEF RestartIsDue, Process, RestartRecord
<1>2. /\ restart'[Host].last = restart[Host].last /\ restart'[Host].next = restart[Host].next
      /\ restart'[Host].pending <=> restart[Host].pending
  BY <1>1
<1>3. ASSUME NEW m \in Process, m # n PROVE OnceOf(m)'
  BY <1>1, <1>2, <1>3, OnceElsewhere DEF Once
<1>4. OnceOf(n)'
  <2>1. OnceOf(n)
    BY DEF Once
  <2>2. /\ \A k : Below(n, k)' = Below(n, k)
        /\ RestartsGrow(n)' = RestartsGrow(n) /\ Heard(n)' = Heard(n)
    BY <1>1, <1>2 DEF Below, LogBelow, RestartsGrow, Heard
  <2>3. \A k \in Nat : node'[n].transition = Restart(k) => k = restart[n].last
    BY <1>1 DEF Restart
  <2> QED
    BY <1>1, <1>2, <2>1, <2>2, <2>3 DEF OnceOf
<1> QED
  BY <1>1, <1>2, <1>3, <1>4 DEF Once

\* A frame is stepped.
LEMMA StepOnce ==
    ASSUME Typed, Once, NEW n \in Process, StepFrame(n)
    PROVE  Once'
<1>1. /\ Host \in Process
      /\ node'[n].log = node[n].log
      /\ node'[n].transition = Nothing \/ \E e : node'[n].transition = Exit(e)
      /\ restart'[n].pending => restart[n].pending
      /\ restart[n].pending /\ ~restart[n].applied => restart'[n].pending
      /\ restart'[n].queued = restart[n].queued /\ restart'[n].applied = restart[n].applied
      /\ restart'[n].next = restart[n].next /\ restart'[n].last = restart[n].last
      /\ \A m \in Process : m # n => node'[m] = node[m] /\ restart'[m] = restart[m]
      /\ UNCHANGED <<settings, joined, packets>>
  BY StepActs DEF Process
<1>2. \A k \in Nat : node'[n].transition # Restart(k)
  BY <1>1, ExitsAreNoRestarts
<1>3. /\ restart'[Host].last = restart[Host].last /\ restart'[Host].next = restart[Host].next
      /\ restart'[Host].pending => restart[Host].pending
  BY <1>1
<1>4. ASSUME NEW m \in Process PROVE OnceOf(m)'
  <2>1. OnceOf(m)
    BY DEF Once
  <2>2. CASE m = n
    BY <1>1, <1>2, <1>3, <2>1, <2>2, OnceElsewhere
  <2>3. CASE m # n
    BY <1>1, <1>3, <2>1, <2>3, OnceElsewhere
  <2> QED
    BY <2>2, <2>3
<1> QED
  BY <1>1, <1>3, <1>4 DEF Once

\* A stage is loaded: the transition joins the log.
LEMMA LoadedBelow ==
    ASSUME Typed, NEW n \in Process, NEW t \in Entered,
           node'[n].log = Append(node[n].log, t), NEW k \in Nat, Below(n, k),
           t.by = "restart" => t.of < k
    PROVE  LogBelow(node'[n].log, k)
<1>1. node[n].log \in Seq(Entered)
  BY Stages DEF NodeRecord
<1>2. \A i \in DOMAIN node'[n].log : i \in DOMAIN node[n].log \/ i = Len(node[n].log) + 1
  BY <1>1
<1>3. /\ \A i \in DOMAIN node[n].log : node'[n].log[i] = node[n].log[i]
      /\ node'[n].log[Len(node[n].log) + 1] = t
  BY <1>1
<1> QED
  BY <1>2, <1>3 DEF Below, LogBelow

LEMMA LoadOnce ==
    ASSUME Typed, Once, NEW n \in Process, LoadStage(n)
    PROVE  Once'
<1> DEFINE t == node[n].transition
<1>1. /\ Host \in Process /\ restart[n].last \in Nat /\ restart[Host].last \in Nat
      /\ node[n].log \in Seq(Entered) /\ StageOf(n) \in Stage
  BY Stages DEF Process, RestartRecord, NodeRecord
<1>2. /\ t \in Entered
      /\ node'[n].transition = Nothing /\ node'[n].log = Append(node[n].log, t)
      /\ restart'[n].last = restart[n].last /\ restart'[n].next = restart[n].next
      /\ restart'[n].at = restart[n].at
      /\ ~restart'[n].queued
      /\ IF Loads(n)
         THEN restart'[n].applied /\ restart'[n].pending = (n = Host)
         ELSE restart'[n].applied = restart[n].applied /\ restart'[n].pending = restart[n].pending
      /\ \A m \in Process : m # n => node'[m] = node[m] /\ restart'[m] = restart[m]
      /\ UNCHANGED joined
  BY LoadActs
<1>3. /\ restart'[Host].last = restart[Host].last /\ restart'[Host].next = restart[Host].next
      /\ restart'[Host].pending => restart[Host].pending
  BY <1>1, <1>2 DEF Loads
<1>4. \A p \in Peer : \A m \in packets'[p] :
          \/ m \in packets[p]
          \/ p \in joined /\ m.seq = restart[Host].last /\ m.seq > 0 /\ restart[Host].pending
  <2>1. Send(IF n = Host THEN Announced(restart'[n], StageOf(n) + 1) ELSE {})
    BY LoadActs
  <2>2. restart[Host].pending => restart[Host].last > 0
    BY <1>1 DEF Once, OnceOf
  <2> QED
    BY <1>3, <2>1, <2>2 DEF Send, Announced, Typed, TypeOK
<1>5. OnceOf(n) /\ Heard(n)
  BY DEF Once, OnceOf
<1>6. t.by = "restart" => /\ t.of \in Nat /\ t.of <= restart[n].last /\ Below(n, t.of)
                          /\ t.of = restart[n].last => Loads(n)
  <2>1. t.by = "restart" => t = Restart(t.of) /\ t.of \in Nat
    BY <1>2, EnteredIs, ExitsAreNoRestarts
  <2>2. restart[n].queued => Loads(n)
    BY DEF Typed, Modes, ModesOf, Loads
  <2> QED
    BY <1>5, <2>1, <2>2 DEF OnceOf
<1>7. \A k \in Nat : Below(n, k) /\ (t.by = "restart" => t.of < k) => LogBelow(node'[n].log, k)
  BY <1>2, LoadedBelow
<1>8. RestartsGrow(n)'
  <2> SUFFICES ASSUME NEW i \in DOMAIN node'[n].log, NEW j \in DOMAIN node'[n].log, i < j,
                      node'[n].log[i].by = "restart", node'[n].log[j].by = "restart"
               PROVE  node'[n].log[i].of < node'[n].log[j].of
    BY DEF RestartsGrow
  <2>1. /\ i \in DOMAIN node[n].log /\ node'[n].log[i] = node[n].log[i]
        /\ j \in DOMAIN node[n].log => node'[n].log[j] = node[n].log[j]
        /\ j \notin DOMAIN node[n].log => node'[n].log[j] = t
    BY <1>1, <1>2
  <2>2. CASE j \in DOMAIN node[n].log
    BY <1>5, <2>1, <2>2 DEF OnceOf, RestartsGrow
  <2>3. CASE j \notin DOMAIN node[n].log
    BY <1>6, <2>1, <2>3 DEF Below, LogBelow
  <2> QED
    BY <2>2, <2>3
<1>9. Heard(n)'
  <2> SUFFICES ASSUME n \in Peer, NEW m \in packets'[n], m.kind = "Restart"
               PROVE  /\ 0 < m.seq /\ m.seq <= restart[Host].last
                      /\ m.seq > restart[n].last => LogBelow(node'[n].log, m.seq)
    BY <1>2, <1>3 DEF Heard, Below
  <2>1. n # Host
    BY ProcessAssumption
  <2>2. CASE m \in packets[n]
    BY <1>1, <1>5, <1>6, <1>7, <2>2, PacketsTyped DEF Heard
  <2>3. CASE m \notin packets[n]
    BY <1>1, <1>4, <1>5, <1>6, <1>7, <2>1, <2>3 DEF OnceOf
  <2> QED
    BY <2>2, <2>3
<1>10. OnceOf(n)'
  <2>1. restart'[n].last <= restart'[Host].last
    BY <1>2, <1>3, <1>5 DEF OnceOf
  <2>2. restart'[n].last # 0 <=> restart'[n].pending \/ restart'[n].applied
    <3>1. CASE Loads(n)
      BY <1>2, <1>5, <3>1 DEF OnceOf, Loads
    <3>2. CASE ~Loads(n)
      BY <1>2, <1>5, <3>2 DEF OnceOf
    <3> QED
      BY <3>1, <3>2
  <2>3. LogBelow(node'[n].log, restart[Host].last + 1)
    <3> DEFINE k == restart[Host].last + 1
    <3>1. k \in Nat /\ Below(n, k) /\ (t.by = "restart" => t.of < k)
      BY <1>1, <1>5, <1>6 DEF OnceOf
    <3> HIDE DEF k
    <3>2. LogBelow(node'[n].log, k)
      BY <1>7, <3>1
    <3> QED
      BY <1>3, <3>2 DEF k
  <2>4. restart'[n].pending /\ ~restart'[n].applied => LogBelow(node'[n].log, restart[n].last)
    <3>1. CASE Loads(n)
      BY <1>2, <3>1
    <3>2. CASE ~Loads(n) /\ restart[n].pending /\ ~restart[n].applied
      <4> DEFINE k == restart[n].last
      <4>1. k \in Nat /\ Below(n, k) /\ (t.by = "restart" => t.of < k)
        BY <1>1, <1>5, <1>6, <3>2 DEF OnceOf
      <4> HIDE DEF k
      <4>2. LogBelow(node'[n].log, k)
        BY <1>7, <4>1
      <4> QED
        BY <4>2 DEF k
    <3> QED
      BY <1>2, <3>1, <3>2
  <2>5. \A k \in Nat : node'[n].transition # Restart(k)
    BY <1>2, ExitsAreNoRestarts
  <2>6. n \in joined /\ n # Host /\ restart'[Host].pending /\ restart[n].last < restart[Host].last
           => LogBelow(node'[n].log, restart[Host].last)
    BY <1>1, <1>3, <1>5, <1>6, <1>7 DEF OnceOf
  <2> QED
    BY <1>2, <1>3, <1>8, <1>9, <2>1, <2>2, <2>3, <2>4, <2>5, <2>6 DEF OnceOf, Below
<1>11. ASSUME NEW m \in Process, m # n PROVE OnceOf(m)'
  <2>1. OnceOf(m) /\ (m \in Peer => m # Host)
    BY ProcessAssumption DEF Once
  <2> QED
    BY <1>2, <1>3, <1>4, <1>11, <2>1, OnceElsewhere
<1>12. \A m \in settings'[Host].broadcast : m.kind = "Settings"
  <2>1. settings' = [settings EXCEPT ![n] =
              [@ EXCEPT !.pending = 0, !.lastApplied = 0, !.broadcast = {}]]
    BY DEF LoadStage
  <2>2. settings'[Host].broadcast \subseteq settings[Host].broadcast
    BY <1>1, <2>1, Stages DEF Typed, TypeOK, SettingsRecord
  <2> QED
    BY <2>2 DEF Once
<1> QED
  BY <1>3, <1>10, <1>11, <1>12 DEF Once

\* A peer joins: with what is assumed of that, the host announces nothing.
LEMMA JoinOnce ==
    ASSUME Typed, Once, NEW p \in Peer, Join(p), "joins" \in Assumed
    PROVE  Once'
<1>1. /\ p \in Process /\ p # Host /\ Host \in Process /\ ~restart[Host].pending
      /\ joined' = joined \cup {p} /\ node[Host].transition = Nothing
      /\ node'[p] = node[Host] /\ restart'[p] = NoRestart
      /\ \A n \in Process : n # p => node'[n] = node[n] /\ restart'[n] = restart[n]
      /\ packets'[p] = Announced(restart[Host], StageOf(Host))
                         \cup Broadcast(settings[Host], node[Host].next)
      /\ \A q \in Peer : q # p => packets'[q] = packets[q]
  BY JoinActs DEF Process
<1>2. /\ restart[Host].last \in Nat /\ restart'[Host] = restart[Host]
      /\ NoRestart.last = 0 /\ ~NoRestart.pending /\ ~NoRestart.applied
  BY <1>1, Stages DEF RestartRecord, NoRestart
<1>3. OnceOf(Host)
  BY <1>1 DEF Once
<1>4. \A m \in packets'[p] : m.kind # "Restart"
  BY <1>1 DEF Once, Announced, Broadcast
<1>5. /\ RestartsGrow(p)' = RestartsGrow(Host)
      /\ \A k : LogBelow(node'[p].log, k) = Below(Host, k)
  BY <1>1 DEF RestartsGrow, Below
<1>6. \A k \in Nat : node'[p].transition # Restart(k)
  BY <1>1, ExitsAreNoRestarts
<1>7. OnceOf(p)'
  BY <1>1, <1>2, <1>3, <1>4, <1>5, <1>6 DEF OnceOf, Heard, Below
<1>8. ASSUME NEW n \in Process, n # p PROVE OnceOf(n)'
  BY <1>1, <1>2, <1>8, OnceElsewhere DEF Once
<1>9. settings'[Host].broadcast = settings[Host].broadcast
  BY <1>1 DEF Join, Typed, TypeOK
<1> QED
  BY <1>2, <1>7, <1>8, <1>9 DEF Once

\* What sends no restart and takes none.
LEMMA OnceWithoutRestarts ==
    ASSUME Typed, Once, UNCHANGED <<restart, joined>>,
           \A n \in Process : node'[n].log = node[n].log
                              /\ node'[n].transition = node[n].transition,
           \A p \in Peer : \A m \in packets'[p] : m \in packets[p] \/ m.kind = "Settings",
           \A m \in settings'[Host].broadcast : m.kind = "Settings"
    PROVE  Once'
<1>1. ASSUME NEW n \in Process PROVE OnceOf(n)'
  BY <1>1, OnceElsewhere DEF Once
<1> QED
  BY <1>1 DEF Once

LEMMA OnceAtFirst == Init => Once
<1> SUFFICES ASSUME Init PROVE Once
  OBVIOUS
<1>1. Host \in Process
  BY DEF Process
<1>2. /\ NoRestart.last = 0 /\ NoRestart.next = 1
      /\ ~NoRestart.pending /\ ~NoRestart.applied
  BY DEF NoRestart
<1>3. ASSUME NEW n \in Process PROVE OnceOf(n)
  <2>1. /\ restart[n] = NoRestart /\ restart[Host] = NoRestart
        /\ node[n].log = <<>> /\ node[n].transition = Nothing
        /\ n \in Peer => packets[n] = {}
    BY <1>1, <1>3 DEF Init
  <2>2. DOMAIN node[n].log = {}
    BY <2>1
  <2>3. \A k \in Nat : node[n].transition # Restart(k)
    BY <2>1, ExitsAreNoRestarts
  <2> QED
    BY <1>2, <2>1, <2>2, <2>3 DEF OnceOf, RestartsGrow, Below, LogBelow, Heard
<1>4. settings[Host].broadcast = {} /\ restart[Host] = NoRestart
  BY <1>1 DEF Init, NoSettings
<1> QED
  BY <1>2, <1>3, <1>4 DEF Once

LEMMA OnceKept ==
    ASSUME Typed, Once, [Next]_vars, "joins" \in Assumed
    PROVE  Once'
<1>1. Host \in Process /\ \A m \in settings[Host].broadcast : m.kind = "Settings"
  BY DEF Process, Once
<1>2. CASE RequestRunStart
  BY <1>2, AskOnce DEF RequestRunStart
<1>3. CASE RequestRunRestart
  <2>1. PICK f \in Nat : Ask(restart[Host].next, f)
    BY <1>3, RestartsAreAsked
  <2> QED
    BY <2>1, AskOnce
<1>4. CASE ScheduleLockstepSettingsChange
  <2>1. PICK m \in Packet : /\ m.kind = "Settings" /\ settings'[Host].broadcast = {m} /\ Send({m})
    BY <1>4, ScheduleActs
  <2>2. UNCHANGED <<node, restart, joined>>
    BY <1>4, ScheduleActs
  <2>3. \A p \in Peer : \A o \in packets'[p] : o \in packets[p] \/ o.kind = "Settings"
    BY <2>1 DEF Send, Typed, TypeOK
  <2> QED
    BY <2>1, <2>2, <2>3, OnceWithoutRestarts
<1>5. ASSUME NEW n \in Process, NEW m \in Process, HandleInputFrameRecords(n, m) PROVE Once'
  <2>1. /\ node'[n].log = node[n].log /\ node'[n].transition = node[n].transition
        /\ \A q \in Process : q # n => node'[q] = node[q]
        /\ UNCHANGED <<restart, settings, joined, packets>>
    BY <1>5, InputActs
  <2> QED
    BY <1>1, <2>1, OnceWithoutRestarts
<1>6. ASSUME NEW n \in Process, ApplyDueRunRestart(n) PROVE Once'
  BY <1>6, DueOnce
<1>7. ASSUME NEW n \in Process, ApplyDueLockstepSettings(n) PROVE Once'
  <2>1. /\ \A m \in Process : m # n => settings'[m] = settings[m]
        /\ settings'[n].broadcast = settings[n].broadcast
        /\ UNCHANGED <<node, restart, joined, packets>>
    BY <1>7, ForceActs
  <2>2. settings'[Host].broadcast = settings[Host].broadcast
    BY <1>1, <2>1
  <2> QED
    BY <1>1, <2>1, <2>2, OnceWithoutRestarts
<1>8. ASSUME NEW n \in Process, StepFrame(n) PROVE Once'
  BY <1>8, StepOnce
<1>9. ASSUME NEW n \in Process, LoadStage(n) PROVE Once'
  BY <1>9, LoadOnce
<1>10. ASSUME NEW p \in Peer, NEW m \in packets[p], HandleRunRestartPacket(p, m) PROVE Once'
  BY <1>10, HearOnce
<1>11. ASSUME NEW p \in Peer, HandleLockstepSettingsPacket(p) PROVE Once'
  <2>1. p # Host
    BY ProcessAssumption
  <2>2. /\ settings'[Host] = settings[Host] /\ UNCHANGED <<node, restart, joined, packets>>
    BY <1>1, <1>11, <2>1, TakeActs
  <2> QED
    BY <1>1, <2>2, OnceWithoutRestarts
<1>12. ASSUME NEW p \in Peer, Join(p) PROVE Once'
  BY <1>12, JoinOnce
<1>13. CASE UNCHANGED vars
  BY <1>1, <1>13, OnceWithoutRestarts DEF vars
<1> QED
  BY <1>2, <1>3, <1>4, <1>5, <1>6, <1>7, <1>8, <1>9, <1>10, <1>11, <1>12, <1>13 DEF Next

\* RestartedOncePerRequest: provided nobody joins while a restart is still
\* announced, a run is restarted at most once for every request and in the order
\* of the requests, although packets are repeated, late and lost, on both sides
\* of a change of stage (HandleRunRestartPacket, NotifyRunRestartStageLoaded).
THEOREM RestartsHappenOnce ==
    ASSUME "joins" \in Assumed
    PROVE  Spec => []RestartedOncePerRequest
<1>1. Spec => []Typed
  BY TypesAtFirst, TypesKept, PTL DEF Spec
<1>2. Typed /\ Once /\ [Next]_vars => Once'
  BY OnceKept
<1>3. Once => RestartedOncePerRequest
  BY DEF Once, OnceOf, RestartsGrow, RestartedOncePerRequest
<1> QED
  BY <1>1, <1>2, <1>3, OnceAtFirst, PTL DEF Spec

(***************************************************************************)
(* The processes of a session that no wrong guess has led out of a stage   *)
(* enter the same stages in the same order.  What must be assumed of users *)
(* and network is named in Agreeing.                                       *)
(***************************************************************************)

\* Restarts are asked for well ahead, one at a time and away from exits, and
\* nobody joins while one is announced.
Agreeing == {"margin", "settled", "apart", "joins"} \subseteq Assumed

\* A process is about to leave its stage by an exit it only guessed.
Misled(n) ==
    LET t == node[n].transition
    IN  t # Nothing /\ t.by = "exit" /\ t.of # exitAt[StageOf(n)]

-----------------------------------------------------------------------------
(* Frames.  Nobody steps more than Overrun frames past the exit of its     *)
(* stage, and who has stepped past it and can know it will go back.  The   *)
(* host, which steps no frame on guesses, never is past it.                *)

ExitsAreInBounds == exitAt[1] = Never /\ \A i \in Stage : exitAt[i] \in Nat /\ exitAt[i] <= Never

FramesOf(n) ==
    LET e == exitAt[StageOf(n)]
    IN  /\ node[n].rollback # NoFrame => node[n].rollback < node[n].next
        /\ node[n].next <= Never
        /\ node[n].next <= e + Overrun
        /\ node[n].transition = Nothing =>
              /\ node[n].next < e + Overrun
              /\ n \in joined /\ e < node[n].next /\ e < Known(n) =>
                    node[n].rollback # NoFrame /\ node[n].rollback <= e

HostFrames ==
    /\ node[Host].rollback = NoFrame
    /\ node[Host].next <= Known(Host)
    /\ node[Host].transition = Nothing => node[Host].next <= exitAt[StageOf(Host)]
    /\ ~Misled(Host) /\ ~Strayed(Host)

Framed == ExitsAreInBounds /\ HostFrames /\ \A n \in Process : FramesOf(n)

LEMMA NeverIsNatural == Never \in Nat
  BY BoundAssumption DEF Never

LEMMA FramesTyped ==
    ASSUME Typed, NEW n \in Process
    PROVE  /\ node[n].next \in Nat
           /\ node[n].rollback # NoFrame => node[n].rollback \in Nat
           /\ exitAt[StageOf(n)] \in Nat /\ Known(n) \in Nat
<1>1. /\ node[n].next \in Nat /\ node[n].rollback \in Nat \cup {NoFrame}
      /\ exitAt[StageOf(n)] \in Nat
  BY Stages DEF NodeRecord, Frame
<1>2. Known(n) \in Nat
  BY KnownIsLeast DEF Typed, TypeOK
<1> QED
  BY <1>1, <1>2

\* A process whose frames and inputs a step leaves alone.
LEMMA FramesElsewhere ==
    ASSUME Typed, NEW n \in Process, FramesOf(n), joined' = joined, UNCHANGED exitAt,
           heard'[n] = heard[n],
           node'[n].log = node[n].log, node'[n].next = node[n].next,
           node'[n].rollback = node[n].rollback,
           node'[n].transition = Nothing => node[n].transition = Nothing
    PROVE  FramesOf(n)'
<1>1. StageOf(n)' = StageOf(n)
  BY DEF StageOf
<1>2. Known(n)' = Known(n)
  BY DEF Known, Others
<1> QED
  BY <1>1, <1>2 DEF FramesOf

\* The host, when a step leaves its frames alone and it misses no more inputs.
LEMMA HostElsewhere ==
    ASSUME Typed, Framed, UNCHANGED exitAt,
           Known(Host) <= Known(Host)', Known(Host)' \in Nat,
           node'[Host].log = node[Host].log, node'[Host].next = node[Host].next,
           node'[Host].rollback = node[Host].rollback,
           \/ node'[Host].transition = node[Host].transition
           \/ \E k \in Nat : node'[Host].transition = Restart(k)
    PROVE  HostFrames'
<1>1. StageOf(Host)' = StageOf(Host)
  BY DEF StageOf
<1>2. node'[Host].next <= Known(Host)'
  <2>1. Host \in Process
    BY DEF Process
  <2>2. node[Host].next \in Nat /\ Known(Host) \in Nat /\ node[Host].next <= Known(Host)
    BY <2>1, FramesTyped DEF Framed, HostFrames
  <2> QED
    BY <2>2
<1>3. ~Strayed(Host)'
  BY DEF Framed, HostFrames, Strayed
<1>4. CASE node'[Host].transition = node[Host].transition
  BY <1>1, <1>2, <1>3, <1>4 DEF Framed, HostFrames, Misled
<1>5. CASE \E k \in Nat : node'[Host].transition = Restart(k)
  <2>1. PICK k \in Nat : node'[Host].transition = Restart(k)
    BY <1>5
  <2>2. Restart(k) # Nothing /\ Restart(k).by # "exit"
    BY ExitsAreNoRestarts
  <2> QED
    BY <1>1, <1>2, <1>3, <2>1, <2>2 DEF Framed, HostFrames, Misled
<1> QED
  BY <1>4, <1>5

LEMMA FramesAtFirst == Init => Framed
<1> SUFFICES ASSUME Init PROVE Framed
  OBVIOUS
<1>1. Typed
  BY TypesAtFirst
<1>2. ExitsAreInBounds
  <2>1. ExitFrames \cup {Never} \subseteq Nat /\ \A f \in ExitFrames \cup {Never} : f <= Never
    BY BoundAssumption DEF Never
  <2> QED
    BY <2>1 DEF Init, ExitsAreInBounds
<1>3. ASSUME NEW n \in Process
      PROVE  node[n].next = 0 /\ node[n].rollback = NoFrame /\ node[n].transition = Nothing
             /\ node[n].log = <<>>
  BY DEF Init
<1>4. ASSUME NEW n \in Process PROVE FramesOf(n)
  BY <1>1, <1>3, FramesTyped, NeverIsNatural, OverrunIsPositive DEF FramesOf
<1>5. HostFrames
  <2>1. Host \in Process
    BY DEF Process
  <2>2. Known(Host) \in Nat /\ exitAt[StageOf(Host)] \in Nat
    BY <1>1, <2>1, FramesTyped
  <2> QED
    BY <1>3, <2>1, <2>2 DEF HostFrames, Misled, Strayed
<1> QED
  BY <1>2, <1>4, <1>5 DEF Framed

LEMMA InputFrames ==
    ASSUME Typed, Framed, NEW n \in Process, NEW m \in Process, HandleInputFrameRecords(n, m)
    PROVE  Framed'
<1>1. /\ n \in joined /\ m \in Others(n)
      /\ node'[n].log = node[n].log
      /\ node'[n].next = node[n].next /\ node'[n].transition = node[n].transition
      /\ GuessesCorrected(n, Known(n)', node'[n].rollback)
      /\ heard' \in [Process -> [Process -> Nat]]
      /\ \A q \in Process : heard[n][q] <= heard'[n][q]
      /\ \A q \in Process : q # n => node'[q] = node[q] /\ heard'[q] = heard[q]
      /\ UNCHANGED <<joined, exitAt>>
  BY InputActs
<1>2. PICK g \in Frame \cup {NoFrame} :
          /\ g # NoFrame => heard[n][m] <= g /\ g < node[n].next
          /\ node'[n].rollback = EarlierOf(node[n].rollback, g)
  BY InputActs
<1>3. ASSUME NEW q \in Process, q # n PROVE FramesOf(q)'
  BY <1>1, <1>3, FramesElsewhere DEF Framed
<1>4. FramesOf(n)'
  <2> DEFINE e == exitAt[StageOf(n)]
  <2>1. StageOf(n)' = StageOf(n) /\ FramesOf(n)
    BY <1>1 DEF StageOf, Framed
  <2>2. /\ node[n].next \in Nat /\ e \in Nat /\ Known(n) \in Nat
        /\ node[n].rollback # NoFrame => node[n].rollback \in Nat
        /\ g # NoFrame => g \in Nat
    BY FramesTyped DEF Frame
  <2>3. node'[n].rollback # NoFrame => node'[n].rollback < node'[n].next
    BY <1>1, <1>2, <2>1, <2>2 DEF EarlierOf, FramesOf
  <2>4. ASSUME node[n].transition = Nothing, e < node[n].next, e < Known(n)'
        PROVE  node'[n].rollback # NoFrame /\ node'[n].rollback <= e
    <3>1. CASE e < Known(n)
      BY <1>1, <1>2, <2>1, <2>2, <2>4, <3>1 DEF EarlierOf, FramesOf
    <3>2. CASE Known(n) <= e
      <4>1. Nothing # Exit(e)
        BY BoundAssumption, <2>2 DEF Exit
      <4> QED
        BY <1>1, <2>4, <3>2, <4>1 DEF GuessesCorrected
    <3> QED
      BY <2>2, <3>1, <3>2
  <2> QED
    BY <1>1, <2>1, <2>3, <2>4 DEF FramesOf
<1>5. joined \subseteq Process /\ heard \in [Process -> [Process -> Nat]] /\ Host \in Process
  BY DEF Typed, TypeOK, Process
<1>6. Known(n) <= Known(n)' /\ Known(n)' \in Nat
  <2>1. Others(n)' = Others(n)
    BY <1>1 DEF Others
  <2>2. /\ Known(n)' \in Nat
        /\ Others(n)' # {} => \E q \in Others(n)' : Known(n)' = heard'[n][q]
    BY <1>1, <1>5, KnownNext
  <2>3. PICK q \in Others(n) : Known(n)' = heard'[n][q]
    BY <1>1, <2>1, <2>2
  <2>4. q \in Process /\ Known(n) <= heard[n][q] /\ Known(n) \in Nat
    BY <1>5, <2>3, KnownIsLeast DEF Others
  <2> QED
    BY <1>1, <1>5, <2>2, <2>3, <2>4
<1>7. HostFrames'
  <2>1. CASE n = Host
    <3>1. /\ node[Host].rollback = NoFrame
          /\ node[Host].next <= Known(Host) /\ node[Host].next \in Nat /\ Known(Host) \in Nat
      BY <1>5, FramesTyped DEF Framed, HostFrames
    <3>2. Known(Host) <= heard[Host][m] /\ heard[Host][m] \in Nat
      BY <1>1, <1>5, <2>1, KnownIsLeast
    <3>3. g = NoFrame
      BY <1>2, <2>1, <3>1, <3>2 DEF Frame
    <3>4. node'[Host].rollback = node[Host].rollback
      BY <1>2, <2>1, <3>1, <3>3 DEF EarlierOf
    <3> QED
      BY <1>1, <1>6, <2>1, <3>4, HostElsewhere
  <2>2. CASE n # Host
    <3>1. node'[Host] = node[Host] /\ heard'[Host] = heard[Host]
      BY <1>1, <1>5, <2>2
    <3>2. Known(Host)' = Known(Host) /\ Known(Host) \in Nat
      <4>1. Others(Host)' = Others(Host)
        BY <1>1 DEF Others
      <4>2. {heard'[Host][q] : q \in Others(Host)} = {heard[Host][q] : q \in Others(Host)}
        BY <3>1
      <4>3. Known(Host)' = Known(Host)
        BY <4>1, <4>2 DEF Known
      <4> QED
        BY <1>5, <4>3, FramesTyped
    <3> QED
      BY <1>1, <3>1, <3>2, HostElsewhere
  <2> QED
    BY <2>1, <2>2
<1> QED
  BY <1>1, <1>3, <1>4, <1>7 DEF Framed, ExitsAreInBounds

\* Where a step may leave the stage, and what it knows if it does not.
LEMMA ExitsTaken ==
    ASSUME Typed, Framed, NEW n \in Process, n \in joined, NEW e \in Exits(n, From(n)),
           node[n].transition = Nothing, CanStep(n), node[n].next + 1 <= Never
    PROVE  LET x == exitAt[StageOf(n)]
           IN  /\ e # Never => e <= node[n].next
               /\ e = Never => node[n].next + 1 < x + Overrun
                               /\ (x < node[n].next + 1 => Known(n) <= x)
<1> DEFINE x == exitAt[StageOf(n)]
<1>1. /\ node[n].next \in Nat /\ x \in Nat /\ Known(n) \in Nat
      /\ node[n].rollback # NoFrame => node[n].rollback \in Nat
      /\ Never \in Nat /\ Overrun \in Nat /\ Overrun >= 1 /\ Overrun >= Window - InputDelay + 1
      /\ Window \in Nat /\ InputDelay \in Nat
  BY FramesTyped, NeverIsNatural, OverrunIsPositive, BoundAssumption
<1>2. FramesOf(n) /\ x <= Never
  BY Stages DEF Framed, ExitsAreInBounds
<1>3. Exits(n, From(n)) =
          IF x >= From(n) /\ x <= node[n].next /\ x < Known(n) THEN {x}
          ELSE {Never} \cup Known(n) .. node[n].next
  BY DEF Exits
<1>4. CASE e # Never
  BY <1>1, <1>3, <1>4
<1>5. CASE e = Never /\ (x = Never \/ x > node[n].next)
  BY <1>1, <1>2, <1>5
<1>6. CASE e = Never /\ x # Never /\ x <= node[n].next
  <2>1. Known(n) <= x
    <3>1. ~(x >= From(n) /\ x <= node[n].next /\ x < Known(n))
      BY <1>3, <1>6
    <3>2. CASE node[n].rollback = NoFrame
      BY <1>1, <1>2, <1>6, <3>1, <3>2 DEF From, FramesOf
    <3>3. CASE node[n].rollback # NoFrame
      BY <1>1, <1>2, <1>6, <3>1, <3>3 DEF From, FramesOf
    <3> QED
      BY <3>2, <3>3
  <2>2. node[n].next + 1 < x + Overrun
    <3>1. CASE Others(n) = {}
      <4>1. Known(n) = Never + Window
        BY <3>1, KnownIsLeast DEF Typed, TypeOK
      <4> QED
        BY <1>1, <1>2, <1>6, <2>1, <4>1
    <3>2. CASE Others(n) # {}
      <4>1. PICK m \in Others(n) : Known(n) = heard[n][m]
        BY <3>2, KnownIsLeast DEF Typed, TypeOK
      <4>2. node[n].next + InputDelay < Known(n) + Window
        BY <4>1 DEF CanStep
      <4> QED
        BY <1>1, <2>1, <4>2
    <3> QED
      BY <3>1, <3>2
  <2> QED
    BY <1>6, <2>1, <2>2
<1> QED
  BY <1>1, <1>4, <1>5, <1>6

\* The host takes the right exit, and only when it has come to it.
LEMMA HostExits ==
    ASSUME Typed, Framed, NEW e \in Exits(Host, From(Host)), CanBuild(Host),
           node[Host].transition = Nothing, node[Host].next + 1 <= Never
    PROVE  LET x == exitAt[StageOf(Host)]
           IN  /\ e # Never => e = x
               /\ e = Never => node[Host].next + 1 <= x
               /\ node[Host].next + 1 <= Known(Host)
<1> DEFINE x == exitAt[StageOf(Host)]
           h == node[Host].next
<1>1. h \in Nat /\ x \in Nat /\ Known(Host) \in Nat /\ Never \in Nat
  BY FramesTyped, NeverIsNatural DEF Process
<1>2. From(Host) = h /\ h <= x /\ h < Known(Host)
  BY DEF Framed, HostFrames, From, CanBuild
<1>3. Exits(Host, From(Host)) =
          IF x >= h /\ x <= h /\ x < Known(Host) THEN {x} ELSE {Never} \cup Known(Host) .. h
  BY <1>2 DEF Exits
<1>4. CASE x = h
  <2>1. e = x
    BY <1>1, <1>2, <1>3, <1>4
  <2>2. x # Never
    BY <1>1, <1>4, <2>1
  <2> QED
    BY <1>1, <1>2, <2>1, <2>2
<1>5. CASE x # h
  <2>1. e = Never
    BY <1>1, <1>2, <1>3, <1>5
  <2> QED
    BY <1>1, <1>2, <1>5, <2>1
<1> QED
  BY <1>4, <1>5

LEMMA StepFrames ==
    ASSUME Typed, Framed, NEW n \in Process, StepFrame(n)
    PROVE  Framed'
<1> DEFINE x == exitAt[StageOf(n)]
<1>1. /\ n \in joined /\ node[n].transition = Nothing /\ CanStep(n) /\ CanBuild(n)
      /\ node[n].next + 1 <= Never
      /\ node'[n].log = node[n].log /\ node'[n].next = node[n].next + 1
      /\ node'[n].rollback = NoFrame
      /\ \A m \in Process : m # n => node'[m] = node[m]
      /\ UNCHANGED <<joined, heard, exitAt>>
  BY StepActs DEF Never, Typed, Modes, ModesOf
<1>2. PICK e \in Exits(n, From(n)) :
          IF e = Never THEN node'[n].transition = Nothing
          ELSE node'[n].transition = Exit(e) /\ Exit(e) # Nothing
  BY StepActs
<1>3. /\ e # Never => e <= node[n].next
      /\ e = Never => node[n].next + 1 < x + Overrun
                      /\ (x < node[n].next + 1 => Known(n) <= x)
  BY <1>1, ExitsTaken
<1>4. StageOf(n)' = StageOf(n) /\ Known(n)' = Known(n)
  BY <1>1 DEF StageOf, Known, Others
<1>5. /\ node[n].next \in Nat /\ x \in Nat /\ Known(n) \in Nat
      /\ Overrun \in Nat /\ Overrun >= 1
      /\ node[n].next < x + Overrun
  BY <1>1, FramesTyped, OverrunIsPositive DEF Framed, FramesOf
<1>6. FramesOf(n)'
  BY <1>1, <1>2, <1>3, <1>4, <1>5 DEF FramesOf
<1>7. ASSUME NEW m \in Process, m # n PROVE FramesOf(m)'
  BY <1>1, <1>7, FramesElsewhere DEF Framed
<1>8. HostFrames'
  <2>1. CASE n = Host
    <3>1. /\ e # Never => e = x
          /\ e = Never => node[n].next + 1 <= x
          /\ node[n].next + 1 <= Known(n)
      BY <1>1, <2>1, HostExits
    <3>2. ~Strayed(Host)'
      BY <1>1, <2>1 DEF Framed, HostFrames, Strayed
    <3>3. ~Misled(Host)'
      <4>1. Exit(e).of = e
        BY DEF Exit
      <4> QED
        BY <1>1, <1>2, <1>4, <2>1, <3>1, <4>1 DEF Misled
    <3>4. node'[n].transition = Nothing => node'[n].next <= x
      BY <1>1, <1>2, <3>1
    <3> QED
      BY <1>1, <1>4, <2>1, <3>1, <3>2, <3>3, <3>4 DEF HostFrames
  <2>2. CASE n # Host
    <3>1. Host \in Process
      BY DEF Process
    <3>2. node'[Host] = node[Host] /\ Known(Host)' = Known(Host) /\ Known(Host) \in Nat
      BY <1>1, <2>2, <3>1, FramesTyped DEF Known, Others
    <3> QED
      BY <1>1, <3>2, HostElsewhere
  <2> QED
    BY <2>1, <2>2
<1> QED
  BY <1>1, <1>6, <1>7, <1>8 DEF Framed, ExitsAreInBounds

LEMMA LoadFrames ==
    ASSUME Typed, Framed, NEW n \in Process, LoadStage(n)
    PROVE  Framed'
<1>1. /\ node[n].transition \in Entered /\ node[n].log \in Seq(Entered)
      /\ node'[n].log = Append(node[n].log, node[n].transition)
      /\ node'[n].transition = Nothing
      /\ node'[n].next = 0 /\ node'[n].rollback = NoFrame
      /\ \A m \in Process : m # n => node'[m] = node[m]
      /\ UNCHANGED <<joined, exitAt>>
  BY LoadActs, Stages DEF NodeRecord
<1>2. \A m \in Process : m # n => heard'[m] = heard[m]
  BY DEF LoadStage, Typed, TypeOK
<1>3. StageOf(n)' = StageOf(n) + 1 /\ StageOf(n)' \in Stage
  <2>1. StageOf(n) < MaxStage /\ StageOf(n) \in Stage
    BY LoadActs, Stages
  <2> QED
    BY <1>1, <2>1, BoundAssumption DEF StageOf, Stage
<1>4. exitAt'[StageOf(n)'] \in Nat
  BY <1>1, <1>3 DEF Typed, TypeOK
<1>5. FramesOf(n)'
  BY <1>1, <1>4, NeverIsNatural, OverrunIsPositive DEF FramesOf
<1>6. ASSUME NEW m \in Process, m # n PROVE FramesOf(m)'
  BY <1>1, <1>2, <1>6, FramesElsewhere DEF Framed
<1>7. HostFrames'
  <2>1. Host \in Process
    BY DEF Process
  <2>2. CASE n = Host
    <3>1. Known(Host)' \in Nat
      <4>1. Typed'
        BY LoadTyped
      <4>2. joined' \subseteq Process /\ heard' \in [Process -> [Process -> Nat]]
        BY <4>1 DEF Typed, TypeOK
      <4> QED
        BY <2>1, <4>2, KnownNext
    <3>2. ~Misled(Host) /\ ~Strayed(Host)
      BY DEF Framed, HostFrames
    <3>3. ~Strayed(Host)'
      <4>1. node[n].transition # Nothing
        BY <1>1, BoundAssumption DEF Entered, Frame
      <4>2. \A i \in DOMAIN node'[n].log :
                \/ i \in DOMAIN node[n].log /\ node'[n].log[i] = node[n].log[i]
                \/ i = StageOf(n) /\ node'[n].log[i] = node[n].transition
        BY <1>1 DEF StageOf
      <4>3. ASSUME NEW i \in DOMAIN node'[n].log, node'[n].log[i].by = "exit"
            PROVE  node'[n].log[i].of = exitAt[i]
        <5>1. CASE i \in DOMAIN node[n].log /\ node'[n].log[i] = node[n].log[i]
          BY <2>2, <3>2, <4>3, <5>1 DEF Strayed
        <5>2. CASE i = StageOf(n) /\ node'[n].log[i] = node[n].transition
          BY <2>2, <3>2, <4>1, <4>3, <5>2 DEF Misled
        <5> QED
          BY <4>2, <5>1, <5>2
      <4> QED
        BY <1>1, <2>2, <4>3 DEF Strayed
    <3> QED
      BY <1>1, <1>4, <2>2, <3>1, <3>3 DEF HostFrames, Misled
  <2>3. CASE n # Host
    <3>1. node'[Host] = node[Host] /\ Known(Host)' = Known(Host) /\ Known(Host) \in Nat
      BY <1>1, <1>2, <2>1, <2>3, FramesTyped DEF Known, Others
    <3> QED
      BY <1>1, <3>1, HostElsewhere
  <2> QED
    BY <2>2, <2>3
<1> QED
  BY <1>1, <1>5, <1>6, <1>7 DEF Framed, ExitsAreInBounds

LEMMA JoinFrames ==
    ASSUME Typed, Framed, NEW p \in Peer, Join(p)
    PROVE  Framed'
<1> DEFINE x == exitAt[StageOf(Host)]
           h == node[Host].next
<1>1. /\ Host \in Process /\ Host \in joined /\ p # Host /\ joined' = joined \cup {p}
      /\ p \in Process /\ joined \subseteq Process
      /\ node[Host].transition = Nothing
      /\ \A n \in joined : node[n].log = node[Host].log /\ node[n].next = node[Host].next
                           /\ node[n].rollback = NoFrame
      /\ node'[p] = node[Host]
      /\ \A n \in Process : n # p => node'[n] = node[n]
      /\ heard' = [n \in Process |-> [m \in Process |->
            IF n \in joined' /\ m \in joined' \ {n} /\ p \in {n, m} THEN node[Host].next
            ELSE heard[n][m]]]
      /\ UNCHANGED exitAt
  BY JoinActs DEF Typed, TypeOK, Process
<1>2. /\ h \in Nat /\ x \in Nat /\ FramesOf(Host) /\ h <= Known(Host) /\ Known(Host) \in Nat
      /\ h <= x
  BY <1>1, FramesTyped DEF Framed, HostFrames
<1>3. StageOf(p)' = StageOf(Host) /\ FramesOf(p)'
  BY <1>1, <1>2 DEF StageOf, FramesOf
<1>4. ASSUME NEW n \in Process, n # p, n \in joined PROVE FramesOf(n)'
  <2>1. FramesOf(n) /\ StageOf(n)' = StageOf(n) /\ StageOf(n) = StageOf(Host)
    BY <1>1, <1>4 DEF Framed, StageOf
  <2> QED
    BY <1>1, <1>2, <1>4, <2>1 DEF FramesOf
<1>5. ASSUME NEW n \in Process, n # p, n \notin joined PROVE FramesOf(n)'
  <2>1. FramesOf(n) /\ StageOf(n)' = StageOf(n) /\ n \notin joined'
    BY <1>1, <1>5 DEF Framed, StageOf
  <2> QED
    BY <1>1, <1>5, <2>1 DEF FramesOf
<1>6. h <= Known(Host)'
  <2>1. Typed'
    BY JoinTyped
  <2>2. /\ Known(Host)' \in Nat
        /\ Others(Host)' # {} => \E m \in Others(Host)' : Known(Host)' = heard'[Host][m]
    BY <1>1, <2>1, KnownNext DEF Typed, TypeOK
  <2>3. p \in Others(Host)'
    BY <1>1 DEF Others
  <2>4. PICK m \in Others(Host)' : Known(Host)' = heard'[Host][m]
    BY <2>2, <2>3
  <2>5. m \in joined' /\ m # Host /\ m \in Process
    BY <1>1, <2>4 DEF Others
  <2>6. CASE m = p
    BY <1>1, <1>2, <2>4, <2>5, <2>6
  <2>7. CASE m # p
    <3>1. m \in Others(Host) /\ heard'[Host][m] = heard[Host][m]
      BY <1>1, <2>5, <2>7 DEF Others
    <3>2. Known(Host) <= heard[Host][m] /\ heard[Host][m] \in Nat
      BY <1>1, <2>5, <3>1, KnownIsLeast DEF Typed, TypeOK
    <3> QED
      BY <1>2, <2>4, <3>1, <3>2
  <2> QED
    BY <2>6, <2>7
<1>7. HostFrames'
  <2>1. node'[Host] = node[Host] /\ StageOf(Host)' = StageOf(Host)
    BY <1>1 DEF StageOf
  <2> QED
    BY <1>1, <1>6, <2>1 DEF Framed, HostFrames, Misled, Strayed
<1> QED
  BY <1>1, <1>3, <1>4, <1>5, <1>7 DEF Framed, ExitsAreInBounds

LEMMA FramesKept ==
    ASSUME Typed, Framed, [Next]_vars
    PROVE  Framed'
<1>1. ASSUME UNCHANGED <<joined, heard, exitAt>>,
             \A n \in Process :
                 /\ node'[n].log = node[n].log /\ node'[n].next = node[n].next
                 /\ node'[n].rollback = node[n].rollback
                 /\ \/ node'[n].transition = node[n].transition
                    \/ \E k \in Nat : node'[n].transition = Restart(k)
      PROVE  Framed'
  <2>1. \A k \in Nat : Restart(k) # Nothing
    BY ExitsAreNoRestarts
  <2>2. ASSUME NEW n \in Process PROVE FramesOf(n)'
    BY <1>1, <2>1, FramesElsewhere DEF Framed
  <2>3. Host \in Process
    BY DEF Process
  <2>4. Known(Host)' = Known(Host) /\ Known(Host) \in Nat
    BY <1>1, <2>3, FramesTyped DEF Known, Others
  <2>5. HostFrames'
    BY <1>1, <2>3, <2>4, HostElsewhere
  <2> QED
    BY <1>1, <2>2, <2>5 DEF Framed, ExitsAreInBounds
<1>2. CASE RequestRunStart
  BY <1>1, <1>2 DEF RequestRunStart, Ask
<1>3. CASE RequestRunRestart
  BY <1>1, <1>3 DEF RequestRunRestart, Ask
<1>4. CASE ScheduleLockstepSettingsChange
  BY <1>1, <1>4, ScheduleActs
<1>5. ASSUME NEW n \in Process, NEW m \in Process, HandleInputFrameRecords(n, m) PROVE Framed'
  BY <1>5, InputFrames
<1>6. ASSUME NEW n \in Process, ApplyDueRunRestart(n) PROVE Framed'
  <2>1. restart[n].last \in Nat
    BY Stages DEF RestartRecord
  <2>2. /\ node'[n].log = node[n].log /\ node'[n].next = node[n].next
        /\ node'[n].rollback = node[n].rollback
        /\ node'[n].transition = Restart(restart[n].last)
        /\ \A m \in Process : m # n => node'[m] = node[m]
        /\ UNCHANGED <<joined, heard, exitAt>>
    BY <1>6, DueActs
  <2> QED
    BY <1>1, <2>1, <2>2
<1>7. ASSUME NEW n \in Process, ApplyDueLockstepSettings(n) PROVE Framed'
  BY <1>1, <1>7, ForceActs
<1>8. ASSUME NEW n \in Process, StepFrame(n) PROVE Framed'
  BY <1>8, StepFrames
<1>9. ASSUME NEW n \in Process, LoadStage(n) PROVE Framed'
  BY <1>9, LoadFrames
<1>10. ASSUME NEW p \in Peer, NEW m \in packets[p], HandleRunRestartPacket(p, m) PROVE Framed'
  BY <1>1, <1>10, HearActs
<1>11. ASSUME NEW p \in Peer, HandleLockstepSettingsPacket(p) PROVE Framed'
  BY <1>1, <1>11, TakeActs
<1>12. ASSUME NEW p \in Peer, Join(p) PROVE Framed'
  BY <1>12, JoinFrames
<1>13. CASE UNCHANGED vars
  BY <1>1, <1>13 DEF vars
<1> QED
  BY <1>2, <1>3, <1>4, <1>5, <1>6, <1>7, <1>8, <1>9, <1>10, <1>11, <1>12, <1>13 DEF Next

-----------------------------------------------------------------------------
(* The way of a process through the stages: those it has left, with the    *)
(* one it is about to leave, unless by an exit wrongly guessed.            *)

Sound == {n \in joined : ~Strayed(n)}

Course(n) == IF Misled(n) THEN Nothing ELSE node[n].transition

Leaves(n, i, t) ==
    \/ i \in DOMAIN node[n].log /\ node[n].log[i] = t
    \/ i = StageOf(n) /\ Course(n) = t /\ t # Nothing

Left(n) == IF Course(n) = Nothing THEN Len(node[n].log) ELSE StageOf(n)

LEMMA CourseIs ==
    ASSUME Typed, NEW n \in Process
    PROVE  /\ Course(n) \in Entered \cup {Nothing}
           /\ Course(n) = Nothing \/ Course(n) = node[n].transition
           /\ node[n].transition = Nothing => Course(n) = Nothing
           /\ \A k \in Nat : Course(n) = Restart(k) <=> node[n].transition = Restart(k)
           /\ Course(n) # Nothing /\ Course(n).by = "exit" => Course(n).of = exitAt[StageOf(n)]
<1>1. node[n].transition \in Entered \cup {Nothing}
  BY Stages DEF NodeRecord
<1>2. ASSUME NEW k \in Nat
      PROVE  Course(n) = Restart(k) <=> node[n].transition = Restart(k)
  <2>1. Restart(k) # Nothing /\ Restart(k).by # "exit"
    BY ExitsAreNoRestarts
  <2> QED
    BY <2>1 DEF Course, Misled
<1>3. Course(n) # Nothing /\ Course(n).by = "exit" => Course(n).of = exitAt[StageOf(n)]
  BY DEF Course, Misled
<1> QED
  BY <1>1, <1>2, <1>3 DEF Course

LEMMA WaysTyped ==
    ASSUME Typed, NEW n \in Process
    PROVE  /\ Left(n) \in Nat /\ Left(n) <= StageOf(n) /\ StageOf(n) - 1 <= Left(n)
           /\ Left(n) <= MaxStage
           /\ \A i, t : Leaves(n, i, t) => i \in Stage /\ i <= Left(n) /\ t \in Entered
           /\ \A i \in Stage : i <= Left(n) => \E t \in Entered : Leaves(n, i, t)
           /\ \A i, t, u : Leaves(n, i, t) /\ Leaves(n, i, u) => t = u
           /\ \A i : i < StageOf(n) => \A t : Leaves(n, i, t) => i \in DOMAIN node[n].log
<1> DEFINE log == node[n].log
           c == Course(n)
<1>1. /\ log \in Seq(Entered) /\ c \in Entered \cup {Nothing}
      /\ StageOf(n) \in Stage /\ StageOf(n) = Len(log) + 1 /\ Len(log) \in Nat
      /\ MaxStage \in Nat
  BY Stages, CourseIs, BoundAssumption DEF NodeRecord
<1>2. DOMAIN log = 1 .. Len(log) /\ \A i \in DOMAIN log : log[i] \in Entered
  BY <1>1
<1> HIDE DEF log, c
<1>3. \A i, t : Leaves(n, i, t) <=> \/ i \in DOMAIN log /\ log[i] = t
                                    \/ i = StageOf(n) /\ c = t /\ t # Nothing
  BY DEF Leaves, log, c
<1>4. Left(n) = IF c = Nothing THEN Len(log) ELSE StageOf(n)
  BY DEF Left, log, c
<1>5. Left(n) \in Nat /\ Left(n) <= StageOf(n) /\ StageOf(n) - 1 <= Left(n) /\ Left(n) <= MaxStage
  BY <1>1, <1>4 DEF Stage
<1>6. \A i, t : Leaves(n, i, t) => i \in Stage /\ i <= Left(n) /\ t \in Entered
  BY <1>1, <1>2, <1>3, <1>4 DEF Stage
<1>7. ASSUME NEW i \in Stage, i <= Left(n) PROVE \E t \in Entered : Leaves(n, i, t)
  <2>1. CASE i \in DOMAIN log
    BY <1>2, <1>3, <2>1
  <2>2. CASE i \notin DOMAIN log
    <3>1. i = StageOf(n) /\ c # Nothing
      BY <1>1, <1>2, <1>4, <1>7, <2>2 DEF Stage
    <3> QED
      BY <1>1, <1>3, <3>1
  <2> QED
    BY <2>1, <2>2
<1>8. \A i, t, u : Leaves(n, i, t) /\ Leaves(n, i, u) => t = u
  BY <1>1, <1>2, <1>3
<1>9. \A i : i < StageOf(n) => \A t : Leaves(n, i, t) => i \in DOMAIN log
  BY <1>1, <1>3 DEF Stage
<1> QED
  BY <1>5, <1>6, <1>7, <1>8, <1>9 DEF log

\* The restarts on the way are of growing requests.
LEMMA WayGrows ==
    ASSUME Typed, Once, NEW n \in Process, NEW k \in Nat, NEW l \in Nat, NEW i, NEW j,
           Leaves(n, i, Restart(k)), Leaves(n, j, Restart(l))
    PROVE  i < j => k < l
<1>1. /\ Restart(k).by = "restart" /\ Restart(k).of = k
      /\ Restart(l).by = "restart" /\ Restart(l).of = l
  BY ExitsAreNoRestarts
<1>2. OnceOf(n) /\ i <= StageOf(n) /\ j <= StageOf(n) /\ i \in Stage /\ j \in Stage
  <2>1. /\ Left(n) \in Nat /\ Left(n) <= StageOf(n) /\ StageOf(n) \in Nat
        /\ i \in Stage /\ i <= Left(n) /\ j \in Stage /\ j <= Left(n)
    BY WaysTyped, Stages DEF Stage
  <2> QED
    BY <2>1 DEF Once, Stage
<1>3. i < j => i \in DOMAIN node[n].log /\ node[n].log[i] = Restart(k)
  BY <1>2, Stages DEF Leaves, Stage
<1>4. CASE j \in DOMAIN node[n].log /\ node[n].log[j] = Restart(l)
  BY <1>1, <1>2, <1>3, <1>4 DEF OnceOf, RestartsGrow
<1>5. CASE node[n].transition = Restart(l)
  BY <1>1, <1>2, <1>3, <1>5 DEF OnceOf, Below, LogBelow
<1> QED
  BY <1>4, <1>5, CourseIs DEF Leaves

\* They are of requests the host has made.
LEMMA WayIsAsked ==
    ASSUME Typed, Once, NEW n \in Process, NEW k \in Nat, NEW i, Leaves(n, i, Restart(k))
    PROVE  k <= restart[Host].last
<1>1. Restart(k).by = "restart" /\ Restart(k).of = k
  BY ExitsAreNoRestarts
<1>2. OnceOf(n) /\ restart[n].last \in Nat /\ restart[Host].last \in Nat
  BY Stages DEF Once, Process, RestartRecord
<1>3. CASE i \in DOMAIN node[n].log /\ node[n].log[i] = Restart(k)
  <2>1. Below(n, restart[Host].last + 1)
    BY <1>2 DEF OnceOf
  <2> QED
    BY <1>1, <1>2, <1>3, <2>1 DEF Below, LogBelow
<1>4. CASE node[n].transition = Restart(k)
  BY <1>2, <1>4 DEF OnceOf
<1> QED
  BY <1>3, <1>4, CourseIs DEF Leaves

-----------------------------------------------------------------------------
(* The invariant.  A process has a restart ahead of it while it waits for  *)
(* the frame of one, or has not heard of one it was sent.  Whoever is      *)
(* further on its way by that restart, or by an exit before it, is so by   *)
(* what the others are going to do as well.                                *)

Waits(n) == restart[n].pending /\ ~restart[n].queued /\ ~restart[n].applied

Unheard(n) ==
    n \in Peer /\ \E m \in packets[n] : m.kind = "Restart" /\ m.seq > restart[n].last

Awaits(n) == Waits(n) \/ Unheard(n)

\* No stage from this one on is left by an exit just before the restart.
Clear(i) == exitAt[i] >= restart[Host].at \/ exitAt[i] + Overrun < restart[Host].at

ExitsOf(n) ==
    \A i \in Stage, t \in Entered :
        Leaves(n, i, t) /\ t.by = "exit" => t = Exit(exitAt[i]) /\ exitAt[i] # Never

\* What it waits for or has not heard of is the last restart asked for.
RestartOf(n) ==
    /\ \A k \in Nat : node[n].transition = Restart(k) => restart[n].queued
    /\ restart[n].applied =>
          \E i \in DOMAIN node[n].log : node[n].log[i] = Restart(restart[n].last)
    /\ restart[n].pending /\ ~restart[n].applied =>
          restart[n].last = restart[Host].last /\ restart[n].at = restart[Host].at
    /\ n \in Peer => \A m \in packets[n] :
          m.kind = "Restart" /\ m.seq > restart[n].last =>
              m.seq = restart[Host].last /\ m.at = restart[Host].at

\* Nobody is at the frame of a restart that somebody has not heard of.
AheadOf(n) ==
    /\ Awaits(n) =>
          /\ \A i \in Stage : i >= StageOf(n) => Clear(i)
          /\ restart[Host].at = 0 => Left(n) = 0
    /\ Unheard(n) /\ restart[Host].at # 0 =>
          Waits(Host) /\ \A m \in Sound : node[m].next < restart[Host].at
    /\ restart[Host].pending \/ Awaits(n) =>
          \A m \in Sound \ {Host} : restart[m].last = restart[Host].last \/ Unheard(m)

RestartsLead(m, n) ==
    \A i \in Stage, k \in Nat :
        Leaves(m, i, Restart(k)) /\ i > Left(n) =>
            /\ Awaits(n) /\ k = restart[Host].last /\ exitAt[i] >= restart[Host].at
            /\ restart[Host].at # 0 => restart[n].last = restart[Host].last

ExitsLead(m, n) ==
    \A i \in Stage, t \in Entered :
        /\ Leaves(m, i, t) /\ t.by = "exit" /\ i >= StageOf(n)
        /\ Awaits(n) /\ restart[Host].at # 0
        /\ \A j \in Stage : j <= i => ~Leaves(m, j, Restart(restart[Host].last))
        => exitAt[i] + Overrun < restart[Host].at

SameWay(m, n) ==
    \A i \in Stage, t \in Entered, u \in Entered :
        Leaves(m, i, t) /\ Leaves(n, i, u) => t = u

Agreed ==
    /\ \A n \in Sound : ExitsOf(n) /\ RestartOf(n) /\ AheadOf(n)
    /\ \A m \in Sound, n \in Sound : RestartsLead(m, n) /\ ExitsLead(m, n) /\ SameWay(m, n)

LEMMA SessionTyped ==
    ASSUME Typed
    PROVE  /\ Host \in Process /\ Host \in joined /\ Host \notin Peer /\ joined \subseteq Process
           /\ Sound \subseteq joined /\ Sound \subseteq Process
           /\ Overrun \in Nat /\ Overrun >= 1
           /\ \A n \in Process :
                 /\ restart[n] \in RestartRecord /\ restart[n].last \in Nat /\ restart[n].at \in Nat
                 /\ node[n].next \in Nat /\ StageOf(n) \in Stage /\ Left(n) \in Nat
                 /\ Left(n) <= StageOf(n) /\ StageOf(n) - 1 <= Left(n)
           /\ \A i \in Stage : i \in Nat /\ i >= 1 /\ exitAt[i] \in Nat
           /\ \A k \in Nat : Restart(k) \in Entered /\ Exit(k) \in Entered
<1>1. Host \in Process /\ Host \in joined /\ Host \notin Peer /\ joined \subseteq Process
  BY ProcessAssumption DEF Process, Typed, TypeOK
<1>5. Sound \subseteq joined /\ Sound \subseteq Process
  BY <1>1 DEF Sound
<1>2. ASSUME NEW n \in Process
      PROVE  /\ restart[n] \in RestartRecord /\ restart[n].last \in Nat /\ restart[n].at \in Nat
             /\ node[n].next \in Nat /\ StageOf(n) \in Stage /\ Left(n) \in Nat
             /\ Left(n) <= StageOf(n) /\ StageOf(n) - 1 <= Left(n)
  BY Stages, WaysTyped DEF RestartRecord, NodeRecord, Frame
<1>3. \A i \in Stage : i \in Nat /\ i >= 1 /\ exitAt[i] \in Nat
  BY BoundAssumption DEF Stage, Typed, TypeOK
<1>4. \A k \in Nat : Restart(k) \in Entered /\ Exit(k) \in Entered
  BY DEF Restart, Exit, Entered, Frame
<1> QED
  BY <1>1, <1>2, <1>3, <1>4, <1>5, OverrunIsPositive

LEMMA HostIsSound ==
    Typed /\ Framed => Host \in Sound
  BY SessionTyped DEF Framed, HostFrames, Sound

\* A step that leaves the ways alone, and who waits for what.
LEMMA AgreedElsewhere ==
    ASSUME Typed, Agreed, Sound' \subseteq Sound, Host \in Sound', exitAt' = exitAt,
           restart'[Host].last = restart[Host].last, restart'[Host].at = restart[Host].at,
           restart'[Host].pending => restart[Host].pending,
           \A n \in Sound' :
               /\ \A i, t : Leaves(n, i, t)' <=> Leaves(n, i, t)
               /\ Left(n)' = Left(n) /\ StageOf(n)' \in Int /\ StageOf(n)' >= StageOf(n)
               /\ (Waits(n)' <=> Waits(n)) /\ (Unheard(n)' <=> Unheard(n))
               /\ restart'[n].last = restart[n].last
               /\ \A q \in Sound :
                     Unheard(q) /\ restart[Host].at # 0 /\ node[n].next < restart[Host].at
                         => node'[n].next < restart[Host].at
               /\ RestartOf(n)'
    PROVE  Agreed'
<1>1. /\ Host \in Sound'
      /\ \A n \in Sound' : n \in Sound /\ StageOf(n) \in Int /\ (Awaits(n)' <=> Awaits(n))
  BY SessionTyped DEF Awaits, Stage
<1>2. \A i \in Stage : Clear(i)' <=> Clear(i)
  BY DEF Clear
<1>3. \A i \in Stage : i \in Int
  BY SessionTyped
<1>4. ASSUME NEW n \in Sound' PROVE ExitsOf(n)' /\ RestartOf(n)' /\ AheadOf(n)'
  <2>1. ExitsOf(n) /\ AheadOf(n)
    BY <1>1 DEF Agreed
  <2>2. ExitsOf(n)'
    BY <2>1 DEF ExitsOf
  <2>3. AheadOf(n)'
    <3>1. Awaits(n)' => /\ \A i \in Stage : i >= StageOf(n)' => Clear(i)'
                        /\ restart'[Host].at = 0 => Left(n)' = 0
      BY <1>1, <1>2, <1>3, <2>1 DEF AheadOf
    <3>2. Unheard(n)' /\ restart'[Host].at # 0 =>
              Waits(Host)' /\ \A m \in Sound' : node'[m].next < restart'[Host].at
      BY <1>1, <2>1 DEF AheadOf
    <3>3. restart'[Host].pending \/ Awaits(n)' =>
              \A m \in Sound' \ {Host} : restart'[m].last = restart'[Host].last \/ Unheard(m)'
      BY <1>1, <2>1 DEF AheadOf
    <3> QED
      BY <3>1, <3>2, <3>3 DEF AheadOf
  <2> QED
    BY <2>2, <2>3
<1>5. ASSUME NEW m \in Sound', NEW n \in Sound'
      PROVE  RestartsLead(m, n)' /\ ExitsLead(m, n)' /\ SameWay(m, n)'
  <2>1. RestartsLead(m, n) /\ ExitsLead(m, n) /\ SameWay(m, n)
    BY <1>1 DEF Agreed
  <2>2. RestartsLead(m, n)'
    BY <1>1, <2>1 DEF RestartsLead
  <2>3. ExitsLead(m, n)'
    BY <1>1, <1>3, <2>1 DEF ExitsLead
  <2>4. SameWay(m, n)'
    BY <2>1 DEF SameWay
  <2> QED
    BY <2>2, <2>3, <2>4
<1> QED
  BY <1>4, <1>5 DEF Agreed

LEMMA AgreedWithoutRestarts ==
    ASSUME Typed, Framed, Agreed, Sound' \subseteq Sound, Host \in Sound', exitAt' = exitAt,
           \A n \in Sound' :
               /\ node'[n].log = node[n].log /\ node'[n].next = node[n].next
               /\ node'[n].transition = node[n].transition
               /\ restart'[n] = restart[n],
           \A p \in Peer : packets[p] \subseteq packets'[p],
           \A p \in Peer : \A m \in packets'[p] : m \in packets[p] \/ m.kind = "Settings"
    PROVE  Agreed'
<1>1. ASSUME NEW n \in Sound'
      PROVE  /\ \A i, t : Leaves(n, i, t)' <=> Leaves(n, i, t)
             /\ Left(n)' = Left(n) /\ StageOf(n)' \in Int /\ StageOf(n)' >= StageOf(n)
             /\ (Waits(n)' <=> Waits(n)) /\ (Unheard(n)' <=> Unheard(n))
             /\ restart'[n].last = restart[n].last
             /\ node[n].next < restart[Host].at => node'[n].next < restart[Host].at
             /\ RestartOf(n)'
  <2>1. /\ n \in Sound /\ n \in Process /\ StageOf(n) \in Stage /\ \A i \in Stage : i \in Int
    BY SessionTyped
  <2>2. StageOf(n)' = StageOf(n) /\ RestartOf(n)
    BY <2>1 DEF StageOf, Agreed
  <2>3. Course(n)' = Course(n)
    BY <2>2 DEF Course, Misled
  <2>4. (\A i, t : Leaves(n, i, t)' <=> Leaves(n, i, t)) /\ Left(n)' = Left(n)
    BY <2>2, <2>3 DEF Leaves, Left
  <2>5. (Waits(n)' <=> Waits(n)) /\ (Unheard(n)' <=> Unheard(n))
    BY DEF Waits, Unheard
  <2>6. RestartOf(n)'
    BY <2>1, <2>2 DEF RestartOf
  <2> QED
    BY <2>1, <2>2, <2>4, <2>5, <2>6
<1> QED
  BY <1>1, AgreedElsewhere

\* Those whose logs a step leaves alone stay as they are.
LEMMA SoundElsewhere ==
    ASSUME joined' = joined, exitAt' = exitAt,
           \A n \in joined : node'[n].log = node[n].log
    PROVE  Sound' = Sound
  BY DEF Sound, Strayed

\* A step of a process that has strayed, or now does.
LEMMA StrayedElsewhere ==
    ASSUME Typed, Framed, Agreed, UNCHANGED <<joined, exitAt>>, NEW n \in Process,
           n \notin Sound', n # Host,
           \A m \in Process : m # n => node'[m] = node[m] /\ restart'[m] = restart[m],
           \A p \in Peer : packets'[p] = packets[p]
    PROVE  Agreed'
<1>1. joined \subseteq Process /\ Host \in Process /\ Host \in Sound
  BY SessionTyped, HostIsSound
<1>2. \A m \in joined : m # n => node'[m] = node[m] /\ restart'[m] = restart[m]
  BY <1>1
<1>3. Sound' \subseteq Sound /\ Host \in Sound' /\ \A m \in Sound' : m # n /\ m \in joined
  BY <1>1, <1>2 DEF Sound, Strayed
<1> QED
  BY <1>2, <1>3, AgreedWithoutRestarts

\* While all play the same stage and the host announces nothing, nobody has a
\* restart ahead.
LEMMA NobodyAwaits ==
    ASSUME Typed, Once, Framed, Agreed, ~restart[Host].pending,
           \A n \in Sound : StageOf(n) = StageOf(Host) /\ Course(n) = Nothing,
           NEW n \in Sound
    PROVE  ~Awaits(n)
<1> DEFINE k == restart[Host].last
<1>1. /\ Host \in Process /\ Host \in Sound /\ n \in Process /\ k \in Nat
      /\ OnceOf(Host) /\ OnceOf(n) /\ RestartOf(Host) /\ RestartOf(n) /\ SameWay(Host, n)
      /\ StageOf(n) \in Nat
  BY SessionTyped, HostIsSound DEF Once, Agreed, Stage
<1>2. Restart(k).by = "restart" /\ Restart(k).of = k /\ Restart(k) \in Entered
  BY <1>1, ExitsAreNoRestarts, SessionTyped
<1>3. ASSUME k # 0, Below(n, k) PROVE FALSE
  <2>1. restart[Host].applied
    BY <1>1, <1>3 DEF OnceOf
  <2>2. PICK i \in DOMAIN node[Host].log : node[Host].log[i] = Restart(k)
    BY <1>1, <2>1 DEF RestartOf
  <2>3. Leaves(Host, i, Restart(k))
    BY <2>2 DEF Leaves
  <2>4. Left(Host) = StageOf(Host) - 1 /\ Left(n) = StageOf(n) - 1
    BY <1>1, Stages DEF Left
  <2>5. i \in Stage /\ i <= Left(n)
    BY <1>1, <2>3, <2>4, WaysTyped
  <2>6. PICK u \in Entered : Leaves(n, i, u)
    BY <1>1, <2>5, WaysTyped
  <2>7. u = Restart(k)
    BY <1>1, <1>2, <2>3, <2>5, <2>6 DEF SameWay
  <2>8. i \in DOMAIN node[n].log /\ node[n].log[i] = Restart(k)
    BY <2>6, <2>7 DEF Leaves
  <2> QED
    BY <1>1, <1>2, <1>3, <2>8 DEF Below, LogBelow
<1>4. CASE Waits(n)
  BY <1>1, <1>3, <1>4 DEF Waits, OnceOf, RestartOf
<1>5. CASE Unheard(n)
  <2>1. PICK m \in packets[n] : n \in Peer /\ m.kind = "Restart" /\ m.seq > restart[n].last
    BY <1>5 DEF Unheard
  <2>2. m.seq = k /\ 0 < m.seq /\ Below(n, m.seq)
    BY <1>1, <2>1 DEF RestartOf, OnceOf, Heard
  <2> QED
    BY <1>3, <2>2
<1> QED
  BY <1>4, <1>5 DEF Awaits


\* A peer hears of the restart.
LEMMA HearAgreed ==
    ASSUME Typed, Once, Framed, Agreed, NEW p \in Peer, NEW m \in packets[p],
           HandleRunRestartPacket(p, m), p \in Sound
    PROVE  Agreed'
<1> DEFINE R == restart[Host]
           f == RestartFrame(p, m)
<1>1. /\ p \in joined /\ p \in Process /\ p # Host /\ Host \in Process
      /\ m \in Packet /\ m.kind = "Restart" /\ RestartIsNew(restart[p], m)
      /\ m.at = 0 => f = 0
      /\ m.at # 0 /\ node[p].next < m.at => f = m.at
      /\ restart'[p].pending /\ ~restart'[p].queued /\ ~restart'[p].applied
      /\ restart'[p].last = m.seq /\ restart'[p].at = f
      /\ \A n \in Process : n # p => restart'[n] = restart[n]
      /\ UNCHANGED <<node, joined, packets, exitAt>>
  BY HearActs, ProcessAssumption DEF Process
<1>2. RestartOf(p) /\ AheadOf(p) /\ OnceOf(p)
  BY <1>1 DEF Agreed, Once
<1>15. Sound' = Sound /\ Host \in Sound
  BY <1>1, SoundElsewhere, HostIsSound
<1>3. /\ m.seq \in Nat /\ m.at \in Nat /\ R.last \in Nat /\ R.at \in Nat
      /\ restart[p].last \in Nat /\ m.seq > restart[p].last
  <2>1. m.seq > 0
    BY <1>1, <1>2 DEF OnceOf, Heard
  <2> QED
    BY <1>1, <1>2, <2>1, NewIsGreater, PacketsTyped, SessionTyped
<1>4. m.seq = R.last /\ m.at = R.at /\ Unheard(p)
  BY <1>1, <1>2, <1>3 DEF RestartOf, Unheard
<1>5. f = R.at
  <2>1. R.at # 0 => node[p].next < R.at
    BY <1>1, <1>2, <1>4 DEF AheadOf
  <2> QED
    BY <1>1, <1>4, <2>1
<1> HIDE DEF f
<1>6. \A k \in Nat : node[p].transition # Restart(k)
  <2>1. ASSUME restart[p].queued PROVE FALSE
    <3>1. restart[p].pending /\ ~restart[p].applied
      BY <1>1, <2>1 DEF Typed, Modes, ModesOf
    <3> QED
      BY <1>2, <1>3, <1>4, <3>1 DEF RestartOf
  <2> QED
    BY <1>2, <2>1 DEF RestartOf
<1>7. restart'[Host] = R /\ (Waits(Host)' <=> Waits(Host)) /\ Sound \subseteq Process
  BY <1>1, SessionTyped DEF Waits
<1>8. \A o \in packets[p] : o.kind = "Restart" => ~(o.seq > R.last)
  BY <1>2, <1>3, <1>4, PacketsTyped DEF RestartOf
<1>9. Waits(p)' /\ Awaits(p) /\ Awaits(p)'
  BY <1>1, <1>4 DEF Waits, Awaits
<1>10. ~Unheard(p)'
  BY <1>1, <1>4, <1>8 DEF Unheard
<1>11. ASSUME NEW n \in Sound
       PROVE  /\ Awaits(n)' <=> Awaits(n)
              /\ Unheard(n)' => Unheard(n)
              /\ n # p => restart'[n] = restart[n] /\ (Unheard(n)' <=> Unheard(n))
              /\ restart'[n].last = restart[n].last \/ restart'[n].last = R.last
  <2>1. CASE n = p
    BY <1>1, <1>4, <1>9, <1>10, <2>1
  <2>2. CASE n # p
    <3>1. restart'[n] = restart[n] /\ packets' = packets
      BY <1>1, <1>7, <2>2
    <3>2. (Unheard(n)' <=> Unheard(n)) /\ (Waits(n)' <=> Waits(n))
      BY <3>1 DEF Unheard, Waits
    <3> QED
      BY <2>2, <3>1, <3>2 DEF Awaits
  <2> QED
    BY <2>1, <2>2
<1>12. /\ \A n, i, t : Leaves(n, i, t)' <=> Leaves(n, i, t)
       /\ \A n : Left(n)' = Left(n) /\ StageOf(n)' = StageOf(n)
       /\ \A i : Clear(i)' <=> Clear(i)
  BY <1>1, <1>7 DEF Leaves, Left, StageOf, Clear, Course, Misled
<1>13. ASSUME NEW n \in Sound PROVE ExitsOf(n)' /\ RestartOf(n)' /\ AheadOf(n)'
  <2>1. ExitsOf(n) /\ RestartOf(n) /\ AheadOf(n)
    BY DEF Agreed
  <2>2. ExitsOf(n)'
    BY <1>1, <1>12, <2>1 DEF ExitsOf
  <2>3. RestartOf(n)'
    <3>1. CASE n = p
      BY <1>1, <1>4, <1>5, <1>6, <1>7, <1>8, <3>1 DEF RestartOf
    <3>2. CASE n # p
      BY <1>1, <1>7, <1>11, <2>1, <3>2 DEF RestartOf
    <3> QED
      BY <3>1, <3>2
  <2>4. AheadOf(n)'
    <3>1. Awaits(n)' => /\ \A i \in Stage : i >= StageOf(n)' => Clear(i)'
                        /\ restart'[Host].at = 0 => Left(n)' = 0
      BY <1>7, <1>11, <1>12, <2>1 DEF AheadOf
    <3>2. Unheard(n)' /\ restart'[Host].at # 0 =>
              Waits(Host)' /\ \A o \in Sound : node'[o].next < restart'[Host].at
      BY <1>1, <1>7, <1>11, <2>1 DEF AheadOf
    <3>3. restart'[Host].pending \/ Awaits(n)' =>
              \A o \in Sound \ {Host} : restart'[o].last = restart'[Host].last \/ Unheard(o)'
      BY <1>1, <1>4, <1>7, <1>11, <2>1 DEF AheadOf
    <3> QED
      BY <1>15, <3>1, <3>2, <3>3 DEF AheadOf
  <2> QED
    BY <2>2, <2>3, <2>4
<1>14. ASSUME NEW o \in Sound, NEW n \in Sound
       PROVE  RestartsLead(o, n)' /\ ExitsLead(o, n)' /\ SameWay(o, n)'
  <2>1. RestartsLead(o, n) /\ ExitsLead(o, n) /\ SameWay(o, n)
    BY DEF Agreed
  <2>2. RestartsLead(o, n)'
    BY <1>1, <1>7, <1>11, <1>12, <2>1 DEF RestartsLead
  <2>3. ExitsLead(o, n)'
    BY <1>1, <1>7, <1>11, <1>12, <2>1 DEF ExitsLead
  <2>4. SameWay(o, n)'
    BY <1>12, <2>1 DEF SameWay
  <2> QED
    BY <2>2, <2>3, <2>4
<1> QED
  BY <1>1, <1>13, <1>14, <1>15 DEF Agreed


\* A process that is at the frame of the restart it waits for.
LEMMA DueLeads ==
    ASSUME Typed, Once, Framed, Agreed, NEW n \in Sound, RestartIsDue(n)
    PROVE  LET R == restart[Host]
               i == StageOf(n)
           IN  /\ Waits(n) /\ ~Unheard(n)
               /\ restart[n].last = R.last /\ restart[n].at = R.at /\ R.last # 0
               /\ Course(n) = Nothing /\ Left(n) = i - 1
               /\ exitAt[i] >= R.at
               /\ \A m \in Sound :
                     /\ R.at # 0 => ~Unheard(m)
                     /\ \A u \in Entered : Leaves(m, i, u) => u = Restart(R.last)
                     /\ \A j : Leaves(m, j, Restart(R.last)) => j >= i
<1> DEFINE k == restart[Host].last
           f == restart[Host].at
           s == StageOf(n)
<1>1. /\ n \in Process /\ k \in Nat /\ f \in Nat /\ s \in Stage /\ s \in Nat /\ s >= 1
      /\ Left(n) \in Nat /\ Left(n) <= s /\ s - 1 <= Left(n)
      /\ exitAt[s] \in Nat /\ node[n].next \in Nat /\ Overrun \in Nat
      /\ Restart(k) \in Entered
  BY SessionTyped
<1>2. OnceOf(n) /\ ExitsOf(n) /\ RestartOf(n) /\ AheadOf(n) /\ FramesOf(n)
  BY <1>1 DEF Agreed, Once, Framed
<1>3. /\ Waits(n) /\ Awaits(n) /\ restart[n].pending /\ ~restart[n].queued /\ ~restart[n].applied
      /\ node[n].next >= restart[n].at
  BY DEF RestartIsDue, Waits, Awaits
<1>4. restart[n].last = k /\ restart[n].at = f /\ k # 0 /\ node[n].next >= f
  BY <1>2, <1>3 DEF RestartOf, OnceOf
<1>5. ~Unheard(n)
  BY <1>1, <1>2, <1>4, PacketsTyped DEF RestartOf, Unheard
<1>6. \A j \in Nat : node[n].transition # Restart(j)
  BY <1>2, <1>3 DEF RestartOf
<1>17. /\ Course(n) \in Entered \cup {Nothing}
       /\ Course(n) = Nothing \/ Course(n) = node[n].transition
  BY <1>1, CourseIs
<1>7. \A j : ~Leaves(n, j, Restart(k))
  <2>1. Below(n, k)
    BY <1>2, <1>3, <1>4 DEF OnceOf
  <2>2. Restart(k).by = "restart" /\ Restart(k).of = k
    BY ExitsAreNoRestarts
  <2>3. \A j \in DOMAIN node[n].log : node[n].log[j] # Restart(k)
    BY <1>1, <2>1, <2>2 DEF Below, LogBelow
  <2> QED
    BY <1>1, <1>6, <1>17, <2>3 DEF Leaves
<1> HIDE DEF k, f, s
<1>8. ASSUME NEW m \in Sound, NEW j, Leaves(m, j, Restart(k)) PROVE j > Left(n) /\ j \in Stage
  <2>1. m \in Process /\ j \in Stage /\ j \in Nat
    BY <1>8, SessionTyped, WaysTyped
  <2>2. ASSUME j <= Left(n) PROVE FALSE
    <3>1. PICK v \in Entered : Leaves(n, j, v)
      BY <1>1, <2>1, <2>2, WaysTyped
    <3>2. v = Restart(k)
      BY <1>1, <1>8, <2>1, <3>1 DEF Agreed, SameWay
    <3> QED
      BY <1>7, <3>1, <3>2
  <2> QED
    BY <1>1, <2>1, <2>2
<1>9. f = 0 => Left(n) = 0
  BY <1>2, <1>3 DEF AheadOf, f
<1>10. Course(n) = Nothing
  <2>1. SUFFICES ASSUME Course(n) # Nothing PROVE FALSE
    OBVIOUS
  <2> DEFINE t == Course(n)
  <2>2. t \in Entered /\ Left(n) = s /\ Leaves(n, s, t)
    BY <1>17, <2>1 DEF Left, Leaves, s
  <2>3. t.by = "exit"
    BY <1>6, <1>17, <2>2, EnteredIs, ExitsAreNoRestarts
  <2> HIDE DEF t
  <2>4. f # 0
    BY <1>1, <1>9, <2>2
  <2>5. exitAt[s] + Overrun < f
    <3>1. ExitsLead(n, n)
      BY DEF Agreed
    <3> QED
      BY <1>1, <1>3, <1>7, <2>2, <2>3, <2>4, <3>1 DEF ExitsLead, f, k, s
  <2> QED
    BY <1>1, <1>2, <1>4, <2>5 DEF FramesOf, s
<1>11. Left(n) = s - 1
  BY <1>1, <1>10, Stages DEF Left, s
<1>12. node[n].next <= exitAt[s] + Overrun
  BY <1>2 DEF FramesOf, s
<1>13. exitAt[s] >= f
  <2>1. Clear(s)
    BY <1>1, <1>2, <1>3 DEF AheadOf, s
  <2> QED
    BY <1>1, <1>4, <1>12, <2>1 DEF Clear, f
<1>14. ASSUME NEW m \in Sound PROVE f # 0 => ~Unheard(m)
  <2>1. AheadOf(m)
    BY DEF Agreed
  <2> QED
    BY <1>1, <1>4, <2>1 DEF AheadOf, f
<1>15. ASSUME NEW m \in Sound, NEW u \in Entered, Leaves(m, s, u) PROVE u = Restart(k)
  <2>1. /\ m \in Process /\ RestartsLead(m, n) /\ ExitsLead(m, n) /\ ExitsOf(m)
    BY SessionTyped DEF Agreed
  <2>2. ASSUME u.by = "exit" PROVE FALSE
    <3>1. u = Exit(exitAt[s]) /\ exitAt[s] # Never
      BY <1>1, <1>15, <2>1, <2>2 DEF ExitsOf
    <3>2. CASE f = 0
      <4>1. s = 1
        BY <1>1, <1>9, <1>11, <3>2
      <4> QED
        BY <3>1, <4>1 DEF Framed, ExitsAreInBounds
    <3>3. CASE f # 0
      <4>1. \A j \in Stage : j <= s => ~Leaves(m, j, Restart(k))
        <5> SUFFICES ASSUME NEW j \in Stage, j <= s, Leaves(m, j, Restart(k)) PROVE FALSE
          OBVIOUS
        <5>1. j = s
          BY <1>1, <1>8, <1>11, SessionTyped
        <5>2. u = Restart(k)
          BY <1>15, <2>1, <5>1, WaysTyped
        <5> QED
          BY <2>2, <5>2, ExitsAreNoRestarts
      <4>2. exitAt[s] + Overrun < f
        BY <1>1, <1>3, <1>15, <2>1, <2>2, <3>3, <4>1 DEF ExitsLead, f, k, s
      <4> QED
        BY <1>1, <1>13, <4>2
    <3> QED
      BY <3>2, <3>3
  <2>3. u.of \in Nat /\ u = Restart(u.of)
    BY <2>2, EnteredIs, ExitsAreNoRestarts
  <2>4. s > Left(n)
    BY <1>1, <1>11
  <2>5. u.of = k
    BY <1>1, <1>15, <2>1, <2>3, <2>4 DEF RestartsLead, k
  <2> QED
    BY <2>3, <2>5
<1>16. ASSUME NEW m \in Sound, NEW j, Leaves(m, j, Restart(k)) PROVE j >= s
  <2>1. j > Left(n) /\ j \in Nat
    BY <1>8, <1>16, SessionTyped
  <2> QED
    BY <1>1, <1>11, <2>1
<1> QED
  BY <1>3, <1>4, <1>5, <1>10, <1>11, <1>13, <1>14, <1>15, <1>16 DEF k, f, s


LEMMA DueAgreed ==
    ASSUME Typed, Once, Framed, Agreed, NEW n \in Sound, ApplyDueRunRestart(n)
    PROVE  Agreed'
<1> DEFINE k == restart[Host].last
           f == restart[Host].at
           s == StageOf(n)
<1>18. n \in Process /\ n \in joined
  BY SessionTyped
<1>1. /\ RestartIsDue(n)
      /\ node'[n].transition = Restart(restart[n].last)
      /\ node'[n].log = node[n].log /\ node'[n].next = node[n].next
      /\ restart'[n].pending /\ restart'[n].queued /\ ~restart'[n].applied
      /\ restart'[n].last = restart[n].last /\ restart'[n].at = restart[n].at
      /\ \A m \in Process : m # n => node'[m] = node[m] /\ restart'[m] = restart[m]
      /\ UNCHANGED <<joined, packets, exitAt>>
  BY <1>18, DueActs
<1>2. /\ Waits(n) /\ ~Unheard(n)
      /\ restart[n].last = k /\ restart[n].at = f /\ k # 0
      /\ Course(n) = Nothing /\ Left(n) = s - 1
      /\ exitAt[s] >= f
      /\ \A m \in Sound :
            /\ f # 0 => ~Unheard(m)
            /\ \A u \in Entered : Leaves(m, s, u) => u = Restart(k)
            /\ \A j : Leaves(m, j, Restart(k)) => j >= s
  BY <1>1, DueLeads
<1>3. /\ n \in Process /\ Host \in Process /\ Host \in Sound /\ Host \notin Peer
      /\ Sound \subseteq Process
      /\ k \in Nat /\ f \in Nat /\ s \in Stage /\ s \in Nat /\ s >= 1
      /\ Restart(k) \in Entered /\ Restart(k) # Nothing
      /\ Restart(k).by = "restart"
  BY SessionTyped, HostIsSound, ExitsAreNoRestarts
<1>4. restart'[Host].last = k /\ restart'[Host].at = f /\ (restart'[Host].pending <=> restart[Host].pending)
  <2>1. restart[n].pending
    BY <1>2 DEF Waits
  <2>2. CASE Host = n
    BY <1>1, <1>2, <2>1, <2>2
  <2>3. CASE Host # n
    BY <1>1, <1>3, <2>3
  <2> QED
    BY <2>2, <2>3
<1> HIDE DEF k, f, s
<1>17. /\ Course(n)' = Restart(k)
       /\ \A m \in Sound : m # n => Course(m)' = Course(m)
       /\ Sound' = Sound
  <2>1. \A m \in joined : node'[m].log = node[m].log
    BY <1>1, <1>3, <1>18, SessionTyped
  <2>2. Course(n)' = Restart(k)
    BY <1>1, <1>2, <1>3 DEF Course, Misled
  <2>3. \A m \in Sound : m # n => Course(m)' = Course(m)
    BY <1>1, <1>3 DEF Course, Misled, StageOf
  <2> QED
    BY <1>1, <2>1, <2>2, <2>3, SoundElsewhere
<1>5. ASSUME NEW m \in Sound
      PROVE  /\ StageOf(m)' = StageOf(m)
             /\ m # n => /\ \A i, t : Leaves(m, i, t)' <=> Leaves(m, i, t)
                         /\ Left(m)' = Left(m)
  <2>1. m # n => node'[m] = node[m]
    BY <1>1, <1>3
  <2> QED
    BY <1>1, <1>17, <2>1 DEF StageOf, Leaves, Left
<1>6. \A i, t : Leaves(n, i, t)' <=> Leaves(n, i, t) \/ (i = s /\ t = Restart(k))
  BY <1>1, <1>2, <1>3, <1>5, <1>17 DEF Leaves, s
<1>7. Left(n)' = s
  BY <1>1, <1>2, <1>3, <1>5, <1>17 DEF Left, s
<1>8. /\ ~Awaits(n)' /\ Awaits(n)
      /\ \A m \in Sound : Unheard(m)' <=> Unheard(m)
      /\ \A m \in Sound : m # n => (Awaits(m)' <=> Awaits(m)) /\ (Waits(m)' <=> Waits(m))
  <2>1. \A m \in Sound : restart'[m].last = restart[m].last
    BY <1>1, <1>3
  <2>2. \A m \in Sound : Unheard(m)' <=> Unheard(m)
    BY <1>1, <2>1 DEF Unheard
  <2>3. ~Waits(n)'
    BY <1>1 DEF Waits
  <2>4. \A m \in Sound : m # n => (Waits(m)' <=> Waits(m))
    BY <1>1, <1>3 DEF Waits
  <2> QED
    BY <1>1, <1>2, <2>2, <2>3, <2>4 DEF Awaits
<1>9. \A i : Clear(i)' <=> Clear(i)
  BY <1>1, <1>4 DEF Clear, f
<1>10. \A i \in Stage : i \in Nat
  BY SessionTyped
<1>11. \A j, u : Leaves(n, j, u) => j \in Nat /\ j < s
  <2> SUFFICES ASSUME NEW j, NEW u, Leaves(n, j, u) PROVE j \in Nat /\ j < s
    OBVIOUS
  <2>1. j \in Nat /\ j <= Left(n)
    BY <1>3, <1>10, WaysTyped
  <2> QED
    BY <1>2, <1>3, <2>1
<1>12. ASSUME NEW m \in Sound PROVE ExitsOf(m)' /\ RestartOf(m)' /\ AheadOf(m)'
  <2>1. ExitsOf(m) /\ RestartOf(m) /\ AheadOf(m) /\ m \in Process
    BY <1>3 DEF Agreed
  <2>2. ExitsOf(m)'
    <3>1. CASE m = n
      BY <1>1, <1>3, <1>6, <2>1, <3>1, ExitsAreNoRestarts DEF ExitsOf
    <3>2. CASE m # n
      BY <1>1, <1>5, <2>1, <3>2 DEF ExitsOf
    <3> QED
      BY <3>1, <3>2
  <2>3. RestartOf(m)'
    <3>1. CASE m = n
      BY <1>1, <1>2, <1>4, <2>1, <3>1 DEF RestartOf, k, f
    <3>2. CASE m # n
      BY <1>1, <1>4, <2>1, <3>2 DEF RestartOf, k, f
    <3> QED
      BY <3>1, <3>2
  <2>4. AheadOf(m)'
    <3>1. Awaits(m)' => m # n /\ Awaits(m)
      BY <1>8
    <3>2. Awaits(m)' => /\ \A i \in Stage : i >= StageOf(m)' => Clear(i)'
                        /\ restart'[Host].at = 0 => Left(m)' = 0
      BY <1>4, <1>5, <1>9, <2>1, <3>1 DEF AheadOf, f
    <3>3. Unheard(m)' => restart'[Host].at = 0
      BY <1>2, <1>4, <1>8
    <3>4. restart'[Host].pending \/ Awaits(m)' =>
              \A o \in Sound \ {Host} : restart'[o].last = restart'[Host].last \/ Unheard(o)'
      BY <1>1, <1>3, <1>4, <1>8, <2>1, <3>1 DEF AheadOf, k
    <3> QED
      BY <1>17, <3>2, <3>3, <3>4 DEF AheadOf
  <2> QED
    BY <2>2, <2>3, <2>4
<1>13. ASSUME NEW q \in Sound, q # n, s > Left(q) PROVE Awaits(q) /\ (f # 0 => restart[q].last = k)
  <2>1. /\ q \in Process /\ RestartOf(q) /\ OnceOf(q) /\ Left(q) \in Nat
        /\ restart[q] \in RestartRecord
    BY <1>3, SessionTyped DEF Agreed, Once
  <2>2. restart[q].last = k \/ Unheard(q)
    <3>1. AheadOf(n)
      BY <1>1 DEF Agreed
    <3> QED
      BY <1>3, <1>8, <3>1 DEF AheadOf, k
  <2>3. \A j : ~Leaves(q, j, Restart(k))
    <3> SUFFICES ASSUME NEW j, Leaves(q, j, Restart(k)) PROVE FALSE
      OBVIOUS
    <3>1. j \in Nat /\ j <= Left(q) /\ j >= s
      BY <1>2, <1>10, <2>1, WaysTyped
    <3> QED
      BY <1>3, <1>13, <2>1, <3>1
  <2>4. CASE restart[q].last = k
    <3>1. restart[q].pending \/ restart[q].applied
      BY <1>2, <2>1, <2>4 DEF OnceOf
    <3>2. ~restart[q].applied
      BY <2>1, <2>3, <2>4 DEF RestartOf, Leaves
    <3>3. ~restart[q].queued
      <4>1. restart[q].queued => node[q].transition = Restart(k)
        BY <2>1, <2>4 DEF Typed, Modes, ModesOf
      <4> QED
        BY <1>3, <2>1, <2>3, <4>1, CourseIs DEF Leaves
    <3> QED
      BY <2>4, <3>1, <3>2, <3>3 DEF Awaits, Waits
  <2>5. CASE Unheard(q)
    BY <1>2, <2>5 DEF Awaits
  <2> QED
    BY <2>2, <2>4, <2>5
<1>14. ASSUME NEW m \in Sound, NEW q \in Sound PROVE RestartsLead(m, q)'
  <2> SUFFICES ASSUME NEW i \in Stage, NEW j \in Nat, Leaves(m, i, Restart(j))', i > Left(q)'
               PROVE  /\ Awaits(q)' /\ j = k /\ exitAt[i] >= f
                      /\ f # 0 => restart'[q].last = k
    BY <1>1, <1>4 DEF RestartsLead
  <2>1. /\ m \in Process /\ q \in Process /\ i \in Nat /\ RestartsLead(m, q)
        /\ Left(q) \in Nat
    BY <1>3, SessionTyped DEF Agreed
  <2>2. CASE q = n
    <3>1. m # n
      BY <1>3, <1>6, <1>7, <1>10, <1>11, <2>1, <2>2
    <3>2. Leaves(m, i, Restart(j)) /\ i > s /\ i > Left(n)
      BY <1>2, <1>3, <1>5, <1>7, <2>1, <2>2, <3>1
    <3>3. j = k
      BY <2>1, <2>2, <3>2 DEF RestartsLead, k
    <3>4. PICK u \in Entered : Leaves(m, s, u)
      <4>1. i <= Left(m) /\ Left(m) \in Nat
        BY <2>1, <3>2, WaysTyped
      <4> QED
        BY <1>3, <2>1, <3>2, <4>1, WaysTyped
    <3>5. u = Restart(k)
      BY <1>2, <3>4
    <3>6. k < k
      BY <1>3, <2>1, <3>2, <3>3, <3>4, <3>5, WayGrows
    <3> QED
      BY <1>3, <3>6
  <2>3. CASE q # n /\ Leaves(m, i, Restart(j))
    <3>1. Left(q)' = Left(q) /\ restart'[q] = restart[q] /\ (Awaits(q)' <=> Awaits(q))
      BY <1>1, <1>5, <1>8, <2>1, <2>3
    <3> QED
      BY <2>1, <2>3, <3>1 DEF RestartsLead, k, f
  <2>4. CASE q # n /\ ~Leaves(m, i, Restart(j))
    <3>1. m = n
      BY <1>5, <2>4
    <3>2. i = s /\ Restart(j) = Restart(k)
      BY <1>6, <2>4, <3>1
    <3>3. j = k
      BY <3>2 DEF Restart
    <3>4. Left(q)' = Left(q) /\ restart'[q] = restart[q] /\ (Awaits(q)' <=> Awaits(q))
      BY <1>1, <1>5, <1>8, <2>1, <2>4
    <3>5. Awaits(q) /\ (f # 0 => restart[q].last = k)
      BY <1>13, <2>4, <3>2, <3>4
    <3> QED
      BY <1>2, <3>2, <3>3, <3>4, <3>5
  <2> QED
    BY <2>2, <2>3, <2>4
<1>15. ASSUME NEW m \in Sound, NEW q \in Sound PROVE ExitsLead(m, q)'
  <2> SUFFICES ASSUME NEW i \in Stage, NEW t \in Entered, Leaves(m, i, t)', t.by = "exit",
                      i >= StageOf(q)', Awaits(q)', f # 0,
                      \A j \in Stage, r \in Entered :
                          j <= i /\ r = Restart(k) => ~Leaves(m, j, r)'
               PROVE  exitAt[i] + Overrun < f
    BY <1>1, <1>3, <1>4 DEF ExitsLead
  <2>1. q # n /\ Awaits(q) /\ StageOf(q)' = StageOf(q)
    BY <1>5, <1>8
  <2>2. Leaves(m, i, t)
    BY <1>3, <1>5, <1>6
  <2>3. \A j \in Stage : j <= i => ~Leaves(m, j, Restart(k))
    BY <1>3, <1>5, <1>6
  <2>4. ExitsLead(m, q)
    BY DEF Agreed
  <2> QED
    BY <2>1, <2>2, <2>3, <2>4 DEF ExitsLead, k, f
<1>16. ASSUME NEW m \in Sound, NEW q \in Sound PROVE SameWay(m, q)'
  <2>1. SameWay(m, q)
    BY DEF Agreed
  <2> SUFFICES ASSUME NEW i \in Stage, NEW t \in Entered, NEW u \in Entered,
                      Leaves(m, i, t)', Leaves(q, i, u)'
               PROVE  t = u
    BY DEF SameWay
  <2>2. ASSUME i = s, NEW o \in Sound, NEW v \in Entered, Leaves(o, i, v)' PROVE v = Restart(k)
    BY <1>2, <1>5, <1>6, <2>2
  <2>3. i # s => Leaves(m, i, t) /\ Leaves(q, i, u)
    BY <1>5, <1>6
  <2> QED
    BY <2>1, <2>2, <2>3 DEF SameWay
<1> QED
  BY <1>12, <1>14, <1>15, <1>16, <1>17 DEF Agreed


\* A frame is stepped, perhaps into an exit.
LEMMA StepAgreed ==
    ASSUME Typed, Once, Framed, Agreed, Agreeing, NEW n \in Sound, StepFrame(n)
    PROVE  Agreed'
<1> DEFINE k == restart[Host].last
           f == restart[Host].at
           s == StageOf(n)
           x == exitAt[StageOf(n)]
<1>16. n \in Process /\ n \in joined
  BY SessionTyped
<1>1. /\ node[n].mode = "Playing" /\ node[n].transition = Nothing
      /\ ~RestartIsDue(n) /\ CanStep(n) /\ node[n].next + 1 <= Never
      /\ RestartIsHeard(n)
      /\ node'[n].log = node[n].log /\ node'[n].next = node[n].next + 1
      /\ restart'[n].pending => restart[n].pending
      /\ restart[n].pending /\ ~restart[n].applied => restart'[n].pending
      /\ restart'[n].queued = restart[n].queued /\ restart'[n].applied = restart[n].applied
      /\ restart'[n].last = restart[n].last /\ restart'[n].at = restart[n].at
      /\ \A m \in Process : m # n => node'[m] = node[m] /\ restart'[m] = restart[m]
      /\ UNCHANGED <<joined, packets, exitAt>>
  BY <1>16, StepActs DEF Never, Agreeing, Typed, Modes, ModesOf
<1>2. PICK e \in Exits(n, From(n)) :
          IF e = Never THEN node'[n].transition = Nothing
          ELSE node'[n].transition = Exit(e) /\ Exit(e) # Nothing
  BY <1>16, StepActs
<1>3. e # Never => e <= node[n].next
  BY <1>1, <1>16, ExitsTaken
<1>4. /\ n \in Process /\ Host \in Process /\ Host \in Sound /\ Sound \subseteq Process
      /\ k \in Nat /\ f \in Nat /\ s \in Stage /\ s \in Nat /\ s >= 1
      /\ x \in Nat /\ node[n].next \in Nat /\ Overrun \in Nat
      /\ \A i \in Stage : i \in Nat
  BY SessionTyped, HostIsSound
<1>17. Course(n) = Nothing
  BY <1>1, <1>4, CourseIs
<1>5. Left(n) = s - 1 /\ Left(n) # 0
  <2>1. node[n].log # <<>> /\ node[n].log \in Seq(Entered)
    BY <1>1, <1>4, Stages DEF Typed, Modes, ModesOf, NodeRecord
  <2> QED
    BY <1>4, <1>17, <2>1, Stages DEF Left
<1>6. OnceOf(n) /\ RestartOf(n) /\ AheadOf(n) /\ ExitsOf(n) /\ FramesOf(n)
  BY <1>16 DEF Agreed, Once, Framed
<1>7. restart'[Host].last = k /\ restart'[Host].at = f /\ (restart'[Host].pending => restart[Host].pending)
  BY <1>1, <1>4
<1> HIDE DEF k, f, s, x
<1>18. /\ Sound' = Sound
       /\ \A m \in Sound : m # n => Course(m)' = Course(m)
  <2>1. \A m \in joined : node'[m].log = node[m].log
    BY <1>1, <1>4, SessionTyped
  <2>2. \A m \in Sound : m # n => Course(m)' = Course(m)
    BY <1>1, <1>4 DEF Course, Misled, StageOf
  <2> QED
    BY <1>1, <2>1, <2>2, SoundElsewhere
<1>8. ASSUME NEW m \in Sound
      PROVE  /\ StageOf(m)' = StageOf(m) /\ restart'[m].last = restart[m].last
             /\ restart'[m].at = restart[m].at
             /\ restart'[m].queued = restart[m].queued /\ restart'[m].applied = restart[m].applied
             /\ restart'[m].pending => restart[m].pending
             /\ (Waits(m)' <=> Waits(m)) /\ (Unheard(m)' <=> Unheard(m))
             /\ (Awaits(m)' <=> Awaits(m))
  <2>1. CASE m = n
    BY <1>1, <2>1 DEF StageOf, Waits, Unheard, Awaits
  <2>2. CASE m # n
    <3>1. node'[m] = node[m] /\ restart'[m] = restart[m] /\ packets' = packets
      BY <1>1, <1>4, <2>2
    <3> QED
      BY <3>1 DEF StageOf, Waits, Unheard, Awaits
  <2> QED
    BY <2>1, <2>2
<1>9. \A i : Clear(i)' <=> Clear(i)
  BY <1>1, <1>7 DEF Clear, f
<1>10. Waits(n) => f # 0 /\ node[n].next < f
  <2>1. SUFFICES ASSUME Waits(n) PROVE f # 0 /\ node[n].next < f
    OBVIOUS
  <2>2. Awaits(n) /\ restart[n].at = f
    BY <1>6, <2>1 DEF Waits, Awaits, RestartOf, f
  <2>3. f # 0
    BY <1>5, <1>6, <2>2 DEF AheadOf, f
  <2>4. ~(node[n].next >= f)
    BY <1>1, <2>1, <2>2 DEF RestartIsDue, Waits
  <2> QED
    BY <1>4, <2>3, <2>4
<1>11. ASSUME NEW q \in Sound, Unheard(q), f # 0, NEW m \in Sound
       PROVE  node[m].next < f /\ node'[m].next < f
  <2>1. RestartOf(q) /\ AheadOf(q) /\ q \in Process
    BY <1>4 DEF Agreed
  <2>2. Waits(Host) /\ node[m].next < f /\ node[n].next < f
    BY <1>1, <1>11, <2>1 DEF AheadOf, f
  <2>3. restart[q].last # k
    <3>1. PICK o \in packets[q] : q \in Peer /\ o.kind = "Restart" /\ o.seq > restart[q].last
      BY <1>11 DEF Unheard
    <3>2. o.seq = k /\ restart[q].last \in Nat
      BY <2>1, <3>1, SessionTyped DEF RestartOf, k
    <3> QED
      BY <1>4, <3>1, <3>2
  <2>4. ~(node[n].next + 1 >= f)
    <3>1. q \in joined
      BY <1>11, SessionTyped
    <3> QED
      BY <1>1, <1>11, <2>2, <2>3, <3>1 DEF RestartIsHeard, Waits, f, k
  <2>5. CASE m = n
    BY <1>1, <1>4, <2>2, <2>4, <2>5
  <2>6. CASE m # n
    BY <1>1, <1>4, <2>2, <2>6
  <2> QED
    BY <2>5, <2>6
<1>12. \A m \in Sound : m # n => node'[m] = node[m]
  BY <1>1, <1>4
<1>13. ASSUME NEW m \in Sound PROVE RestartOf(m)'
  <2>1. RestartOf(m) /\ node'[m].log = node[m].log
    BY <1>1, <1>12 DEF Agreed
  <2>2. \A j \in Nat : node'[m].transition = Restart(j) => node[m].transition = Restart(j)
    <3>1. CASE m = n
      BY <1>1, <1>2, <3>1, ExitsAreNoRestarts
    <3>2. CASE m # n
      BY <1>12, <3>2
    <3> QED
      BY <3>1, <3>2
  <2> QED
    BY <1>1, <1>7, <1>8, <2>1, <2>2 DEF RestartOf, k, f
<1>14. CASE e = Never \/ e # x
  <2>1. Course(n)' = Nothing
    <3>1. StageOf(n)' = StageOf(n)
      BY <1>1 DEF StageOf
    <3>2. Exit(e).by = "exit" /\ Exit(e).of = e
      BY ExitsAreNoRestarts
    <3> QED
      BY <1>1, <1>2, <1>14, <3>1, <3>2 DEF Course, Misled, x
  <2>2. ASSUME NEW m \in Sound
        PROVE  /\ \A i, t : Leaves(m, i, t)' <=> Leaves(m, i, t)
               /\ Left(m)' = Left(m)
    <3>1. node'[m].log = node[m].log /\ Course(m)' = Course(m)
      BY <1>1, <1>12, <1>17, <1>18, <2>1
    <3> QED
      BY <1>8, <3>1 DEF Leaves, Left
  <2>3. ASSUME NEW m \in Sound
        PROVE  /\ \A i, t : Leaves(m, i, t)' <=> Leaves(m, i, t)
               /\ Left(m)' = Left(m) /\ StageOf(m)' \in Int /\ StageOf(m)' >= StageOf(m)
               /\ (Waits(m)' <=> Waits(m)) /\ (Unheard(m)' <=> Unheard(m))
               /\ restart'[m].last = restart[m].last
               /\ \A q \in Sound :
                     Unheard(q) /\ restart[Host].at # 0 /\ node[m].next < restart[Host].at
                         => node'[m].next < restart[Host].at
               /\ RestartOf(m)'
    <3>1. StageOf(m) \in Int
      <4>1. m \in Process
        BY <1>4
      <4>2. StageOf(m) = Len(node[m].log) + 1 /\ Len(node[m].log) \in Nat
        BY <4>1, Stages
      <4> QED
        BY <4>2
    <3>2. StageOf(m)' \in Int /\ StageOf(m)' >= StageOf(m)
      BY <1>8, <3>1
    <3> QED
      BY <1>8, <1>11, <1>13, <2>2, <3>2 DEF f
  <2> QED
    BY <1>1, <1>4, <1>7, <1>18, <2>3, AgreedElsewhere DEF k, f
<1>15. CASE e # Never /\ e = x
  <2>1. /\ Course(n)' = Exit(x) /\ Exit(x) # Nothing /\ x # Never
        /\ x <= node[n].next
    <3>1. StageOf(n)' = StageOf(n)
      BY <1>1 DEF StageOf
    <3>2. node'[n].transition = Exit(x) /\ Exit(x).of = x
      BY <1>2, <1>15, ExitsAreNoRestarts
    <3>3. Course(n)' = Exit(x)
      BY <1>1, <3>1, <3>2 DEF Course, Misled, x
    <3> QED
      BY <1>2, <1>3, <1>15, <3>3
  <2>2. \A i, t : Leaves(n, i, t)' <=> Leaves(n, i, t) \/ (i = s /\ t = Exit(x))
    BY <1>1, <1>8, <1>17, <2>1 DEF Leaves, s
  <2>3. Left(n)' = s
    BY <1>1, <1>8, <2>1 DEF Left, s
  <2>4. ASSUME NEW m \in Sound, m # n
        PROVE  /\ \A i, t : Leaves(m, i, t)' <=> Leaves(m, i, t)
               /\ Left(m)' = Left(m)
    BY <1>8, <1>12, <1>18, <2>4 DEF Leaves, Left
  <2>5. \A i, t : i = s => ~Leaves(n, i, t)
    <3> SUFFICES ASSUME NEW t, Leaves(n, s, t) PROVE FALSE
      OBVIOUS
    <3>1. s <= Left(n)
      BY <1>4, WaysTyped
    <3> QED
      BY <1>4, <1>5, <3>1
  <2>6. ASSUME NEW m \in Sound PROVE ExitsOf(m)' /\ RestartOf(m)' /\ AheadOf(m)'
    <3>1. ExitsOf(m) /\ AheadOf(m)
      BY DEF Agreed
    <3>2. ExitsOf(m)'
      <4>1. CASE m = n
        BY <1>1, <2>1, <2>2, <3>1, <4>1 DEF ExitsOf, x, s
      <4>2. CASE m # n
        BY <1>1, <2>4, <3>1, <4>2 DEF ExitsOf
      <4> QED
        BY <4>1, <4>2
    <3>3. AheadOf(m)'
      <4>1. Awaits(m)' /\ restart'[Host].at = 0 => Left(m)' = 0
        <5>1. CASE m = n
          BY <1>5, <1>7, <1>8, <3>1, <5>1 DEF AheadOf, f
        <5>2. CASE m # n
          BY <1>7, <1>8, <2>4, <3>1, <5>2 DEF AheadOf, f
        <5> QED
          BY <5>1, <5>2
      <4>2. Awaits(m)' => \A i \in Stage : i >= StageOf(m)' => Clear(i)'
        BY <1>8, <1>9, <3>1 DEF AheadOf
      <4>3. Unheard(m)' /\ restart'[Host].at # 0 =>
                Waits(Host)' /\ \A o \in Sound : node'[o].next < restart'[Host].at
        BY <1>1, <1>4, <1>7, <1>8, <1>11, <3>1 DEF AheadOf, f
      <4>4. restart'[Host].pending \/ Awaits(m)' =>
                \A o \in Sound \ {Host} : restart'[o].last = restart'[Host].last \/ Unheard(o)'
        BY <1>1, <1>7, <1>8, <3>1 DEF AheadOf, k
      <4> QED
        BY <1>18, <4>1, <4>2, <4>3, <4>4 DEF AheadOf
    <3> QED
      BY <1>13, <3>2, <3>3
  <2>7. ASSUME NEW m \in Sound, NEW q \in Sound PROVE RestartsLead(m, q)'
    <3> SUFFICES ASSUME NEW i \in Stage, NEW j \in Nat, Leaves(m, i, Restart(j))', i > Left(q)'
                 PROVE  /\ Awaits(q)' /\ j = k /\ exitAt[i] >= f
                        /\ f # 0 => restart'[q].last = k
      BY <1>1, <1>7 DEF RestartsLead
    <3>1. Leaves(m, i, Restart(j))
      BY <2>2, <2>4, ExitsAreNoRestarts
    <3>2. i > Left(q)
      <4>1. CASE q = n
        BY <1>4, <1>5, <2>3, <4>1
      <4>2. CASE q # n
        BY <2>4, <4>2
      <4> QED
        BY <4>1, <4>2
    <3>3. RestartsLead(m, q)
      BY DEF Agreed
    <3> QED
      BY <1>8, <3>1, <3>2, <3>3 DEF RestartsLead, k, f
  <2>8. ASSUME NEW m \in Sound, NEW q \in Sound PROVE ExitsLead(m, q)'
    <3> SUFFICES ASSUME NEW i \in Stage, NEW t \in Entered, Leaves(m, i, t)', t.by = "exit",
                        i >= StageOf(q)', Awaits(q)', f # 0,
                        \A j \in Stage, r \in Entered :
                            j <= i /\ r = Restart(k) => ~Leaves(m, j, r)'
                 PROVE  exitAt[i] + Overrun < f
      BY <1>1, <1>4, <1>7, SessionTyped DEF ExitsLead
    <3>1. /\ Awaits(q) /\ i >= StageOf(q) /\ ExitsLead(m, q) /\ q \in Process
          /\ RestartOf(q) /\ OnceOf(q) /\ AheadOf(q)
      BY <1>4, <1>8 DEF Agreed, Once
    <3>2. \A j \in Stage : j <= i => ~Leaves(m, j, Restart(k))
      BY <1>4, <2>2, <2>4, SessionTyped
    <3>3. CASE Leaves(m, i, t)
      BY <3>1, <3>2, <3>3 DEF ExitsLead, k, f
    <3>4. CASE ~Leaves(m, i, t)
      <4>1. m = n /\ i = s
        BY <2>2, <2>4, <3>4
      <4>2. ASSUME x >= f PROVE FALSE
        <5>1. node[n].next >= f
          BY <1>4, <2>1, <4>2
        <5>2. \A o \in Sound : ~Unheard(o)
          BY <1>1, <1>4, <1>11, <5>1
        <5>3. Waits(q)
          BY <3>1, <5>2 DEF Awaits
        <5>4. restart[q].last = k /\ k # 0
          BY <3>1, <5>3 DEF RestartOf, OnceOf, Waits, k
        <5>5. restart[n].last = k
          BY <1>1, <3>1, <5>2 DEF AheadOf, k
        <5>6. restart[n].pending \/ restart[n].applied
          BY <1>6, <5>4, <5>5 DEF OnceOf
        <5>7. ~restart[n].queued
          BY <1>1, <1>4 DEF Typed, Modes, ModesOf
        <5>8. ~restart[n].applied
          <6> SUFFICES ASSUME restart[n].applied PROVE FALSE
            OBVIOUS
          <6>1. PICK j \in DOMAIN node[n].log : node[n].log[j] = Restart(k)
            BY <1>6, <5>5 DEF RestartOf
          <6>2. Leaves(n, j, Restart(k))
            BY <6>1 DEF Leaves
          <6>3. j \in Stage /\ j <= Left(n)
            BY <1>4, <6>2, WaysTyped
          <6> QED
            BY <1>4, <1>5, <3>2, <4>1, <6>2, <6>3
        <5>9. Waits(n)
          BY <5>6, <5>7, <5>8 DEF Waits
        <5> QED
          BY <1>4, <1>10, <5>1, <5>9
      <4>3. Clear(i)
        BY <3>1 DEF AheadOf
      <4>4. exitAt[i] = x
        BY <4>1 DEF x, s
      <4> QED
        BY <4>2, <4>3, <4>4 DEF Clear, f
    <3> QED
      BY <3>3, <3>4
  <2>9. ASSUME NEW m \in Sound, NEW i \in Stage, i = s, NEW u \in Entered, Leaves(m, i, u)
        PROVE  u = Exit(x)
    <3>1. /\ m \in Process /\ ExitsOf(m) /\ RestartsLead(m, n)
      BY <1>1, <1>4 DEF Agreed
    <3>2. CASE u.by = "exit"
      BY <2>9, <3>1, <3>2 DEF ExitsOf, x, s
    <3>3. CASE u.by # "exit"
      <4>1. u.of \in Nat /\ u = Restart(u.of)
        BY <3>3, EnteredIs, ExitsAreNoRestarts
      <4>2. i > Left(n)
        BY <1>4, <1>5, <2>9
      <4>3. Awaits(n) /\ exitAt[i] >= f
        BY <2>9, <3>1, <4>1, <4>2 DEF RestartsLead, f
      <4>4. node[n].next >= f
        <5>1. exitAt[i] = x
          BY <2>9 DEF x, s
        <5> QED
          BY <1>4, <2>1, <4>3, <5>1
      <4>5. f # 0
        BY <1>5, <1>6, <4>3 DEF AheadOf, f
      <4> QED
        BY <1>1, <1>4, <1>10, <1>11, <4>3, <4>4, <4>5 DEF Awaits
    <3> QED
      BY <3>2, <3>3
  <2>10. ASSUME NEW m \in Sound, NEW q \in Sound PROVE SameWay(m, q)'
    <3>1. SameWay(m, q)
      BY DEF Agreed
    <3> SUFFICES ASSUME NEW i \in Stage, NEW t \in Entered, NEW u \in Entered,
                        Leaves(m, i, t)', Leaves(q, i, u)'
                 PROVE  t = u
      BY DEF SameWay
    <3>2. ASSUME i = s, NEW o \in Sound, NEW v \in Entered, Leaves(o, i, v)' PROVE v = Exit(x)
      BY <2>2, <2>4, <2>9, <3>2
    <3>3. i # s => Leaves(m, i, t) /\ Leaves(q, i, u)
      BY <2>2, <2>4
    <3> QED
      BY <3>1, <3>2, <3>3 DEF SameWay
  <2> QED
    BY <1>18, <2>6, <2>7, <2>8, <2>10 DEF Agreed
<1> QED
  BY <1>14, <1>15


\* A stage is loaded; the host announces the restart again for the new stage.
LEMMA LoadAgreed ==
    ASSUME Typed, Once, Framed, Agreed, NEW n \in Sound, LoadStage(n), ~Misled(n)
    PROVE  Agreed'
<1> DEFINE k == restart[Host].last
           f == restart[Host].at
           s == StageOf(n)
           t == node[n].transition
<1>14. n \in Process /\ n \in joined
  BY SessionTyped
<1>1. /\ t \in Entered
      /\ node'[n].transition = Nothing /\ node'[n].log = Append(node[n].log, t)
      /\ node'[n].next = 0
      /\ restart'[n].last = restart[n].last /\ restart'[n].at = restart[n].at
      /\ ~restart'[n].queued
      /\ IF Loads(n)
         THEN restart'[n].applied /\ restart'[n].pending = (n = Host)
         ELSE restart'[n].applied = restart[n].applied /\ restart'[n].pending = restart[n].pending
      /\ \A m \in Process : m # n => node'[m] = node[m] /\ restart'[m] = restart[m]
      /\ Send(IF n = Host THEN Announced(restart'[n], StageOf(n) + 1) ELSE {})
      /\ UNCHANGED <<joined, exitAt>>
  BY <1>14, LoadActs
<1>2. /\ n \in Process /\ Host \in Process /\ Host \in Sound /\ Host \notin Peer
      /\ Sound \subseteq Process /\ k \in Nat /\ f \in Nat
      /\ \A m \in Process : restart[m].last \in Nat
  BY SessionTyped, HostIsSound
<1>3. /\ node[n].log \in Seq(Entered) /\ s = Len(node[n].log) + 1 /\ Len(node[n].log) \in Nat
      /\ t # Nothing
  <2>1. node[n] \in NodeRecord
    BY <1>14, Stages
  <2> QED
    BY <1>1, <2>1, BoundAssumption DEF NodeRecord, StageOf, Entered, Frame
<1>4. restart[n].queued => Loads(n)
  BY <1>14 DEF Typed, Modes, ModesOf, Loads
<1>5. /\ restart'[Host].last = k /\ restart'[Host].at = f
      /\ restart'[Host].pending => restart[Host].pending
  BY <1>1, <1>2 DEF Loads
<1> HIDE DEF k, f, s, t
<1>6. /\ DOMAIN node'[n].log = DOMAIN node[n].log \cup {s} /\ s \notin DOMAIN node[n].log
      /\ \A i \in DOMAIN node[n].log : node'[n].log[i] = node[n].log[i]
      /\ node'[n].log[s] = t /\ Len(node'[n].log) = s
  <2>1. node'[n].log = Append(node[n].log, t)
    BY <1>1
  <2> QED
    BY <1>1, <1>3, <2>1
<1>15. Course(n) = t /\ Course(n)' = Nothing
  BY <1>1 DEF Course, Misled, t
<1>16. Sound' = Sound
  <2>1. \A m \in joined : m # n => node'[m].log = node[m].log
    BY <1>1, SessionTyped
  <2>2. ~Strayed(n)'
    <3>1. ASSUME NEW i \in DOMAIN node'[n].log, node'[n].log[i].by = "exit"
          PROVE  node'[n].log[i].of = exitAt[i]
      <4>1. CASE i \in DOMAIN node[n].log
        <5>1. ~Strayed(n) /\ node'[n].log[i] = node[n].log[i]
          BY <1>6, <4>1 DEF Sound
        <5> QED
          BY <3>1, <4>1, <5>1 DEF Strayed
      <4>2. CASE i = s
        BY <1>3, <1>6, <3>1, <4>2 DEF Misled, s, t
      <4> QED
        BY <1>6, <4>1, <4>2
    <3> QED
      BY <1>1, <3>1 DEF Strayed
  <2>3. ASSUME NEW m \in joined PROVE Strayed(m)' <=> Strayed(m)
    <3>1. CASE m = n
      BY <2>2, <3>1 DEF Sound
    <3>2. CASE m # n
      BY <1>1, <2>1, <3>2 DEF Strayed
    <3> QED
      BY <3>1, <3>2
  <2> QED
    BY <1>1, <2>3 DEF Sound
<1>7. ASSUME NEW m \in Sound, m # n PROVE node'[m] = node[m] /\ restart'[m] = restart[m]
  BY <1>1, <1>2, <1>7
<1>8. ASSUME NEW m \in Sound
      PROVE  /\ \A i, u : Leaves(m, i, u)' <=> Leaves(m, i, u)
             /\ Left(m)' = Left(m) /\ StageOf(m)' \in Int /\ StageOf(m)' >= StageOf(m)
  <2>1. CASE m = n
    <3>1. \A i, u : Leaves(n, i, u)' <=> i \in DOMAIN node'[n].log /\ node'[n].log[i] = u
      BY <1>15 DEF Leaves
    <3>2. \A i, u : Leaves(n, i, u) <=> \/ i \in DOMAIN node[n].log /\ node[n].log[i] = u
                                        \/ i = s /\ u = t
      BY <1>3, <1>15 DEF Leaves, s
    <3>3. \A i, u : Leaves(n, i, u)' <=> Leaves(n, i, u)
      BY <1>6, <3>1, <3>2
    <3>4. Left(n)' = s /\ Left(n) = s
      BY <1>3, <1>6, <1>15 DEF Left, s
    <3>5. StageOf(n)' = s + 1 /\ StageOf(n) = s /\ s \in Nat
      BY <1>3, <1>6 DEF StageOf, s
    <3> QED
      BY <2>1, <3>3, <3>4, <3>5
  <2>2. CASE m # n
    <3>1. node'[m] = node[m] /\ m \in Process
      BY <1>2, <1>7, <2>2
    <3>2. StageOf(m) = Len(node[m].log) + 1 /\ Len(node[m].log) \in Nat
      BY <3>1, Stages
    <3>3. StageOf(m)' = StageOf(m)
      BY <3>1 DEF StageOf
    <3>4. (\A i, u : Leaves(m, i, u)' <=> Leaves(m, i, u)) /\ Left(m)' = Left(m)
      BY <1>1, <3>1, <3>3 DEF Leaves, Left, Course, Misled
    <3> QED
      BY <3>2, <3>3, <3>4
  <2> QED
    BY <2>1, <2>2
<1>9. ASSUME NEW m \in Sound PROVE (Waits(m)' <=> Waits(m)) /\ restart'[m].last = restart[m].last
  <2>1. CASE m = n /\ Loads(n)
    BY <1>1, <2>1 DEF Waits, Loads
  <2>2. CASE m = n /\ ~Loads(n)
    BY <1>1, <1>4, <2>2 DEF Waits
  <2>3. CASE m # n
    BY <1>7, <2>3 DEF Waits
  <2> QED
    BY <2>1, <2>2, <2>3
<1>10. ASSUME NEW m \in Sound, m \in Peer, m \in joined
       PROVE  /\ packets[m] \subseteq packets'[m]
              /\ \A o \in packets'[m] : \/ o \in packets[m]
                                        \/ o.seq = k /\ o.at = f /\ restart[Host].pending
                                           /\ o.kind = "Restart"
  <2>1. packets'[m] = packets[m] \cup
            (IF n = Host THEN Announced(restart'[n], StageOf(n) + 1) ELSE {})
    BY <1>1, <1>10 DEF Send
  <2>2. n = Host => \A o \in Announced(restart'[n], StageOf(n) + 1) :
                        o.seq = k /\ o.at = f /\ restart[Host].pending /\ o.kind = "Restart"
    BY <1>5 DEF Announced
  <2> QED
    BY <2>1, <2>2
<1>11. ASSUME NEW m \in Sound PROVE Unheard(m)' <=> Unheard(m)
  <2>1. CASE m \notin Peer
    BY <2>1 DEF Unheard
  <2>2. CASE m \in Peer
    <3>1. m \in Sound \ {Host} /\ m \in joined /\ restart[m].last \in Nat /\ AheadOf(m)
      BY <1>2, <2>2, SessionTyped DEF Agreed
    <3>2. Unheard(m) => Unheard(m)'
      BY <1>9, <1>10, <2>2, <3>1 DEF Unheard
    <3>3. ASSUME Unheard(m)' PROVE Unheard(m)
      <4>1. PICK o \in packets'[m] : o.kind = "Restart" /\ o.seq > restart[m].last
        BY <1>9, <3>3 DEF Unheard
      <4>2. CASE o \in packets[m]
        BY <2>2, <4>1, <4>2 DEF Unheard
      <4>3. CASE o \notin packets[m]
        <5>1. o.seq = k /\ restart[Host].pending
          BY <1>10, <2>2, <3>1, <4>1, <4>3
        <5>2. restart[m].last # k
          BY <1>2, <3>1, <4>1, <5>1
        <5> QED
          BY <3>1, <5>1, <5>2 DEF AheadOf, k
      <4> QED
        BY <4>2, <4>3
    <3> QED
      BY <3>2, <3>3
  <2> QED
    BY <2>1, <2>2
<1>12. ASSUME NEW m \in Sound PROVE RestartOf(m)'
  <2>1. RestartOf(m) /\ m \in joined
    BY SessionTyped DEF Agreed
  <2>2. m \in Peer => \A o \in packets'[m] :
            o.kind = "Restart" /\ o.seq > restart'[m].last =>
                o.seq = restart'[Host].last /\ o.at = restart'[Host].at
    BY <1>5, <1>9, <1>10, <2>1 DEF RestartOf, k, f
  <2>3. CASE m = n
    <3>1. \A j \in Nat : node'[m].transition # Restart(j)
      BY <1>1, <2>3, ExitsAreNoRestarts
    <3>2. ASSUME restart'[n].applied
          PROVE  \E i \in DOMAIN node'[n].log : node'[n].log[i] = Restart(restart'[n].last)
      <4>1. CASE Loads(n)
        BY <1>1, <1>6, <4>1 DEF Loads, t
      <4>2. CASE ~Loads(n)
        BY <1>1, <1>6, <2>1, <2>3, <3>2, <4>2 DEF RestartOf
      <4> QED
        BY <4>1, <4>2
    <3>3. restart'[n].pending /\ ~restart'[n].applied =>
              restart'[n].last = restart'[Host].last /\ restart'[n].at = restart'[Host].at
      BY <1>1, <1>5, <2>1, <2>3 DEF RestartOf, k, f
    <3> QED
      BY <2>2, <2>3, <3>1, <3>2, <3>3 DEF RestartOf
  <2>4. CASE m # n
    BY <1>5, <1>7, <2>1, <2>2, <2>4 DEF RestartOf, k, f
  <2> QED
    BY <2>3, <2>4
<1>13. ASSUME NEW m \in Sound
       PROVE  \A q \in Sound :
                  Unheard(q) /\ restart[Host].at # 0 /\ node[m].next < restart[Host].at
                      => node'[m].next < restart[Host].at
  <2>1. CASE m = n
    BY <1>1, <1>2, <2>1 DEF f
  <2>2. CASE m # n
    BY <1>7, <2>2
  <2> QED
    BY <2>1, <2>2
<1> QED
  BY <1>1, <1>2, <1>5, <1>8, <1>9, <1>11, <1>12, <1>13, <1>16, AgreedElsewhere DEF k, f


\* A stage is loaded by whomever; one that leaves on a wrong guess strays.
LEMMA LoadKeepsAgreed ==
    ASSUME Typed, Once, Framed, Agreed, NEW n \in Process, LoadStage(n)
    PROVE  Agreed'
<1>1. CASE n \in Sound /\ ~Misled(n)
  BY <1>1, LoadAgreed
<1>2. CASE n \notin Sound \/ Misled(n)
  <2>1. /\ n \in joined /\ node[n].transition \in Entered /\ node[n].log \in Seq(Entered)
        /\ node'[n].log = Append(node[n].log, node[n].transition)
        /\ \A m \in Process : m # n => node'[m] = node[m] /\ restart'[m] = restart[m]
        /\ Send(IF n = Host THEN Announced(restart'[n], StageOf(n) + 1) ELSE {})
        /\ UNCHANGED <<joined, exitAt>>
    BY LoadActs, Stages DEF NodeRecord
  <2>2. n # Host
    BY <1>2, HostIsSound DEF Framed, HostFrames
  <2>3. \A p \in Peer : packets'[p] = packets[p]
    BY <2>1, <2>2 DEF Send
  <2>4. /\ DOMAIN node[n].log \subseteq DOMAIN node'[n].log
        /\ \A i \in DOMAIN node[n].log : node'[n].log[i] = node[n].log[i]
        /\ StageOf(n) \in DOMAIN node'[n].log
        /\ node'[n].log[StageOf(n)] = node[n].transition
    <3> DEFINE log == node[n].log
               t == node[n].transition
    <3>1. /\ log \in Seq(Entered) /\ t \in Entered
          /\ node'[n].log = Append(log, t) /\ StageOf(n) = Len(log) + 1
      BY <2>1 DEF StageOf
    <3> HIDE DEF log, t
    <3>2. /\ DOMAIN log \subseteq DOMAIN node'[n].log
          /\ \A i \in DOMAIN log : node'[n].log[i] = log[i]
          /\ StageOf(n) \in DOMAIN node'[n].log /\ node'[n].log[StageOf(n)] = t
      BY <3>1
    <3> QED
      BY <3>2 DEF log, t
  <2>5. Strayed(n)'
    <3>1. CASE Strayed(n)
      <4>1. PICK i \in DOMAIN node[n].log :
                node[n].log[i].by = "exit" /\ node[n].log[i].of # exitAt[i]
        BY <3>1 DEF Strayed
      <4>2. i \in DOMAIN node'[n].log /\ node'[n].log[i] = node[n].log[i]
        BY <2>4
      <4> QED
        BY <2>1, <4>1, <4>2 DEF Strayed
    <3>2. CASE Misled(n)
      BY <2>1, <2>4, <3>2 DEF Strayed, Misled
    <3> QED
      BY <1>2, <2>1, <3>1, <3>2 DEF Sound
  <2>6. n \notin Sound'
    BY <2>5 DEF Sound
  <2> QED
    BY <2>1, <2>2, <2>3, <2>6, StrayedElsewhere
<1> QED
  BY <1>1, <1>2

\* A peer joins: nobody has a restart ahead, and it goes on as the host does.
LEMMA JoinAgreed ==
    ASSUME Typed, Once, Framed, Agreed, Agreeing, NEW p \in Peer, Join(p)
    PROVE  Agreed'
<1>1. /\ p \notin joined /\ p \in Process /\ p # Host /\ joined' = joined \cup {p}
      /\ ~restart[Host].pending
      /\ \A n \in joined : node[n].log = node[Host].log /\ node[n].mode = "Playing"
      /\ node'[p] = node[Host] /\ restart'[p] = NoRestart
      /\ \A n \in Process : n # p => node'[n] = node[n] /\ restart'[n] = restart[n]
      /\ packets'[p] = Announced(restart[Host], StageOf(Host))
                         \cup Broadcast(settings[Host], node[Host].next)
      /\ \A q \in Peer : q # p => packets'[q] = packets[q]
      /\ UNCHANGED exitAt
  BY JoinActs DEF Agreeing
<1>2. Host \in Process /\ Host \in joined /\ Host \notin Peer /\ joined \subseteq Process
  BY SessionTyped
<1>3. restart'[Host] = restart[Host] /\ node'[Host] = node[Host]
  BY <1>1, <1>2
<1>4. \A m \in packets'[p] : m.kind # "Restart"
  BY <1>1 DEF Once, Announced, Broadcast
<1>5. \A n \in joined : StageOf(n) = StageOf(Host) /\ node[n].transition = Nothing
  BY <1>1, <1>2 DEF StageOf, Typed, Modes, ModesOf
<1>10. Sound = joined /\ Sound' = joined'
  <2>1. ~Strayed(Host)
    BY DEF Framed, HostFrames
  <2>2. \A n \in joined : ~Strayed(n)
    BY <1>1, <2>1 DEF Strayed
  <2>3. \A n \in joined' : node'[n].log = node[Host].log
    BY <1>1, <1>2
  <2>4. \A n \in joined' : ~Strayed(n)'
    BY <1>1, <2>1, <2>3 DEF Strayed
  <2> QED
    BY <2>2, <2>4 DEF Sound
<1>11. \A n \in joined : Course(n) = Nothing
  BY <1>2, <1>5, CourseIs
<1>6. ASSUME NEW n \in joined' PROVE ~Waits(n)' /\ ~Unheard(n)' /\ RestartOf(n)' /\ ExitsOf(n)'
  <2>1. CASE n = p
    <3>1. ~Waits(p)' /\ ~Unheard(p)'
      BY <1>1, <1>4 DEF Waits, Unheard, NoRestart
    <3>2. RestartOf(p)'
      <4>1. \A j \in Nat : node'[p].transition # Restart(j)
        BY <1>1, <1>2, <1>5, ExitsAreNoRestarts
      <4>2. ~restart'[p].applied /\ ~restart'[p].pending
        BY <1>1 DEF NoRestart
      <4> QED
        BY <1>4, <4>1, <4>2 DEF RestartOf
    <3>3. ExitsOf(p)'
      <4>1. ExitsOf(Host)
        BY <1>2, <1>10 DEF Agreed
      <4> QED
        BY <1>1, <4>1 DEF ExitsOf, Leaves, StageOf, Course, Misled
    <3> QED
      BY <2>1, <3>1, <3>2, <3>3
  <2>2. CASE n # p
    <3>1. /\ n \in joined /\ n \in Process /\ node'[n] = node[n] /\ restart'[n] = restart[n]
          /\ n \in Peer => packets'[n] = packets[n]
      BY <1>1, <1>2, <2>2
    <3>2. ~Awaits(n) /\ RestartOf(n) /\ ExitsOf(n)
      BY <1>1, <1>5, <1>10, <1>11, <3>1, NobodyAwaits DEF Agreed
    <3>3. ~Waits(n)' /\ ~Unheard(n)'
      BY <3>1, <3>2 DEF Awaits, Waits, Unheard
    <3>4. RestartOf(n)'
      BY <1>3, <3>1, <3>2 DEF RestartOf
    <3>5. ExitsOf(n)'
      BY <1>1, <3>1, <3>2 DEF ExitsOf, Leaves, StageOf, Course, Misled
    <3> QED
      BY <3>3, <3>4, <3>5
  <2> QED
    BY <2>1, <2>2
<1>7. ASSUME NEW n \in joined'
      PROVE  /\ node'[n].log = node[Host].log /\ node'[n].transition = Nothing
             /\ \A i, t : Leaves(n, i, t)' <=> Leaves(Host, i, t)
             /\ Left(n)' = Left(Host)
  <2>1. node'[n].log = node[Host].log /\ node'[n].transition = Nothing
    <3>1. CASE n = p
      BY <1>1, <1>2, <1>5, <3>1
    <3>2. CASE n # p
      BY <1>1, <1>2, <1>5, <3>2
    <3> QED
      BY <3>1, <3>2
  <2>2. Course(n)' = Nothing /\ Course(Host) = Nothing
    BY <1>2, <1>11, <2>1 DEF Course, Misled
  <2> QED
    BY <2>1, <2>2 DEF Leaves, Left
<1>8. ASSUME NEW n \in joined' PROVE AheadOf(n)'
  BY <1>1, <1>3, <1>6, <1>10 DEF AheadOf, Awaits
<1>9. ASSUME NEW m \in joined', NEW n \in joined'
      PROVE  RestartsLead(m, n)' /\ ExitsLead(m, n)' /\ SameWay(m, n)'
  <2>1. RestartsLead(m, n)'
    <3> SUFFICES ASSUME NEW i \in Stage, NEW j \in Nat, Leaves(m, i, Restart(j))', i > Left(n)'
                 PROVE  FALSE
      BY DEF RestartsLead
    <3>1. Leaves(Host, i, Restart(j)) /\ i > Left(Host)
      BY <1>7
    <3>2. i <= Left(Host) /\ Left(Host) \in Nat /\ i \in Nat
      BY <1>2, <3>1, WaysTyped, SessionTyped
    <3> QED
      BY <3>1, <3>2
  <2>2. ExitsLead(m, n)'
    BY <1>6 DEF ExitsLead, Awaits
  <2>3. SameWay(m, n)'
    <3>1. \A i, t, u : Leaves(Host, i, t) /\ Leaves(Host, i, u) => t = u
      BY <1>2, WaysTyped
    <3> QED
      BY <1>7, <3>1 DEF SameWay
  <2> QED
    BY <2>1, <2>2, <2>3
<1> QED
  BY <1>6, <1>8, <1>9, <1>10 DEF Agreed


\* The host asks for a restart: nobody has another one ahead, and all are at
\* the same point of the way and before its frame.
LEMMA AskAgreed ==
    ASSUME Typed, Once, Framed, Agreed, NEW f \in Nat, Ask(restart[Host].next, f),
           ~restart[Host].pending,
           \A n \in Sound : StageOf(n) = StageOf(Host) /\ Course(n) = Nothing,
           \A i \in Stage : i >= StageOf(Host) => exitAt[i] >= f \/ exitAt[i] + Overrun < f,
           f = 0 => Left(Host) = 0,
           f # 0 => \A n \in Sound : node[n].next < f
    PROVE  Agreed'
<1> DEFINE k == restart[Host].next
<1>1. /\ restart'[Host].pending /\ ~restart'[Host].queued /\ ~restart'[Host].applied
      /\ restart'[Host].last = k /\ restart'[Host].at = f
      /\ \A n \in Process : n # Host => restart'[n] = restart[n]
      /\ \A p \in Peer \cap joined : packets'[p] = packets[p] \cup
              {[kind |-> "Restart", stage |-> StageOf(Host), seq |-> k, at |-> f]}
      /\ UNCHANGED <<node, joined, exitAt>>
  BY AskActs
<1>2. /\ Host \in Process /\ Host \in Sound /\ Host \notin Peer
      /\ Sound \subseteq Process /\ Sound \subseteq joined
      /\ k \in Nat
      /\ \A n \in Process : restart[n].last \in Nat /\ restart[n].last < k
  <2>1. \A n \in Process : OnceOf(n) /\ restart[n] \in RestartRecord
    BY Stages DEF Once
  <2>2. Host \in Process /\ restart[Host].last < k
    BY SessionTyped DEF Once
  <2> QED
    BY <2>1, <2>2, SessionTyped, HostIsSound DEF OnceOf, RestartRecord
<1>3. \A n \in Sound : \A j \in Nat : node[n].transition # Restart(j)
  BY <1>2, CourseIs, ExitsAreNoRestarts
<1>4. ASSUME NEW n \in Sound PROVE ~Awaits(n)
  BY NobodyAwaits
<1> HIDE DEF k
<1>5. ASSUME NEW n \in Sound, n # Host PROVE n \in Peer /\ n \in Process /\ Unheard(n)'
  <2>1. n \in Peer /\ n \in Process
    BY <1>2, <1>5 DEF Process
  <2>2. restart'[n].last < k
    BY <1>1, <1>2, <1>5, <2>1
  <2>3. \E m \in packets'[n] : m.kind = "Restart" /\ m.seq = k
    <3> DEFINE o == [kind |-> "Restart", stage |-> StageOf(Host), seq |-> k, at |-> f]
    <3>1. n \in Peer \cap joined
      BY <1>2, <1>5, <2>1
    <3>2. o \in packets'[n]
      BY <1>1, <3>1
    <3>3. o.kind = "Restart" /\ o.seq = k
      OBVIOUS
    <3> QED
      BY <3>2, <3>3
  <2> QED
    BY <2>1, <2>2, <2>3 DEF Unheard
<1>11. Sound' = Sound
  BY <1>1, SoundElsewhere
<1>6. Waits(Host)' /\ \A n \in Sound : Awaits(n)'
  BY <1>1, <1>5 DEF Waits, Awaits
<1>7. /\ \A n, i, t : Leaves(n, i, t)' <=> Leaves(n, i, t)
      /\ \A n : Left(n)' = Left(n) /\ StageOf(n)' = StageOf(n)
  BY <1>1 DEF Leaves, Left, StageOf, Course, Misled
<1>8. ASSUME NEW n \in Sound
      PROVE  Left(n) = Left(Host) /\ StageOf(n) = Left(n) + 1 /\ Left(n) \in Nat
  <2>1. n \in Process /\ StageOf(n) = StageOf(Host) /\ Course(n) = Nothing
    BY <1>2
  <2>2. Course(Host) = Nothing
    BY <1>2
  <2>3. /\ StageOf(n) = Len(node[n].log) + 1 /\ Len(node[n].log) \in Nat
        /\ StageOf(Host) = Len(node[Host].log) + 1 /\ Len(node[Host].log) \in Nat
    BY <1>2, <2>1, Stages
  <2> DEFINE a == Len(node[n].log)
             b == Len(node[Host].log)
  <2>4. Left(n) = a /\ Left(Host) = b
    BY <2>1, <2>2 DEF Left
  <2>5. StageOf(n) = a + 1 /\ StageOf(Host) = b + 1 /\ a \in Nat /\ b \in Nat
    BY <2>3
  <2> HIDE DEF a, b
  <2>6. a = b
    <3>1. a + 1 = b + 1 /\ a \in Nat /\ b \in Nat
      BY <2>1, <2>5, Zenon
    <3>2. \A x, y \in Nat : x + 1 = y + 1 => x = y
      OBVIOUS
    <3> QED
      BY <3>1, <3>2, Zenon
  <2>7. Left(n) = Left(Host)
    BY <2>4, <2>6, Zenon
  <2>8. StageOf(n) = Left(n) + 1
    BY <2>4, <2>5, Zenon
  <2>9. Left(n) \in Nat
    BY <2>4, <2>5, Zenon
  <2> QED
    BY <2>7, <2>8, <2>9, Zenon
<1>9. ASSUME NEW n \in Sound PROVE ExitsOf(n)' /\ RestartOf(n)' /\ AheadOf(n)'
  <2>1. ExitsOf(n) /\ RestartOf(n) /\ ~Awaits(n) /\ n \in Process
    BY <1>2, <1>4 DEF Agreed
  <2>2. ExitsOf(n)'
    BY <1>1, <1>7, <2>1 DEF ExitsOf
  <2>3. RestartOf(n)'
    <3>1. \A j \in Nat : node'[n].transition # Restart(j)
      BY <1>1, <1>3
    <3>2. CASE n = Host
      BY <1>1, <1>2, <3>1, <3>2 DEF RestartOf
    <3>3. CASE n # Host
      <4>1. restart'[n] = restart[n] /\ node'[n] = node[n]
        BY <1>1, <2>1, <3>3
      <4>2. ~(restart[n].pending /\ ~restart[n].applied)
        <5>1. ~restart[n].queued
          <6>1. restart[n].queued => node[n].transition = Restart(restart[n].last)
            BY <2>1 DEF Typed, Modes, ModesOf
          <6>2. restart[n].last \in Nat
            BY <1>2, <2>1
          <6> QED
            BY <1>3, <6>1, <6>2
        <5> QED
          BY <2>1, <5>1 DEF Awaits, Waits
      <4>3. \A o \in packets'[n] : o.kind = "Restart" /\ o.seq > restart[n].last =>
                o.seq = k /\ o.at = f
        BY <1>1, <1>2, <1>5, <2>1, <3>3 DEF Awaits, Unheard
      <4> QED
        BY <1>1, <2>1, <3>1, <4>1, <4>2, <4>3 DEF RestartOf
    <3> QED
      BY <3>2, <3>3
  <2>4. AheadOf(n)'
    <3>1. \A i \in Stage : i >= StageOf(n)' => Clear(i)'
      BY <1>1, <1>7 DEF Clear
    <3>2. f = 0 => Left(n)' = 0
      BY <1>7, <1>8
    <3> QED
      BY <1>1, <1>5, <1>6, <1>11, <3>1, <3>2 DEF AheadOf
  <2> QED
    BY <2>2, <2>3, <2>4
<1>10. ASSUME NEW m \in Sound, NEW n \in Sound
       PROVE  RestartsLead(m, n)' /\ ExitsLead(m, n)' /\ SameWay(m, n)'
  <2>1. /\ m \in Process /\ SameWay(m, n) /\ Left(m) = Left(n) /\ StageOf(n) = Left(n) + 1
        /\ Left(n) \in Nat
    BY <1>2, <1>8 DEF Agreed
  <2>2. ASSUME NEW i \in Stage, NEW t, Leaves(m, i, t)
        PROVE  ~(i > Left(n)) /\ ~(i >= StageOf(n))
    <3>1. i \in Nat /\ i <= Left(n)
      BY <2>1, <2>2, WaysTyped, SessionTyped
    <3> QED
      BY <2>1, <3>1
  <2>3. RestartsLead(m, n)'
    BY <1>7, <2>2 DEF RestartsLead
  <2>4. ExitsLead(m, n)'
    BY <1>7, <2>2 DEF ExitsLead
  <2>5. SameWay(m, n)'
    BY <1>7, <2>1 DEF SameWay
  <2> QED
    BY <2>3, <2>4, <2>5
<1> QED
  BY <1>9, <1>10, <1>11 DEF Agreed

LEMMA RestartAgreed ==
    ASSUME Typed, Once, Framed, Agreed, Agreeing, RequestRunRestart
    PROVE  Agreed'
<1>1. PICK f \in Nat :
          /\ Ask(restart[Host].next, f) /\ node[Host].next < f
          /\ Settled /\ ~restart[Host].pending /\ ApartFromExits(f)
          /\ \A n \in joined : node[n].next < f
  BY RestartsAreAsked DEF Agreeing
<1>2. f # 0
  BY <1>1, SessionTyped
<1>3. \A i \in Stage : i >= StageOf(Host) => exitAt[i] >= f \/ exitAt[i] + Overrun < f
  BY <1>1, BoundAssumption, SessionTyped DEF ApartFromExits, Stage
<1>4. Sound \subseteq joined /\ Sound \subseteq Process
  BY SessionTyped
<1>5. \A n \in Sound : StageOf(n) = StageOf(Host) /\ Course(n) = Nothing
  BY <1>1, <1>4, CourseIs DEF Settled
<1> QED
  BY <1>1, <1>2, <1>3, <1>4, <1>5, AskAgreed

\* A run started from the lobby: nobody has left it.
LEMMA StartAgreed ==
    ASSUME Typed, Once, Framed, Agreed, Agreeing, RequestRunStart
    PROVE  Agreed'
<1>1. /\ node[Host].mode = "Title" /\ ~restart[Host].pending /\ Ask(restart[Host].next, 0)
  BY DEF RequestRunStart, Agreeing
<1>2. /\ Host \in Process /\ Host \in Sound /\ Host \notin Peer /\ Sound \subseteq Process
      /\ \A i \in Stage : exitAt[i] \in Nat
  BY SessionTyped, HostIsSound
<1>3. node[Host].log = <<>> /\ node[Host].transition = Nothing
  BY <1>1, <1>2 DEF Typed, Modes, ModesOf
<1>4. Left(Host) = 0
  BY <1>2, <1>3, CourseIs DEF Left
<1>5. ASSUME NEW n \in Sound PROVE Left(n) = 0
  <2>1. SUFFICES ASSUME Left(n) # 0 PROVE FALSE
    OBVIOUS
  <2>2. n \in Process /\ Left(n) \in Nat /\ 1 \in Stage /\ ExitsOf(n) /\ RestartsLead(n, Host)
    BY <1>2, SessionTyped, BoundAssumption DEF Agreed, Stage
  <2>3. PICK t \in Entered : Leaves(n, 1, t)
    BY <2>1, <2>2, WaysTyped
  <2>4. t.by # "exit"
    BY <2>2, <2>3 DEF ExitsOf, Framed, ExitsAreInBounds
  <2>5. t.of \in Nat /\ t = Restart(t.of)
    BY <2>4, EnteredIs, ExitsAreNoRestarts
  <2>6. Awaits(Host)
    BY <1>4, <2>2, <2>3, <2>5 DEF RestartsLead
  <2> QED
    BY <1>1, <1>2, <2>6 DEF Awaits, Waits, Unheard
<1>6. ASSUME NEW n \in Sound PROVE StageOf(n) = StageOf(Host) /\ Course(n) = Nothing
  <2>1. n \in Process /\ Left(n) = 0
    BY <1>2, <1>5
  <2>2. StageOf(n) = Len(node[n].log) + 1 /\ Len(node[n].log) \in Nat
    BY <2>1, Stages
  <2>3. Course(n) = Nothing
    BY <2>1, <2>2 DEF Left
  <2>4. StageOf(n) = 1 /\ StageOf(Host) = 1
    BY <1>3, <2>1, <2>2, <2>3 DEF Left, StageOf
  <2> QED
    BY <2>3, <2>4
<1>7. \A i \in Stage : exitAt[i] >= 0
  BY <1>2
<1> QED
  BY <1>1, <1>4, <1>6, <1>7, AskAgreed


LEMMA AgreedAtFirst == Init => Agreed
<1> SUFFICES ASSUME Init PROVE Agreed
  OBVIOUS
<1>1. Host \in Process
  BY DEF Process
<1>2. ASSUME NEW n \in Sound
      PROVE  /\ n \in Process /\ node[n].log = <<>> /\ node[n].transition = Nothing
             /\ restart[n] = NoRestart /\ ~restart[n].pending /\ ~restart[n].applied
             /\ n \in Peer => packets[n] = {}
  BY DEF Init, NoRestart, Sound
<1>3. restart[Host] = NoRestart /\ ~restart[Host].pending
  BY <1>1 DEF Init, NoRestart
<1>4. ASSUME NEW n \in Sound PROVE ~Waits(n) /\ ~Unheard(n) /\ ~Awaits(n)
  BY <1>2 DEF Waits, Unheard, Awaits
<1>5. ASSUME NEW n \in Sound, NEW i, NEW t PROVE ~Leaves(n, i, t)
  <2>1. DOMAIN node[n].log = {} /\ node[n].transition = Nothing
    BY <1>2
  <2> QED
    BY <2>1 DEF Leaves, Course
<1>6. ASSUME NEW n \in Sound PROVE ExitsOf(n) /\ RestartOf(n) /\ AheadOf(n)
  <2>1. RestartOf(n)
    BY <1>2, ExitsAreNoRestarts DEF RestartOf
  <2>2. ExitsOf(n) /\ AheadOf(n)
    BY <1>3, <1>4, <1>5 DEF ExitsOf, AheadOf
  <2> QED
    BY <2>1, <2>2
<1>7. \A m \in Sound, n \in Sound : RestartsLead(m, n) /\ ExitsLead(m, n) /\ SameWay(m, n)
  BY <1>5 DEF RestartsLead, ExitsLead, SameWay
<1> QED
  BY <1>6, <1>7 DEF Agreed

LEMMA AgreedKept ==
    ASSUME Typed, Once, Framed, Agreed, Agreeing, [Next]_vars
    PROVE  Agreed'
<1>1. Host \in Sound /\ Host \in Process /\ joined \subseteq Process
  BY HostIsSound, SessionTyped
<1>2. ASSUME UNCHANGED <<restart, joined, exitAt>>,
             \A n \in Process :
                 /\ node'[n].log = node[n].log /\ node'[n].next = node[n].next
                 /\ node'[n].transition = node[n].transition,
             \A p \in Peer : packets[p] \subseteq packets'[p],
             \A p \in Peer : \A m \in packets'[p] : m \in packets[p] \/ m.kind = "Settings"
      PROVE  Agreed'
  <2>1. Sound' = Sound /\ \A n \in Sound : n \in Process
    BY <1>1, <1>2, SoundElsewhere, SessionTyped
  <2> QED
    BY <1>1, <1>2, <2>1, AgreedWithoutRestarts
<1>3. CASE RequestRunStart
  BY <1>3, StartAgreed
<1>4. CASE RequestRunRestart
  BY <1>4, RestartAgreed
<1>5. CASE ScheduleLockstepSettingsChange
  <2>1. PICK m \in Packet : m.kind = "Settings" /\ Send({m})
    BY <1>5, ScheduleActs
  <2>2. UNCHANGED <<node, restart, joined, exitAt>>
    BY <1>5, ScheduleActs
  <2>3. ASSUME NEW p \in Peer
        PROVE  /\ packets[p] \subseteq packets'[p]
               /\ \A o \in packets'[p] : o \in packets[p] \/ o.kind = "Settings"
    BY <2>1 DEF Send
  <2> QED
    BY <1>2, <2>2, <2>3
<1>6. ASSUME NEW n \in Process, NEW m \in Process, HandleInputFrameRecords(n, m) PROVE Agreed'
  <2>1. /\ node'[n].log = node[n].log /\ node'[n].next = node[n].next
        /\ node'[n].transition = node[n].transition
        /\ \A q \in Process : q # n => node'[q] = node[q]
        /\ UNCHANGED <<restart, joined, packets, exitAt>>
    BY <1>6, InputActs
  <2> QED
    BY <1>2, <2>1
<1>7. ASSUME NEW n \in Process, ApplyDueRunRestart(n) PROVE Agreed'
  <2>1. /\ n \in joined /\ node'[n].log = node[n].log
        /\ \A m \in Process : m # n => node'[m] = node[m] /\ restart'[m] = restart[m]
        /\ UNCHANGED <<joined, packets, exitAt>>
    BY <1>7, DueActs
  <2>2. Sound' = Sound
    BY <1>1, <2>1, SoundElsewhere
  <2>3. CASE n \in Sound
    BY <1>7, <2>3, DueAgreed
  <2>4. CASE n \notin Sound
    BY <1>1, <2>1, <2>2, <2>4, StrayedElsewhere
  <2> QED
    BY <2>3, <2>4
<1>8. ASSUME NEW n \in Process, ApplyDueLockstepSettings(n) PROVE Agreed'
  <2>1. UNCHANGED <<node, restart, joined, packets, exitAt>>
    BY <1>8, ForceActs
  <2> QED
    BY <1>2, <2>1
<1>9. ASSUME NEW n \in Process, StepFrame(n) PROVE Agreed'
  <2>1. /\ n \in joined /\ node'[n].log = node[n].log
        /\ \A m \in Process : m # n => node'[m] = node[m] /\ restart'[m] = restart[m]
        /\ UNCHANGED <<joined, packets, exitAt>>
    BY <1>9, StepActs
  <2>2. Sound' = Sound
    BY <1>1, <2>1, SoundElsewhere
  <2>3. CASE n \in Sound
    BY <1>9, <2>3, StepAgreed
  <2>4. CASE n \notin Sound
    BY <1>1, <2>1, <2>2, <2>4, StrayedElsewhere
  <2> QED
    BY <2>3, <2>4
<1>10. ASSUME NEW n \in Process, LoadStage(n) PROVE Agreed'
  BY <1>10, LoadKeepsAgreed
<1>11. ASSUME NEW p \in Peer, NEW m \in packets[p], HandleRunRestartPacket(p, m) PROVE Agreed'
  <2>1. /\ p \in joined /\ p \in Process /\ p # Host
        /\ \A n \in Process : n # p => restart'[n] = restart[n]
        /\ UNCHANGED <<node, joined, packets, exitAt>>
    BY <1>11, HearActs, ProcessAssumption
  <2>2. Sound' = Sound
    BY <2>1, SoundElsewhere
  <2>3. CASE p \in Sound
    BY <1>11, <2>3, HearAgreed
  <2>4. CASE p \notin Sound
    BY <2>1, <2>2, <2>4, StrayedElsewhere
  <2> QED
    BY <2>3, <2>4
<1>12. ASSUME NEW p \in Peer, HandleLockstepSettingsPacket(p) PROVE Agreed'
  <2>1. UNCHANGED <<node, restart, joined, packets, exitAt>>
    BY <1>12, TakeActs
  <2> QED
    BY <1>2, <2>1
<1>13. ASSUME NEW p \in Peer, Join(p) PROVE Agreed'
  BY <1>13, JoinAgreed
<1>14. CASE UNCHANGED vars
  BY <1>2, <1>14 DEF vars
<1> QED
  BY <1>3, <1>4, <1>5, <1>6, <1>7, <1>8, <1>9, <1>10, <1>11, <1>12, <1>13, <1>14 DEF Next

-----------------------------------------------------------------------------
LEMMA Prefixes ==
    ASSUME NEW s \in Seq(Entered), NEW t \in Seq(Entered), Len(s) <= Len(t),
           \A i \in 1 .. Len(s) : s[i] = t[i]
    PROVE  IsPrefixOf(s, t)
<1>1. Len(s) \in Nat /\ Len(t) \in Nat
  OBVIOUS
<1>2. SubSeq(t, 1, Len(s)) = [i \in 1 .. Len(s) |-> t[i]]
  BY <1>1
<1>3. s = [i \in 1 .. Len(s) |-> s[i]]
  OBVIOUS
<1> QED
  BY <1>2, <1>3 DEF IsPrefixOf

LEMMA WaysAgree == Typed /\ Framed /\ Agreed => StagesAgree
<1> SUFFICES ASSUME Typed, Framed, Agreed, NEW n \in Sound, NEW m \in Sound
             PROVE  \/ IsPrefixOf(node[n].log, node[m].log)
                    \/ IsPrefixOf(node[m].log, node[n].log)
  BY DEF StagesAgree, Sound, Framed, HostFrames
<1>1. n \in Process /\ m \in Process /\ SameWay(n, m)
  BY SessionTyped DEF Agreed
<1> DEFINE s == node[n].log
           t == node[m].log
<1>2. /\ s \in Seq(Entered) /\ t \in Seq(Entered)
      /\ Len(s) < MaxStage /\ Len(t) < MaxStage
  BY <1>1, Stages DEF NodeRecord, Typed, Modes, ModesOf
<1>3. \A i : i \in DOMAIN s => Leaves(n, i, s[i])
  BY DEF Leaves
<1>4. \A i : i \in DOMAIN t => Leaves(m, i, t[i])
  BY DEF Leaves
<1> HIDE DEF s, t
<1>5. ASSUME NEW i \in DOMAIN s, i \in DOMAIN t PROVE s[i] = t[i]
  <2>1. i \in Stage /\ s[i] \in Entered /\ t[i] \in Entered
    BY <1>2, <1>5, BoundAssumption DEF Stage
  <2> QED
    BY <1>1, <1>3, <1>4, <1>5, <2>1 DEF SameWay
<1>6. /\ DOMAIN s = 1 .. Len(s) /\ DOMAIN t = 1 .. Len(t)
      /\ Len(s) \in Nat /\ Len(t) \in Nat
  BY <1>2
<1>7. CASE Len(s) <= Len(t)
  <2>1. \A i \in 1 .. Len(s) : s[i] = t[i]
    BY <1>5, <1>6, <1>7
  <2> QED
    BY <1>2, <1>7, <2>1, Prefixes DEF s, t
<1>8. CASE Len(t) <= Len(s)
  <2>1. \A i \in 1 .. Len(t) : t[i] = s[i]
    BY <1>5, <1>6, <1>8
  <2> QED
    BY <1>2, <1>8, <2>1, Prefixes DEF s, t
<1> QED
  BY <1>6, <1>7, <1>8

\* StagesAgree: provided restarts are asked for well ahead, one at a time and
\* away from exits, and nobody joins while one is announced, the host leaves no
\* stage on a wrong guess and all processes that do not either enter the same
\* stages in the same order, whatever they guess, whatever the network does to
\* the inputs and however late or often a restart is announced (step.cpp,
\* net_lobby_restart.cpp).
THEOREM StagesAreEnteredAlike ==
    ASSUME Agreeing
    PROVE  Spec => []StagesAgree
<1>1. Spec => []Typed
  BY TypesAtFirst, TypesKept, PTL DEF Spec
<1>2. Typed /\ Once /\ [Next]_vars => Once'
  BY OnceKept DEF Agreeing
<1>3. Typed /\ Framed /\ [Next]_vars => Framed'
  BY FramesKept
<1>4. Typed /\ Once /\ Framed /\ Agreed /\ [Next]_vars => Agreed'
  BY AgreedKept
<1> QED
  BY <1>1, <1>2, <1>3, <1>4, OnceAtFirst, FramesAtFirst, AgreedAtFirst, WaysAgree, PTL DEF Spec

=============================================================================
