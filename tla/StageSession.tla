----------------------------- MODULE StageSession -----------------------------
(***************************************************************************)
(* The stages of a lockstep session and what every process must enter in   *)
(* the same order: exits reached by the simulation (src/step.cpp), runs    *)
(* started and restarted by the host (src/network/net_lobby_restart.cpp)   *)
(* and the settings it changes (src/network/net_lobby_input_lockstep.cpp). *)
(*                                                                         *)
(* Each process counts its stages itself and ignores inputs of another     *)
(* number.  Of the simulation only the frame is kept at which the agreed   *)
(* inputs leave a stage, and of the inputs how many frames of them a       *)
(* process has produced and heard (InputLockstep has the rest).  The join  *)
(* barrier is one step here (JoinBarrier has the rest).                    *)
(***************************************************************************)
EXTENDS Integers, Sequences, FiniteSetsExt

CONSTANTS
    Peer,           \* processes other than the host
    Host,           \* the host
    Joining,        \* the peers that may join while the run goes on
    InputDelay,     \* lockstep_input_delay_frames
    Window,         \* lockstep_max_rollback_frames
    SafetyFrames,   \* kRunRestartSafetyFrames
    SettingsFrames, \* kLockstepSettingsApplySafetyFrames
    Assumed,        \* what is assumed of users and network: see Assumption
    MaxFrame,       \* bound: frames of a stage
    ExitFrames,     \* bound: those of them at which a stage may be left
    MaxStage,       \* bound: stages, the last of which is entered and not played
    MaxRestart,     \* bound: runs started and restarted
    MaxSettings,    \* bound: changes of settings
    MaxAsked,       \* bound: both together
    NoFrame,        \* std::nullopt
    Nothing         \* no stage transition is pending

\* "heard":   a transition is long enough to hear what was said before it.
\* "margin":  a restart is heard by everybody before the frame it is due.
\* "settled": a run is started in the lobby, and restarted when everybody
\*            plays the same stage and no other restart is under way.
\* "apart":   no stage is left by an exit just before a restart is due.
\* "joins":   nobody joins while the host still announces a restart.
Assumption == {"heard", "margin", "settled", "apart", "joins"}

ASSUME ProcessAssumption == Host \notin Peer /\ Joining \subseteq Peer
ASSUME BoundAssumption ==
    /\ InputDelay \in Nat \ {0} /\ Window \in Nat
    /\ SafetyFrames \in Nat \ {0} /\ SettingsFrames \in Nat
    /\ MaxFrame \in Nat /\ ExitFrames \subseteq 0 .. MaxFrame
    /\ MaxStage \in Nat \ {0}
    /\ MaxRestart \in Nat /\ MaxSettings \in Nat /\ MaxAsked \in Nat
    /\ Assumed \subseteq Assumption
    /\ NoFrame \notin Nat /\ Nothing \notin [by : {"exit", "restart"}, of : Nat]

VARIABLES
    node,       \* mode, stages entered, frame, rollback and transition of a process
    restart,    \* its run_restart_*
    settings,   \* its lockstep settings
    joined,     \* who takes part
    made,       \* frames of input a process has produced in each stage
    heard,      \* frames of each other's input it has in its stage
    packets,    \* restart and settings packets sent to a peer, lost, late or repeated
    exitAt      \* where the agreed inputs leave a stage

vars == <<node, restart, settings, joined, made, heard, packets, exitAt>>

Process == Peer \cup {Host}
Stage == 1 .. MaxStage
Never == MaxFrame + 1
Exit(f) == [by |-> "exit", of |-> f]
Restart(k) == [by |-> "restart", of |-> k]

\* stage_instance_id.
StageOf(n) == Len(node[n].log) + 1
Others(n) == joined \ {n}
\* The frames all of whose inputs a process has.
Known(n) == IF Others(n) = {} THEN Never + Window ELSE Min({heard[n][m] : m \in Others(n)})

-----------------------------------------------------------------------------
\* StorePendingRestart.
StorePendingRestart(r, k, f) ==
    [r EXCEPT !.pending = TRUE, !.queued = FALSE, !.applied = FALSE, !.last = k, !.at = f]

NoRestart == [pending |-> FALSE, queued |-> FALSE, applied |-> FALSE,
              next |-> 1, last |-> 0, at |-> 0]
NoSettings == [inForce |-> 0, pending |-> 0, at |-> 0, next |-> 1, lastApplied |-> 0,
               broadcast |-> {}]
NoneHeard == [m \in Process |-> 0]

\* MakeRunRestartPacket, sent on every tick while it is pending.
Announced(r, i) ==
    IF r.pending THEN {[kind |-> "Restart", stage |-> i, seq |-> r.last, at |-> r.at]} ELSE {}

\* SendBroadcastLockstepSettings: the last change is sent for some frames
\* after it is due (ClearExpiredBroadcastLockstepSettings).
Broadcast(s, next) == {m \in s.broadcast : next <= m.at + InputDelay + SettingsFrames}

Send(sent) ==
    packets' = [p \in Peer |-> packets[p] \cup (IF p \in joined THEN sent ELSE {})]

Init ==
    /\ \E late \in SUBSET Joining : joined = Process \ late
    /\ node = [n \in Process |-> [mode |-> "Title", log |-> <<>>, next |-> 0,
                                  rollback |-> NoFrame, transition |-> Nothing]]
    /\ restart = [n \in Process |-> NoRestart]
    /\ settings = [n \in Process |-> NoSettings]
    /\ made = [n \in Process |-> [i \in Stage |-> IF i = 1 THEN InputDelay + 1 ELSE 0]]
    /\ heard = [n \in Process |-> NoneHeard]
    /\ packets = [p \in Peer |-> {}]
    /\ exitAt \in {e \in [Stage -> ExitFrames \cup {Never}] : e[1] = Never /\ e[MaxStage] = Never}

-----------------------------------------------------------------------------
(* Inputs.                                                                 *)

\* What may reach n of the inputs of m in its stage; the host relays those
\* of the other peers.
Said(n, m) ==
    IF Host \in {n, m} THEN made[m][StageOf(n)]
    ELSE IF StageOf(Host) = StageOf(n) THEN heard[Host][m] ELSE heard[n][m]

EarlierOf(f, g) == IF f = NoFrame \/ (g # NoFrame /\ g < f) THEN g ELSE f

\* Of the frames stepped on guesses that become known, the first whose exit was
\* guessed wrongly is not later than the frame the process goes back to.
GuessesCorrected(n, known, rollback) ==
    LET left  == node[n].transition
        e     == exitAt[StageOf(n)]
        wrong == (IF left # Nothing /\ left.by = "exit" /\ left.of # e THEN {left.of} ELSE {})
                 \cup (IF e < node[n].next /\ left # Exit(e) THEN {e} ELSE {})
    IN  (left = Nothing \/ left.by = "exit") =>
            \A f \in wrong :
                Known(n) <= f /\ f < known => rollback # NoFrame /\ rollback <= f

\* HandleInputFrameRecords: inputs arrive; a wrong guess asks for a rollback.
HandleInputFrameRecords(n, m) ==
    /\ n \in joined /\ m \in Others(n)
    /\ \E c \in heard[n][m] + 1 .. Said(n, m) :
       \E g \in {NoFrame} \cup {f \in heard[n][m] .. c - 1 : f < node[n].next} :
          LET knows == [heard[n] EXCEPT ![m] = c]
              known == Min({knows[q] : q \in Others(n)})
              back  == EarlierOf(node[n].rollback, g)
          IN  /\ GuessesCorrected(n, known, back)
              /\ heard' = [heard EXCEPT ![n] = knows]
              /\ node' = [node EXCEPT ![n].rollback = back]
    /\ UNCHANGED <<restart, settings, joined, made, packets, exitAt>>

-----------------------------------------------------------------------------
(* Runs started and restarted.                                             *)

MayAsk == (restart[Host].next - 1) + (settings[Host].next - 1) < MaxAsked

Ask(k, f) ==
    /\ k <= MaxRestart /\ MayAsk
    /\ restart' = [restart EXCEPT ![Host] =
          [StorePendingRestart(@, k, f) EXCEPT !.next = k + 1]]
    /\ Send(Announced(restart'[Host], StageOf(Host)))
    /\ UNCHANGED <<node, settings, joined, made, heard, exitAt>>

RequestRunStart ==
    /\ node[Host].next = 0
    /\ "settled" \in Assumed => node[Host].mode = "Title" /\ ~restart[Host].pending
    /\ Ask(restart[Host].next, 0)

Settled ==
    \A n \in joined : StageOf(n) = StageOf(Host) /\ node[n].transition = Nothing

\* Frames a process may have stepped past an exit when it takes it.
Overrun == Max({Window - InputDelay, 0}) + 1

ApartFromExits(f) ==
    \A i \in StageOf(Host) .. MaxStage : exitAt[i] >= f \/ exitAt[i] + Overrun < f

\* The frame it is due is well ahead: RestartApplyFrame.
RequestRunRestart ==
    LET at == node[Host].next + Max({SafetyFrames, 2 * InputDelay})
    IN  /\ node[Host].mode # "Title"
        /\ "settled" \in Assumed => Settled /\ ~restart[Host].pending
        /\ "apart" \in Assumed => ApartFromExits(at)
        /\ "margin" \in Assumed => \A n \in joined : node[n].next < at
        /\ Ask(restart[Host].next, at)

\* Fault: a restart is taken whatever has been heard before.
RestartIsNewAnyway(r, m) == ~(m.seq = r.last /\ r.pending)

\* A restart not heard of before.
RestartIsNew(r, m) ==
    /\ m.seq >= r.last
    /\ ~(m.seq = r.last /\ (r.applied \/ r.pending))

\* Fault: only packets of the very stage are taken.
RestartIsOfThisStage(p, m) == m.stage = StageOf(p)

\* The host may be a stage ahead.
RestartIsOfStage(p, m) == m.stage \in {StageOf(p), StageOf(p) + 1}

\* Fault: a restart is due as soon as it is heard.
RestartAtOnce(p, m) == IF m.at = 0 THEN 0 ELSE node[p].next + 1

\* Not in the past, except for the start of a run.
RestartFrame(p, m) == IF m.at = 0 THEN 0 ELSE Max({m.at, node[p].next + 1})

HandleRunRestartPacket(p, m) ==
    /\ p \in joined /\ m \in packets[p] /\ m.kind = "Restart"
    /\ RestartIsOfStage(p, m) /\ RestartIsNew(restart[p], m)
    /\ restart' = [restart EXCEPT ![p] = StorePendingRestart(@, m.seq, RestartFrame(p, m))]
    /\ UNCHANGED <<node, settings, joined, made, heard, packets, exitAt>>

RestartIsDue(n) ==
    LET r == restart[n]
    IN  r.pending /\ ~r.queued /\ ~r.applied /\ node[n].next >= r.at

\* ApplyDueRunRestart, whatever transition was pending.
ApplyDueRunRestart(n) ==
    /\ n \in joined /\ RestartIsDue(n)
    /\ node' = [node EXCEPT ![n].mode = "StageTransition",
                            ![n].transition = Restart(restart[n].last)]
    /\ restart' = [restart EXCEPT ![n].queued = TRUE]
    /\ UNCHANGED <<settings, joined, made, heard, packets, exitAt>>

-----------------------------------------------------------------------------
(* Settings.                                                               *)

\* ScheduleLockstepSettingsChangeImpl.
ScheduleLockstepSettingsChange ==
    LET s  == settings[Host]
        at == node[Host].next + InputDelay + SettingsFrames
        change == {[kind |-> "Settings", stage |-> StageOf(Host), seq |-> s.next, at |-> at]}
    IN  /\ s.next <= MaxSettings /\ MayAsk
        /\ settings' = [settings EXCEPT ![Host] =
              [@ EXCEPT !.pending = s.next, !.at = at, !.next = s.next + 1, !.broadcast = change]]
        /\ Send(change)
        /\ UNCHANGED <<node, restart, joined, made, heard, exitAt>>

\* Fault: settings announced in an earlier stage are taken too.
SettingsAreOfAnyStage(p, m) == m.stage <= StageOf(p)

SettingsAreOfThisStage(p, m) == m.stage = StageOf(p)

\* None older than those applied in this stage or pending.
SettingsAreNew(s, m) == m.seq > s.lastApplied /\ m.seq >= s.pending

\* HandleLockstepSettingsPacket.
HandleLockstepSettingsPacket(p) ==
    \E m \in packets[p] :
        LET s == settings[p]
        IN  /\ p \in joined \ {Host} /\ m.kind = "Settings"
            /\ SettingsAreOfThisStage(p, m) /\ SettingsAreNew(s, m)
            /\ settings' = [settings EXCEPT ![p] = [s EXCEPT !.pending = m.seq, !.at = m.at,
                                                    !.next = Max({s.next, m.seq + 1})]]
            /\ UNCHANGED <<node, restart, joined, made, heard, packets, exitAt>>

\* ApplyPendingLockstepSettings.
ApplyDueLockstepSettings(n) ==
    LET s == settings[n]
    IN  /\ n \in joined /\ s.pending # 0 /\ node[n].next >= s.at
        /\ settings' = [settings EXCEPT ![n] = [s EXCEPT !.inForce = s.pending, !.pending = 0,
                              !.lastApplied = Max({s.lastApplied, s.pending})]]
        /\ UNCHANGED <<node, restart, joined, made, heard, packets, exitAt>>

-----------------------------------------------------------------------------
(* Frames and stages.                                                      *)

\* CanStepWithoutRunningAheadOfRemoteInputs.
CanStep(n) ==
    \A m \in Others(n) :
        /\ heard[n][m] > InputDelay
        /\ node[n].next + InputDelay < heard[n][m] + Window

\* BuildOrPredictFrameInputs: the host does not step on guesses.
CanBuild(n) == n = Host => node[n].next < Known(n)

\* The exits that the frames from f on may take when they are stepped: the
\* right one as far as inputs are known, any as far as they are guessed.
Exits(n, f) ==
    LET e == exitAt[StageOf(n)]
    IN  IF e >= f /\ e <= node[n].next /\ e < Known(n) THEN {e}
        ELSE {Never} \cup Known(n) .. node[n].next

\* "margin": nobody steps into the frame of a restart before all know of it.
RestartIsHeard(n) ==
    LET r == restart[Host]
    IN  (r.pending /\ ~r.applied /\ r.at # 0 /\ node[n].next + 1 >= r.at) =>
            \A p \in joined : restart[p].last = r.last

\* PrepareInputLockstepFrame and StepPlaying: a rollback asked for is done
\* first.  The host stops announcing a restart it has applied once it is
\* past the frame of it (SendPendingRunRestart).
StepFrame(n) ==
    LET from == IF node[n].rollback = NoFrame THEN node[n].next ELSE node[n].rollback
        next == node[n].next + 1
    IN  /\ n \in joined /\ node[n].mode = "Playing"
        /\ ~RestartIsDue(n) /\ CanStep(n) /\ CanBuild(n)
        /\ next <= MaxFrame + 1 /\ StageOf(n) < MaxStage
        /\ "margin" \in Assumed => RestartIsHeard(n)
        /\ \E e \in Exits(n, from) :
              node' = [node EXCEPT ![n] = [@ EXCEPT
                  !.next = next, !.rollback = NoFrame,
                  !.mode = IF e = Never THEN node[n].mode ELSE "StageTransition",
                  !.transition = IF e = Never THEN node[n].transition ELSE Exit(e)]]
        /\ made' = [made EXCEPT ![n][StageOf(n)] = next + InputDelay + 1]
        /\ restart' = [restart EXCEPT ![n].pending =
              @ /\ ~(n = Host /\ restart[n].applied /\ next > restart[n].at)]
        /\ UNCHANGED <<settings, joined, heard, packets, exitAt>>

\* "heard": all that was said in a stage is heard before one leaves it.
EverythingIsHeard(n) ==
    \A m \in Others(n) :
        (StageOf(m) = StageOf(n) /\ made[n][StageOf(n)] > InputDelay + 1)
            => heard[m][n] = made[n][StageOf(n)]

\* Fault: a restart is not applied when its stage is loaded.
NotifyNothing(n, r, t) == r

\* NotifyRunRestartStageLoaded.
NotifyRunRestartStageLoaded(n, r, t) ==
    IF r.pending /\ r.queued /\ ~r.applied /\ t = Restart(r.last)
    THEN [r EXCEPT !.queued = FALSE, !.applied = TRUE, !.pending = (n = Host)] ELSE r

\* StepStageTransition, 60 ticks later, with ApplyPendingStageTransitionNow,
\* NotifyStageLoaded and ResetInputLockstepState.
LoadStage(n) ==
    LET t       == node[n].transition
        entered == Append(node[n].log, t)
        r       == NotifyRunRestartStageLoaded(n, restart[n], t)
    IN  /\ n \in joined /\ node[n].mode = "StageTransition" /\ ~RestartIsDue(n)
        /\ StageOf(n) < MaxStage
        /\ "heard" \in Assumed => EverythingIsHeard(n)
        /\ node' = [node EXCEPT ![n] = [mode |-> "Playing", log |-> entered, next |-> 0,
                                        rollback |-> NoFrame, transition |-> Nothing]]
        /\ restart' = [restart EXCEPT ![n] = r]
        /\ settings' = [settings EXCEPT ![n] =
              [@ EXCEPT !.pending = 0, !.lastApplied = 0, !.broadcast = {}]]
        /\ made' = [made EXCEPT ![n][StageOf(n) + 1] = InputDelay + 1]
        /\ heard' = [heard EXCEPT ![n] = NoneHeard]
        /\ Send(IF n = Host THEN Announced(r, StageOf(n) + 1) ELSE {})
        /\ UNCHANGED <<joined, exitAt>>

\* A peer joins (JoinHostSession, HandleJoinAcceptAsPeer and the barrier): it
\* and everybody else go on from the host's stage and frame.
Join(p) ==
    LET h == node[Host]
    IN  /\ p \in Joining \ joined
        /\ h.mode = "Playing" /\ h.transition = Nothing
        /\ \A n \in joined : node[n].log = h.log /\ node[n].mode = "Playing"
                             /\ node[n].next = h.next /\ node[n].rollback = NoFrame
        /\ "joins" \in Assumed => ~restart[Host].pending
        /\ joined' = joined \cup {p}
        /\ node' = [node EXCEPT ![p] = h]
        /\ restart' = [restart EXCEPT ![p] = NoRestart]
        /\ settings' = [settings EXCEPT ![p] = [NoSettings EXCEPT
                                                   !.inForce = settings[Host].inForce]]
        /\ made' = [made EXCEPT ![p][StageOf(Host)] = h.next + InputDelay + 1]
        /\ heard' = [n \in Process |-> [m \in Process |->
              IF n \in joined' /\ m \in joined' \ {n} /\ p \in {n, m} THEN h.next
              ELSE heard[n][m]]]
        /\ packets' = [packets EXCEPT ![p] =
              Announced(restart[Host], StageOf(Host)) \cup Broadcast(settings[Host], h.next)]
        /\ UNCHANGED exitAt

-----------------------------------------------------------------------------
Next ==
    \/ RequestRunStart
    \/ RequestRunRestart
    \/ ScheduleLockstepSettingsChange
    \/ \E n \in Process :
          \/ \E m \in Process : HandleInputFrameRecords(n, m)
          \/ ApplyDueRunRestart(n)
          \/ ApplyDueLockstepSettings(n)
          \/ StepFrame(n)
          \/ LoadStage(n)
    \/ \E p \in Peer :
          \/ \E m \in packets[p] : HandleRunRestartPacket(p, m)
          \/ HandleLockstepSettingsPacket(p)
          \/ Join(p)

Spec == Init /\ [][Next]_vars

\* What the host announces at this moment.
HearsAnnouncement(p) ==
    \E m \in Announced(restart[Host], StageOf(Host)) : HandleRunRestartPacket(p, m)

\* Inputs that are still sent: who has left a stage sends none of it any more.
HearsResentInputs(n, m) ==
    /\ Host \in {n, m} => StageOf(m) = StageOf(n)
    /\ HandleInputFrameRecords(n, m)

\* The game loops tick, and what is sent on every tick gets through for as
\* long as it is sent.
Fairness ==
    /\ \A n \in Process :
          /\ \A m \in Process : WF_vars(HearsResentInputs(n, m))
          /\ WF_vars(ApplyDueRunRestart(n))
          /\ WF_vars(StepFrame(n))
          /\ WF_vars(LoadStage(n))
    /\ \A p \in Peer : WF_vars(HearsAnnouncement(p))

FairSpec == Spec /\ Fairness

-----------------------------------------------------------------------------
Frame == Nat
Packet == [kind : {"Restart", "Settings"}, stage : Stage, seq : Nat, at : Frame]
Entered == [by : {"exit", "restart"}, of : Frame]

\* The variables have the types of the code's fields.
TypeOK ==
    /\ joined \subseteq Process /\ Host \in joined
    /\ node \in [Process -> [mode : {"Title", "Playing", "StageTransition"},
          log : Seq(Entered), next : Frame, rollback : Frame \cup {NoFrame},
          transition : Entered \cup {Nothing}]]
    /\ restart \in [Process -> [pending : BOOLEAN, queued : BOOLEAN, applied : BOOLEAN,
          next : Nat, last : Nat, at : Frame]]
    /\ settings \in [Process -> [inForce : Nat, pending : Nat, at : Frame, next : Nat,
          lastApplied : Nat, broadcast : SUBSET Packet]]
    /\ \A n \in Process : restart[n].queued => node[n].transition = Restart(restart[n].last)
    /\ made \in [Process -> [Stage -> Nat]]
    /\ heard \in [Process -> [Process -> Nat]]
    /\ packets \in [Peer -> SUBSET Packet]
    /\ exitAt \in [Stage -> Nat]

IsPrefixOf(s, t) == Len(s) <= Len(t) /\ SubSeq(t, 1, Len(s)) = s

\* A process has left a stage by an exit that only its guesses of others'
\* inputs led to: nothing takes it back, as a transition is not rolled back.
Strayed(n) ==
    \E i \in DOMAIN node[n].log : node[n].log[i].by = "exit" /\ node[n].log[i].of # exitAt[i]

\* The host never leaves a stage on a wrong guess, and every process that has
\* not enters the same stages in the same order as the host and each other
\* such process: by the same exit at the same frame, or by the same restart,
\* also when they step past an exit or up to the restart on guesses (step.cpp,
\* net_lobby_restart.cpp).
StagesAgree ==
    /\ ~Strayed(Host)
    /\ \A n, m \in {q \in joined : ~Strayed(q)} :
          IsPrefixOf(node[n].log, node[m].log) \/ IsPrefixOf(node[m].log, node[n].log)

\* A run is restarted once for every time the host asks, in the order it asks,
\* although the packet is repeated on every tick and in the stage after.
RestartedOncePerRequest ==
    \A n \in Process : \A i, j \in DOMAIN node[n].log :
        (i < j /\ node[n].log[i].by = "restart" /\ node[n].log[j].by = "restart")
            => node[n].log[i].of < node[n].log[j].of

\* Settings wait for a frame of the stage they were announced in: none of an
\* earlier stage, in which that number meant another frame, are ever put in
\* force (HandleLockstepSettingsPacket, ResetInputLockstepState).
SettingsAreOfOneStage ==
    \A n \in joined : settings[n].pending # 0 =>
        \E m \in settings[Host].broadcast \cup UNION {packets[p] : p \in Peer} :
            /\ m.kind = "Settings" /\ m.seq = settings[n].pending
            /\ m.stage = StageOf(n) /\ m.at = settings[n].at

\* A stage the host has entered is entered by everybody in the end.
EverybodyFollows ==
    \A p \in Peer, i \in 1 .. MaxStage - 1 :
        (p \in joined /\ Len(node[Host].log) >= i) ~> (Len(node[p].log) >= i)
=============================================================================
