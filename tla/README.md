# Splonks: the networked session in TLA+

Splonks is a cooperative platformer. Its multiplayer is deterministic input
lockstep with prediction and rollback: every process runs the whole
simulation, only inputs travel, and the host decides which input each player
had in each frame. This directory models that core, checks it with TLC and
proves most of its safety with TLAPS. Paths below are relative to the
repository's `src/` directory, those of documents to its root; `LS` stands for
`src/network/net_lobby_input_lockstep.cpp`.

Contents: 1 the system, 2 its components, 3 the modules, 4 the runs, 5 what
TLC refutes, 6 the proofs, 7 what is left out, 8 the plan.

## 1. The system

One process hosts; the others are peers of the host only (a star). All of it
is single-threaded: the game loop calls `StepSingleTick` (`src/step.cpp:446`),
which does, in this order,

1. `MaintainInputLockstepTransport` (`LS:2953`), in every mode: the packet pump
   (`net_lobby_packet_pump.cpp`: `StepHostPackets`, `StepPeerPackets`) hands each
   packet that has arrived to its handler and drops endpoints that timed out;
   then what is pending of a restart, the join barrier or a snapshot transfer
   goes out, settings are applied, the local inputs queued and a batch sent;
2. `PrepareInputLockstepFrame` (`LS:2886`), in modes that advance the
   simulation: replay a pending rollback, or find the inputs of the next frame
   and save a snapshot; when it says no, the tick ends;
3. one step of the simulation with those inputs.

The components do not call each other across processes; within
one they share the fields of `NetSessionState` (`net_session.hpp`) and meet
there: the join barrier blocks stepping, installing a snapshot clears the input
buffer and the rollback request, a rollback records hashes again.

There are no threads, so what makes the code hard is distribution: packets
lost, repeated, reordered and late (UDP, or the built-in fuzzer); handlers that
run between two ticks of a multi-tick protocol; windows and histories of
different lengths that have to fit; peers that join, quit or die at any point.
## 2. The components

| Component | State | Operations | Correct when |
|---|---|---|---|
| Input lockstep (`LS`) | next frame to step and to queue, rollback request, snapshots | queue, send, receive, step, predict, roll back, prune | one input per player and frame; every node's simulation becomes the host's; nobody waits for ever |
| Input buffer (`input_lockstep.cpp`) | records keyed by player and frame | `Store`, `Find*`, `Collect*`, `ClearBefore` | a confirmed record is never lost to a prediction, a canonical one never to another |
| Join barrier (`LS`, `net_lobby_join.cpp`, `net_lobby_endpoint.cpp`) | `join_barrier_*`, endpoints, players | join, retry, refuse, leave, time out, transfer, topology, acknowledge, resume | nobody goes on early; all go on with one player set and one game state; all go on |
| Snapshot resync (`LS`) | `lockstep_snapshot_resync_*` | request, queue, start, chunk, acknowledge, retry, time out | a repaired peer continues where the snapshot ends; no transfer is confused with another; every repair ends |
| Hash exchange (`LS`) | hashes by frame, early hashes of others, mode | record, send, compare, ask for a rollback or a repair | a reported difference is never that of a guess; what it asks for can be done |
| Run restart, stage transition (`net_lobby_restart.cpp`, `step.cpp`) | stage instance, `run_restart_*`, pending transition | request, resend, accept, apply, load | all enter the same stages; once per request; nobody is left behind |
| Settings (`LS`) | delay, window, their apply frame | announce, take, apply, forget | applied in the stage they were announced in |
| Lobby membership, retained players (`net_lobby_join.cpp`, `net_lobby_endpoint.cpp`, `net_lobby_retained_player.cpp`) | endpoints, ids, pending joins, retained records | allocate, defer, retain, give back, expire, kick | every player has an endpoint; an item is in one place; a record goes to its owner |
| Pump, transport, fuzzer, wire protocol | sockets, queues | dispatch, encode | packets are what was sent |
| Realnet punch and relay | NAT state | punch, relay | a link exists |
| Simulation, snapshots, player registry | the game state | step, save, restore | a function of the inputs |
| Entity pool | slots and versions | allocate, free, look up | a stale id finds nothing |
| Stage generation, quests, physics, fluids, entities, tools, shops | game content | game rules | game design |
| Playback, debug control, rendering, audio, menus, shell | | presentation and I/O | |

The first eight are modelled. They are a small part of the repository by lines:
most of it is game content, rendering and tooling, which runs inside one step
of one process and has nothing to interleave with. `PROJECT.json` lists every component with its
status, and the hazards the properties aim at, each with the line where it
bites and the properties that would notice.

## 3. The modules

| Module | Models | Kind |
|---|---|---|
| `LockstepInputBuffer` | `input_lockstep.cpp`: the slots of one player and the precedence of `Store` | operators |
| `InputLockstep` | `LS`: a session of fixed players within one stage | state machine |
| `AgreedInputs` | what lockstep promises: one log, written by the host, of which all apply a growing prefix | abstract specification |
| `InputLockstepAgreement` | the refinement mapping from `InputLockstep` to `AgreedInputs` | refinement |
| `MCInputLockstep` | players and owners for TLC | instances |
| `InputLockstepProofs` | types and agreement of `InputLockstep`; its rollbacks: what is corrected, what can be, what is resent | proofs |
| `InputLockstepAgreementProofs` | that `InputLockstep` implements `AgreedInputs` | proofs |
| `Queues` | queues of which entries are taken out wherever they stand | operators |
| `QueueProofs` | `Without`, and what is needed to reason about recursive functions | proofs |
| `JoinBarrier` | the join barrier, membership as far as it matters to it | state machine |
| `JoinBarrierProofs` | theorems of `JoinBarrier` | proofs |
| `SnapshotRepair` | repair by a snapshot in chunks, and the barrier that shares its fields | state machine |
| `SnapshotRepairProofs` | theorems of `SnapshotRepair` | proofs |
| `LockstepHashes` | the exchange of hashes and what a difference leads to | state machine |
| `LockstepHashesProofs` | theorems of `LockstepHashes` | proofs |
| `StageSession` | stages, run restarts and settings of a whole session | state machine |
| `StageSessionProofs` | types, settings and requests of `StageSession`; that all its processes enter the same stages | proofs |
| `LobbyMembership` | who is in the lobby, what the absent left behind | state machine |
| `MCLobbyMembership` | the symmetry of endpoints for TLC | instance |
| `LobbyMembershipProofs` | theorems of `LobbyMembership` | proofs |

The state machines overlap where the components meet, each keeping of the
others what it needs: `SnapshotRepair` has the barrier's transfers, `LockstepHashes`
the end of a repair, `StageSession` a barrier in one step and the frames heard, `JoinBarrier`
a peer's rollback as a counter, `LobbyMembership` the host's rollbacks.
There is no joint state machine of all of them: it would be out of TLC's reach.

### InputLockstep

| Variable | Code |
|---|---|
| `nextFrame`, `nextLocal` | `lockstep_next_frame_to_step`, `lockstep_next_local_input_frame` |
| `buffer` | `lockstep_input_buffer`: per player and frame a record or `NoRecord` |
| `rollback` | `lockstep_rollback_requested_frame` |
| `snapshots` | `lockstep_rollback_snapshots` |
| `game` | the simulation: since stepping is deterministic, the input vectors it was stepped with |
| `tick` | whose tick is under way and how far |
| `network` | packets sent and not lost |

`Maintain` is step 1 of the tick without its pump; `ModeDoesNotAdvance`, `WaitForRemoteInputs`,
`RollbackSnapshotMissing`, `ReplayRollbackWindow` and `StepFrame` are the
outcomes of steps 2 and 3; `HandleInputFrameRecords` is the pump. A tick's
actions touch only their own node after `Maintain` has sent, so one node's tick
is not interleaved with another's: any interleaving of whole ticks and
deliveries is explored, and finer ones would not be distinguishable.

A packet stays in `network` after delivery, so it may arrive again and after
newer ones; one never delivered was lost. With `OnlyNewestSurvive` the packets
of a node's earlier batches are lost when it sends again, which bounds the
state space where liveness is checked. The predicted flag is not on the wire
(`OnTheWire`). `arbitrated_missing` is in the record and in `Store`'s
precedence, but no code sets it.

### JoinBarrier

| Variable | Code |
|---|---|
| `host` | `join_barrier_*` of the host: phase, queue, awaited acknowledgements, joined, removed, transfer |
| `nextId`, `remotes` | the next transfer id; `transport.remotes` |
| `peer` | a peer's barrier and session fields |
| `frame`, `sim` | `lockstep_next_frame_to_step`; the frames stepped, in order, and the players |
| `heard`, `requested`, `saved` | a peer's host inputs, rollback request and snapshots, as counters |
| `toPeer`, `toHost` | the link to and from each peer |

Handlers have the names they have in the code. The four host ticks
(`ResumeEverybody`, `WaitForAcks`, `StartNextTransfer`, `ContinueTransfer`) are
the branches of `SendPendingJoinBarrier`. With `InOrder` a link is a queue (a
LAN: every packet once, in order); without, it is a set from which any packet
may arrive or not, any number of times. Input lockstep appears as `HostSteps`, `PeerSteps`,
`HearInputs` and `ReplayRollbackWindow`: a peer steps up to `Ahead` frames past
the host inputs it has heard, and each guess is right or wrong. Every process
has one player and is named by it. `Quit` is a disconnect with or without its
leave notice, or a death. `OtherContent` are the peers whose content hash is
refused. `Decodes` says whether snapshots may fail to load.

### SnapshotRepair

| Variable | Code |
|---|---|
| `host` | `lockstep_desync_mode` and `lockstep_snapshot_resync_*` of the host, with `target` and the cursor `next`; of `join_barrier_*` what a transfer touches, with `barrierPeer` (`join_barrier_active_peer_id`) |
| `peer` | the same of each peer: chunks received, last transfer acknowledged, barrier |
| `nextId`, `remotes` | `lockstep_snapshot_resync_next_transfer_id`, `transport.remotes` |
| `sim` | each process' frame, and whether its simulation was put together from two snapshots |
| `tick` | how far the host's tick is: the pump, or the resync after it |
| `toPeer`, `toHost` | the links |

`HostReceives` and `PeerReceives` dispatch to the handlers the code has; `HostTicks` is
`SendPendingSnapshotResync` with `SendPendingJoinBarrier`. A barrier is raised by a peer that is
gone (`CleanupTimedOutRemoteEndpoint`) or by a join request that is retried
(`HandleRetriedJoinRequest`). That a repair is wanted is an input (`HostAsksForRepair`, `PeerAsksForRepair`):
the debug control may force one at any time. `target` and `barrierPeer` are two fields, as in the code, while the transfer
that is active, its chunks and the cursor are one: each tick sends `BarrierPerPump` chunks from the cursor to the barrier's
peer and `ResyncPerPump` to the target, whichever of the two the transfer is for.

### LockstepHashes

| Variable | Code |
|---|---|
| `node` | frame, window, first buffered frame and canonical inputs, rollback request, snapshots, `lockstep_hash_history`, `lockstep_remote_hash*`, `lockstep_desync_*` |
| `sim` | the flaws of a simulation: a wrong guess in a frame, or a frame computed wrongly |
| `hashes` | hash packets sent and not lost |

A hash of a frame is the set of flaws up to it, so equal hashes are those of
equal simulations. `Steps`, `TickWithoutStep` and `Replays` are a tick with its
three outcomes, each with the hashes recorded and sent; `Receives` is
`HandleSimulationHash`; `RepairBySnapshot` the end of a repair.

### StageSession

| Variable | Code |
|---|---|
| `node` | mode, stages entered since the session began (`stage_instance_id` is their number), frame, rollback request, pending transition |
| `restart` | `run_restart_*` |
| `settings` | `lockstep_settings_*`, with the change the host still repeats |
| `joined`, `packets` | who takes part; restart and settings packets under way |
| `made`, `heard` | how many frames of inputs each process has produced in a stage, and has of the others in its own |
| `exitAt` | the frame at which the agreed inputs leave a stage, if they do |

`RequestRunStart`, `RequestRunRestart`, `HandleRunRestartPacket`, `ApplyDueRunRestart`,
`ScheduleLockstepSettingsChange`, `HandleLockstepSettingsPacket` and
`ApplyDueLockstepSettings` are the code's functions of these names. `StepFrame` is a tick that
steps, with a rollback if one is asked for; `LoadStage` is the sixty ticks of
`StepStageTransition` with everything the load resets. An exit may be guessed: a peer that lacks
inputs may step past the agreed exit or take one there is not; the host does not step without all inputs (`CanBuild`).
A peer that leaves a stage by an exit there is not has `Strayed`: nothing takes it back.

What the code leaves to users and network is the constant `Assumed`; section 5
says what happens without each part of it.

### LobbyMembership

| Variable | Code |
|---|---|
| `world` | the simulation: player slots, what each carries, what lies about, the stage's frame |
| `saved`, `calm`, `requested` | `lockstep_rollback_snapshots`, the frames stepped since the last change of players (to `Window + 1`), the rollback asked for |
| `connected`, `remotes`, `pending`, `retained`, `nextId` | `NetPeerState`s, `transport.remotes`, `pending_join_endpoints`, `retained_players`, `next_player_id` |
| `mode`, `blocked`, `spawnMode` | whether a stage transition runs, `join_barrier_active`, `reconnect_spawn_mode` |
| `client`, `net` | the processes that join; packets under way |

`Receives` dispatches to `HandleJoinRequestAsHost`, `HandleLeaveNoticeAsHost` and `HandleJoinAcceptAsPeer`;
`DrainPendingJoinRequestsAsHost`, `RemoveRemoteEndpoint`, `DropPendingJoin` and
`CleanupExpiredRetainedPlayerStates` run from the tick. `CompareLockstepHash` asks the host for a rollback and
`StepFrame` replays it: it restores the slots and items of a snapshot and not the lobby. Only a hash that differs asks a host
for one, as what it steps is canonical, and since the end of a barrier forgets all hashes no request goes back behind it; one
asked for just before a change of players may still be replayed after it.

Everywhere the operators marked `Fault` are plausible mistakes in the operator below them;
each property is known to fail when one of them is put in its place.

## 4. The runs

Bounds all runs share: two or three processes, each with one player, and two
inputs. Disagreement is between two nodes over one player's frame, a lost
acknowledgement concerns one peer; a third process is used where the property
is about somebody who is neither joining nor leaving. The constants of the code
(12 frames of history, 16 records a packet, 4 frames of slack, a window of 12)
are scaled down with the relations between them kept or made tighter.
`CHECK_DEADLOCK FALSE` stands where a bound on frames, barriers, transfers, stages or requests
stops the behaviour; `lockstep_convergence` checks deadlock, as ticking never
stops there.

| Run | Instance | Shows |
|---|---|---|
| `lockstep_safety` | window 3, history 3, slack 0, delay 1, 4 frames, batches of one packet, arbitrary loss, reordering, duplication | `WrongInputIsRolledBack`, `RollbackIsExact`: no correction is forgotten and each goes back to exactly the right state. `MissingInputIsResent`, `DroppedFramesAgree`: what a node lacks is still resent, and what leaves the window agrees with the host. Four frames are the fewest in which one leaves it |
| `lockstep_split` | window 1, history 2, 2 records a packet, the peer's input varies | `TypeOK`, `OneInputPerFrame`, `CanonicalAgreement`, `WithinWindow` with batches split over packets |
| `lockstep_convergence` | window 2, history 2, under `FairSpec` | `ImplementsAgreedInputs`: settled frames form one append-only log. `Converges`: everyone reaches the last frame with the host's simulation |
| `barrier_join` | a peer in the session and one that joins and asks twice, ordered links | `TypeOK`, `JoinersFollowTheHost`, `ResumeWhenReady`, `ResumeWithOneTopology` |
| `barrier_lossy` | one joining peer and one refused, three barriers, three transfers, snapshots that may fail to load, arbitrary loss, reordering, duplication | `NobodyLeavesEarly`, `TransferIsAnswered`. A second barrier is raised by a copy of the join request, with everything of the first still under way |
| `barrier_liveness` | a peer quits while another joins, ordered links, under `FairSpec` | `BarrierEnds` |
| `barrier_second_joiner` | a peer in the session and two that join at once | a violation: see section 5 |
| `repair_shared` | two peers, snapshots of two chunks that may fail to load, chunks sent at two rates and lost, one peer that may die and whose join request is repeated | `TypeOK`, `InstalledSnapshotIsWhole`, `HostStandsStillDuringTransfer`, `RepairEndsWhenInstalled`, with repair and barrier taking over each other's fields, also when the repair is asked for during a barrier's transfer |
| `repair_ends` | two repairs at once, requests, chunks and answers are lost, under `FairSpec` | `RepairEnds`, `QueuedRepairStarts` |
| `hashes_repair` | hashes of every second frame of five, a wrong guess, a fault, a window that grows from 1 to 2 | `TypeOK`, `HistoryIsCurrent`, `PendingIsUnanswered`, `RequestedSnapshotExists`, `SettledHashesAreSent`. Two scheduled frames are needed for "the last that agreed" to be another than the one that differs |
| `session` | a host and a peer that may join late, window 2, exits at frames 2 or 4 or nowhere, three stages of which the last is entered and not played, two requests in all, under `FairSpec`. A guess is wrong in two ways, an exit passed and one that is none, and restarts are due before and after exits | `TypeOK`, `StagesAgree`, `RestartedOncePerRequest`, `SettingsAreOfOneStage`; `EverybodyFollows` |
| `lobby` | two endpoints (symmetric), two ids, one item, lifetime 1, window 2, one stage change, three join requests | `TypeOK`, `EveryPlayerHasAnEndpoint`, `ItemsAreInOnePlace`, `RecordsAreOfTheAbsent`, `RecordGoesToWhoAskedForIt`, `RecordsAreKeptUntilGivenBack`. A leaver, a stranger and one who comes back are two endpoints over time |

### Fairness

`InputLockstep!FairSpec`: every node's game loop ticks for ever (strong fairness
of `Maintain`, as a tick of one node disables it on the other), finishes its
tick (weak), and returns again and again to a mode that steps (strong: a menu or
transition screen does not last for ever). Reception is strongly fair per record:
the code sends the last 13 frames on every tick, so a record that is sent for
ever gets through at some time. Nothing is assumed of a record that is no longer sent.

`JoinBarrier!FairSpec`: the host's ticks and everybody's stepping (weak), the
time-out of a peer that is gone (weak: `CleanupTimedOutRemoteEndpoints` counts
pump ticks). On lossy links reception is strongly fair for what is resent every
tick while it is needed (join requests, chunks, topology and their answers); a
`Resume` is sent once and is assumed nothing of. On ordered links every
packet is received (weak).

`SnapshotRepair!FairSpec`: ticks and time-outs (weak); requests, each single chunk and answers,
which are all repeated until they are answered, are received again and again if
they are sent again and again (strong); barrier packets are not lost in the run that uses it (weak).

`StageSession!FairSpec`: ticks that step, load and apply (weak), and the inputs, which are
resent as above until their sender leaves the stage (weak); a peer hears of a restart for as long as the host announces
it, on every tick (weak, of what the host announces at that moment). Nothing is assumed of a settings
packet, nor of a restart packet the host has stopped sending.

## 5. What TLC refutes

One run states what the repository's own plan (`docs/plans/input_lockstep_rollback_plan.md`,
"plan" below) says and shows an execution of the code that does otherwise:

- `barrier_second_joiner` (`LS:2236`): a peer that was served earlier in the same
  barrier counts as still joining and is not told of the next one. An
  acknowledgement names the barrier and not the player set it answers, so one
  given for an earlier set of the same barrier has the same effect. Plan:1083-1084 says every change is broadcast to
  the peers already synced.

The rest are limits of properties that hold in a run or a theorem, and can be
seen by changing what is named here.

`InputLockstep`:

- Split batches (`LS:1634`, plan:166-167). With two players thirteen frames are 26 records, and
  packets hold 16. If the packet with the older frames is lost each time while
  the other arrives, the window moves past a frame that was never corrected: few
  `RecordsPerPacket` and a window as long as the history refute `DroppedFramesAgree`. With a shorter
  window, or a batch in one packet, it cannot happen. The theorems of section 6 are of the behaviours in which it does not
  (`HeardWithoutGaps`).
- `lockstep_config.hpp:8-12` allows a window of 120 frames and a delay of 60, with a
  history of 12 whatever they are. A window longer than the history refutes
  `MissingInputIsResent`; a delay longer than the history means that frame 0 is
  never in a batch and the host waits for it (`Converges`); with a delay longer than the
  window everybody waits for everybody (`LS:1468`).

`JoinBarrier`:

- A departure leaves the phase of a standing barrier as it is (`LS:2258-2324`). If it is pumped after the last acknowledgement
  of an earlier one, the phase is `ReadyToResume` already, the tick resumes (`LS:901`), and who stays has not acknowledged and
  goes on simulating the one gone, although plan:1086-1088 has the host resume "after all remaining peers ack". Three
  peers in the session, of which two may leave, refute `ResumeWhenReady` and `ResumeWithOneTopology`; so do two joiners, as a
  join pumped at that moment is forgotten with the barrier. Both are therefore stated, checked and proved for one joiner
  while nobody leaves, so that the phase cannot go stale.
- A peer behind the barrier frame takes over the frame number without simulating
  the frames between (`LS:2377`, plan:90-91): it does not keep one game state with the host.
- `BarrierEnds` fails with `InOrder = FALSE`: `Resume` is sent once and the host
  forgets the barrier, so a peer that loses it stays where it is, and the host with it. It
  fails too when a refused peer may quit: its leave notice names the only player of its offline
  registry, which has the host's id, and a barrier is raised of which nobody is told.

`SnapshotRepair`:

- A repair asked for while a barrier's transfer awaits its answer (the debug control "Force Resync Player",
  `LS:2744`; hashes are not compared then) resets the active transfer, during which nothing is sent (`LS:434-439`), and
  starts its own in the next tick. The barrier goes on sending what is active, to its own peer and with the same cursor
  (`LS:926-942`), and whichever peer answers ends the repair, as no sender is checked (`LS:2695-2726`). The target may
  have installed nothing, and of the barrier's transfer nothing more is sent. Plan:1672-1673 has the host resend chunks
  "until the peer acknowledges"; the cfg of `repair_shared` refutes `RepairReachesItsTarget`, which says so. What holds is
  `RepairEndsWhenInstalled`: some peer the transfer was sent to has installed it.
- A barrier that takes over a repair's transfer and ends leaves the host in `SnapshotCatchup` with
  nothing to send (`LS:621`, `LS:2262`): `RepairEnds` excludes it by `Retrying = {}`, `MayLeave = {}`.
- On links that reorder, the answer to an older transfer is not the hazard (it is
  told apart by its id); an older transfer's chunk that comes late is, as it restarts the collection
  at the peer: `RepairEndsWhenInstalled` needs `InOrder`.
- A request of an endpoint the host no longer knows makes it declare a fatal
  desync (`TargetIsGone`).

`LockstepHashes`:

- A window that shrinks deletes the snapshot of a rollback already asked for
  (`LS:1790`, `LS:1921`, `LS:2092`; plan:310-312): `Window = 2`, `Windows = {1}` refutes `PendingRollbackKeepsItsSnapshot`.
- A window that grows past what is resent (`Windows = {3}`, history 2) refutes `RequestedSnapshotExists`.
- `SettledHashesAreSent` has an exception for a correction that is not yet replayed: without it, it is
  refuted (`LS:1327`; plan:1624-1625), since inputs are final before the simulation is.
- With the default interval of 30 frames and at most 16 snapshots a rollback asked for by a
  hash never finds its snapshot, and a repair follows. A difference before any confirmed
  hash leads to a repair (`LS:1163-1167`), not to the fatal marker the documents speak of;
  hashes sent before a repair may arrive after it and cause another.

`StageSession`, where dropping one of "margin", "settled" and "apart" in the run's cfg refutes `StagesAgree`, dropping "joins"
refutes `RestartedOncePerRequest` and dropping "heard" `EverybodyFollows`:

- A guessed exit is final. The stage transition has begun when the
  correction comes, and a rollback asked for during a transition is never replayed (`step.cpp:601-632`), although
  plan:927-929 has the countdown gated on an agreed transition. A peer that leaves a stage so is in another stage than everybody else for good.
  `StagesAgree` therefore excludes who has `Strayed`, says that the host never does, and that nobody else is led
  astray by one who has; peers that guess right, or go back in time, are included.
- "apart": `ApplyDueRunRestart` replaces an exit that is pending on one process and loaded on another.
- "settled": the next restart overwrites the one that waits; a peer counting down to it is left out.
- "joins": the host announces an applied restart until it is past its frame
  (`net_lobby_restart.cpp:133-140`); who joins in that time takes it for new and restarts alone
  (plan:922-924).
- "margin": a window of up to 120 frames is longer than the 30 frames a restart is announced ahead; a peer
  that hears of it late restarts later than the others (`RestartFrame`), or has left the stage by an exit after its frame.
- "heard": who leaves a stage stops resending its inputs; who has not heard the last of them waits in it.
- A peer that misses the announcement of a change of settings before the stage ends never gets it.

`LobbyMembership`:

- A rollback that a hash asks the host for before a change of the players, and that is replayed after it (`AcrossChanges = TRUE`),
  takes the player out of the simulation or puts a departed one back, with no endpoint (`LS:2104`,
  `debug/playback_snapshot_state.cpp:364`; plan:1056-1058; `docs/network_lockstep_screen_modes.md:67-69`): it refutes `EveryPlayerHasAnEndpoint`. Peers drop
  their snapshots when the players change (`LS:2415-2416`), the host does not.
- `Earlier = {3}`, ids remembered from another session, lets a stranger get a record.
- A record's age is counted in frames of the stage, which begin anew (`step.cpp:573`): a record
  outlives its lifetime (plan:1239-1240); `RecordsAreKeptUntilGivenBack` says only that it does not go before.
- A process restarted within the time-out of its old endpoint gets a fresh id. A leave
  notice names ids and not an endpoint, and one sent before the accept arrived names
  only the host's id, so the pending join stays as a player without a process until it times out.

## 6. The proofs

Every theorem is for any sets of processes and any values of the constants that satisfy the named
`ASSUME`s of the modules; further hypotheses are in the table, and each is one the
code or a session can satisfy. Each invariant was checked by TLC before it was proved.

| Theorem | States | Hypotheses |
|---|---|---|
| `TypeCorrect`, `OneInput`, `Agreement`, `HostFinality` | `TypeOK`, `OneInputPerFrame`, `CanonicalAgreement`, `HostNeverRewrites` | none |
| `CorrectionsArePending`, `RollbacksAreExact`, `DroppedFramesAreTheHosts`, `NobodyRunsAway`, `ReplaysReachThePresent` | `WrongInputIsRolledBack`, `RollbackIsExact`, `DroppedFramesAgree`, `WithinWindow`, `NoFrameIsTakenBack` | each peer waits for a player of another process; `[]HeardWithoutGaps` |
| `MissingInputsAreResent` | `MissingInputIsResent` | everybody plays, the history covers window and delay; `[]HeardWithoutGaps` |
| `LockstepImplementsAgreedInputs` | `ImplementsAgreedInputs` | as for `CorrectionsArePending` |
| `BarrierIsTyped`, `PeersStandAtTheBarrier`, `TransfersAreAnswered` | `JoinBarrier!TypeOK`, `NobodyLeavesEarly`, `TransferIsAnswered` | none |
| `NobodyIsLeftOut`, `TheHostResumesWhenReady`, `JoinersKeepTheirFrame` | `ResumeWithOneTopology`, `ResumeWhenReady`, `JoinersFollowTheHost` | at most one peer may join, nobody leaves, links keep their order |
| `RepairIsTyped`, `SnapshotsAreWhole`, `HostStandsStill` | `SnapshotRepair!TypeOK`, `InstalledSnapshotIsWhole`, `HostStandsStillDuringTransfer` | none |
| `RepairsEndInstalled` | `RepairEndsWhenInstalled` | links keep their order |
| `HashesAreTyped`, `HistoryStaysCurrent`, `PendingStaysUnanswered`, `SettledHashesSent` | `LockstepHashes!TypeOK`, `HistoryIsCurrent`, `PendingIsUnanswered`, `SettledHashesAreSent` | none |
| `RollbacksFindTheirSnapshot` | `RequestedSnapshotExists` | the history covers the delay and every window; no window shrinks |
| `SessionIsTyped`, `SettingsKeepToTheirStage` | `StageSession!TypeOK`, `SettingsAreOfOneStage` | none |
| `RestartsHappenOnce` | `RestartedOncePerRequest` | "joins" |
| `StagesAreEnteredAlike` | `StagesAgree` | "margin", "settled", "apart", "joins" |
| `LobbyIsTyped` | `LobbyMembership!TypeOK` | none |
| `PlayersHaveEndpoints`, `ItemsStayInOnePlace`, `NoRecordOfThePresent`, `RecordsWait` | `EveryPlayerHasAnEndpoint`, `ItemsAreInOnePlace`, `RecordsAreOfTheAbsent`, `RecordsAreKeptUntilGivenBack` | the players do not change while a rollback is asked for |
| `RecordsGoToWhoAsks` | `RecordGoesToWhoAskedForIt` | and no ids of earlier sessions |

### InputLockstep

*Agreement* (`InputLockstepProofs`). That two canonical records for a player and
frame are equal rests on where records come from: the owner queues a frame once
(`nextLocal` only grows, `QueuedFirst`), only peers hold predictions
(`OnlyPeersPredict`), the wire carries none, the host makes canonical only what it steps
and keeps what it stepped (`HostStepped`), so whatever circulates for a player
and frame is one value (`OneInputPerFrame`). For the host's finality a host never
asks for a rollback (`HostNeverAsks`): a record it receives for a stepped frame
meets a canonical one, which nothing replaces. Canonical records lie behind the host's frame
(`CanonicalBehindHost`), and a rollback request lies behind its node's frame
(`RollbackBehind`, without which the type of `nextFrame` is not kept by a replay).
`IInv` is the conjunction of these, with one preservation lemma per action;
helper lemmas state what `Store`, `Queued`, `BuildOrPredictFrameInputs` and `CollectRecords` do to a slot.

*Rollbacks* (`InputLockstepProofs`, second part). A correction that arrives asks for a rollback, unless
an earlier one is asked for. What could go wrong is that the frame to go back to has
no snapshot any more, or was dropped from the buffer before its correction came.
`RInv` is proved beside `IInv`. For each peer (`PeerInv`) it says that the buffer holds every frame of the window
(`WindowIsHeld`), that no frame before the window is still a guess (`HeardBehindWindow`, `OldRecordsAreConfirmed`), that each
snapshot up to the rollback asked for is that of the inputs now in the buffer (`SnapshotsAreExact`), and that a rollback
lies in the window (`RollbackInWindow`); for the host, that it keeps canonical inputs for a
window (`HostKeepsCanonical`). The second part is where the hypothesis enters: a node waits by the *latest* frame it has heard of a player
(`FindLatestConfirmedFrame`), and only if nothing is missing below does that
bound how far back the oldest guess lies. `HeardWithoutGaps` states this of a behaviour. It is
a real limit and not a convenience: with the code's constants a batch of two players is split, and
a lost first half leaves a gap (section 5).

*Refinement* (`InputLockstepAgreementProofs`). The mapping gives `AgreedInputs` the
host's steps as log and, for each node, the frames settled: canonical and stepped so. A host's
`StepFrame` is `Decide`; a peer's steps and receptions are `Confirm` or stutter, which
needs that settled frames stay settled through replays and pruning (`SettledInv`).

### JoinBarrier

*For any session.* `NobodyLeavesEarly` and `TransferIsAnswered` are of steps, and what makes them hold is
in the packets under way. `IInv` says of these (`PacketsInPlace`) that a
barrier packet carries the id of the last barrier raised or of an earlier one, that a
`Resume` is of a barrier that is over (while the host stands no `Resume` of that
id exists, so a peer that knows the id refuses every late one), that a status names a phase, and that a chunk or an answer with
the host's transfer id is to or from the host's target, ids being handed out once. Of the
peers it says (`PeersInPlace`) that none knows a barrier the host has not raised
and one that knows the standing barrier stands. That needs the host's phase: a
standing barrier has one, and `ReadyToResume` implies no transfer (`HostOK`). One
lemma per action proves `Keeps`: `IInv` afterwards, ids that only grow, and the
action of `TransferIsAnswered`. The host's operations on its fields are reduced first
to what they do to the id, the phase and the transfer (`Moves`, `Raised`, `SameBarrier`).
`TInv`, for the types, rests on it: the host's lists are of registered endpoints, the queue
names each once (`WithoutRepeatsNothing`), packets carry frames and phases that are some.

*For one that joins* (`OneComesNobodyLeaves`). Section 5 shows that two joiners, or a departure, refute
`ResumeWithOneTopology` and `ResumeWhenReady`; `barrier_second_joiner` is such an execution. With one joiner, no
departure and ordered links both hold, and so does `JoinersFollowTheHost`. `Gathering`, for links of any kind, says who can be
counted wrongly: a registered peer that does not simulate the host's players is one whose acknowledgement the
host still waits for, or who is served; an acknowledgement under way comes from somebody who has caught
up; and a snapshot or a topology under way has the players the host has. `Settling`, for ordered links, is about requests to
join, which raise a barrier or restart one: none is sent after the snapshot was acknowledged and all sent before arrive
before the acknowledgement (`RequestsFirst`), so whoever is registered is served or silent (`Served`, `Silent`), and
a host that is ready stays so until its tick. `Keeping` adds the frames. While the barrier stands, who joins is being
served or at the host's frame, every snapshot under way is of that frame and no `Resume` is (`Standing`); afterwards it
stands at that frame until the `Resume`, which is the last packet to it and names the same frame
(`Resumed`, `ResumeLast`); and what it has saved at a frame has stepped the frames before that one (`Rollbacks`), so a replay
ends where it began. It rests on both others: only a host that resumes when ready leaves nobody who is still served.

### SnapshotRepair

`Wholes`: every chunk a peer has collected carries the number it is collecting, as a chunk of another
transfer starts the collection anew; so a complete collection is of one transfer, whatever arrives. `StillInv`:
the host waits for an answer only while it sends (`Waits`), while it sends it waits or is in a fatal desync (`Stands`), and in
neither does it step. The types need no more than that queues and targets are of peers. `RepairsEndInstalled` needs more: that the answer which ends a
repair is of a transfer its sender has installed. `FifoInv` says so of ordered links: chunks of the active transfer go to
its target and to the peer of a barrier that awaits an answer (`SentTo`) and nothing older comes after them (`Ordered`), who has
acknowledged it is one of the two, at or past its frame (`Acknowledged`), an answer to it says what
its sender made of it (`Truthful`), numbers are given once (`Numbered`), and a repair that is still to start has no active transfer (`Fresh`).

### LockstepHashes

The handlers are loops: over the samples that came early, over the history a
new sample is compared with, over the frames of a replay. They are recursive functions here,
and no library theorem applies to them. `QueueProofs` supplies what is needed, in sets
and functions: a sequence of rounds each of which can be made exists (`CoursesExist`, so
that the recursion is not a `CHOOSE` from nothing), and what the rounds keep holds at the
end (`Induction`). `ComparisonsUnfold` and `ReplayUnfolds` apply it, and from there an
invariant of a loop is shown as one round of it: `NodeInv` holds before and after each comparison
and each replayed frame.

`IInv` is `NodeInv` of every process. Its parts need each other: a record stands for the present
timeline only if whatever takes the timeline back discards it (`RecordsHold`), a sample that waits has no answer
only if recording compares at once (`Unanswered`), and a frame with final inputs was stepped
on a wrong guess only while a rollback to it or a snapshot is on its way (`GuessesArePending`),
which is what `SettledHashesSent` rests on.

`RollbacksFindTheirSnapshot` needs a second invariant, `GroundInv`: the host is never further
ahead of a peer than the inputs it resends reach (`HostIsNear`), every frame stepped that is not yet
final has a snapshot, and final inputs have no gaps (`Ground`). A late input then asks for a frame within
the window, and a difference in hashes for one after the last that agreed only if
it is held. The hypotheses are those of section 5: with `Windows = {3}` and a history of 2, or with a window that shrinks, TLC refutes it.

### StageSession

Typing is not free of thought here: that a queued restart is the transition under way
(a conjunct of `TypeOK`) holds only because whatever replaces a transition is a restart itself, and
that needs which modes go with which transition (`Modes`). `SettingsAreAnnounced`: what a
process waits to put in force is announced by a packet of its stage, or is what the host still
repeats; a load forgets both. `Once`: the requests in a log grow, and what a process may still take is ahead of those in its
log: the restart it waits for, the transition under way, and every packet it has not taken, whose
number is at most the host's last. A packet sent again after the restart is refused by its
number (`NewIsGreater`), for which the last request taken must be waiting or applied. A
joiner has the host's log and has taken nothing, so it must find nothing announced: the
hypothesis, and section 5 shows what happens without it.

*Agreement* (second part). A log only grows, so two of them can part only when
a process decides how to leave a stage another has left already. `Framed` bounds how far it may then be:
nobody steps further past an agreed exit than the window lets it step on guesses (`Overrun`), who has
stepped past one and can know it goes back, and the host, which steps on no guesses, is never past one nor misled (`HostFrames`).
`Agreed` compares the processes that have not strayed (`Sound`) by their *ways*, the stages left with
the one about to be left (`Leaves`, `Left`), in which an exit wrongly guessed does not count (`Course`): it either becomes a stage left, and its process
has strayed, or a restart replaces it. Two ways are the same as far as both go (`SameWay`). That is
inductive only with what the one behind is still going to do. It *awaits* a restart while it
waits for its frame or has a packet it has not taken; who is ahead of it by a restart is so by the
host's last, which it awaits too (`RestartsLead`); an exit by which somebody is ahead of one who awaits comes
well before the frame of the restart, or after the restart itself (`ExitsLead`); and nobody is at that
frame while somebody has not heard of it (`AheadOf`). So the process behind meets in its stage the exit
before the restart, or the restart before the exit, as the one ahead did. Each step of the argument
uses one of the hypotheses: `AskAgreed` "settled" and "apart", `StepAgreed`
and `AskAgreed` "margin", `JoinAgreed` "joins".
"heard" is not among them: without it somebody may be left behind, but not be led elsewhere.

### LobbyMembership

`Core` is `EveryPlayerHasAnEndpoint` with three more parts, none inductive without the others: snapshots of the frames stepped since
the last change of players (`calm`) have the present slots and items in one place, and a rollback goes to one
of them (`SnapshotsAreSound`); who has no slot carries nothing (`Sound`); a record is of somebody who is absent, and its
age in frames of the stage is at most that in frames played (`RecordsAreSound`). `IdsAreGiven`, for who gets a
record: every id in use, asked for or on its way was given by this host, and a request is that of its sender.

### Checked by TLC only

- Liveness and `ENABLED`: `Converges`, `BarrierEnds`, `RepairEnds`, `QueuedRepairStarts`, `EverybodyFollows`.

## 7. What is left out of the modelled parts

- `InputLockstep`: changes of delay and window, hashes and repair (in their own modules); a change of
  the player set (in `JoinBarrier` instead); the value of an input (flags and mouse) beyond equality.
- `JoinBarrier`: snapshots of several chunks, kicking a player, the host leaving,
  deferral of a join during a stage transition, a stage change or restart during
  a barrier, retained players, peers with several local players. A property that a `Status` or
  `Resume` of the current barrier, repeated after it ended, does no harm is not
  stated: it does block or rewind the peer, for the same reason that a lost
  `Resume` does (the barrier id is the only guard).
- `SnapshotRepair`: the content of a snapshot.
- `LockstepHashes`: joins and stage changes, the quiet window after a barrier, diagnostics.
- `StageSession`: the simulation but for its exits, the rule by which the automatic delay
  is chosen (`MaybeScheduleAutoDelayChange`, `LS:1793-1837`: any change may be scheduled), departures.
- `LobbyMembership`: names, skins, positions and quests, dead players.

## 8. The plan

1. The same theorems for several joiners, one after another: each waits to ask until the one before is in.
2. `EntPool`: slot reuse with versions; then tool inventory and buying.
