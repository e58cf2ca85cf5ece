------------------------- MODULE LockstepInputBuffer -------------------------
(***************************************************************************)
(* The lockstep input buffer (src/network/input_lockstep.cpp): at most one *)
(* record per player and frame, and the rule that decides which of two     *)
(* records for the same player and frame survives.                         *)
(*                                                                         *)
(* The C++ vector of records is keyed by (player, frame); Store never      *)
(* leaves two records with one key, so the buffer is modelled as the slots *)
(* of one player, a function from frames to a record or NoRecord.          *)
(***************************************************************************)
EXTENDS Integers, FiniteSetsExt

CONSTANTS
    Input,      \* the input frames a player can produce (flags and mouse)
    Neutral,    \* InputFrame::New()
    NoRecord    \* an empty slot (FindRecord returned nullptr)

ASSUME NeutralAssumption == Neutral \in Input

\* LockstepInputRecord without its key.
Record == [sequence           : Nat,
           input              : Input,
           predicted          : BOOLEAN,
           canonical          : BOOLEAN,
           arbitrated_missing : BOOLEAN]

ASSUME NoRecordAssumption == NoRecord \notin Record

\* A record queued by the process that owns the player.
OwnerRecord(sequence, input) ==
    [sequence |-> sequence, input |-> input, predicted |-> FALSE,
     canonical |-> FALSE, arbitrated_missing |-> FALSE]

\* A record the host has fixed for a frame.  Its sequence is never compared
\* (a canonical record always replaces, and is never replaced by, another
\* record), so it is left at zero.
CanonicalRecord(input) ==
    [sequence |-> 0, input |-> input, predicted |-> FALSE,
     canonical |-> TRUE, arbitrated_missing |-> FALSE]

\* A guess for a remote player's input.
PredictedRecord(input) ==
    [sequence |-> 0, input |-> input, predicted |-> TRUE,
     canonical |-> FALSE, arbitrated_missing |-> FALSE]

-----------------------------------------------------------------------------
\* Store: does record take the slot now holding existing?
Replaces(existing, record) ==
    \/ existing = NoRecord
    \/ record.canonical
    \/ /\ existing.canonical
       /\ existing.arbitrated_missing
       /\ existing.input # record.input
    \/ /\ ~existing.canonical
       /\ \/ existing.predicted /\ ~record.predicted
          \/ /\ existing.predicted = record.predicted
             /\ record.sequence >= existing.sequence

\* Store: what the slot holds afterwards.
Store(existing, record) ==
    IF Replaces(existing, record) THEN record ELSE existing

\* Fault: replacing a prediction is not reported.
MismatchOfConfirmed(existing, record) ==
    /\ existing # NoRecord
    /\ ~existing.predicted
    /\ Replaces(existing, record)
    /\ existing.input # record.input

\* Store: the result carries a mismatch_frame.
Mismatch(existing, record) ==
    /\ existing # NoRecord
    /\ Replaces(existing, record)
    /\ existing.input # record.input

\* Frames for which the slots hold a record that is not a prediction.
ConfirmedFrames(slots) ==
    {f \in DOMAIN slots : slots[f] # NoRecord /\ ~slots[f].predicted}

\* FindLatestRecordBefore, and the prediction made from it.
PredictRemoteInputForFrame(slots, frame) ==
    LET earlier == {f \in ConfirmedFrames(slots) : f < frame}
    IN  IF earlier = {} THEN Neutral ELSE slots[Max(earlier)].input

\* ClearBefore.
ClearBefore(slots, frame) ==
    [f \in DOMAIN slots |-> IF f < frame THEN NoRecord ELSE slots[f]]
=============================================================================
