-------------------------------- MODULE Queues --------------------------------
(***************************************************************************)
(* Queues of which entries are taken out wherever they stand, the others   *)
(* keeping their order (std::remove_if and erase on a vector).             *)
(***************************************************************************)
EXTENDS Integers, Sequences

Without(q, gone) ==
    LET kept[i \in 0 .. Len(q)] ==
            IF i = 0 THEN <<>>
            ELSE IF q[i] \in gone THEN kept[i - 1] ELSE Append(kept[i - 1], q[i])
    IN  kept[Len(q)]
=============================================================================
