--------------------------------- MODULE Merge ---------------------------------
(***************************************************************************)
(* A merge as LSMTree has it: the versions to keep are known at the start, *)
(* and each step writes the next full table of them, or the last table.    *)
(***************************************************************************)
EXTENDS Tables, SequencesExt

CONSTANT Limit       \* entries of a full table

VARIABLES
    inputs,          \* the tables being merged
    todo,            \* the versions still to be written
    outputs          \* the tables written, each the sequence of its entries

Init == todo = Merged(inputs) /\ outputs = <<>>

FinishSST ==
    LET chunk == FirstEntries(todo, Limit)
    IN  /\ todo # {}
        /\ outputs' = Append(outputs, KVsInOrder(chunk))
        /\ todo' = todo \ chunk
        /\ UNCHANGED inputs

Spec == Init /\ [][FinishSST]_<<inputs, todo, outputs>> /\ WF_<<inputs, todo, outputs>>(FinishSST)
=============================================================================
