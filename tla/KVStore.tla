------------------------------- MODULE KVStore -------------------------------
(***************************************************************************)
(* What QuarkKV promises of its Put and Get, whatever the tree does below. *)
(* Nothing is forgotten entirely and nothing is made up; but a Put may be  *)
(* overlooked in favour of an older version, and maintenance (a flush or a *)
(* compaction) may bring back older versions, never newer ones.            *)
(***************************************************************************)
EXTENDS Integers

CONSTANTS Keys, Times     \* the keys, and the timestamps a Put may get

VARIABLES
    written,    \* for each key, the timestamps its Puts were given
    answers     \* for each key, the versions a Get may return; {}: not found

Init == /\ written = [k \in Keys |-> {}]
        /\ answers = [k \in Keys |-> {}]

\* A Put gets a timestamp later than all before it. From then on a Get returns
\* the new version, or else what it returned before.
Put(k) ==
    \E now \in Times :
        /\ \A j \in Keys : \A t \in written[j] : t < now
        /\ written' = [written EXCEPT ![k] = @ \cup {now}]
        /\ \/ answers' = [answers EXCEPT ![k] = {now}]
           \/ answers[k] # {} /\ UNCHANGED answers

\* Every version a Get may return now is as old as one it might have returned.
Maintain ==
    /\ UNCHANGED written
    /\ \A k \in Keys : 
         /\ answers'[k] \subseteq written[k]
         /\ answers'[k] = {} <=> written[k] = {}
         /\ \A new \in answers'[k] : \E old \in answers[k] : new <= old

Next == Maintain \/ \E k \in Keys : Put(k)

Spec == Init /\ [][Next]_<<written, answers>>
=============================================================================
