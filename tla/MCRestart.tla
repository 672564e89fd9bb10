------------------------------ MODULE MCRestart ------------------------------
(***************************************************************************)
(* Two stores for the runs of LSMRestart: one with nothing in it, and one  *)
(* with a full table at every level. The latter is what a session of 19    *)
(* ticks with the picker ONE builds (LSMTree reaches it), and one after it *)
(* that died in its first merge, having flushed the table 0 and created 1. *)
(***************************************************************************)
EXTENDS LSMRestart

version(k, t) == [key |-> k, ts |-> t]
file(i, kvs)  == [id |-> i, kvs |-> kvs]

EmptyStore == [named |-> [l \in Level |-> {}], orphans |-> {}]
DeepStore  ==
    [named   |-> [l \in Level |->
                    CASE l = 0 -> {file(6, {version(1, 14), version(2, 15)})}
                      [] l = 1 -> {file(7, {version(1, 8), version(3, 4)})}
                      [] l = 2 -> {file(4, {version(1, 0), version(2, 1)})}],
     orphans |-> {file(0, {version(1, 0), version(3, 1)}), file(1, {})}]

JustEmpty    == {EmptyStore}
EmptyAndDeep == {EmptyStore, DeepStore}
=============================================================================
