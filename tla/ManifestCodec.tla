----------------------------- MODULE ManifestCodec -----------------------------
(***************************************************************************)
(* The content of a manifest: serializeLevels turns the ids of the live    *)
(* tables, level by level, into the words of one block, and in a later     *)
(* session, which may be configured with another number of levels,         *)
(* deserializeLevels turns them back. Neither looks at the block's size,   *)
(* nor at the number of levels it has room for.                            *)
(***************************************************************************)
EXTENDS Integers, Sequences, SequencesExt

CONSTANTS
    LevelCounts,     \* Config::n_levels, in the session that writes and in the one that reads
    MaxTables,       \* bound on the tables of a level
    TableIds,        \* ids of tables
    BlockWords       \* words in a block

ASSUME CodecAssumption == /\ LevelCounts \subseteq Nat \ {0}
                          /\ TableIds \subseteq Nat /\ MaxTables \in Nat
                          /\ BlockWords \in Nat \ {0}

VARIABLES
    sst_files,       \* Manifest::sst_files_ of the session that writes
    block,           \* the words of the manifest file
    n_levels,        \* of the session that reads
    restored,        \* its sst_files_
    stage

codecVars == <<sst_files, block, n_levels, restored, stage>>

CodecInit ==
    /\ \E n \in LevelCounts : sst_files = [l \in 1 .. n |-> <<>>]
    /\ block = <<>>
    /\ n_levels \in LevelCounts
    /\ restored = <<>>
    /\ stage = "filling"

\* AddToLevel, and Update in the order of a level's set.
AddToLevel(l, id) ==
    /\ stage = "filling"
    /\ l \in DOMAIN sst_files /\ Len(sst_files[l]) < MaxTables
    /\ \A j \in DOMAIN sst_files : \A i \in DOMAIN sst_files[j] : sst_files[j][i] # id
    /\ sst_files' = [sst_files EXCEPT ![l] = Append(@, id)]
    /\ UNCHANGED <<block, n_levels, restored, stage>>

\* The mutants defined here and below are plausible slips in what follows them.
WordsWithoutCounts(levels) == <<Len(levels)>> \o FlattenSeq(levels)
Words(levels) ==
    <<Len(levels)>> \o FlattenSeq([l \in DOMAIN levels |-> <<Len(levels[l])>> \o levels[l]])

\* getNumberOfLiveSSTs.
TableCount(levels) == Len(FlattenSeq(levels))

\* serializeLevels copies past the end of its one-block buffer without noticing.
Serialize ==
    /\ stage = "filling"
    /\ IF Len(Words(sst_files)) > BlockWords
         THEN stage' = "overrun" /\ UNCHANGED block
         ELSE /\ stage' = "written"
              /\ block' = Words(sst_files) \o [i \in 1 .. BlockWords - Len(Words(sst_files)) |-> 0]
    /\ UNCHANGED <<sst_files, n_levels, restored>>

\* Where deserializeLevels finds the number of tables of a level.
OffsetSkippingNothing(words) ==
    LET offset[l \in 1 .. words[1] + 1] ==
          IF l = 1 THEN 2 ELSE offset[l - 1] + words[offset[l - 1]]
    IN offset
Offset(words) ==
    LET offset[l \in 1 .. words[1] + 1] ==
          IF l = 1 THEN 2 ELSE offset[l - 1] + 1 + words[offset[l - 1]]
    IN offset

IdsOfLevel(words, l) ==
    SubSeq(words, Offset(words)[l] + 1, Offset(words)[l] + words[Offset(words)[l]])

\* sst_files_ has a vector for each level of the session; at() throws when the
\* manifest has a table beyond them.
RestoredLevels(stored) == 1 .. n_levels

Deserialize ==
    LET stored == block[1]
        lost   == {l \in n_levels + 1 .. stored : IdsOfLevel(block, l) # <<>>}
    IN  /\ stage = "written"
        /\ IF lost # {} THEN stage' = "thrown" /\ UNCHANGED restored
           ELSE /\ stage' = "read"
                /\ restored' = [l \in RestoredLevels(stored) |->
                                  IF l <= stored THEN IdsOfLevel(block, l) ELSE <<>>]
        /\ UNCHANGED <<sst_files, block, n_levels>>

CodecRest == stage \in {"read", "overrun", "thrown"} /\ UNCHANGED codecVars

CodecNext ==
    \/ \E l \in 1 .. Len(sst_files), id \in TableIds : AddToLevel(l, id)
    \/ Serialize \/ Deserialize \/ CodecRest

CodecSpec == CodecInit /\ [][CodecNext]_codecVars

-----------------------------------------------------------------------------
(* Properties *)

\* The session that reads has every table at the level it was at, whatever the
\* two sessions' numbers of levels, or it has nothing.
RoundTrip ==
    stage = "read" =>
        /\ TableCount(restored) = TableCount(sst_files)
        /\ \A l \in DOMAIN sst_files : sst_files[l] # <<>> => restored[l] = sst_files[l]
=============================================================================
