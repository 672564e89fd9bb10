------------------------------- MODULE Clients -------------------------------
(***************************************************************************)
(* The programs of the repository that use the store: the YCSB client,     *)
(* which loads records and then sends requests for them, and the manual    *)
(* driver of main.cpp, which prepopulates the store and then interleaves   *)
(* reads and writes in the proportion asked for. Each is one thread, calls *)
(* the store one operation at a time and closes it at the end. Next to     *)
(* them is a client that calls Put and Scan as it likes.                   *)
(***************************************************************************)
EXTENDS LSMScan

CONSTANTS
    RecordCounts,     \* the values of the property recordcount
    Operations,       \* bound: the property operationcount
    PrepopulateSizes, \* the values of Config::prepopulate_size, as the user asks
    ReadSizes,        \* the values of Config::read_size
    WriteSizes,       \* the values of Config::write_size, as the user asks
    MaxAnyClock       \* bound: as MaxClock, for the client that does as it likes

ASSUME ClientsAssumption == /\ RecordCounts \subseteq Nat \ {0}
                            /\ Operations \in Nat
                            /\ PrepopulateSizes \subseteq Nat
                            /\ ReadSizes \subseteq Nat
                            /\ WriteSizes \subseteq Nat

VARIABLES
    client,     \* "any", "ycsb" or "manual"; "closed" at the end of its run, and
                \* "killed" if the assert at the end of run_manual has failed
    sizes,      \* what it is to do: loads, records, reads, writes
    loads,      \* i in Client::Load and in run_manual's first loop
    sequence,   \* the keys CoreWorkload::NextSequenceKey has given, in order
    reads,      \* run_manual's and Client::Work's counters
    writes

progress   == <<loads, sequence, reads, writes>>
clientVars == <<scanVars, client, sizes, progress>>

\* round_up_to_nearest_multiple, to a whole number of tables.
NotRoundedUp(n) == n
RoundedUp(n) == ((n + Limit - 1) \div Limit) * Limit

-----------------------------------------------------------------------------
YCSBSizes == {[loads |-> RoundedUp(n), records |-> n, reads |-> 0, writes |-> 0] :
                n \in RecordCounts}

\* parse_args rounds up all but the number of reads.
ManualSizes == {[loads |-> RoundedUp(p), records |-> 0, reads |-> r, writes |-> RoundedUp(w)] :
                  p \in PrepopulateSizes, r \in ReadSizes, w \in WriteSizes}

ClientsInit ==
    /\ ScanInit
    /\ \/ client = "any" /\ sizes = [loads |-> 0, records |-> 0, reads |-> 0, writes |-> 0]
       \/ client = "ycsb" /\ sizes \in YCSBSizes
       \/ client = "manual" /\ sizes \in ManualSizes
    /\ loads = 0
    /\ sequence = <<>>
    /\ reads = 0
    /\ writes = 0

\* A call of Put or Scan in progress, whoever made it.
Call ==
    /\ (PutStep /\ UNCHANGED scan) \/ Visit \/ NextLevel
    /\ UNCHANGED <<client, sizes, progress>>

Anything ==
    /\ client = "any"
    /\ \/ clock < MaxAnyClock /\ (\E k \in Keys : Put(k)) /\ UNCHANGED scan
       \/ \E k \in Keys, n \in 1 .. MaxLen : StartScan(k, n)
    /\ UNCHANGED <<client, sizes, progress>>

Loading == loads < sizes.loads

-----------------------------------------------------------------------------
(* The YCSB client. Keys are numbered, and a key's name is a hash of its   *)
(* number, unless the workload has ordered inserts: which of the unused    *)
(* keys is next is left open, and no two numbers have the same name.       *)

NextSequenceKey(k) ==
    /\ k \notin Range(sequence)
    /\ sequence' = Append(sequence, k)

Load ==
    /\ client = "ycsb"
    /\ Loading
    /\ \E k \in Keys : NextSequenceKey(k) /\ Put(k)
    /\ loads' = loads + 1
    /\ UNCHANGED <<scan, client, sizes, reads, writes>>

\* The numbers NextTransactionKey may choose, whatever the distribution. The keys
\* inserted after the load are not among them: insert_key_sequence_ is set to the
\* record count and stays there.
RequestableOneMore == 0 .. sizes.records
Requestable == 0 .. sizes.records - 1

Requested == {sequence[n + 1] : n \in Requestable}

Working ==
    /\ client = "ycsb"
    /\ phase = "idle"
    /\ ~Loading
    /\ reads + writes < Operations

\* READ calls Get, which changes nothing; so does the Get of READMODIFYWRITE.
Read ==
    /\ Working
    /\ reads' = reads + 1
    /\ UNCHANGED <<scanVars, client, sizes, loads, sequence, writes>>

ScanRequest ==
    /\ Working
    /\ \E k \in Requested, n \in 1 .. MaxLen : StartScan(k, n)
    /\ reads' = reads + 1
    /\ UNCHANGED <<client, sizes, loads, sequence, writes>>

\* UPDATE and READMODIFYWRITE put a requested key, an INSERT the next new one.
Write ==
    /\ Working
    /\ \/ \E k \in Requested : Put(k) /\ UNCHANGED sequence
       \/ \E k \in Keys : Put(k) /\ NextSequenceKey(k)
    /\ writes' = writes + 1
    /\ UNCHANGED <<scan, client, sizes, loads, reads>>

\* Client::~Client closes the store, which persists the manifest in memory.
WorkDone ==
    /\ client = "ycsb"
    /\ phase = "idle"
    /\ ~Loading
    /\ reads + writes = Operations
    /\ client' = "closed"
    /\ current' = manifest
    /\ UNCHANGED <<treeVars, files, mergeVars, clock, ctr, phase, written, picker, scan, sizes, progress>>

-----------------------------------------------------------------------------
(* The manual driver. Its keys are random.                                 *)

Prepopulate ==
    /\ client = "manual"
    /\ Loading
    /\ \E k \in Keys : Put(k)
    /\ loads' = loads + 1
    /\ UNCHANGED <<scan, client, sizes, sequence, reads, writes>>

LoopGoesOn == reads < sizes.reads \/ writes < sizes.writes

\* read_target <= write_target, where a read adds 1 to the one and a write adds
\* read_size / write_size to the other; in exact arithmetic. With no writes asked for
\* the ratio is infinite, which is what the mutant forgets.
ReadsTurnByRatio ==
    IF sizes.writes = 0 THEN reads = 0 \/ writes > 0
                        ELSE reads * sizes.writes <= writes * sizes.reads
ReadsTurn == reads * sizes.writes <= writes * sizes.reads \/ sizes.writes = 0

ManualRead ==
    /\ client = "manual" /\ phase = "idle" /\ ~Loading
    /\ LoopGoesOn /\ ReadsTurn
    /\ reads' = reads + 1
    /\ UNCHANGED <<scanVars, client, sizes, loads, sequence, writes>>

ManualWrite ==
    /\ client = "manual" /\ ~Loading
    /\ LoopGoesOn /\ ~ReadsTurn
    /\ \E k \in Keys : Put(k)
    /\ writes' = writes + 1
    /\ UNCHANGED <<scan, client, sizes, loads, sequence, reads>>

\* The assert after the loop, and Close if it holds.
ManualDone ==
    /\ client = "manual" /\ phase = "idle" /\ ~Loading /\ ~LoopGoesOn
    /\ \/ /\ reads = sizes.reads /\ writes = sizes.writes
          /\ client' = "closed"
          /\ current' = manifest
       \/ /\ ~(reads = sizes.reads /\ writes = sizes.writes)
          /\ client' = "killed"
          /\ UNCHANGED current
    /\ UNCHANGED <<treeVars, files, mergeVars, clock, ctr, phase, written, picker, scan, sizes, progress>>

-----------------------------------------------------------------------------
\* No client, or one that does as it likes at the bound of its clock.
NothingMore ==
    /\ client \in {"any", "closed", "killed"}
    /\ phase = "idle"
    /\ UNCHANGED clientVars

YCSB   == Load \/ Read \/ ScanRequest \/ Write \/ WorkDone
Manual == Prepopulate \/ ManualRead \/ ManualWrite \/ ManualDone

ClientsNext == Call \/ Anything \/ YCSB \/ Manual \/ NothingMore

\* The one thread of a program runs until the program ends; the client that does as
\* it likes need not make a call.
ClientsSpec == /\ ClientsInit /\ [][ClientsNext]_clientVars
               /\ WF_clientVars(Call \/ YCSB \/ Manual)

-----------------------------------------------------------------------------
(* Properties *)

\* Every key a request may be for was loaded, and Get finds it, at each step of
\* whatever the requests before it have set off.
RequestedKeysFound ==
    client = "ycsb" /\ ~Loading =>
        \A n \in Requestable : n < Len(sequence) /\ GetResults(sequence[n + 1]) # {}

\* As long as a workload only reads, the store it has loaded is one that can be closed
\* and opened again with all its keys, which is what the rounding up of the record
\* count is for: all tables are full, whatever merges made them, and nothing has
\* stayed in the memtable.
NamedKeys == UNION {KeysOf(f.kvs) : f \in {g \in files : \E l \in Level : g.id \in current[l]}}
LoadedStoreReopens ==
    sizes.records > 0 /\ writes = 0 =>
        /\ \A s \in LiveSSTs : Cardinality(s.kvs) = Limit
        /\ client = "closed" => NamedKeys = Range(sequence)

\* The assert at the end of run_manual, that it has made the reads and the writes it
\* was asked for, fails if and only if writes were asked for and reads were not.
ManualAssert ==
    /\ client = "killed" => sizes.reads = 0 /\ sizes.writes > 0
    /\ client = "closed" /\ sizes.records = 0 => sizes.reads > 0 \/ sizes.writes = 0

\* Every run of a program comes to its end, through all the flushes, compactions and
\* scans its calls set off.
RunsEnd == client \in {"ycsb", "manual"} ~> client \in {"closed", "killed"}
=============================================================================
