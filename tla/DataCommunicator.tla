--------------------------- MODULE DataCommunicator ---------------------------
(***************************************************************************)
(* MPIDataCommunicator (mpi_data_communicator.cpp), in a build with        *)
(* CO_SIM_IO_DEBUG: before a collective operation moves data, the ranks    *)
(* compare the sizes of their buffers, in collective operations too.  A    *)
(* check that only some ranks fail would leave the others waiting in the   *)
(* next collective for ranks that have thrown.                             *)
(*                                                                         *)
(* An operation is the sequence of the MPI calls it makes, each with the   *)
(* ranks that throw after it.  The contents of the buffers are left out.   *)
(*                                                                         *)
(* The arguments need not be right.  The ranks may name different roots,   *)
(* and the arrays with the counts and the offsets of the parts of a buffer *)
(* may be too short or have any sign: what is read behind the end of one   *)
(* is an argument, too.                                                    *)
(***************************************************************************)
EXTENDS Integers, Sequences, FiniteSetsExt

CONSTANTS
    N,           \* number of ranks
    Root,        \* the root of the operations that have one
    MaxLen,      \* bound: length of a buffer
    MaxPart,     \* bound: length of the parts of a buffer
    Ops,         \* the operations that are called
    Roots,       \* what the ranks may name as the root; N is no rank
    LocalErrors  \* may the arguments be such that a check of a single rank fails?

Rank == 0..(N - 1)

Operations == {"Reduce", "ReturnReduce", "AllReduce", "Scan", "Broadcast", "Scatter",
               "ReturnScatter", "Gather", "ReturnGather", "AllGather", "ReturnAllGather",
               "Scatterv", "ReturnScatterv", "Gatherv", "ReturnGatherv"}

ASSUME DataCommunicatorAssumption ==
    /\ N \in Nat /\ Root \in Rank /\ {MaxLen, MaxPart} \subseteq Nat
    /\ Ops \subseteq Operations
    /\ Roots \subseteq [Rank -> 0..N]
    /\ \A root \in Roots :
          (\A q, r \in Rank : root[q] = root[r]) => root[Root] \in {Root, N}
    /\ LocalErrors \in BOOLEAN

VARIABLES
    call,     \* the operation and its arguments on every rank
    program,  \* the MPI calls it makes
    stage,    \* how many of them a rank has left
    status    \* "outside" or "inside" the next, "returned", "threw", "undefined"

dvars == <<call, program, stage, status>>

-----------------------------------------------------------------------------
(* The MPI calls.  kind says whom a rank waits for; stops is the set of     *)
(* ranks that throw afterwards; fits is FALSE if the call, or what a rank   *)
(* does to prepare it, has no defined effect: the buffers do not match,     *)
(* memory outside of them is used, or the ranks name different roots.       *)

Check(kind, stops, fits) == [kind |-> kind, stops |-> stops, fits |-> fits]

\* MPI_Allreduce, MPI_Bcast ... that move the data, or a part of a check.
MPI(kind, fits) == Check(kind, {}, fits)

\* A check of each rank on its own.
Local(bad) == Check("local", bad, TRUE)

SameRoot(root) == \A r \in Rank : root[r] = Root

\* ErrorIfTrueOnAnyRank() and ErrorIfFalseOnAnyRank(): the ranks that are not bad
\* throw inside, the bad ones throw because of what it returns.
ErrorIfTrueOnAnyRank(bad) ==
    Check("all", IF bad = {} THEN {} ELSE (Rank \ bad) \cup bad, TRUE)

\* Mutant: the condition of the other ranks counts for them, too.
BroadcastErrorIfTrueOwn(root, bad) ==
    Check("fromRoot", IF Root \in bad THEN Rank ELSE bad, SameRoot(root))

\* BroadcastErrorIfTrue(): the condition of the root counts.
BroadcastErrorIfTrue(root, bad) ==
    Check("fromRoot", IF Root \in bad THEN (Rank \ {Root}) \cup {Root} ELSE {},
          SameRoot(root))

\* IsEqualOnAllRanks(): the minimum and the maximum, known to all.
IsEqualOnAllRanks(len) ==
    LET values == {len[r] : r \in Rank}
    IN  Check("all", IF Min(values) = Max(values) THEN {} ELSE Rank, TRUE)

\* Whom a rank waits for in an MPI call.
WaitsFor(kind, r) ==
    CASE kind = "all"      -> Rank
      [] kind = "scan"     -> 0..r
      [] kind = "fromRoot" -> {Root}
      [] kind = "toRoot"   -> IF r = Root THEN Rank ELSE {}
      [] kind = "local"    -> {}

-----------------------------------------------------------------------------
(* The operations on given buffers.  root, send and recv are functions of   *)
(* the rank; counts and offsets are the arrays of the root.  An array has   *)
(* size elements; what it has at an index from there on is in memory there. *)

Total(f)     == MapThenSumSet(LAMBDA r : f[r], Rank)
AtRoot(n)    == [r \in Rank |-> IF r = Root THEN n ELSE 0]
Differ(a, b) == {r \in Rank : a[r] # b[r]}
Times(f)     == [r \in Rank |-> f[r] * N]

\* Mutant: the ranks whose argument is valid go on.
ValidRankOwn(root) == Check("all", {r \in Rank : root[r] \notin Rank}, TRUE)

ValidRank(root) == ErrorIfTrueOnAnyRank({r \in Rank : root[r] \notin Rank})

ReduceDetail(root, send, recv) ==
    << ValidRank(root),
       IsEqualOnAllRanks(send),
       BroadcastErrorIfTrue(root, Differ(send, recv)),
       MPI("toRoot", SameRoot(root) /\ \A r \in Rank : send[r] = recv[Root]) >>

\* AllReduceDetail() and ScanDetail(), which differ in the last call.
AllReduceDetail(kind, send, recv) ==
    << IsEqualOnAllRanks(send),
       ErrorIfTrueOnAnyRank(Differ(send, recv)),
       MPI(kind, \A q, r \in Rank : send[q] = recv[r]) >>

BroadcastDetail(root, buffer) ==
    << ValidRank(root),
       IsEqualOnAllRanks(buffer),
       MPI("fromRoot", SameRoot(root) /\ \A r \in Rank : buffer[r] = buffer[Root]) >>

ScatterDetail(root, send, recv) ==
    << ValidRank(root),
       IsEqualOnAllRanks(recv),
       BroadcastErrorIfTrue(root, Differ(send, Times(recv))),
       MPI("fromRoot", SameRoot(root) /\ \A r \in Rank : recv[r] * N = send[Root]) >>

GatherDetail(root, send, recv) ==
    << ValidRank(root),
       IsEqualOnAllRanks(send),
       BroadcastErrorIfTrue(root, Differ(Times(send), recv)),
       MPI("toRoot", SameRoot(root) /\ \A r \in Rank : send[r] * N = recv[Root]) >>

AllGatherDetail(send, recv) ==
    << IsEqualOnAllRanks(send),
       ErrorIfTrueOnAnyRank(Differ(Times(send), recv)),
       MPI("all", \A q, r \in Rank : send[q] * N = recv[r]) >>

\* The parts that end behind the end of the buffer of the root.
Overflows(counts, offsets, length) ==
    {i \in Rank : offsets.at[i] + counts.at[i] > length}

\* The search for such a part, which stops at the first one, reads these elements.
Reads(counts, offsets, length) ==
    {i \in Rank : \A j \in 0..(i - 1) : j \notin Overflows(counts, offsets, length)}

Inside(counts, offsets, indices) ==
    \A i \in indices : i < counts.size /\ i < offsets.size

\* Mutant: only the total length is compared.
ValidateTotalOnly(root, part, counts, offsets, whole) ==
    << ValidRank(root),
       MPI("fromRoot", SameRoot(root) /\ counts.size >= N),
       ErrorIfTrueOnAnyRank(Differ(counts.at, part)),
       MPI("toRoot", SameRoot(root)),
       BroadcastErrorIfTrue(root, IF Total(part) > whole[Root] THEN {Root} ELSE {}) >>

\* ValidateScattervInput() and ValidateGathervInput(): part is the buffer of each
\* rank, whole the one of the root.  The counts are scattered, the lengths summed,
\* and the root looks for a part behind the end; nobody compares the size of an
\* array, the roots, or an offset with 0.
Validate(root, part, counts, offsets, whole) ==
    LET outside == Overflows(counts, offsets, whole[Root])
        reads   == Reads(counts, offsets, whole[Root])
    IN  << ValidRank(root),
           MPI("fromRoot", SameRoot(root) /\ counts.size >= N),
           ErrorIfTrueOnAnyRank(Differ(counts.at, part)),
           MPI("toRoot", SameRoot(root)),
           BroadcastErrorIfTrue(root, IF Total(part) > whole[Root] THEN {Root} ELSE {}),
           MPI("local", Inside(counts, offsets, reads)),
           BroadcastErrorIfTrue(root, IF outside = {} THEN {} ELSE {Root}) >>

\* The part of rank i is a part of the buffer of the root.
PartFits(i, counts, offsets, length) ==
    counts.at[i] > 0 => offsets.at[i] >= 0 /\ i \notin Overflows(counts, offsets, length)

\* ScattervDetail() and GathervDetail().
Vector(kind, root, part, counts, offsets, whole) ==
    Validate(root, part, counts, offsets, whole) \o
    << MPI(kind, /\ SameRoot(root)
                 /\ Inside(counts, offsets, Rank)
                 /\ \A i \in Rank : /\ part[i] = counts.at[i]
                                    /\ PartFits(i, counts, offsets, whole[Root])) >>

-----------------------------------------------------------------------------
(* The operations that return their result and make the buffers for it.     *)

\* The distances that PrepareScattervBuffers() and PrepareGathervBuffers() compute.
Distances(lengths) ==
    LET distance[i \in Rank] == IF i = 0 THEN 0 ELSE distance[i - 1] + lengths[i - 1]
    IN  distance

Array(f) == [at |-> f, size |-> N]

ReturnScatter(root, send) ==
    << Local({r \in Rank : send[r] % N # 0}) >>
    \o BroadcastDetail(root, [r \in Rank |-> 1])
    \o ScatterDetail(root, send, [r \in Rank |-> send[Root] \div N])

\* Who takes itself for the root gives a number of lists, the first ones with
\* these lengths.
ReturnScatterv(root, lists, lengths) ==
    << Local(IF lists # N THEN {r \in Rank : root[r] = r} ELSE {}) >>
    \o ScatterDetail(root, AtRoot(N), [r \in Rank |-> 1])
    \o Vector("fromRoot", root, lengths, Array(lengths), Array(Distances(lengths)),
              AtRoot(Total(lengths)))

ReturnGatherv(root, send) ==
    GatherDetail(root, [r \in Rank |-> 1], AtRoot(N))
    \o Vector("toRoot", root, send, Array(send), Array(Distances(send)),
              AtRoot(Total(send)))

-----------------------------------------------------------------------------

Lengths == [Rank -> 0..MaxLen]
Parts   == [Rank -> 0..MaxPart]
Wholes  == {AtRoot(n) : n \in 0..(MaxPart * N)}
Arrays  == [at : [Rank -> (-1)..MaxPart], size : 0..N]
Unused  == {[r \in Rank |-> 0]}

\* The arguments, right and wrong ones.
Calls(op) ==
    LET arrays == op \in {"Scatterv", "Gatherv"}
        recvs  == op \in {"Reduce", "AllReduce", "Scan", "Scatter", "Gather", "AllGather"}
        roots  == op \notin {"AllReduce", "Scan", "AllGather", "ReturnAllGather"}
    IN  [op      : {op},
         root    : IF roots THEN Roots ELSE {[r \in Rank |-> Root]},
         send    : CASE op = "Scatterv" -> Wholes
                     [] op = "Gatherv"  -> Parts
                     [] OTHER           -> Lengths,
         recv    : CASE op = "Scatterv" -> Parts
                     [] op = "Gatherv"  -> Wholes
                     [] OTHER           -> IF recvs THEN Lengths ELSE Unused,
         counts  : IF arrays THEN Arrays ELSE {Array([r \in Rank |-> 0])},
         offsets : IF arrays THEN Arrays ELSE {Array([r \in Rank |-> 0])},
         lists   : IF op = "ReturnScatterv" THEN {N - 1, N} ELSE {N}]

Program(c) ==
    CASE c.op = "Reduce"          -> ReduceDetail(c.root, c.send, c.recv)
      [] c.op = "ReturnReduce"    -> ReduceDetail(c.root, c.send, AtRoot(c.send[Root]))
      [] c.op = "AllReduce"       -> AllReduceDetail("all", c.send, c.recv)
      [] c.op = "Scan"            -> AllReduceDetail("scan", c.send, c.recv)
      [] c.op = "Broadcast"       -> BroadcastDetail(c.root, c.send)
      [] c.op = "Scatter"         -> ScatterDetail(c.root, c.send, c.recv)
      [] c.op = "Gather"          -> GatherDetail(c.root, c.send, c.recv)
      [] c.op = "ReturnGather"    -> GatherDetail(c.root, c.send, AtRoot(c.send[Root] * N))
      [] c.op = "AllGather"       -> AllGatherDetail(c.send, c.recv)
      [] c.op = "ReturnAllGather" -> AllGatherDetail(c.send, Times(c.send))
      [] c.op = "Scatterv"        -> Vector("fromRoot", c.root, c.recv,
                                            c.counts, c.offsets, c.send)
      [] c.op = "Gatherv"         -> Vector("toRoot", c.root, c.send,
                                            c.counts, c.offsets, c.recv)
      [] c.op = "ReturnScatter"   -> ReturnScatter(c.root, c.send)
      [] c.op = "ReturnScatterv"  -> ReturnScatterv(c.root, c.lists, c.send)
      [] c.op = "ReturnGatherv"   -> ReturnGatherv(c.root, c.send)

Step(r) == program[stage[r] + 1]

-----------------------------------------------------------------------------

DataCommunicatorInit ==
    /\ call \in UNION {Calls(op) : op \in Ops}
    /\ program = Program(call)
    /\ LocalErrors \/ \A i \in DOMAIN program :
          program[i].kind = "local" => program[i].stops = {}
    /\ stage = [r \in Rank |-> 0]
    /\ status = [r \in Rank |-> "outside"]

Enter(r) ==
    /\ status[r] = "outside"
    /\ status' = [status EXCEPT ![r] = "inside"]
    /\ UNCHANGED <<call, program, stage>>

\* q has entered the MPI call in which r is.
Entered(q, r) == stage[q] > stage[r] \/ (stage[q] = stage[r] /\ status[q] = "inside")

Leave(r) ==
    /\ status[r] = "inside"
    /\ Step(r).fits
    /\ \A q \in WaitsFor(Step(r).kind, r) : Entered(q, r)
    /\ stage' = [stage EXCEPT ![r] = @ + 1]
    /\ status' = [status EXCEPT ![r] =
           IF r \in Step(r).stops THEN "threw"
           ELSE IF stage[r] + 1 = Len(program) THEN "returned" ELSE "outside"]
    /\ UNCHANGED <<call, program>>

\* What a rank does in a call that does not fit, and after it, is not known.
Undefined(r) ==
    /\ status[r] = "inside"
    /\ ~Step(r).fits
    /\ status' = [status EXCEPT ![r] = "undefined"]
    /\ UNCHANGED <<call, program, stage>>

Ended == \A r \in Rank : status[r] \in {"returned", "threw"}

DataCommunicatorNext == \E r \in Rank : Enter(r) \/ Leave(r) \/ Undefined(r)

DataCommunicatorSpec == DataCommunicatorInit /\ [][DataCommunicatorNext]_dvars

\* Every rank runs, and an MPI call whose partners are there ends.
FairDataCommunicatorSpec ==
    /\ DataCommunicatorSpec
    /\ \A r \in Rank : WF_dvars(Enter(r) \/ Leave(r) \/ Undefined(r))

-----------------------------------------------------------------------------

\* The arguments no check looks at: valid roots that differ, arrays of the root
\* with less elements than there are ranks, and parts that begin before the buffer.
Unchecked(c) ==
    \/ (\A r \in Rank : c.root[r] \in Rank) /\ ~SameRoot(c.root)
    \/ c.counts.size < N \/ c.offsets.size < N
    \/ \E i \in Rank : c.counts.at[i] > 0 /\ c.offsets.at[i] < 0

\* But for these, the checks find an error before it does harm: no rank reads, writes,
\* sends or receives beyond the end of a buffer or of an array, whatever the lengths on
\* the ranks, the counts, the offsets and the root are.
BuffersFit == Unchecked(call) \/ \A r \in Rank : status[r] = "inside" => Step(r).fits

\* An error that one rank finds stops all: no rank returns from an operation in
\* which another one throws.
SameOutcome == \A q, r \in Rank : ~(status[q] = "threw" /\ status[r] = "returned")

\* No rank waits for ever: every rank returns or throws, whatever the arguments are,
\* if none of them fails a check of its own (LocalErrors) and no call is undefined.
EveryRankEnds == <>(Ended \/ \E r \in Rank : status[r] = "undefined")

-----------------------------------------------------------------------------
(* What the code does not keep.                                             *)

\* Every inconsistency of the arguments ends in an error that explains it, as
\* mpi_data_communicator.hpp says: no call without a defined effect is made.
ErrorsAreExplained == \A r \in Rank : status[r] # "undefined"
===============================================================================
