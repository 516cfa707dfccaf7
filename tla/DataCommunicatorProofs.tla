------------------------ MODULE DataCommunicatorProofs ------------------------
(***************************************************************************)
(* BuffersFit and SameOutcome of DataCommunicator, for every number of     *)
(* ranks and every length of the buffers.                                  *)
(*                                                                         *)
(* The work is in the operations: a check stops all ranks or none, and a   *)
(* rank that has passed the checks of an operation knows that the buffers  *)
(* of all ranks match, if what no check looks at is right (Safe).          *)
(***************************************************************************)
EXTENDS DataCommunicator, WellFoundedInduction, TLAPS

-----------------------------------------------------------------------------
(* Programs whose checks are taken by all ranks together.                   *)

Kind == {"all", "scan", "fromRoot", "toRoot", "local"}

MPICall == [kind : Kind, stops : SUBSET Rank, fits : BOOLEAN]

\* The check i stops all ranks or none.
Together(prog, i) == prog[i].kind = "local" \/ prog[i].stops \in {{}, Rank}

\* No check before the call i of prog has found an error.
Passed(prog, i) ==
    \A j \in 1..(i - 1) : prog[j].kind = "local" \/ prog[j].stops = {}

\* right says that what no check looks at is as it should be.
Safe(prog, right) ==
    /\ prog \in Seq(MPICall)
    /\ Len(prog) > 0
    /\ \A i \in 1..Len(prog) : Together(prog, i)
    /\ right => \A i \in 1..Len(prog) : Passed(prog, i) => prog[i].fits

LEMMA ConcatFacts ==
    ASSUME NEW S, NEW p \in Seq(S), NEW q \in Seq(S)
    PROVE  /\ p \o q \in Seq(S)
           /\ Len(p) \in Nat /\ Len(q) \in Nat
           /\ Len(p \o q) = Len(p) + Len(q)
           /\ \A i \in 1..Len(p) : (p \o q)[i] = p[i]
           /\ \A i \in 1..Len(q) : (p \o q)[Len(p) + i] = q[i]
OBVIOUS

\* A safe operation after another one is safe.
LEMMA SafeConcat ==
    ASSUME NEW p, NEW q, NEW right, Safe(p, right), Safe(q, right)
    PROVE  Safe(p \o q, right)
<1>1. /\ p \o q \in Seq(MPICall)
      /\ Len(p) \in Nat /\ Len(q) \in Nat
      /\ Len(p) > 0 /\ Len(q) > 0
      /\ Len(p \o q) = Len(p) + Len(q)
      /\ \A i \in 1..Len(p) : (p \o q)[i] = p[i]
      /\ \A i \in 1..Len(q) : (p \o q)[Len(p) + i] = q[i]
  BY DEF Safe
<1>2. Len(p \o q) > 0
  BY <1>1
<1>3. \A i \in 1..Len(p \o q) : i \in 1..Len(p) \/ \E k \in 1..Len(q) : i = Len(p) + k
  <2>1. SUFFICES ASSUME NEW i \in 1..Len(p \o q), i \notin 1..Len(p)
                 PROVE  \E k \in 1..Len(q) : i = Len(p) + k
    OBVIOUS
  <2>2. i - Len(p) \in 1..Len(q) /\ i = Len(p) + (i - Len(p))
    BY <1>1, <2>1
  <2> QED BY <2>2
<1>4. \A i \in 1..Len(p \o q) : Together(p \o q, i)
  <2>1. \A i \in 1..Len(p) : Together(p, i)
    BY DEF Safe
  <2>2. \A i \in 1..Len(q) : Together(q, i)
    BY DEF Safe
  <2> QED BY <1>1, <1>3, <2>1, <2>2 DEF Together
<1>5. ASSUME right, NEW i \in 1..Len(p \o q), Passed(p \o q, i)
      PROVE  (p \o q)[i].fits
  <2>1. CASE i \in 1..Len(p)
    <3>1. \A j \in 1..(i - 1) : j \in 1..Len(p)
      BY <1>1, <2>1
    <3>2. Passed(p, i)
      BY <1>1, <1>5, <3>1 DEF Passed
    <3> QED BY <1>1, <1>5, <2>1, <3>2 DEF Safe
  <2>2. ASSUME NEW k \in 1..Len(q), i = Len(p) + k
        PROVE  (p \o q)[i].fits
    <3>1. \A j \in 1..(k - 1) : Len(p) + j \in 1..(i - 1) /\ j \in 1..Len(q)
      BY <1>1, <2>2
    <3>2. Passed(q, k)
      BY <1>1, <1>5, <3>1 DEF Passed
    <3> QED BY <1>1, <1>5, <2>2, <3>2 DEF Safe
  <2> QED BY <1>3, <2>1, <2>2
<1> QED BY <1>1, <1>2, <1>4, <1>5 DEF Safe

-----------------------------------------------------------------------------
(* The checks.                                                              *)

LEMMA RankFacts == Root \in Rank /\ Rank # {} /\ N \in Nat \ {0}
<1>1. N \in Nat /\ Root \in 0..(N - 1)
  BY DataCommunicatorAssumption DEF Rank
<1> QED BY <1>1 DEF Rank

\* A check of all ranks, which stops all of them or none.  It needs pre, and who
\* passes it knows that ok holds.
CommonCheck(c, pre, ok) ==
    /\ c \in MPICall
    /\ c.kind # "local"
    /\ c.stops \in {{}, Rank}
    /\ pre => c.fits
    /\ c.stops = {} => ok

LEMMA CheckFacts ==
    ASSUME NEW kind \in {"all", "fromRoot"}, NEW stops \in {{}, Rank},
           NEW pre \in BOOLEAN, NEW ok \in BOOLEAN, stops = {} => ok
    PROVE  CommonCheck(Check(kind, stops, pre), pre, ok)
<1> DEFINE c == [kind |-> kind, stops |-> stops, fits |-> pre]
<1>0. kind \in Kind /\ stops \in SUBSET Rank
  BY DEF Kind
<1>1. c \in MPICall
  BY <1>0 DEF MPICall
<1>2. c.kind # "local" /\ c.stops = stops /\ (pre => c.fits)
  OBVIOUS
<1>3. Check(kind, stops, pre) = c
  BY DEF Check
<1> HIDE DEF c
<1> QED BY <1>1, <1>2, <1>3 DEF CommonCheck

LEMMA ErrorIfTrueFacts ==
    ASSUME NEW bad \in SUBSET Rank
    PROVE  CommonCheck(ErrorIfTrueOnAnyRank(bad), TRUE, bad = {})
<1>1. (Rank \ bad) \cup bad = Rank
  OBVIOUS
<1>2. ErrorIfTrueOnAnyRank(bad) = Check("all", IF bad = {} THEN {} ELSE Rank, TRUE)
  BY <1>1 DEF ErrorIfTrueOnAnyRank
<1> DEFINE stops == IF bad = {} THEN {} ELSE Rank
           ok    == bad = {}
<1>3. stops \in {{}, Rank} /\ ok \in BOOLEAN /\ (stops = {} => ok) /\ TRUE \in BOOLEAN
  BY RankFacts
<1>4. "all" \in {"all", "fromRoot"}
  OBVIOUS
<1> HIDE DEF stops, ok
<1> QED BY <1>2, <1>3, <1>4, CheckFacts DEF stops, ok

LEMMA BroadcastErrorFacts ==
    ASSUME NEW root, NEW bad \in SUBSET Rank
    PROVE  CommonCheck(BroadcastErrorIfTrue(root, bad), SameRoot(root), Root \notin bad)
<1> DEFINE stops == IF Root \in bad THEN Rank ELSE {}
           pre   == SameRoot(root)
           ok    == Root \notin bad
<1>1. (Rank \ {Root}) \cup {Root} = Rank
  BY RankFacts
<1>2. BroadcastErrorIfTrue(root, bad) = Check("fromRoot", stops, pre)
  BY <1>1 DEF BroadcastErrorIfTrue
<1>3. /\ stops \in {{}, Rank} /\ ok \in BOOLEAN /\ (stops = {} => ok)
      /\ pre \in BOOLEAN
  BY RankFacts DEF SameRoot
<1>4. "fromRoot" \in {"all", "fromRoot"}
  OBVIOUS
<1> HIDE DEF stops, pre, ok
<1> QED BY <1>2, <1>3, <1>4, CheckFacts DEF stops, pre, ok

\* What the check of the root leaves out: that all ranks name the same one.
Valid(root)     == \A r \in Rank : root[r] \in Rank
RightRoot(root) == Valid(root) => SameRoot(root)

LEMMA ValidRankFacts ==
    ASSUME NEW root
    PROVE  CommonCheck(ValidRank(root), TRUE, Valid(root))
<1> DEFINE bad == {r \in Rank : root[r] \notin Rank}
<1>1. bad \in SUBSET Rank
  OBVIOUS
<1>2. ValidRank(root) = ErrorIfTrueOnAnyRank(bad)
  BY DEF ValidRank
<1>3. bad = {} => Valid(root)
  BY DEF Valid
<1> HIDE DEF bad
<1>4. CommonCheck(ValidRank(root), TRUE, bad = {})
  BY <1>1, <1>2, ErrorIfTrueFacts
<1> QED BY <1>3, <1>4 DEF CommonCheck

LEMMA MPIFacts ==
    ASSUME NEW kind \in Kind, NEW fits \in BOOLEAN
    PROVE  /\ MPI(kind, fits) \in MPICall
           /\ MPI(kind, fits).stops = {}
           /\ MPI(kind, fits).fits = fits
BY DEF MPI, Check, MPICall

LEMMA DifferSubset == \A a, b : Differ(a, b) \in SUBSET Rank
BY DEF Differ

\* A set of natural numbers has a minimum, and a maximum if it is bounded.
LEMMA MinExists ==
    ASSUME NEW S \in SUBSET Nat, S # {}
    PROVE  \E x \in S : \A y \in S : x <= y
<1> DEFINE R == {ss \in Nat \X Nat : ss[1] < ss[2]}
<1>1. IsWellFoundedOn(R, Nat)
  BY NatLessThanWellFounded DEF OpToRel
<1>2. PICK x \in S : \A y \in S : ~(<<y, x>> \in R)
  <2> HIDE DEF R
  <2> QED BY <1>1, WFMin
<1>3. \A y \in S : y < x => <<y, x>> \in R
  OBVIOUS
<1>4. \A y \in S : x \in Nat /\ y \in Nat /\ ~(y < x)
  BY <1>2, <1>3
<1>5. \A y \in S : x <= y
  BY <1>4
<1> QED BY <1>5

LEMMA MaxExists ==
    ASSUME NEW B \in Nat, NEW S \in SUBSET (0..B), S # {}
    PROVE  \E x \in S : \A y \in S : x >= y
<1> DEFINE T == {B - v : v \in S}
<1>1. T \in SUBSET Nat /\ T # {}
  <2>1. \A v \in S : v \in 0..B /\ B - v \in Nat
    OBVIOUS
  <2> QED BY <2>1
<1>2. PICK t \in T : \A u \in T : t <= u
  BY <1>1, MinExists
<1>3. PICK x \in S : t = B - x
  BY <1>2
<1>4. \A y \in S : B - y \in T
  OBVIOUS
<1>5. \A y \in S : x >= y
  <2> HIDE DEF T
  <2>1. ASSUME NEW y \in S PROVE x >= y
    <3>1. t <= B - y /\ y \in 0..B /\ x \in 0..B
      BY <1>2, <1>4
    <3> QED BY <1>3, <3>1
  <2> QED BY <2>1
<1> QED BY <1>5

\* Minimum and maximum are equal only if all the values are.
LEMMA IsEqualFacts ==
    ASSUME NEW B \in Nat, NEW len \in [Rank -> 0..B]
    PROVE  CommonCheck(IsEqualOnAllRanks(len), TRUE, \A q, r \in Rank : len[q] = len[r])
<1> DEFINE values == {len[r] : r \in Rank}
<1>1. values \in SUBSET (0..B) /\ values \in SUBSET Nat /\ values # {}
  BY RankFacts
<1>2. \A r \in Rank : len[r] \in values
  OBVIOUS
<1> HIDE DEF values
<1>3. \E x \in values : \A y \in values : x <= y
  BY <1>1, MinExists
<1>4. \E x \in values : \A y \in values : x >= y
  BY <1>1, MaxExists
<1>5. \A y \in values : Min(values) <= y
  BY <1>3 DEF Min
<1>6. \A y \in values : Max(values) >= y
  BY <1>4 DEF Max
<1>7. Min(values) \in Nat /\ Max(values) \in Nat
  BY <1>1, <1>3, <1>4 DEF Min, Max
<1>8. Min(values) = Max(values) => \A q, r \in Rank : len[q] = len[r]
  <2>1. SUFFICES ASSUME Min(values) = Max(values), NEW q \in Rank, NEW r \in Rank
                 PROVE  len[q] = len[r]
    OBVIOUS
  <2>2. /\ Min(values) <= len[q] /\ len[q] <= Max(values)
        /\ Min(values) <= len[r] /\ len[r] <= Max(values)
    BY <1>2, <1>5, <1>6
  <2> QED BY <1>7, <2>1, <2>2
<1>9. IsEqualOnAllRanks(len) =
        Check("all", IF Min(values) = Max(values) THEN {} ELSE Rank, TRUE)
  BY DEF IsEqualOnAllRanks, values
<1> DEFINE stops == IF Min(values) = Max(values) THEN {} ELSE Rank
           ok    == \A q, r \in Rank : len[q] = len[r]
<1>10. stops \in {{}, Rank} /\ ok \in BOOLEAN /\ (stops = {} => ok) /\ TRUE \in BOOLEAN
  BY RankFacts, <1>8
<1>11. "all" \in {"all", "fromRoot"}
  OBVIOUS
<1> HIDE DEF stops, ok
<1> QED BY <1>9, <1>10, <1>11, CheckFacts DEF stops, ok

-----------------------------------------------------------------------------
(* The operations.                                                          *)

\* The call that moves the data, after the checks: three of them, two of which are
\* about the root, ...
LEMMA SafeRooted ==
    ASSUME NEW root, NEW b, NEW bad \in SUBSET Rank, NEW okB \in BOOLEAN,
           CommonCheck(b, TRUE, okB),
           NEW kind \in Kind, NEW ok \in BOOLEAN, okB /\ Root \notin bad => ok
    PROVE  Safe(<< ValidRank(root), b, BroadcastErrorIfTrue(root, bad),
                   MPI(kind, SameRoot(root) /\ ok) >>, RightRoot(root))
<1> DEFINE a     == ValidRank(root)
           c     == BroadcastErrorIfTrue(root, bad)
           same  == SameRoot(root)
           valid == Valid(root)
           fits  == same /\ ok
           d     == MPI(kind, fits)
           prog  == <<a, b, c, d>>
<1>1. /\ CommonCheck(a, TRUE, valid)
      /\ CommonCheck(c, same, Root \notin bad)
  BY ValidRankFacts, BroadcastErrorFacts
<1>2. d \in MPICall /\ d.stops = {} /\ d.fits = fits
  <2>1. fits \in BOOLEAN
    OBVIOUS
  <2> HIDE DEF fits
  <2> QED BY <2>1, MPIFacts
<1>3. RightRoot(root) => (valid => same)
  BY DEF RightRoot
<1> HIDE DEF a, c, d, same, valid
<1>4. /\ prog \in Seq(MPICall) /\ Len(prog) = 4
      /\ prog[1] = a /\ prog[2] = b /\ prog[3] = c /\ prog[4] = d
  BY <1>1, <1>2 DEF CommonCheck
<1> HIDE DEF prog
<1>5. \A i \in 1..4 : i = 1 \/ i = 2 \/ i = 3 \/ i = 4
  OBVIOUS
<1>6. \A i \in 1..4 : Together(prog, i)
  BY <1>1, <1>2, <1>4, <1>5 DEF CommonCheck, Together
<1>7. ASSUME RightRoot(root) PROVE \A i \in 1..4 : Passed(prog, i) => prog[i].fits
  <2>1. prog[1].fits /\ prog[2].fits
    BY <1>1, <1>4 DEF CommonCheck
  <2>2. Passed(prog, 3) => prog[3].fits
    <3>1. 1 \in 1..(3 - 1)
      OBVIOUS
    <3> QED BY <1>1, <1>3, <1>4, <1>7, <3>1 DEF CommonCheck, Passed
  <2>3. Passed(prog, 4) => prog[4].fits
    <3>1. 1 \in 1..(4 - 1) /\ 2 \in 1..(4 - 1) /\ 3 \in 1..(4 - 1)
      OBVIOUS
    <3>2. Passed(prog, 4) => valid /\ okB /\ Root \notin bad
      BY <1>1, <1>4, <3>1 DEF CommonCheck, Passed
    <3> QED BY <1>2, <1>3, <1>4, <1>7, <3>2
  <2> QED BY <1>5, <2>1, <2>2, <2>3
<1>8. Safe(prog, RightRoot(root))
  BY <1>4, <1>6, <1>7 DEF Safe
<1> QED BY <1>8 DEF prog, a, c, d, same

\* ... or two.
TwoChecks(a, okA, b, okB, right, fits) ==
    /\ CommonCheck(a, TRUE, okA) /\ CommonCheck(b, TRUE, okB)
    /\ fits \in BOOLEAN
    /\ right /\ okA /\ okB => fits

LEMMA SafeAfterTwo ==
    ASSUME NEW a, NEW okA, NEW b, NEW okB, NEW right, NEW fits,
           TwoChecks(a, okA, b, okB, right, fits), NEW kind \in Kind
    PROVE  Safe(<<a, b, MPI(kind, fits)>>, right)
<1>0. /\ CommonCheck(a, TRUE, okA) /\ CommonCheck(b, TRUE, okB)
      /\ fits \in BOOLEAN
      /\ right /\ okA /\ okB => fits
  BY DEF TwoChecks
<1> DEFINE prog == <<a, b, MPI(kind, fits)>>
<1>1. /\ prog \in Seq(MPICall) /\ Len(prog) = 3
      /\ prog[1] = a /\ prog[2] = b /\ prog[3] = MPI(kind, fits)
  BY <1>0, MPIFacts DEF CommonCheck
<1> HIDE DEF prog
<1>2. \A i \in 1..3 : i = 1 \/ i = 2 \/ i = 3
  OBVIOUS
<1>3. \A i \in 1..3 : Together(prog, i)
  BY <1>0, <1>1, <1>2, MPIFacts DEF CommonCheck, Together
<1>4. Passed(prog, 3) => okA /\ okB
  <2>1. 1 \in 1..(3 - 1) /\ 2 \in 1..(3 - 1)
    OBVIOUS
  <2> QED BY <1>0, <1>1, <2>1 DEF CommonCheck, Passed
<1>5. ASSUME right PROVE \A i \in 1..3 : Passed(prog, i) => prog[i].fits
  BY <1>0, <1>1, <1>2, <1>4, <1>5, MPIFacts DEF CommonCheck
<1>6. Safe(prog, right)
  BY <1>1, <1>3, <1>5 DEF Safe
<1> QED BY <1>6 DEF prog

LEMMA SafeReduce ==
    ASSUME NEW B \in Nat, NEW root, NEW send \in [Rank -> 0..B], NEW recv
    PROVE  Safe(ReduceDetail(root, send, recv), RightRoot(root))
<1> DEFINE same  == \A q, r \in Rank : send[q] = send[r]
           bad   == Differ(send, recv)
           equal == \A r \in Rank : send[r] = recv[Root]
<1>1. CommonCheck(IsEqualOnAllRanks(send), TRUE, same) /\ bad \in SUBSET Rank
  BY IsEqualFacts, DifferSubset
<1>2. same /\ Root \notin bad => equal
  BY RankFacts DEF Differ
<1>3. same \in BOOLEAN /\ equal \in BOOLEAN /\ "toRoot" \in Kind
  BY DEF Kind
<1>4. ReduceDetail(root, send, recv) =
        << ValidRank(root), IsEqualOnAllRanks(send), BroadcastErrorIfTrue(root, bad),
           MPI("toRoot", SameRoot(root) /\ equal) >>
  BY DEF ReduceDetail
<1> HIDE DEF same, bad, equal
<1> QED BY <1>1, <1>2, <1>3, <1>4, SafeRooted

LEMMA SafeAllReduce ==
    ASSUME NEW B \in Nat, NEW kind \in Kind, NEW send \in [Rank -> 0..B], NEW recv
    PROVE  Safe(AllReduceDetail(kind, send, recv), TRUE)
<1> DEFINE same == \A q, r \in Rank : send[q] = send[r]
           okB  == Differ(send, recv) = {}
           fits == \A q, r \in Rank : send[q] = recv[r]
<1>1. /\ CommonCheck(IsEqualOnAllRanks(send), TRUE, same)
      /\ CommonCheck(ErrorIfTrueOnAnyRank(Differ(send, recv)), TRUE, okB)
  BY IsEqualFacts, ErrorIfTrueFacts, DifferSubset
<1>2. same /\ okB => fits
  BY RankFacts DEF Differ
<1>3. same \in BOOLEAN /\ okB \in BOOLEAN /\ fits \in BOOLEAN
  OBVIOUS
<1>4. AllReduceDetail(kind, send, recv) =
        << IsEqualOnAllRanks(send),
           ErrorIfTrueOnAnyRank(Differ(send, recv)), MPI(kind, fits) >>
  BY DEF AllReduceDetail
<1>5. TwoChecks(IsEqualOnAllRanks(send), same,
                ErrorIfTrueOnAnyRank(Differ(send, recv)), okB, TRUE, fits)
  BY <1>1, <1>2, <1>3 DEF TwoChecks
<1> HIDE DEF same, okB, fits
<1> QED BY <1>3, <1>4, <1>5, SafeAfterTwo

LEMMA SafeBroadcast ==
    ASSUME NEW B \in Nat, NEW root, NEW buffer \in [Rank -> 0..B]
    PROVE  Safe(BroadcastDetail(root, buffer), RightRoot(root))
<1> DEFINE valid == Valid(root)
           right == RightRoot(root)
           same  == \A q, r \in Rank : buffer[q] = buffer[r]
           fits  == SameRoot(root) /\ \A r \in Rank : buffer[r] = buffer[Root]
<1>1. /\ CommonCheck(ValidRank(root), TRUE, valid)
      /\ CommonCheck(IsEqualOnAllRanks(buffer), TRUE, same)
  BY ValidRankFacts, IsEqualFacts
<1>2. same => \A r \in Rank : buffer[r] = buffer[Root]
  BY RankFacts
<1>3. /\ valid \in BOOLEAN /\ right \in BOOLEAN /\ same \in BOOLEAN /\ fits \in BOOLEAN
      /\ (right /\ valid /\ same => fits) /\ "fromRoot" \in Kind
  <2>1. valid \in BOOLEAN /\ right \in BOOLEAN /\ same \in BOOLEAN
    BY DEF Valid, RightRoot
  <2>2. right /\ valid => SameRoot(root)
    BY DEF RightRoot
  <2> HIDE DEF valid, right, same
  <2> QED BY <1>2, <2>1, <2>2 DEF Kind
<1>4. BroadcastDetail(root, buffer) =
        << ValidRank(root), IsEqualOnAllRanks(buffer), MPI("fromRoot", fits) >>
  BY DEF BroadcastDetail
<1> HIDE DEF valid, right, same, fits
<1>5. TwoChecks(ValidRank(root), valid, IsEqualOnAllRanks(buffer), same, right, fits)
  BY <1>1, <1>3 DEF TwoChecks
<1>6. Safe(BroadcastDetail(root, buffer), right)
  BY <1>3, <1>4, <1>5, SafeAfterTwo
<1> QED BY <1>6 DEF right

LEMMA SafeScatter ==
    ASSUME NEW B \in Nat, NEW root, NEW send, NEW recv \in [Rank -> 0..B]
    PROVE  Safe(ScatterDetail(root, send, recv), RightRoot(root))
<1> DEFINE same  == \A q, r \in Rank : recv[q] = recv[r]
           bad   == Differ(send, Times(recv))
           equal == \A r \in Rank : recv[r] * N = send[Root]
<1>1. CommonCheck(IsEqualOnAllRanks(recv), TRUE, same) /\ bad \in SUBSET Rank
  BY IsEqualFacts, DifferSubset
<1>2. same /\ Root \notin bad => equal
  <2>1. SUFFICES ASSUME same, Root \notin bad, NEW r \in Rank PROVE recv[r] * N = send[Root]
    OBVIOUS
  <2>2. recv[r] = recv[Root] /\ send[Root] = Times(recv)[Root]
    BY <2>1, RankFacts DEF Differ
  <2> QED BY <2>2, RankFacts DEF Times
<1>3. same \in BOOLEAN /\ equal \in BOOLEAN /\ "fromRoot" \in Kind
  BY DEF Kind
<1>4. ScatterDetail(root, send, recv) =
        << ValidRank(root), IsEqualOnAllRanks(recv), BroadcastErrorIfTrue(root, bad),
           MPI("fromRoot", SameRoot(root) /\ equal) >>
  BY DEF ScatterDetail
<1> HIDE DEF same, bad, equal
<1> QED BY <1>1, <1>2, <1>3, <1>4, SafeRooted

LEMMA SafeGather ==
    ASSUME NEW B \in Nat, NEW root, NEW send \in [Rank -> 0..B], NEW recv
    PROVE  Safe(GatherDetail(root, send, recv), RightRoot(root))
<1> DEFINE same  == \A q, r \in Rank : send[q] = send[r]
           bad   == Differ(Times(send), recv)
           equal == \A r \in Rank : send[r] * N = recv[Root]
<1>1. CommonCheck(IsEqualOnAllRanks(send), TRUE, same) /\ bad \in SUBSET Rank
  BY IsEqualFacts, DifferSubset
<1>2. same /\ Root \notin bad => equal
  <2>1. SUFFICES ASSUME same, Root \notin bad, NEW r \in Rank PROVE send[r] * N = recv[Root]
    OBVIOUS
  <2>2. send[r] = send[Root] /\ recv[Root] = Times(send)[Root]
    BY <2>1, RankFacts DEF Differ
  <2> QED BY <2>2, RankFacts DEF Times
<1>3. same \in BOOLEAN /\ equal \in BOOLEAN /\ "toRoot" \in Kind
  BY DEF Kind
<1>4. GatherDetail(root, send, recv) =
        << ValidRank(root), IsEqualOnAllRanks(send), BroadcastErrorIfTrue(root, bad),
           MPI("toRoot", SameRoot(root) /\ equal) >>
  BY DEF GatherDetail
<1> HIDE DEF same, bad, equal
<1> QED BY <1>1, <1>2, <1>3, <1>4, SafeRooted

LEMMA SafeAllGather ==
    ASSUME NEW B \in Nat, NEW send \in [Rank -> 0..B], NEW recv
    PROVE  Safe(AllGatherDetail(send, recv), TRUE)
<1> DEFINE same == \A q, r \in Rank : send[q] = send[r]
           okB  == Differ(Times(send), recv) = {}
           fits == \A q, r \in Rank : send[q] * N = recv[r]
<1>1. /\ CommonCheck(IsEqualOnAllRanks(send), TRUE, same)
      /\ CommonCheck(ErrorIfTrueOnAnyRank(Differ(Times(send), recv)), TRUE, okB)
  BY IsEqualFacts, ErrorIfTrueFacts, DifferSubset
<1>2. same /\ okB => fits
  <2>1. SUFFICES ASSUME same, okB, NEW q \in Rank, NEW r \in Rank
                 PROVE  send[q] * N = recv[r]
    OBVIOUS
  <2>2. send[q] = send[r] /\ recv[r] = Times(send)[r]
    BY <2>1 DEF Differ
  <2> QED BY <2>2 DEF Times
<1>3. same \in BOOLEAN /\ okB \in BOOLEAN /\ fits \in BOOLEAN /\ "all" \in Kind
  BY DEF Kind
<1>4. AllGatherDetail(send, recv) =
        << IsEqualOnAllRanks(send),
           ErrorIfTrueOnAnyRank(Differ(Times(send), recv)), MPI("all", fits) >>
  BY DEF AllGatherDetail
<1>5. TwoChecks(IsEqualOnAllRanks(send), same,
                ErrorIfTrueOnAnyRank(Differ(Times(send), recv)), okB, TRUE, fits)
  BY <1>1, <1>2, <1>3 DEF TwoChecks
<1> HIDE DEF same, okB, fits
<1> QED BY <1>3, <1>4, <1>5, SafeAfterTwo

\* What the checks of the arrays leave out: their sizes, and the negative offsets.
RightArrays(root, counts, offsets) ==
    /\ RightRoot(root)
    /\ counts.size >= N /\ offsets.size >= N
    /\ \A i \in Rank : ~(counts.at[i] > 0 /\ offsets.at[i] < 0)

IsArray(array) == array.size \in Nat /\ \A i \in Rank : array.at[i] \in Int

\* What the seven calls before the last one of a Scatterv or Gatherv tell: the parts
\* have the lengths that the root counts with, and end inside its buffer.
LEMMA SafeVector ==
    ASSUME NEW kind \in Kind, NEW root, NEW part, NEW counts, NEW offsets, NEW whole,
           IsArray(counts), IsArray(offsets)
    PROVE  Safe(Vector(kind, root, part, counts, offsets, whole),
                RightArrays(root, counts, offsets))
<1> DEFINE same    == SameRoot(root)
           valid   == Valid(root)
           right   == RightArrays(root, counts, offsets)
           enough  == same /\ counts.size >= N
           differ  == Differ(counts.at, part)
           total   == IF Total(part) > whole[Root] THEN {Root} ELSE {}
           over    == Overflows(counts, offsets, whole[Root])
           outside == IF over = {} THEN {} ELSE {Root}
           inside  == Inside(counts, offsets, Reads(counts, offsets, whole[Root]))
           fits    == /\ same
                      /\ Inside(counts, offsets, Rank)
                      /\ \A i \in Rank : /\ part[i] = counts.at[i]
                                         /\ PartFits(i, counts, offsets, whole[Root])
           a == ValidRank(root)
           b == MPI("fromRoot", enough)
           c == ErrorIfTrueOnAnyRank(differ)
           d == MPI("toRoot", same)
           e == BroadcastErrorIfTrue(root, total)
           f == MPI("local", inside)
           g == BroadcastErrorIfTrue(root, outside)
           h == MPI(kind, fits)
           prog  == <<a, b, c, d, e, f, g>> \o <<h>>
<1>1. total \in SUBSET Rank /\ outside \in SUBSET Rank /\ differ \in SUBSET Rank
  BY RankFacts, DifferSubset
<1>2. /\ CommonCheck(a, TRUE, valid)
      /\ CommonCheck(c, TRUE, differ = {})
      /\ CommonCheck(e, same, Root \notin total)
      /\ CommonCheck(g, same, Root \notin outside)
  <2> HIDE DEF total, outside, differ
  <2> QED BY <1>1, ValidRankFacts, ErrorIfTrueFacts, BroadcastErrorFacts
<1>3. /\ b \in MPICall /\ b.stops = {} /\ b.fits = enough
      /\ d \in MPICall /\ d.stops = {} /\ d.fits = same
      /\ f \in MPICall /\ f.stops = {} /\ f.fits = inside
      /\ h \in MPICall /\ h.stops = {} /\ h.fits = fits
  <2>1. enough \in BOOLEAN /\ same \in BOOLEAN /\ inside \in BOOLEAN /\ fits \in BOOLEAN
    BY DEF SameRoot, Inside
  <2>2. "fromRoot" \in Kind /\ "toRoot" \in Kind /\ "local" \in Kind
    BY DEF Kind
  <2> HIDE DEF enough, same, inside, fits
  <2> QED BY <2>1, <2>2, MPIFacts
<1>4. right /\ valid => same /\ enough /\ inside
  <2>1. right /\ valid => same /\ counts.size >= N /\ offsets.size >= N
    BY DEF RightArrays, RightRoot
  <2>2. counts.size >= N /\ offsets.size >= N => inside
    BY RankFacts DEF IsArray, Inside, Reads, Rank
  <2> QED BY <2>1, <2>2
<1>5. right /\ valid /\ differ = {} /\ Root \notin outside => fits
  <2>1. SUFFICES ASSUME right, valid, differ = {}, over = {} PROVE fits
    OBVIOUS
  <2>2. same /\ Inside(counts, offsets, Rank)
    BY <2>1, RankFacts DEF RightArrays, RightRoot, IsArray, Inside, Rank
  <2>3. \A i \in Rank : part[i] = counts.at[i]
    BY <2>1 DEF Differ
  <2>4. \A i \in Rank : PartFits(i, counts, offsets, whole[Root])
    <3>1. SUFFICES ASSUME NEW i \in Rank, counts.at[i] > 0
                   PROVE  offsets.at[i] >= 0 /\ i \notin over
      BY DEF PartFits
    <3>2. offsets.at[i] \in Int /\ ~(offsets.at[i] < 0)
      BY <2>1, <3>1 DEF RightArrays, IsArray
    <3> QED BY <2>1, <3>2
  <2> QED BY <2>2, <2>3, <2>4
<1>6. Vector(kind, root, part, counts, offsets, whole) = prog
  BY DEF Vector, Validate
<1> HIDE DEF a, b, c, d, e, f, g, h, same, valid, right, enough, differ, total, over,
             outside, inside, fits
<1>7. /\ prog \in Seq(MPICall) /\ Len(prog) = 8
      /\ prog[1] = a /\ prog[2] = b /\ prog[3] = c /\ prog[4] = d
      /\ prog[5] = e /\ prog[6] = f /\ prog[7] = g /\ prog[8] = h
  <2> DEFINE s == <<a, b, c, d, e, f, g>>
             t == <<h>>
  <2>1. /\ s \in Seq(MPICall) /\ Len(s) = 7
        /\ s[1] = a /\ s[2] = b /\ s[3] = c /\ s[4] = d /\ s[5] = e /\ s[6] = f /\ s[7] = g
    BY <1>2, <1>3 DEF CommonCheck
  <2>2. t \in Seq(MPICall) /\ Len(t) = 1 /\ t[1] = h
    BY <1>3
  <2> HIDE DEF s, t
  <2>3. /\ s \o t \in Seq(MPICall)
        /\ Len(s \o t) = Len(s) + Len(t)
        /\ \A i \in 1..Len(s) : (s \o t)[i] = s[i]
        /\ \A i \in 1..Len(t) : (s \o t)[Len(s) + i] = t[i]
    <3>1. s \in Seq(MPICall) /\ t \in Seq(MPICall)
      BY <2>1, <2>2
    <3> QED BY <3>1, ConcatFacts
  <2>4. (s \o t)[8] = t[1]
    <3>1. Len(t) = 1 /\ Len(s) = 7
      BY <2>1, <2>2
    <3>2. 1 \in 1..Len(t) /\ Len(s) + 1 = 8
      BY <3>1
    <3> QED BY <2>3, <3>2
  <2>5. Len(s \o t) = 8 /\ \A i \in 1..7 : (s \o t)[i] = s[i]
    BY <2>1, <2>2, <2>3
  <2>6. /\ 1 \in 1..7 /\ 2 \in 1..7 /\ 3 \in 1..7 /\ 4 \in 1..7
        /\ 5 \in 1..7 /\ 6 \in 1..7 /\ 7 \in 1..7
    OBVIOUS
  <2>7. prog = s \o t
    BY DEF s, t
  <2> HIDE DEF prog
  <2> QED BY <2>1, <2>2, <2>3, <2>4, <2>5, <2>6, <2>7
<1> HIDE DEF prog
<1>8. \A i \in 1..8 : i = 1 \/ i = 2 \/ i = 3 \/ i = 4 \/ i = 5 \/ i = 6 \/ i = 7 \/ i = 8
  OBVIOUS
<1>9. \A i \in 1..8 : Together(prog, i)
  BY <1>2, <1>3, <1>7, <1>8 DEF CommonCheck, Together
<1>10. \A i \in 2..8 : Passed(prog, i) => valid
  <2>1. \A i \in 2..8 : 1 \in 1..(i - 1)
    OBVIOUS
  <2> QED BY <1>2, <1>7, <2>1 DEF CommonCheck, Passed
<1>11. Passed(prog, 8) => differ = {} /\ Root \notin outside
  <2>1. 3 \in 1..(8 - 1) /\ 7 \in 1..(8 - 1)
    OBVIOUS
  <2> QED BY <1>2, <1>7, <2>1 DEF CommonCheck, Passed
<1>12. ASSUME right, NEW i \in 1..8, Passed(prog, i)
       PROVE  prog[i].fits
  <2>1. CASE i = 1
    BY <1>2, <1>7, <2>1 DEF CommonCheck
  <2>2. CASE i \in 2..7
    <3>1. same /\ enough /\ inside
      <4>1. i \in 2..8
        BY <2>2
      <4> QED BY <1>4, <1>10, <1>12, <4>1
    <3>2. i = 2 \/ i = 3 \/ i = 4 \/ i = 5 \/ i = 6 \/ i = 7
      BY <2>2
    <3> QED BY <1>2, <1>3, <1>7, <3>1, <3>2 DEF CommonCheck
  <2>3. CASE i = 8
    <3>1. 8 \in 2..8
      OBVIOUS
    <3>2. fits
      BY <1>5, <1>10, <1>11, <1>12, <2>3, <3>1
    <3> QED BY <1>3, <1>7, <2>3, <3>2
  <2>4. i = 1 \/ i \in 2..7 \/ i = 8
    OBVIOUS
  <2> QED BY <2>1, <2>2, <2>3, <2>4
<1>13. Safe(prog, right)
  BY <1>7, <1>9, <1>12 DEF Safe
<1> QED BY <1>6, <1>13 DEF right

LEMMA SafeLocal ==
    ASSUME NEW bad \in SUBSET Rank, NEW right
    PROVE  Safe(<<Local(bad)>>, right)
<1> DEFINE c == [kind |-> "local", stops |-> bad, fits |-> TRUE]
<1>1. c \in MPICall
  BY DEF MPICall, Kind
<1>2. c.kind = "local" /\ c.fits
  OBVIOUS
<1>3. Local(bad) = c
  BY DEF Local, Check
<1> HIDE DEF c
<1>4. <<c>> \in Seq(MPICall) /\ Len(<<c>>) = 1 /\ <<c>>[1] = c
  BY <1>1
<1>5. \A i \in 1..1 : i = 1
  OBVIOUS
<1> QED BY <1>2, <1>3, <1>4, <1>5 DEF Safe, Together

LEMMA Ones == [r \in Rank |-> 1] \in [Rank -> 0..1] /\ 1 \in Nat
OBVIOUS

LEMMA QuotientNat ==
    ASSUME NEW n \in Nat
    PROVE  n \div N \in Nat
BY RankFacts

LEMMA SafeReturnScatter ==
    ASSUME NEW root, NEW send \in [Rank -> Nat]
    PROVE  Safe(ReturnScatter(root, send), RightRoot(root))
<1> DEFINE n     == send[Root] \div N
           bad   == {r \in Rank : send[r] % N # 0}
           recv  == [r \in Rank |-> n]
           right == RightRoot(root)
<1>1. n \in Nat
  BY QuotientNat, RankFacts
<1>2. bad \in SUBSET Rank
  OBVIOUS
<1> HIDE DEF n, bad
<1>3. recv \in [Rank -> 0..n]
  BY <1>1
<1> HIDE DEF recv
<1>4. Safe(<<Local(bad)>>, right)
  BY <1>2, SafeLocal
<1>5. Safe(BroadcastDetail(root, [r \in Rank |-> 1]), right)
  BY Ones, SafeBroadcast
<1>6. Safe(ScatterDetail(root, send, recv), right)
  BY <1>1, <1>3, SafeScatter
<1>7. ReturnScatter(root, send) =
        << Local(bad) >> \o BroadcastDetail(root, [r \in Rank |-> 1])
        \o ScatterDetail(root, send, recv)
  BY DEF ReturnScatter, bad, recv, n
<1> HIDE DEF right
<1>8. Safe(ReturnScatter(root, send), right)
  BY <1>4, <1>5, <1>6, <1>7, SafeConcat
<1> QED BY <1>8 DEF right

\* The distances are sums of natural numbers: there is a function of the ranks with
\* the equation of Distances, for as many of them as one likes ...
LEMMA DistancesExist ==
    ASSUME NEW lengths \in [Rank -> Nat], NEW k \in Rank
    PROVE  \E f \in [0..k -> Nat] :
              \A i \in 0..k : f[i] = IF i = 0 THEN 0 ELSE f[i - 1] + lengths[i - 1]
<1> DEFINE Sums(n, f) ==
             \A i \in 0..n : f[i] = IF i = 0 THEN 0 ELSE f[i - 1] + lengths[i - 1]
           Bad == {n \in Rank : ~\E f \in [0..n -> Nat] : Sums(n, f)}
<1>1. SUFFICES ASSUME Bad # {} PROVE FALSE
  OBVIOUS
<1>2. Bad \in SUBSET Nat
  BY RankFacts DEF Rank
<1>3. PICK n \in Bad : \A m \in Bad : n <= m
  <2> HIDE DEF Bad
  <2> QED BY <1>1, <1>2, MinExists
<1>4. n \in Rank /\ n \in Nat /\ ~\E f \in [0..n -> Nat] : Sums(n, f)
  BY <1>2
<1>5. CASE n = 0
  <2> DEFINE f == [i \in 0..n |-> 0]
  <2>1. f \in [0..n -> Nat] /\ Sums(n, f)
    BY <1>5
  <2> QED BY <1>4, <2>1
<1>6. CASE n # 0
  <2>1. n - 1 \in Rank /\ n - 1 \in Nat /\ n - 1 < n
    BY <1>4, <1>6, RankFacts DEF Rank
  <2>2. n - 1 \notin Bad
    <3> HIDE DEF Bad
    <3> QED BY <1>3, <1>4, <2>1
  <2>3. PICK g \in [0..(n - 1) -> Nat] : Sums(n - 1, g)
    BY <2>1, <2>2
  <2> DEFINE f == [i \in 0..n |-> IF i = n THEN g[n - 1] + lengths[n - 1] ELSE g[i]]
  <2>4. \A i \in 0..n : i = n \/ i \in 0..(n - 1)
    BY <1>4
  <2>5. n - 1 \in 0..(n - 1) /\ g[n - 1] \in Nat /\ lengths[n - 1] \in Nat
    BY <1>4, <2>1
  <2>6. f \in [0..n -> Nat]
    BY <2>4, <2>5
  <2>7. \A i \in 0..(n - 1) : i \in 0..n /\ i # n /\ f[i] = g[i]
    BY <1>4
  <2>8. f[n] = g[n - 1] + lengths[n - 1] /\ f[n - 1] = g[n - 1]
    BY <1>4, <2>5, <2>7
  <2> HIDE DEF f
  <2>9. ASSUME NEW i \in 0..n
        PROVE  f[i] = IF i = 0 THEN 0 ELSE f[i - 1] + lengths[i - 1]
    <3>1. CASE i = n
      BY <1>6, <2>8, <3>1
    <3>2. CASE i \in 0..(n - 1)
      <4>1. g[i] = IF i = 0 THEN 0 ELSE g[i - 1] + lengths[i - 1]
        BY <2>3, <3>2
      <4>2. i # 0 => i - 1 \in 0..(n - 1)
        BY <3>2, <1>4
      <4> QED BY <2>7, <3>2, <4>1, <4>2
    <3> QED BY <2>4, <3>1, <3>2
  <2> QED BY <1>4, <2>6, <2>9
<1> QED BY <1>5, <1>6

\* ... so that Distances is one, and its values are natural numbers.
LEMMA DistancesNat ==
    ASSUME NEW lengths \in [Rank -> Nat]
    PROVE  \A i \in Rank : Distances(lengths)[i] \in Nat
<1> DEFINE Equation(f) ==
             f = [i \in Rank |-> IF i = 0 THEN 0 ELSE f[i - 1] + lengths[i - 1]]
           last == N - 1
<1>1. last \in Rank /\ Rank = 0..last
  BY RankFacts DEF Rank
<1>2. \E f : Equation(f)
  <2>1. PICK f \in [0..last -> Nat] :
           \A i \in 0..last : f[i] = IF i = 0 THEN 0 ELSE f[i - 1] + lengths[i - 1]
    <3> HIDE DEF last
    <3> QED BY <1>1, DistancesExist
  <2>2. Equation(f)
    <3> HIDE DEF last
    <3> QED BY <1>1, <2>1
  <2> QED BY <2>2
<1>3. Equation(Distances(lengths))
  <2>1. Distances(lengths) = CHOOSE f : Equation(f)
    BY DEF Distances
  <2> HIDE DEF Equation
  <2> QED BY <1>2, <2>1
<1> DEFINE d   == Distances(lengths)
           Bad == {i \in Rank : d[i] \notin Nat}
<1>4. \A i \in Rank : d[i] = IF i = 0 THEN 0 ELSE d[i - 1] + lengths[i - 1]
  <2>1. Equation(d)
    BY <1>3
  <2> HIDE DEF d
  <2> QED BY <2>1
<1> HIDE DEF d
<1>5. SUFFICES ASSUME Bad # {} PROVE FALSE
  BY DEF d
<1>6. Bad \in SUBSET Nat
  BY RankFacts DEF Rank
<1>7. PICK n \in Bad : \A m \in Bad : n <= m
  <2> HIDE DEF Bad
  <2> QED BY <1>5, <1>6, MinExists
<1>8. n \in Rank /\ n \in Nat /\ d[n] \notin Nat
  BY <1>6
<1>9. n # 0
  BY <1>4, <1>8
<1>10. n - 1 \in Rank /\ n - 1 \in Nat /\ n - 1 < n
  BY <1>8, <1>9, RankFacts DEF Rank
<1>11. n - 1 \notin Bad
  <2> HIDE DEF Bad
  <2> QED BY <1>7, <1>8, <1>10
<1>12. d[n - 1] \in Nat /\ lengths[n - 1] \in Nat
  BY <1>10, <1>11
<1> QED BY <1>4, <1>8, <1>9, <1>12

\* With the arrays that the operations make for themselves, only the root is left.
LEMMA SafeOwnArrays ==
    ASSUME NEW kind \in Kind, NEW root, NEW lengths \in [Rank -> Nat], NEW whole
    PROVE  Safe(Vector(kind, root, lengths, Array(lengths),
                       Array(Distances(lengths)), whole),
                RightRoot(root))
<1> DEFINE counts  == Array(lengths)
           offsets == Array(Distances(lengths))
           right   == RightArrays(root, counts, offsets)
           v       == Vector(kind, root, lengths, counts, offsets, whole)
<1>1. /\ counts.size = N /\ counts.at = lengths
      /\ offsets.size = N /\ offsets.at = Distances(lengths)
  BY DEF Array
<1>2. \A i \in Rank : lengths[i] \in Nat /\ Distances(lengths)[i] \in Nat
  BY DistancesNat
<1> HIDE DEF counts, offsets
<1>3. IsArray(counts) /\ IsArray(offsets)
  BY <1>1, <1>2, RankFacts DEF IsArray
<1>4. RightRoot(root) => right
  BY <1>1, <1>2, RankFacts DEF RightArrays
<1>5. Safe(v, right)
  BY <1>3, SafeVector
<1> HIDE DEF right, v
<1>6. Safe(v, RightRoot(root))
  BY <1>4, <1>5 DEF Safe
<1> QED BY <1>6 DEF v, counts, offsets

LEMMA SafeReturnScatterv ==
    ASSUME NEW root, NEW lists, NEW lengths \in [Rank -> Nat]
    PROVE  Safe(ReturnScatterv(root, lists, lengths), RightRoot(root))
<1> DEFINE bad == IF lists # N THEN {r \in Rank : root[r] = r} ELSE {}
           vector == Vector("fromRoot", root, lengths, Array(lengths),
                            Array(Distances(lengths)), AtRoot(Total(lengths)))
           right == RightRoot(root)
<1>1. bad \in SUBSET Rank
  OBVIOUS
<1>2. Safe(vector, right)
  BY SafeOwnArrays DEF Kind
<1>3. Safe(ScatterDetail(root, AtRoot(N), [r \in Rank |-> 1]), right)
  BY Ones, SafeScatter
<1>4. ReturnScatterv(root, lists, lengths) =
        << Local(bad) >> \o ScatterDetail(root, AtRoot(N), [r \in Rank |-> 1]) \o vector
  BY DEF ReturnScatterv
<1> HIDE DEF bad, vector
<1>5. Safe(<<Local(bad)>>, right)
  BY <1>1, SafeLocal
<1> HIDE DEF right
<1>6. Safe(ReturnScatterv(root, lists, lengths), right)
  BY <1>2, <1>3, <1>4, <1>5, SafeConcat
<1> QED BY <1>6 DEF right

LEMMA SafeReturnGatherv ==
    ASSUME NEW root, NEW send \in [Rank -> Nat]
    PROVE  Safe(ReturnGatherv(root, send), RightRoot(root))
<1> DEFINE vector == Vector("toRoot", root, send, Array(send), Array(Distances(send)),
                            AtRoot(Total(send)))
           right == RightRoot(root)
<1>1. Safe(vector, right)
  BY SafeOwnArrays DEF Kind
<1>2. Safe(GatherDetail(root, [r \in Rank |-> 1], AtRoot(N)), right)
  BY Ones, SafeGather
<1>3. ReturnGatherv(root, send) =
        GatherDetail(root, [r \in Rank |-> 1], AtRoot(N)) \o vector
  BY DEF ReturnGatherv
<1> HIDE DEF vector, right
<1>4. Safe(ReturnGatherv(root, send), right)
  BY <1>1, <1>2, <1>3, SafeConcat
<1> QED BY <1>4 DEF right

LEMMA SafeWeaker ==
    ASSUME NEW prog, NEW right, NEW strong, Safe(prog, right), strong => right
    PROVE  Safe(prog, strong)
BY DEF Safe

\* All the operations, with the arguments of Calls.
LEMMA SafeProgram ==
    ASSUME NEW op \in Operations, NEW c \in Calls(op)
    PROVE  Safe(Program(c), ~Unchecked(c))
<1> DEFINE L      == [Rank -> 0..MaxLen]
           right  == ~Unchecked(c)
           root   == RightRoot(c.root)
           arrays == RightArrays(c.root, c.counts, c.offsets)
<1> SUFFICES Safe(Program(c), right)
  OBVIOUS
<1>1. c.op = op /\ MaxLen \in Nat /\ MaxPart \in Nat /\ N \in Nat
  BY DataCommunicatorAssumption DEF Calls
<1>2. op \notin {"Scatterv", "Gatherv"} => c.send \in L
  BY DEF Calls, Lengths
<1>3. op = "Scatter" => c.recv \in L
  BY DEF Calls, Lengths
<1>4. op \notin {"Scatterv", "Gatherv"} => c.send \in [Rank -> Nat]
  BY <1>1, <1>2
<1>5. IsArray(c.counts) /\ IsArray(c.offsets)
  <2>1. \A array \in Arrays : IsArray(array)
    <3>1. SUFFICES ASSUME NEW array \in Arrays PROVE IsArray(array)
      OBVIOUS
    <3>2. array.at \in [Rank -> (-1)..MaxPart] /\ array.size \in 0..N
      BY DEF Arrays
    <3> QED BY <1>1, <3>2 DEF IsArray
  <2>2. IsArray(Array([r \in Rank |-> 0]))
    BY <1>1 DEF IsArray, Array
  <2>3. /\ c.counts \in Arrays \/ c.counts = Array([r \in Rank |-> 0])
        /\ c.offsets \in Arrays \/ c.offsets = Array([r \in Rank |-> 0])
    BY DEF Calls
  <2> QED BY <2>1, <2>2, <2>3
<1>6. right => root
  BY DEF Unchecked, RightRoot, Valid
<1>7. right => arrays
  BY <1>1, <1>5, <1>6 DEF Unchecked, RightArrays, IsArray
<1>8. Safe(Program(c), root) => Safe(Program(c), right)
  <2> HIDE DEF root, right
  <2> QED BY <1>6, SafeWeaker
<1>9. Safe(Program(c), arrays) => Safe(Program(c), right)
  <2> HIDE DEF arrays, right
  <2> QED BY <1>7, SafeWeaker
<1>10. Safe(Program(c), TRUE) => Safe(Program(c), right)
  <2> HIDE DEF right
  <2> QED BY DEF Safe
<1> HIDE DEF L, right
<1>11. CASE op \in {"Reduce", "ReturnReduce", "Broadcast", "Scatter", "Gather",
                   "ReturnGather", "ReturnScatter", "ReturnScatterv", "ReturnGatherv"}
  <2>1. CASE op = "Reduce" \/ op = "ReturnReduce"
    <3>1. Safe(Program(c), root)
      BY <1>1, <1>2, <2>1, SafeReduce DEF Program, L
    <3> HIDE DEF root
    <3> QED BY <1>8, <3>1
  <2>2. CASE op = "Broadcast"
    <3>1. Safe(Program(c), root)
      BY <1>1, <1>2, <2>2, SafeBroadcast DEF Program, L
    <3> HIDE DEF root
    <3> QED BY <1>8, <3>1
  <2>3. CASE op = "Scatter"
    <3>1. Safe(Program(c), root)
      BY <1>1, <1>3, <2>3, SafeScatter DEF Program, L
    <3> HIDE DEF root
    <3> QED BY <1>8, <3>1
  <2>4. CASE op = "Gather" \/ op = "ReturnGather"
    <3>1. Safe(Program(c), root)
      BY <1>1, <1>2, <2>4, SafeGather DEF Program, L
    <3> HIDE DEF root
    <3> QED BY <1>8, <3>1
  <2>5. CASE op = "ReturnScatter"
    <3>1. Safe(Program(c), root)
      BY <1>1, <1>4, <2>5, SafeReturnScatter DEF Program
    <3> HIDE DEF root
    <3> QED BY <1>8, <3>1
  <2>6. CASE op = "ReturnScatterv"
    <3>1. Safe(Program(c), root)
      BY <1>1, <1>4, <2>6, SafeReturnScatterv DEF Program
    <3> HIDE DEF root
    <3> QED BY <1>8, <3>1
  <2>7. CASE op = "ReturnGatherv"
    <3>1. Safe(Program(c), root)
      BY <1>1, <1>4, <2>7, SafeReturnGatherv DEF Program
    <3> HIDE DEF root
    <3> QED BY <1>8, <3>1
  <2> QED BY <1>11, <2>1, <2>2, <2>3, <2>4, <2>5, <2>6, <2>7
<1>12. CASE op = "AllReduce" \/ op = "Scan"
  <2>1. Safe(Program(c), TRUE)
    BY <1>1, <1>2, <1>12, SafeAllReduce DEF Program, L, Kind
  <2> QED BY <1>10, <2>1
<1>13. CASE op = "AllGather" \/ op = "ReturnAllGather"
  <2>1. Safe(Program(c), TRUE)
    BY <1>1, <1>2, <1>13, SafeAllGather DEF Program, L
  <2> QED BY <1>10, <2>1
<1>14. CASE op = "Scatterv" \/ op = "Gatherv"
  <2>1. Safe(Program(c), arrays)
    <3>1. CASE op = "Scatterv"
      <4>1. "fromRoot" \in Kind
        BY DEF Kind
      <4> QED BY <1>1, <1>5, <3>1, <4>1, SafeVector DEF Program
    <3>2. CASE op = "Gatherv"
      <4>1. "toRoot" \in Kind
        BY DEF Kind
      <4> QED BY <1>1, <1>5, <3>2, <4>1, SafeVector DEF Program
    <3> QED BY <1>14, <3>1, <3>2
  <2> HIDE DEF arrays
  <2> QED BY <1>9, <2>1
<1> QED BY <1>11, <1>12, <1>13, <1>14 DEF Operations

-----------------------------------------------------------------------------
(* The invariant: a rank has passed the checks behind it, and one that threw *)
(* did so at its last one.                                                   *)

ReachedInv ==
    /\ Safe(program, ~Unchecked(call))
    /\ LocalErrors \/ \A i \in DOMAIN program :
          program[i].kind = "local" => program[i].stops = {}
    /\ stage \in [Rank -> 0..Len(program)]
    /\ status \in [Rank -> {"outside", "inside", "returned", "threw", "undefined"}]
    /\ \A r \in Rank :
          /\ status[r] \in {"outside", "inside"} => stage[r] < Len(program)
          /\ status[r] = "returned" => stage[r] = Len(program)
          /\ status[r] = "threw" => stage[r] > 0 /\ r \in program[stage[r]].stops
          /\ status[r] # "threw" => \A j \in 1..stage[r] : r \notin program[j].stops

LEMMA ReachedInit == DataCommunicatorInit => ReachedInv
<1> SUFFICES ASSUME DataCommunicatorInit PROVE ReachedInv
  OBVIOUS
<1>1. PICK op \in Ops : call \in Calls(op)
  BY DEF DataCommunicatorInit
<1>2. Safe(program, ~Unchecked(call))
  <2>1. program = Program(call)
    BY DEF DataCommunicatorInit
  <2>2. op \in Operations
    BY DataCommunicatorAssumption
  <2> QED BY <1>1, <2>1, <2>2, SafeProgram
<1>3. Len(program) \in Nat /\ Len(program) > 0
  BY <1>2 DEF Safe
<1> QED BY <1>2, <1>3 DEF DataCommunicatorInit, ReachedInv

LEMMA ReachedEnter ==
    ASSUME ReachedInv, NEW r \in Rank, Enter(r)
    PROVE  ReachedInv'
<1>1. /\ call' = call /\ program' = program /\ stage' = stage
      /\ status[r] = "outside" /\ status' = [status EXCEPT ![r] = "inside"]
  BY DEF Enter
<1>2. Unchecked(call)' = Unchecked(call)
  BY <1>1
<1> QED BY <1>1, <1>2 DEF ReachedInv

LEMMA ReachedUndefined ==
    ASSUME ReachedInv, NEW r \in Rank, Undefined(r)
    PROVE  ReachedInv'
<1>1. /\ call' = call /\ program' = program /\ stage' = stage
      /\ status[r] = "inside" /\ status' = [status EXCEPT ![r] = "undefined"]
  BY DEF Undefined
<1>2. Unchecked(call)' = Unchecked(call)
  BY <1>1
<1> QED BY <1>1, <1>2 DEF ReachedInv

LEMMA ReachedLeave ==
    ASSUME ReachedInv, NEW r \in Rank, Leave(r)
    PROVE  ReachedInv'
<1> DEFINE prog == program
           n    == stage[r] + 1
<1>1. /\ call' = call /\ prog' = prog /\ status[r] = "inside"
      /\ stage' = [stage EXCEPT ![r] = stage[r] + 1]
      /\ status' = [status EXCEPT ![r] =
            IF r \in prog[n].stops THEN "threw"
            ELSE IF n = Len(prog) THEN "returned" ELSE "outside"]
  BY DEF Leave, Step
<1>2. Unchecked(call)' = Unchecked(call)
  BY <1>1
<1>3. Len(prog) \in Nat /\ stage[r] \in 0..Len(prog) /\ stage[r] < Len(prog)
  BY <1>1 DEF ReachedInv, Safe
<1>4. n \in 1..Len(prog)
  BY <1>3
<1>5. \A j \in 1..n : j = n \/ j \in 1..stage[r]
  BY <1>3
<1>6. \A j \in 1..stage[r] : r \notin prog[j].stops
  BY <1>1 DEF ReachedInv
<1> HIDE DEF prog
<1>7. /\ stage' \in [Rank -> 0..Len(prog)]
      /\ status' \in [Rank -> {"outside", "inside", "returned", "threw", "undefined"}]
  BY <1>1, <1>4 DEF ReachedInv, prog
<1>8. \A q \in Rank :
         /\ status'[q] \in {"outside", "inside"} => stage'[q] < Len(prog)
         /\ status'[q] = "returned" => stage'[q] = Len(prog)
         /\ status'[q] = "threw" => stage'[q] > 0 /\ q \in prog[stage'[q]].stops
         /\ status'[q] # "threw" => \A j \in 1..stage'[q] : q \notin prog[j].stops
  <2>1. ASSUME NEW q \in Rank, q # r
        PROVE  stage'[q] = stage[q] /\ status'[q] = status[q]
    BY <1>1, <2>1 DEF ReachedInv
  <2>2. /\ stage'[r] = n
        /\ status'[r] = IF r \in prog[n].stops THEN "threw"
                        ELSE IF n = Len(prog) THEN "returned" ELSE "outside"
    BY <1>1 DEF ReachedInv
  <2>3. /\ status'[r] \in {"outside", "inside"} => stage'[r] < Len(prog)
        /\ status'[r] = "returned" => stage'[r] = Len(prog)
        /\ status'[r] = "threw" => stage'[r] > 0 /\ r \in prog[stage'[r]].stops
        /\ status'[r] # "threw" => \A j \in 1..stage'[r] : r \notin prog[j].stops
    BY <1>3, <1>4, <1>5, <1>6, <2>2
  <2> QED BY <2>1, <2>3 DEF ReachedInv, prog
<1> QED BY <1>1, <1>2, <1>7, <1>8 DEF ReachedInv, prog

\* The invariant of the collective operations, for every number of ranks: a rank
\* has passed the checks behind it.
THEOREM ReachedInvariant == DataCommunicatorSpec => []ReachedInv
<1>1. DataCommunicatorInit => ReachedInv
  BY ReachedInit
<1>2. ReachedInv /\ [DataCommunicatorNext]_dvars => ReachedInv'
  <2> SUFFICES ASSUME ReachedInv, [DataCommunicatorNext]_dvars PROVE ReachedInv'
    OBVIOUS
  <2>1. CASE UNCHANGED dvars
    <3>1. Unchecked(call)' = Unchecked(call)
      BY <2>1 DEF dvars
    <3> QED BY <2>1, <3>1 DEF dvars, ReachedInv
  <2>2. CASE DataCommunicatorNext
    BY <2>2, ReachedEnter, ReachedLeave, ReachedUndefined DEF DataCommunicatorNext
  <2> QED BY <2>1, <2>2
<1> QED BY <1>1, <1>2, PTL DEF DataCommunicatorSpec

\* The checks find every error but those that Unchecked names before it does harm, for
\* every number of ranks and all lengths, counts, offsets and roots: a rank in a call
\* has passed the checks of MPIDataCommunicator before it, which are common to all.
THEOREM BuffersFitAlways == DataCommunicatorSpec => []BuffersFit
<1>1. ReachedInv => BuffersFit
  <2> SUFFICES ASSUME ReachedInv, ~Unchecked(call), NEW r \in Rank, status[r] = "inside"
               PROVE  Step(r).fits
    BY DEF BuffersFit
  <2> DEFINE prog == program
             n    == stage[r] + 1
  <2>1. /\ Safe(prog, ~Unchecked(call)) /\ stage[r] \in 0..Len(prog) /\ stage[r] < Len(prog)
        /\ \A j \in 1..stage[r] : r \notin prog[j].stops
    BY DEF ReachedInv
  <2> HIDE DEF prog
  <2>2. Len(prog) \in Nat /\ n \in 1..Len(prog) /\ n - 1 = stage[r]
    BY <2>1 DEF Safe
  <2>3. \A j \in 1..(n - 1) : j \in 1..Len(prog) /\ r \notin prog[j].stops
    BY <2>1, <2>2
  <2>4. Passed(prog, n)
    BY <2>1, <2>3 DEF Passed, Safe, Together
  <2>5. prog[n].fits
    BY <2>1, <2>2, <2>4 DEF Safe
  <2> QED BY <2>5 DEF Step, prog
<1> QED BY <1>1, ReachedInvariant, PTL

\* An error that one rank finds stops all, for every number of ranks, if no check
\* of a single rank fails: the checks stop all ranks or none.
THEOREM SameOutcomeAlways ==
    ASSUME ~LocalErrors
    PROVE  DataCommunicatorSpec => []SameOutcome
<1>1. ReachedInv => SameOutcome
  <2> SUFFICES ASSUME ReachedInv, NEW q \in Rank, NEW r \in Rank,
                      status[q] = "threw", status[r] = "returned"
               PROVE  FALSE
    BY DEF SameOutcome
  <2> DEFINE prog == program
  <2>1. /\ Safe(prog, ~Unchecked(call))
        /\ \A i \in DOMAIN prog : prog[i].kind = "local" => prog[i].stops = {}
        /\ stage[q] \in 0..Len(prog) /\ stage[q] > 0 /\ q \in prog[stage[q]].stops
        /\ stage[r] = Len(prog)
        /\ \A j \in 1..stage[r] : r \notin prog[j].stops
    BY DEF ReachedInv
  <2> HIDE DEF prog
  <2>2. stage[q] \in 1..Len(prog) /\ stage[q] \in DOMAIN prog
    BY <2>1 DEF Safe
  <2>3. prog[stage[q]].stops = Rank
    BY <2>1, <2>2 DEF Safe, Together
  <2> QED BY <2>1, <2>2, <2>3
<1> QED BY <1>1, ReachedInvariant, PTL
===============================================================================
