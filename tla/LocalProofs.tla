----------------------------- MODULE LocalProofs -----------------------------
(***************************************************************************)
(* The theorems about the parts of a program that work without the partner *)
(* (see MCLocal): the registration of types, the memory of imported data   *)
(* and the choice of partner ranks.                                        *)
(***************************************************************************)
EXTENDS Registration, DataContainer, PartnerRanks, TLAPS

-----------------------------------------------------------------------------
(***************************************************************************)
(* Registration, for any set of threads and any number of types.           *)
(***************************************************************************)

\* Before the first call the tables are empty and the mutex is free.
LEMMA InitInv == RegistrationInit => RegistrationInv
  <1> SUFFICES ASSUME RegistrationInit PROVE RegistrationInv
    OBVIOUS
  <1>1. \A t \in Thread : pc[t] = "idle" /\ next[t] = 1
    BY DEF RegistrationInit
  <1>2. next \in [Thread -> 1..(NumTypes + 1)]
    BY RegistrationAssumption DEF RegistrationInit
  <1>3. RegistrationTypeOK
    BY <1>2 DEF RegistrationInit, RegistrationTypeOK, Position
  <1>4. MutexInv
    BY <1>1, RegistrationAssumption DEF RegistrationInit, MutexInv, Holding
  <1>5. TablesInv
    BY <1>1 DEF RegistrationInit, TablesInv
  <1> QED
    BY <1>3, <1>4, <1>5 DEF RegistrationInv

\* What every step uses: where the thread goes, and that the others stay.
LEMMA Moves ==
    ASSUME RegistrationTypeOK, NEW t \in Thread, NEW position \in Position,
           Go(t, position)
    PROVE  /\ pc' \in [Thread -> Position]
           /\ pc'[t] = position
           /\ \A u \in Thread : u # t => pc'[u] = pc[u]
  BY DEF RegistrationTypeOK, Go

\* A thread that enters or leaves none of the positions inside the mutex.
LEMMA CallInv ==
    ASSUME RegistrationInv, NEW t \in Thread, Call(t)
    PROVE  RegistrationInv'
  <1>1. "check" \in Position
    BY DEF Position
  <1>2. /\ pc' \in [Thread -> Position] /\ pc'[t] = "check"
        /\ \A u \in Thread : u # t => pc'[u] = pc[u]
    BY <1>1, Moves DEF RegistrationInv, Call
  <1> QED
    BY <1>2 DEF RegistrationInv, RegistrationTypeOK, MutexInv, TablesInv, Holding, Call

\* The pointer is read without the mutex: a thread that finds it set goes on to the
\* lookups, and by TablesInv everything is registered by then.
LEMMA CheckInv ==
    ASSUME RegistrationInv, NEW t \in Thread, Check(t)
    PROVE  RegistrationInv'
  <1> DEFINE there == IF flag THEN "use" ELSE "lock"
  <1>1. there \in Position
    BY DEF Position
  <1>2. /\ pc' \in [Thread -> Position] /\ pc'[t] = there
        /\ \A u \in Thread : u # t => pc'[u] = pc[u]
    BY <1>1, Moves DEF RegistrationInv, Check
  <1> QED
    BY <1>2 DEF RegistrationInv, RegistrationTypeOK, MutexInv, TablesInv, Holding, Check

\* The mutex is free, so that no other thread is inside.
LEMMA LockInv ==
    ASSUME RegistrationInv, NEW t \in Thread, Lock(t)
    PROVE  RegistrationInv'
  <1>1. "recheck" \in Position
    BY DEF Position
  <1>2. /\ pc' \in [Thread -> Position] /\ pc'[t] = "recheck"
        /\ \A u \in Thread : u # t => pc'[u] = pc[u]
    BY <1>1, Moves DEF RegistrationInv, Lock
  <1> QED
    BY <1>2, RegistrationAssumption
    DEF RegistrationInv, RegistrationTypeOK, MutexInv, TablesInv, Holding, Lock

\* Whoever finds the pointer not set again starts with the first type.
LEMMA RecheckInv ==
    ASSUME RegistrationInv, NEW t \in Thread, Recheck(t)
    PROVE  RegistrationInv'
  <1> DEFINE there == IF flag THEN "unlock" ELSE "register"
  <1>1. there \in Position
    BY DEF Position
  <1>2. /\ pc' \in [Thread -> Position] /\ pc'[t] = there
        /\ \A u \in Thread : u # t => pc'[u] = pc[u]
    BY <1>1, Moves DEF RegistrationInv, Recheck
  <1>3. ~flag => next[t] = 1
    BY DEF RegistrationInv, TablesInv, Recheck
  <1>4. UNCHANGED <<next, types, flag, owner>>
    BY DEF Recheck
  <1>5. RegistrationTypeOK'
    BY <1>2, <1>4 DEF RegistrationInv, RegistrationTypeOK
  <1>6. MutexInv'
    BY <1>2, <1>4 DEF RegistrationInv, MutexInv, Holding, Recheck
  <1>7. TablesInv'
    BY <1>2, <1>3, <1>4 DEF RegistrationInv, RegistrationTypeOK, TablesInv, Recheck
  <1> QED
    BY <1>5, <1>6, <1>7 DEF RegistrationInv

\* The only thread inside the mutex adds the next type.
LEMMA RegisterInv ==
    ASSUME RegistrationInv, NEW t \in Thread, Register(t)
    PROVE  RegistrationInv'
  <1>1. next[t] \in 1..NumTypes
    BY RegistrationAssumption DEF RegistrationInv, RegistrationTypeOK, Register
  <1>2. ~flag /\ 1..(next[t] - 1) \subseteq types
    BY DEF RegistrationInv, TablesInv, Register
  <1>3. \A u \in Thread : pc[u] = "register" => u = t
    BY DEF RegistrationInv, MutexInv, Holding, Register
  <1>4. RegistrationTypeOK'
    <2>1. next' \in [Thread -> 1..(NumTypes + 1)]
      BY <1>1, RegistrationAssumption
      DEF RegistrationInv, RegistrationTypeOK, Register
    <2>2. types' \subseteq Type
      BY <1>1 DEF RegistrationInv, RegistrationTypeOK, Register, Type
    <2>3. UNCHANGED <<pc, flag, owner>>
      BY DEF Register
    <2> QED
      BY <2>1, <2>2, <2>3 DEF RegistrationInv, RegistrationTypeOK
  <1>5. MutexInv'
    BY DEF RegistrationInv, MutexInv, Holding, Register
  <1>6. 1..(next'[t] - 1) \subseteq types'
    BY <1>1, <1>2, RegistrationAssumption
    DEF RegistrationInv, RegistrationTypeOK, Register
  <1>7. TablesInv'
    BY <1>2, <1>3, <1>6 DEF RegistrationInv, RegistrationTypeOK, TablesInv, Register
  <1> QED
    BY <1>4, <1>5, <1>7 DEF RegistrationInv

\* All types are in the tables when the pointer is set.
LEMMA PublishInv ==
    ASSUME RegistrationInv, NEW t \in Thread, Publish(t)
    PROVE  RegistrationInv'
  <1>1. "unlock" \in Position
    BY DEF Position
  <1>2. /\ pc' \in [Thread -> Position] /\ pc'[t] = "unlock"
        /\ \A u \in Thread : u # t => pc'[u] = pc[u]
    BY <1>1, Moves DEF RegistrationInv, Publish
  <1>3. types = Type
    <2>1. next[t] - 1 = NumTypes
      BY RegistrationAssumption DEF RegistrationInv, RegistrationTypeOK, Publish
    <2>2. 1..(next[t] - 1) \subseteq types
      BY DEF RegistrationInv, TablesInv, Publish
    <2> QED
      BY <2>1, <2>2 DEF RegistrationInv, RegistrationTypeOK, Type
  <1>4. \A u \in Thread : u # t => pc[u] # "register"
    BY DEF RegistrationInv, MutexInv, Holding, Publish
  <1>5. UNCHANGED <<next, types, owner>> /\ flag' = TRUE
    BY DEF Publish
  <1>6. RegistrationTypeOK'
    BY <1>2, <1>5 DEF RegistrationInv, RegistrationTypeOK
  <1>7. MutexInv'
    BY <1>2, <1>5 DEF RegistrationInv, MutexInv, Holding, Publish
  <1>8. TablesInv'
    BY <1>2, <1>3, <1>4, <1>5 DEF TablesInv, Type
  <1> QED
    BY <1>6, <1>7, <1>8 DEF RegistrationInv

\* The owner gives the mutex back; nobody else is inside of it.
LEMMA UnlockInv ==
    ASSUME RegistrationInv, NEW t \in Thread, Unlock(t)
    PROVE  RegistrationInv'
  <1>1. "use" \in Position
    BY DEF Position
  <1>2. /\ pc' \in [Thread -> Position] /\ pc'[t] = "use"
        /\ \A u \in Thread : u # t => pc'[u] = pc[u]
    BY <1>1, Moves DEF RegistrationInv, Unlock
  <1> QED
    BY <1>2, RegistrationAssumption
    DEF RegistrationInv, RegistrationTypeOK, MutexInv, TablesInv, Holding, Unlock

\* A lookup changes neither the tables nor the mutex.
LEMMA UseInv ==
    ASSUME RegistrationInv, NEW t \in Thread, Use(t)
    PROVE  RegistrationInv'
  <1>1. "idle" \in Position
    BY DEF Position
  <1>2. /\ pc' \in [Thread -> Position] /\ pc'[t] = "idle"
        /\ \A u \in Thread : u # t => pc'[u] = pc[u]
    BY <1>1, Moves DEF RegistrationInv, Use
  <1> QED
    BY <1>2 DEF RegistrationInv, RegistrationTypeOK, MutexInv, TablesInv, Holding, Use

\* The invariant is inductive: RegisterTypesInSerializer() keeps the mutex, the
\* tables and the pointer consistent, for any number of threads and types.
THEOREM RegistrationInvHolds == RegistrationSpec => []RegistrationInv
  <1>1. RegistrationInv /\ [RegistrationNext]_gvars => RegistrationInv'
    <2> SUFFICES ASSUME RegistrationInv, [RegistrationNext]_gvars
                 PROVE  RegistrationInv'
      OBVIOUS
    <2>1. CASE UNCHANGED gvars
      BY <2>1 DEF gvars, RegistrationInv, RegistrationTypeOK, MutexInv, TablesInv, Holding
    <2>2. ASSUME NEW t \in Thread, Call(t) \/ Step(t)
          PROVE  RegistrationInv'
      BY <2>2, CallInv, CheckInv, LockInv, RecheckInv, RegisterInv, PublishInv,
         UnlockInv, UseInv DEF Step
    <2> QED
      BY <2>1, <2>2 DEF RegistrationNext
  <1> QED
    BY InitInv, <1>1, PTL DEF RegistrationSpec

\* A thread that looks types up finds all of them, and nobody changes the tables
\* meanwhile, although it looks without the mutex.
THEOREM LookupsAreSafeAlways == RegistrationSpec => []LookupsAreSafe
  <1>1. RegistrationInv => LookupsAreSafe
    BY DEF RegistrationInv, TablesInv, LookupsAreSafe
  <1> QED
    BY <1>1, RegistrationInvHolds, PTL

-----------------------------------------------------------------------------
(***************************************************************************)
(* DataContainer: for imports of any size and in any order, the values of  *)
(* a container fit into its memory, and, if no container is made around an *)
(* empty size, no memory is lost.  Both rest on one invariant: a container *)
(* with capacity points to a block that is at least as long.               *)
(***************************************************************************)

ContainerTypeOK ==
    /\ box \in [size : Nat, capacity : Nat]
    /\ block \in Seq(Nat)
    /\ ptr \in 0..Len(block)

\* Without capacity there is no memory, if no container is made around it then.
EmptyMeansNone == ~WrapsEmpty => (box.capacity = 0 => ptr = 0) /\ NothingLost

ContainerInv == ContainerTypeOK /\ ValuesFit /\ EmptyMeansNone

\* resize() re-establishes the invariant for each capacity that the block has.
LEMMA ResizeKeepsInv ==
    ASSUME ContainerInv,
           NEW capacity \in Nat, NEW n \in Nat, Resize(capacity, n),
           capacity # 0 => ptr # 0 /\ capacity <= block[ptr],
           ~WrapsEmpty => (capacity = 0 => ptr = 0)
    PROVE  ContainerInv'
  <1> DEFINE larger == Larger(2 * capacity, n)
  <1>1. CASE n > capacity /\ capacity = 0
    <2>1. larger = n /\ larger \in Nat \ {0}
      BY <1>1 DEF Larger
    <2>2. /\ box' = [size |-> n, capacity |-> larger]
          /\ ptr' = Len(block) + 1
          /\ block' = Append(block, larger)
      BY <1>1 DEF Resize, Realloc
    <2>3. /\ block' \in Seq(Nat) /\ Len(block') = Len(block) + 1
          /\ block'[Len(block) + 1] = larger
      BY <2>1, <2>2 DEF ContainerInv, ContainerTypeOK
    <2>4. ContainerTypeOK' /\ ValuesFit'
      <3> HIDE DEF larger
      <3> QED
        BY <2>1, <2>2, <2>3 DEF ContainerInv, ContainerTypeOK, ValuesFit
    <2>5. EmptyMeansNone'
      <3>1. SUFFICES ASSUME ~WrapsEmpty PROVE Len(block) = 0
        BY <2>1, <2>2, <2>3 DEF EmptyMeansNone, NothingLost
      <3>2. ptr = 0 /\ NothingLost
        BY <1>1, <3>1 DEF ContainerInv, EmptyMeansNone
      <3>3. Len(block) <= 1 /\ Len(block) # 1
        BY <3>2 DEF NothingLost
      <3>4. PICK k \in Nat : k = Len(block)
        BY DEF ContainerInv, ContainerTypeOK
      <3>5. k <= 1 /\ k # 1
        BY <3>3, <3>4
      <3>6. k = 0
        BY <3>5
      <3> QED
        BY <3>4, <3>6
    <2> QED
      BY <2>4, <2>5 DEF ContainerInv
  <1>2. CASE n > capacity /\ capacity # 0
    <2>1. larger \in Nat \ {0} /\ larger >= n
      BY <1>2 DEF Larger
    <2>2. ptr # 0 /\ ptr \in 1..Len(block)
      BY <1>2 DEF ContainerInv, ContainerTypeOK
    <2>3. /\ box' = [size |-> n, capacity |-> larger]
          /\ ptr' = ptr
          /\ block' = [block EXCEPT ![ptr] = larger]
      BY <1>2, <2>2 DEF Resize, Realloc
    <2>4. block' \in Seq(Nat) /\ Len(block') = Len(block) /\ block'[ptr] = larger
      BY <2>1, <2>2, <2>3 DEF ContainerInv, ContainerTypeOK
    <2>5. ContainerTypeOK' /\ ValuesFit'
      <3> HIDE DEF larger
      <3> QED
        BY <2>1, <2>2, <2>3, <2>4 DEF ContainerInv, ContainerTypeOK, ValuesFit
    <2>6. EmptyMeansNone'
      BY <2>1, <2>3, <2>4 DEF ContainerInv, EmptyMeansNone, NothingLost
    <2> QED
      BY <2>5, <2>6 DEF ContainerInv
  <1>3. CASE n <= capacity
    BY <1>3 DEF Resize, ContainerInv, ContainerTypeOK, ValuesFit, EmptyMeansNone, NothingLost
  <1> QED
    BY <1>1, <1>2, <1>3

\* The invariant holds in every state.
THEOREM ContainerInvHolds == ContainerSpec => []ContainerInv
  <1>1. ContainerInit => ContainerInv
    <2>1. CASE box = [size |-> 0, capacity |-> 0] /\ ptr = 0 /\ block = <<>>
      BY <2>1 DEF ContainerInv, ContainerTypeOK, ValuesFit, EmptyMeansNone, NothingLost
    <2>2. ASSUME NEW n \in 1..MaxValues,
                 box = [size |-> n, capacity |-> n], ptr = 1, block = <<n>>
          PROVE  ContainerInv
      <3>1. n \in Nat \ {0}
        BY DataContainerAssumption
      <3>2. block \in Seq(Nat) /\ Len(block) = 1 /\ block[1] = n
        BY <2>2, <3>1
      <3> QED
        BY <2>2, <3>1, <3>2
        DEF ContainerInv, ContainerTypeOK, ValuesFit, EmptyMeansNone, NothingLost
    <2> QED
      BY <2>1, <2>2 DEF ContainerInit
  <1>2. ContainerInv /\ [ContainerNext]_cvars => ContainerInv'
    <2> SUFFICES ASSUME ContainerInv, [ContainerNext]_cvars PROVE ContainerInv'
      OBVIOUS
    <2>1. ASSUME NEW n \in 0..MaxValues, Receive(n) PROVE ContainerInv'
      BY <2>1, ResizeKeepsInv, DataContainerAssumption
      DEF Receive, ContainerInv, ContainerTypeOK, ValuesFit, EmptyMeansNone
    <2>2. ASSUME NEW n \in 0..MaxValues, ImportData(n) PROVE ContainerInv'
      <3>1. /\ box.size \in Nat /\ n \in Nat
            /\ box.size # 0 => ptr # 0 /\ box.size <= block[ptr]
        BY DataContainerAssumption DEF ContainerInv, ContainerTypeOK, ValuesFit
      <3>2. ~WrapsEmpty => (box.size = 0 => ptr = 0)
        BY <2>2 DEF ImportData
      <3> QED
        BY <2>2, <3>1, <3>2, ResizeKeepsInv DEF ImportData
    <2>3. CASE UNCHANGED cvars
      BY <2>3 DEF cvars, ContainerInv, ContainerTypeOK, ValuesFit, EmptyMeansNone, NothingLost
    <2> QED
      BY <2>1, <2>2, <2>3 DEF ContainerNext
  <1> QED
    BY <1>1, <1>2, PTL DEF ContainerSpec

\* Imports of any size never write past the end of the memory.
THEOREM ValuesFitAlways == ContainerSpec => []ValuesFit
  <1>1. ContainerInv => ValuesFit
    BY DEF ContainerInv
  <1> QED
    BY <1>1, ContainerInvHolds, PTL

\* A program that never wraps an empty size loses no memory.
THEOREM NothingLostAlways ==
    ASSUME ~WrapsEmpty
    PROVE  ContainerSpec => []NothingLost
  <1>1. ContainerInv => NothingLost
    BY DEF ContainerInv, EmptyMeansNone
  <1> QED
    BY <1>1, ContainerInvHolds, PTL

-----------------------------------------------------------------------------
(***************************************************************************)
(* PartnerRanks, for every number of ranks.  Both functions cut the larger *)
(* side into blocks of the same length n; the importer lists its block, the *)
(* exporter divides by n.  DivBlock says that these are the same thing,    *)
(* CeilCovers that the blocks cover all ranks.                             *)
(***************************************************************************)

\* The quotient that utilities.cpp computes with / on std::size_t.
LEMMA DivDef ==
    ASSUME NEW i \in Nat, NEW n \in Nat \ {0}
    PROVE  /\ i \div n \in Nat
           /\ n * (i \div n) <= i
           /\ i < n * (i \div n) + n
  OBVIOUS

\* Products are monotonic.
LEMMA MulMono ==
    ASSUME NEW a \in Nat, NEW b \in Nat, NEW n \in Nat, a <= b
    PROVE  a * n <= b * n
  BY Z3

\* Rank i lies in block r of length n exactly if i / n = r.
LEMMA DivBlock ==
    ASSUME NEW i \in Nat, NEW r \in Nat, NEW n \in Nat \ {0}
    PROVE  (i >= r * n /\ i < (r + 1) * n) <=> r = i \div n
  BY DivDef, MulMono

\* b blocks of length ceil(a / b) cover a ranks.
LEMMA CeilCovers ==
    ASSUME NEW a \in Nat \ {0}, NEW b \in Nat \ {0}
    PROVE  CeilDiv(a, b) \in Nat \ {0} /\ b * CeilDiv(a, b) >= a
  <1>1. a + b - 1 \in Nat
    OBVIOUS
  <1>2. CeilDiv(a, b) \in Nat /\ a + b - 1 < b * CeilDiv(a, b) + b
    BY <1>1, DivDef DEF CeilDiv
  <1>3. b * CeilDiv(a, b) >= a
    BY <1>2
  <1>4. CeilDiv(a, b) # 0
    BY <1>2, <1>3
  <1> QED
    BY <1>2, <1>3, <1>4

\* The two functions are the two directions of one relation between ranks.
LEMMA Duality ==
    ASSUME NEW I \in Nat \ {0}, NEW E \in Nat \ {0},
           NEW i \in Ranks(I), NEW e \in Ranks(E)
    PROVE  e \in AsImporter(i, I, E) <=> i \in AsExporter(e, E, I)
  <1>1. CASE I = 1
    BY <1>1 DEF AsImporter, AsExporter, Ranks
  <1>2. CASE I # 1 /\ I >= E
    BY <1>2 DEF AsImporter, AsExporter, Ranks
  <1>3. CASE I # 1 /\ I < E
    <2> DEFINE n == CeilDiv(E, I)
    <2>1. n \in Nat \ {0}
      BY CeilCovers
    <2>2. i \in Nat /\ e \in Nat
      BY DEF Ranks
    <2>3. e \in AsImporter(i, I, E) <=> (e >= i * n /\ e < (i + 1) * n)
      BY <1>3 DEF AsImporter
    <2>4. i \in AsExporter(e, E, I) <=> i = e \div n
      BY <1>3 DEF AsExporter
    <2> HIDE DEF n
    <2> QED
      BY <2>1, <2>2, <2>3, <2>4, DivBlock
  <1> QED
    BY <1>1, <1>2, <1>3

\* A rank of the exporter sends to one rank, and the importer has that rank.
LEMMA SendsToOne ==
    ASSUME NEW I \in Nat \ {0}, NEW E \in Nat \ {0}, NEW e \in Ranks(E)
    PROVE  \E i \in Ranks(I) : AsExporter(e, E, I) = {i}
  <1>1. CASE E = 1 \/ I = 1
    BY <1>1 DEF AsExporter, Ranks
  <1>2. CASE E # 1 /\ I # 1 /\ E <= I
    BY <1>2 DEF AsExporter, Ranks
  <1>3. CASE E # 1 /\ I # 1 /\ E > I
    <2> DEFINE n == CeilDiv(E, I)
               q == e \div n
    <2>1. n \in Nat \ {0} /\ I * n >= E
      BY CeilCovers
    <2>2. e \in Nat /\ e < E
      BY DEF Ranks
    <2>3. AsExporter(e, E, I) = {q}
      BY <1>3 DEF AsExporter
    <2> HIDE DEF n
    <2>4. q \in Nat /\ n * q <= e
      BY <2>1, <2>2, DivDef
    <2> HIDE DEF q
    <2>5. q < I
      <3>1. SUFFICES ASSUME I <= q PROVE FALSE
        BY <2>4
      <3>2. I * n <= q * n
        BY <3>1, <2>1, <2>4, MulMono
      <3> QED
        BY <3>2, <2>1, <2>2, <2>4
    <2> QED
      BY <2>3, <2>4, <2>5 DEF Ranks
  <1> QED
    BY <1>1, <1>2, <1>3

-----------------------------------------------------------------------------

\* The inductive invariant: what every rank has computed for the present sizes.
PartnerInv ==
    /\ size \in [Side -> Nat \ {0}]
    /\ talks = [importer |-> [r \in Ranks(size["importer"]) |->
                    AsImporter(r, size["importer"], size["exporter"])],
                exporter |-> [r \in Ranks(size["exporter"]) |->
                    AsExporter(r, size["exporter"], size["importer"])]]

\* PartnerInv holds of every behaviour: the results are always those of the sizes.
THEOREM PartnerInvHolds == PartnerSpec => []PartnerInv
  <1>1. PartnerInit => PartnerInv
    <2> SUFFICES ASSUME PartnerInit PROVE PartnerInv
      OBVIOUS
    <2>1. size["importer"] = 1 /\ size["exporter"] = 1 /\ size \in [Side -> Nat \ {0}]
      BY DEF PartnerInit, Side
    <2>2. \A r \in Ranks(1) : AsImporter(r, 1, 1) = {0} /\ AsExporter(r, 1, 1) = {0}
      BY DEF AsImporter, AsExporter, Ranks
    <2>3. talks = [importer |-> [r \in Ranks(1) |-> {0}],
                   exporter |-> [r \in Ranks(1) |-> {0}]]
      BY DEF PartnerInit, Side
    <2> QED
      BY <2>1, <2>2, <2>3 DEF PartnerInv
  <1>2. PartnerInv /\ [PartnerNext]_pvars => PartnerInv'
    <2> SUFFICES ASSUME PartnerInv, [PartnerNext]_pvars PROVE PartnerInv'
      OBVIOUS
    <2>1. ASSUME NEW i \in 0..MaxRanks, NEW e \in 0..MaxRanks, Compute(i, e)
          PROVE  PartnerInv'
      <3>1. i \in Nat \ {0} /\ e \in Nat \ {0}
        BY <2>1, MaxRanksAssumption DEF Compute
      <3>2. size' \in [Side -> Nat \ {0}] /\ size'["importer"] = i /\ size'["exporter"] = e
        BY <2>1, <3>1 DEF Compute, Side
      <3> QED
        BY <2>1, <3>2 DEF Compute, PartnerInv
    <2>2. CASE UNCHANGED pvars
      BY <2>2 DEF pvars, PartnerInv
    <2> QED
      BY <2>1, <2>2 DEF PartnerNext
  <1> QED
    BY <1>1, <1>2, PTL DEF PartnerSpec

\* For every number of ranks on either side, importer and exporter agree on who
\* talks to whom.
THEOREM PartnersAgreeAlways == PartnerSpec => []PartnersAgree
  <1>1. PartnerInv => PartnersAgree
    <2> SUFFICES ASSUME PartnerInv,
                        NEW i \in Ranks(size["importer"]), NEW e \in Ranks(size["exporter"])
                 PROVE  e \in talks["importer"][i] <=> i \in talks["exporter"][e]
      BY DEF PartnersAgree
    <2>1. size["importer"] \in Nat \ {0} /\ size["exporter"] \in Nat \ {0}
      BY DEF PartnerInv, Side
    <2>2. /\ talks["importer"][i] = AsImporter(i, size["importer"], size["exporter"])
          /\ talks["exporter"][e] = AsExporter(e, size["exporter"], size["importer"])
      BY DEF PartnerInv
    <2> QED
      BY <2>1, <2>2, Duality
  <1> QED
    BY <1>1, PartnerInvHolds, PTL

\* For every number of ranks on either side, every rank of the exporter has a rank
\* to send to.
THEOREM EveryExporterSendsAlways == PartnerSpec => []EveryExporterSends
  <1>1. PartnerInv => EveryExporterSends
    <2> SUFFICES ASSUME PartnerInv, NEW e \in Ranks(size["exporter"])
                 PROVE  /\ talks["exporter"][e] # {}
                        /\ talks["exporter"][e] \subseteq Ranks(size["importer"])
      BY DEF EveryExporterSends
    <2>1. size["importer"] \in Nat \ {0} /\ size["exporter"] \in Nat \ {0}
      BY DEF PartnerInv, Side
    <2>2. talks["exporter"][e] = AsExporter(e, size["exporter"], size["importer"])
      BY DEF PartnerInv
    <2>3. PICK i \in Ranks(size["importer"]) :
             AsExporter(e, size["exporter"], size["importer"]) = {i}
      BY <2>1, SendsToOne
    <2> QED
      BY <2>2, <2>3
  <1> QED
    BY <1>1, PartnerInvHolds, PTL
==============================================================================
