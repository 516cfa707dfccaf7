--------------------------- MODULE ModelPartProofs ---------------------------
(***************************************************************************)
(* The lists of a ModelPart agree, and ImportMesh reproduces the mesh, for *)
(* meshes of any size.                                                     *)
(***************************************************************************)
EXTENDS ModelPart, WellFoundedInduction, SequenceTheorems, FiniteSetTheorems, TLAPS

\* An element whose nodes are the objects of S.
ElementOn(S) == [id : Int, type : DOMAIN ElementSize, nodes : Seq(S)]

PartitionsOn(S) == UNION {[D -> Seq(S)] : D \in SUBSET Int}

Mesh == [nodes : Seq(Nat), local : Seq(Nat), ghost : Seq(Nat),
         partition : PartitionsOn(Nat), elements : Seq(ElementOn(Nat))]

\* The nodes of the list q exist, and no two of them have the same id.
NodesOK(q, id) ==
    /\ \A i \in 1..Len(q) : q[i] \in 1..Len(id)
    /\ \A i, j \in 1..Len(q) : id[q[i]] = id[q[j]] => i = j

\* Every node is in one of the two lists.
HalvesOK(m) ==
    /\ ToSet(m.nodes) = ToSet(m.local) \cup ToSet(m.ghost)
    /\ ToSet(m.local) \cap ToSet(m.ghost) = {}

\* The partitions divide the ghost nodes.
PartitionOK(m) ==
    /\ \A p \in DOMAIN m.partition : ToSet(m.partition[p]) \subseteq ToSet(m.ghost)
    /\ \A a \in ToSet(m.ghost) :
          \E p \in DOMAIN m.partition : a \in ToSet(m.partition[p])
    /\ \A a \in ToSet(m.ghost) : \A p, q \in DOMAIN m.partition :
          a \in ToSet(m.partition[p]) /\ a \in ToSet(m.partition[q]) => p = q

\* Elements point to nodes of the same mesh.
ElementsOK(m) ==
    \A i \in 1..Len(m.elements) : ToSet(m.elements[i].nodes) \subseteq ToSet(m.nodes)

MeshOK(m, id) ==
    m \in Mesh /\ NodesOK(m.nodes, id) /\ HalvesOK(m) /\ PartitionOK(m) /\ ElementsOK(m)

\* The inductive invariant.
MeshInv ==
    /\ ids \in Seq(Int)
    /\ mesh \in [Side -> Mesh]
    /\ \A s \in Side : MeshOK(mesh[s], ids)

-----------------------------------------------------------------------------
(* Sequences.                                                               *)

\* What is in a sequence.
LEMMA InToSet ==
    ASSUME NEW S, NEW q \in Seq(S)
    PROVE  /\ \A x : x \in ToSet(q) <=> \E i \in 1..Len(q) : q[i] = x
           /\ ToSet(q) \subseteq S
  BY DEF ToSet

\* What is in the concatenation of two sequences.
LEMMA ToSetConcat ==
    ASSUME NEW S, NEW q \in Seq(S), NEW r \in Seq(S)
    PROVE  q \o r \in Seq(S) /\ ToSet(q \o r) = ToSet(q) \cup ToSet(r)
  <1>1. /\ q \o r \in Seq(S)
        /\ Len(q \o r) = Len(q) + Len(r)
        /\ \A i \in 1..Len(q \o r) :
              (q \o r)[i] = IF i <= Len(q) THEN q[i] ELSE r[i - Len(q)]
    BY ConcatProperties
  <1>2. ASSUME NEW x \in ToSet(q \o r) PROVE x \in ToSet(q) \cup ToSet(r)
    <2>1. PICK i \in 1..Len(q \o r) : (q \o r)[i] = x
      BY <1>1, InToSet
    <2>2. CASE i <= Len(q)
      <3>1. i \in 1..Len(q) /\ q[i] = x
        BY <1>1, <2>1, <2>2
      <3> QED BY <3>1, InToSet
    <2>3. CASE ~(i <= Len(q))
      <3>1. i - Len(q) \in 1..Len(r) /\ r[i - Len(q)] = x
        BY <1>1, <2>1, <2>3
      <3> QED BY <3>1, InToSet
    <2> QED BY <2>2, <2>3
  <1>3. ASSUME NEW x \in ToSet(q) PROVE x \in ToSet(q \o r)
    <2>1. PICK i \in 1..Len(q) : q[i] = x
      BY InToSet
    <2>2. i \in 1..Len(q \o r) /\ (q \o r)[i] = x
      BY <1>1, <2>1
    <2> QED BY <1>1, <2>2, InToSet
  <1>4. ASSUME NEW x \in ToSet(r) PROVE x \in ToSet(q \o r)
    <2>1. PICK i \in 1..Len(r) : r[i] = x
      BY InToSet
    <2>2. i + Len(q) \in 1..Len(q \o r) /\ (q \o r)[i + Len(q)] = x
      BY <1>1, <2>1
    <2> QED BY <1>1, <2>2, InToSet
  <1> QED BY <1>1, <1>2, <1>3, <1>4

\* A set of natural numbers has a least element.
LEMMA LeastExists ==
    ASSUME NEW S \in SUBSET Nat, S # {}
    PROVE  \E x \in S : \A y \in S : x <= y
  <1> DEFINE R == {ss \in Nat \X Nat : ss[1] < ss[2]}
  <1>1. IsWellFoundedOn(R, Nat)
    BY NatLessThanWellFounded DEF OpToRel
  <1>2. PICK x \in S : \A y \in S : ~(<<y, x>> \in R)
    <2> HIDE DEF R
    <2> QED BY <1>1, WFMin
  <1>3. \A y \in S : x \in Nat /\ y \in Nat /\ (y < x => <<y, x>> \in R)
    OBVIOUS
  <1>4. \A y \in S : x \in Nat /\ y \in Nat /\ ~(y < x)
    BY <1>2, <1>3
  <1> QED BY <1>4

\* The entities that a call creates are those before the first that is refused.
LEMMA CreatedFacts ==
    ASSUME NEW S, NEW q \in Seq(S), NEW good
    PROVE  Created(q, good) \in 0..Len(q) /\ 1..Created(q, good) \subseteq good
  <1> DEFINE N == {n \in 0..Len(q) : 1..n \subseteq good}
             T == {Len(q) - n : n \in N}
  <1>1. Len(q) \in Nat
    OBVIOUS
  <1>2. T \in SUBSET Nat
    BY <1>1
  <1>3. T # {}
    <2>1. 0 \in N
      BY <1>1
    <2> QED BY <2>1
  <1>4. PICK t \in T : \A u \in T : t <= u
    <2> HIDE DEF T
    <2> QED BY <1>2, <1>3, LeastExists
  <1>5. PICK n \in N : t = Len(q) - n
    OBVIOUS
  <1>6. \A k \in N : n >= k
    <2>1. ASSUME NEW k \in N PROVE n >= k
      <3>1. t <= Len(q) - k
        BY <1>4
      <3> QED BY <1>1, <1>5, <3>1
    <2> QED BY <2>1
  <1>7. Max(N) \in N
    <2> HIDE DEF N
    <2> QED BY <1>5, <1>6 DEF Max
  <1> QED BY <1>7 DEF Created

\* InOrder() lists exactly the members of the set.
LEMMA InOrderFacts ==
    ASSUME NEW S \in SUBSET Nat, IsFiniteSet(S)
    PROVE  InOrder(S) \in Seq(S) /\ ToSet(InOrder(S)) = S
  <1> DEFINE below(a) == {b \in S : b <= a}
             f == [a \in S |-> Cardinality(below(a))]
             N == Cardinality(S)
  <1>1. N \in Nat /\ IsFiniteSet(1..N) /\ Cardinality(1..N) = N
    BY FS_CardinalityType, FS_Interval
  <1>2. ASSUME NEW a \in S
        PROVE  /\ IsFiniteSet(below(a)) /\ below(a) # {}
               /\ Cardinality(below(a)) \in 1..N
    <2>1. below(a) \in SUBSET S /\ a \in below(a)
      OBVIOUS
    <2>2. IsFiniteSet(below(a)) /\ Cardinality(below(a)) <= N
      <3> HIDE DEF below
      <3> QED BY <2>1, FS_Subset
    <2>3. Cardinality(below(a)) \in Nat /\ Cardinality(below(a)) # 0
      <3> HIDE DEF below
      <3> QED BY <2>1, <2>2, FS_CardinalityType, FS_EmptySet
    <2> QED BY <1>1, <2>1, <2>2, <2>3
  <1>3. ASSUME NEW a \in S, NEW c \in S, a < c PROVE f[a] # f[c]
    <2>0. a \in Nat /\ c \in Nat /\ \A b \in S : b \in Nat
      OBVIOUS
    <2>1. below(a) \in SUBSET below(c) /\ c \in below(c) /\ c \notin below(a)
      <3>1. ASSUME NEW b \in S PROVE b <= a => b <= c
        BY <1>3, <2>0
      <3>2. c <= c /\ ~(c <= a)
        BY <1>3, <2>0
      <3> QED BY <3>1, <3>2
    <2>2. Cardinality(below(c)) # Cardinality(below(a))
      <3>1. IsFiniteSet(below(c))
        BY <1>2
      <3> HIDE DEF below
      <3> QED BY <2>1, <3>1, FS_Subset
    <2> QED BY <2>2
  <1>4. f \in [S -> 1..N]
    <2> HIDE DEF below, N
    <2> QED BY <1>2
  <1>5. ASSUME NEW a \in S, NEW c \in S, f[a] = f[c] PROVE a = c
    <2> HIDE DEF f
    <2>1. a \in Nat /\ c \in Nat
      OBVIOUS
    <2> QED BY <1>3, <1>5, <2>1
  <1>6. f \in Surjection(S, 1..N)
    <2> HIDE DEF f, N
    <2>1. f \in Injection(S, 1..N)
      BY <1>4, <1>5 DEF Injection, IsInjective
    <2> QED BY <1>1, <2>1, FS_Injection DEF N
  <1>7. \A k \in 1..N : \E a \in S : f[a] = k
    BY <1>6 DEF Surjection
  <1> DEFINE g == InOrder(S)
  <1>8. /\ g = [k \in 1..N |-> g[k]]
        /\ \A k \in 1..N : g[k] = CHOOSE a \in S : Cardinality({b \in S : b <= a}) = k
    BY DEF InOrder
  <1>9. \A k \in 1..N : g[k] \in S /\ f[g[k]] = k
    <2>1. ASSUME NEW k \in 1..N PROVE g[k] \in S /\ f[g[k]] = k
      <3>1. \E a \in S : Cardinality({b \in S : b <= a}) = k
        BY <1>7
      <3>2. g[k] \in S /\ Cardinality({b \in S : b <= g[k]}) = k
        <4> HIDE DEF g
        <4> QED BY <1>8, <3>1
      <3> QED BY <3>2
    <2> QED BY <2>1
  <1>10. \A a \in S : f[a] \in 1..N /\ g[f[a]] = a
    <2> HIDE DEF f, N
    <2> QED BY <1>4, <1>5, <1>9
  <1>11. g \in Seq(S) /\ Len(g) = N
    <2>1. g \in [1..N -> S]
      <3> HIDE DEF g, N, f
      <3> QED BY <1>8, <1>9
    <2> HIDE DEF g, N
    <2> QED BY <1>1, <2>1, SeqDef
  <1>12. \A x : x \in ToSet(g) <=> \E i \in 1..N : g[i] = x
    <2> HIDE DEF g, N
    <2> QED BY <1>11, InToSet
  <1>13. ToSet(g) = S
    <2> HIDE DEF g, N, f
    <2> QED BY <1>9, <1>10, <1>12
  <1> QED BY <1>11, <1>13

-----------------------------------------------------------------------------
(* Creation of nodes.                                                       *)

\* The objects made for n new nodes when there are those of id.
Objects(id, n) == [i \in 1..n |-> Len(id) + i]

\* The new ids differ from each other and from those of the nodes q.
Fresh(q, id, new) ==
    /\ \A i \in 1..Len(new) : \A a \in ToSet(q) : id[a] # new[i]
    /\ \A i, j \in 1..Len(new) : new[i] = new[j] => i = j

\* No object that exists gets another id.
Keeps(id, id2) ==
    Len(id) <= Len(id2) /\ \A a \in 1..Len(id) : id2[a] = id[a]

\* Nodes stay correct when further objects are made.
LEMMA NodesStay ==
    ASSUME NEW q \in Seq(Nat), NEW id \in Seq(Int), NEW id2 \in Seq(Int),
           Keeps(id, id2), NodesOK(q, id)
    PROVE  NodesOK(q, id2)
  <1>1. ASSUME NEW i \in 1..Len(q)
        PROVE  q[i] \in 1..Len(id2) /\ id2[q[i]] = id[q[i]]
    <2>1. q[i] \in 1..Len(id) /\ Len(id) \in Nat /\ Len(id2) \in Nat
      BY DEF NodesOK
    <2> QED BY <2>1 DEF Keeps
  <1> QED BY <1>1 DEF NodesOK

\* The new objects.
LEMMA ObjectsFacts ==
    ASSUME NEW id \in Seq(Int), NEW n \in Nat
    PROVE  /\ Objects(id, n) \in Seq(Nat) /\ Len(Objects(id, n)) = n
           /\ \A i \in 1..n : Objects(id, n)[i] = Len(id) + i
           /\ \A a : a \in ToSet(Objects(id, n)) <=> \E i \in 1..n : a = Len(id) + i
  <1>1. Objects(id, n) \in [1..n -> Nat]
    BY DEF Objects
  <1>2. Objects(id, n) \in Seq(Nat) /\ Len(Objects(id, n)) = n
    BY <1>1, SeqDef
  <1>3. \A i \in 1..n : Objects(id, n)[i] = Len(id) + i
    BY DEF Objects
  <1>4. \A a : a \in ToSet(Objects(id, n)) <=> \E i \in 1..n : Objects(id, n)[i] = a
    BY <1>2, InToSet
  <1>5. \A a : a \in ToSet(Objects(id, n)) <=> \E i \in 1..n : a = Len(id) + i
    BY <1>3, <1>4
  <1> QED BY <1>2, <1>3, <1>5

\* Concatenation keeps the ids.
LEMMA ConcatKeeps ==
    ASSUME NEW id \in Seq(Int), NEW new \in Seq(Int)
    PROVE  /\ id \o new \in Seq(Int) /\ Keeps(id, id \o new)
           /\ Len(id \o new) = Len(id) + Len(new)
           /\ \A i \in 1..Len(new) : (id \o new)[Len(id) + i] = new[i]
  <1>1. /\ id \o new \in Seq(Int) /\ Len(id \o new) = Len(id) + Len(new)
        /\ \A i \in 1..Len(id \o new) :
              (id \o new)[i] = IF i <= Len(id) THEN id[i] ELSE new[i - Len(id)]
    BY ConcatProperties
  <1>2. Len(id) \in Nat /\ Len(new) \in Nat
    OBVIOUS
  <1>3. Keeps(id, id \o new)
    BY <1>1, <1>2 DEF Keeps
  <1>4. ASSUME NEW i \in 1..Len(new) PROVE (id \o new)[Len(id) + i] = new[i]
    <2>1. Len(id) + i \in 1..Len(id \o new) /\ ~(Len(id) + i <= Len(id))
          /\ (Len(id) + i) - Len(id) = i
      BY <1>1, <1>2
    <2> QED BY <1>1, <2>1
  <1> QED BY <1>1, <1>3, <1>4

\* New nodes are added to the list of all nodes.
LEMMA NodesAdded ==
    ASSUME NEW q \in Seq(Nat), NEW id \in Seq(Int), NEW new \in Seq(Int),
           NodesOK(q, id), Fresh(q, id, new)
    PROVE  /\ NodesOK(q \o Objects(id, Len(new)), id \o new)
           /\ ToSet(q) \cap ToSet(Objects(id, Len(new))) = {}
  <1> DEFINE r   == Objects(id, Len(new))
             id2 == id \o new
  <1>1. /\ r \in Seq(Nat) /\ Len(r) = Len(new)
        /\ \A i \in 1..Len(r) : r[i] = Len(id) + i
        /\ \A a : a \in ToSet(r) <=> \E i \in 1..Len(new) : a = Len(id) + i
    <2>1. Len(new) \in Nat
      OBVIOUS
    <2> QED BY <2>1, ObjectsFacts
  <1>2. /\ id2 \in Seq(Int) /\ Keeps(id, id2) /\ Len(id2) = Len(id) + Len(new)
        /\ \A i \in 1..Len(new) : id2[Len(id) + i] = new[i]
    BY ConcatKeeps
  <1> HIDE DEF r, id2
  <1>3. /\ q \o r \in Seq(Nat) /\ Len(q \o r) = Len(q) + Len(r)
        /\ \A i \in 1..Len(q \o r) :
              (q \o r)[i] = IF i <= Len(q) THEN q[i] ELSE r[i - Len(q)]
    BY <1>1, ConcatProperties
  <1>4. Len(id) \in Nat /\ Len(new) \in Nat /\ Len(q) \in Nat
    OBVIOUS
  <1>5. ASSUME NEW i \in 1..Len(q)
        PROVE  /\ (q \o r)[i] \in 1..Len(id) /\ (q \o r)[i] = q[i]
               /\ id2[(q \o r)[i]] = id[q[i]]
    <2>1. (q \o r)[i] = q[i]
      BY <1>1, <1>3, <1>4
    <2>2. q[i] \in 1..Len(id)
      BY DEF NodesOK
    <2> QED BY <1>2, <2>1, <2>2 DEF Keeps
  <1>6. ASSUME NEW i \in 1..Len(q \o r), i \notin 1..Len(q)
        PROVE  /\ i - Len(q) \in 1..Len(new)
               /\ (q \o r)[i] = Len(id) + (i - Len(q))
               /\ id2[(q \o r)[i]] = new[i - Len(q)]
    <2>1. i - Len(q) \in 1..Len(new) /\ ~(i <= Len(q))
      BY <1>1, <1>3, <1>4, <1>6
    <2>2. (q \o r)[i] = Len(id) + (i - Len(q))
      BY <1>1, <1>3, <2>1
    <2> QED BY <1>2, <2>1, <2>2
  <1>7. \A i \in 1..Len(q \o r) : (q \o r)[i] \in 1..Len(id2)
    <2>1. ASSUME NEW i \in 1..Len(q \o r), i \in 1..Len(q)
          PROVE  (q \o r)[i] \in 1..Len(id2)
      BY <1>2, <1>4, <1>5, <2>1
    <2>2. ASSUME NEW i \in 1..Len(q \o r), i \notin 1..Len(q)
          PROVE  (q \o r)[i] \in 1..Len(id2)
      <3>1. i - Len(q) \in 1..Len(new) /\ (q \o r)[i] = Len(id) + (i - Len(q))
        BY <1>6, <2>2
      <3>2. ASSUME NEW a \in Nat, NEW b \in Nat, NEW k \in 1..b
            PROVE  a + k \in 1..(a + b)
        OBVIOUS
      <3>3. (q \o r)[i] \in 1..(Len(id) + Len(new))
        BY <1>4, <3>1, <3>2, Zenon
      <3>4. Len(id2) = Len(id) + Len(new)
        BY <1>2
      <3> QED BY <3>3, <3>4, Zenon
    <2> QED BY <2>1, <2>2
  <1>8. ASSUME NEW i \in 1..Len(q), NEW j \in 1..Len(new)
        PROVE  id[q[i]] # new[j]
    <2>1. q[i] \in ToSet(q)
      BY InToSet
    <2> QED BY <2>1 DEF Fresh
  <1>9. ASSUME NEW i \in 1..Len(q \o r), NEW j \in 1..Len(q \o r),
               id2[(q \o r)[i]] = id2[(q \o r)[j]]
        PROVE  i = j
    <2>1. CASE i \in 1..Len(q) /\ j \in 1..Len(q)
      <3>1. id[q[i]] = id[q[j]]
        BY <1>5, <1>9, <2>1
      <3> QED BY <2>1, <3>1 DEF NodesOK
    <2>2. CASE i \in 1..Len(q) /\ j \notin 1..Len(q)
      <3>1. id[q[i]] = new[j - Len(q)] /\ j - Len(q) \in 1..Len(new)
        BY <1>5, <1>6, <1>9, <2>2
      <3> QED BY <1>8, <2>2, <3>1
    <2>3. CASE i \notin 1..Len(q) /\ j \in 1..Len(q)
      <3>1. id[q[j]] = new[i - Len(q)] /\ i - Len(q) \in 1..Len(new)
        BY <1>5, <1>6, <1>9, <2>3
      <3> QED BY <1>8, <2>3, <3>1
    <2>4. CASE i \notin 1..Len(q) /\ j \notin 1..Len(q)
      <3>1. /\ i - Len(q) \in 1..Len(new) /\ j - Len(q) \in 1..Len(new)
            /\ new[i - Len(q)] = new[j - Len(q)]
        BY <1>6, <1>9, <2>4
      <3>2. i - Len(q) = j - Len(q)
        BY <3>1 DEF Fresh
      <3> QED BY <1>3, <1>4, <3>2
    <2> QED BY <2>1, <2>2, <2>3, <2>4
  <1>10. NodesOK(q \o r, id2)
    BY <1>7, <1>9 DEF NodesOK
  <1>11. ASSUME NEW a \in ToSet(q), a \in ToSet(r) PROVE FALSE
    <2>1. a \in 1..Len(id)
      <3>1. PICK i \in 1..Len(q) : q[i] = a
        BY InToSet
      <3> QED BY <3>1 DEF NodesOK
    <2>2. PICK i \in 1..Len(new) : a = Len(id) + i
      BY <1>1, <1>11
    <2> QED BY <1>4, <2>1, <2>2
  <1> QED BY <1>10, <1>11 DEF r, id2

\* The fields of a mesh.
LEMMA MeshFields ==
    ASSUME NEW m \in Mesh
    PROVE  /\ m.nodes \in Seq(Nat) /\ m.local \in Seq(Nat) /\ m.ghost \in Seq(Nat)
           /\ m.partition \in PartitionsOn(Nat)
           /\ m.partition = [p \in DOMAIN m.partition |-> m.partition[p]]
           /\ DOMAIN m.partition \subseteq Int
           /\ \A p \in DOMAIN m.partition : m.partition[p] \in Seq(Nat)
           /\ m.elements \in Seq(ElementOn(Nat))
           /\ \A i \in 1..Len(m.elements) : m.elements[i] \in ElementOn(Nat)
  <1>1. /\ m.nodes \in Seq(Nat) /\ m.local \in Seq(Nat) /\ m.ghost \in Seq(Nat)
        /\ m.partition \in PartitionsOn(Nat) /\ m.elements \in Seq(ElementOn(Nat))
    BY DEF Mesh
  <1>2. PICK D \in SUBSET Int : m.partition \in [D -> Seq(Nat)]
    BY <1>1 DEF PartitionsOn
  <1>3. \A i \in 1..Len(m.elements) : m.elements[i] \in ElementOn(Nat)
    BY <1>1, ElementOfSeq
  <1> QED BY <1>1, <1>2, <1>3

\* A function from integers to lists of nodes is what partition can be.
LEMMA IsPartitions ==
    ASSUME NEW D \in SUBSET Int, NEW f \in [D -> Seq(Nat)]
    PROVE  f \in PartitionsOn(Nat)
  BY DEF PartitionsOn

\* Local nodes are created.
LEMMA LocalNodesOK ==
    ASSUME NEW id \in Seq(Int), NEW new \in Seq(Int), NEW m, MeshOK(m, id),
           Fresh(m.nodes, id, new)
    PROVE  MeshOK([m EXCEPT !.nodes = @ \o Objects(id, Len(new)),
                            !.local = @ \o Objects(id, Len(new))], id \o new)
  <1> DEFINE r  == Objects(id, Len(new))
             m2 == [m EXCEPT !.nodes = @ \o r, !.local = @ \o r]
  <1>1. m \in Mesh /\ Len(new) \in Nat
    BY DEF MeshOK
  <1>2. r \in Seq(Nat)
    BY <1>1, ObjectsFacts
  <1>3. /\ NodesOK(m.nodes \o r, id \o new)
        /\ ToSet(m.nodes) \cap ToSet(r) = {}
    BY <1>1, MeshFields, NodesAdded DEF MeshOK
  <1> HIDE DEF r
  <1>4. /\ m.nodes \o r \in Seq(Nat) /\ ToSet(m.nodes \o r) = ToSet(m.nodes) \cup ToSet(r)
        /\ m.local \o r \in Seq(Nat) /\ ToSet(m.local \o r) = ToSet(m.local) \cup ToSet(r)
    <2>1. m.nodes \in Seq(Nat) /\ m.local \in Seq(Nat)
      BY <1>1, MeshFields
    <2>2. m.nodes \o r \in Seq(Nat) /\ ToSet(m.nodes \o r) = ToSet(m.nodes) \cup ToSet(r)
      BY <1>2, <2>1, ToSetConcat
    <2>3. m.local \o r \in Seq(Nat) /\ ToSet(m.local \o r) = ToSet(m.local) \cup ToSet(r)
      BY <1>2, <2>1, ToSetConcat
    <2> QED BY <2>2, <2>3
  <1>5. /\ m2.nodes = m.nodes \o r /\ m2.local = m.local \o r /\ m2.ghost = m.ghost
        /\ m2.partition = m.partition /\ m2.elements = m.elements
        /\ m2 \in Mesh
    BY <1>1, <1>4 DEF Mesh
  <1> HIDE DEF m2
  <1>6. HalvesOK(m2)
    BY <1>3, <1>4, <1>5 DEF HalvesOK, MeshOK
  <1>7. PartitionOK(m2)
    BY <1>5 DEF PartitionOK, MeshOK
  <1>8. ElementsOK(m2)
    BY <1>4, <1>5 DEF ElementsOK, MeshOK
  <1>9. MeshOK(m2, id \o new)
    BY <1>3, <1>5, <1>6, <1>7, <1>8 DEF MeshOK
  <1> QED BY <1>9 DEF m2, r

\* The partitions after the creation of ghost nodes.
NewPartitions(old, id, parts, n) ==
    [p \in DOMAIN old \cup {parts[i] : i \in 1..n} |->
        ListOf(old, p) \o
            InOrder({Objects(id, n)[i] : i \in {j \in 1..n : parts[j] = p}})]

\* The old and the new nodes of a partition, and the partitions there are then.
OldIn(old, p) == ToSet(ListOf(old, p))

NewIn(id, parts, n, p) == {Len(id) + i : i \in {j \in 1..n : parts[j] = p}}

PartitionsThen(old, parts, n) == DOMAIN old \cup {parts[i] : i \in 1..n}

\* The lists f of the partitions after n ghost nodes were added to those of old.
DividesThen(f, old, id, parts, n) ==
    /\ f \in [PartitionsThen(old, parts, n) -> Seq(Nat)]
    /\ f \in PartitionsOn(Nat)
    /\ \A p \in PartitionsThen(old, parts, n) :
          ToSet(f[p]) = OldIn(old, p) \cup NewIn(id, parts, n, p)

\* A new ghost node is in the list of its partition, the old ones stay where they are.
LEMMA NewPartitionsFacts ==
    ASSUME NEW id \in Seq(Int), NEW n \in Nat, NEW parts,
           \A i \in 1..n : parts[i] \in Int,
           NEW old \in PartitionsOn(Nat)
    PROVE  DividesThen(NewPartitions(old, id, parts, n), old, id, parts, n)
  <1> DEFINE D == PartitionsThen(old, parts, n)
             S(p) == {Objects(id, n)[i] : i \in {j \in 1..n : parts[j] = p}}
             f == NewPartitions(old, id, parts, n)
  <1>0. DOMAIN old \subseteq Int /\ \A p \in DOMAIN old : old[p] \in Seq(Nat)
    BY DEF PartitionsOn
  <1>1. D \in SUBSET Int
    BY <1>0 DEF PartitionsThen
  <1>2. ASSUME NEW p \in D
        PROVE  /\ S(p) = NewIn(id, parts, n, p)
               /\ S(p) \in SUBSET Nat /\ IsFiniteSet(S(p))
    <2>1. \A i \in 1..n : Objects(id, n)[i] = Len(id) + i /\ Len(id) + i \in Nat
      <3>1. \A i \in 1..n : Objects(id, n)[i] = Len(id) + i
        BY ObjectsFacts
      <3>2. Len(id) \in Nat
        OBVIOUS
      <3> QED BY <3>1, <3>2
    <2>2. S(p) = NewIn(id, parts, n, p)
      BY <2>1 DEF NewIn
    <2>3. S(p) \in SUBSET Nat
      BY <2>1
    <2>4. \A a \in S(p) : a <= Len(id) + n
      BY <2>1
    <2>5. Len(id) + n \in Nat
      OBVIOUS
    <2>6. IsFiniteSet(S(p))
      <3> HIDE DEF S
      <3> QED BY <2>3, <2>4, <2>5, FS_BoundedSetOfNaturals
    <2> QED BY <2>2, <2>3, <2>6
  <1>3. ASSUME NEW p \in D
        PROVE  /\ InOrder(S(p)) \in Seq(Nat) /\ ToSet(InOrder(S(p))) = S(p)
    <2>1. S(p) \in SUBSET Nat /\ IsFiniteSet(S(p))
      BY <1>2
    <2> HIDE DEF S
    <2> QED BY <2>1, InOrderFacts, SeqMonotonic
  <1>4. ASSUME NEW p \in D PROVE ListOf(old, p) \in Seq(Nat)
    <2>1. << >> \in Seq(Nat)
      OBVIOUS
    <2> QED BY <1>0, <2>1 DEF ListOf
  <1>5. ASSUME NEW p \in D
        PROVE  /\ f[p] = ListOf(old, p) \o InOrder(S(p))
               /\ f[p] \in Seq(Nat)
               /\ ToSet(f[p]) = ToSet(ListOf(old, p)) \cup S(p)
    <2>1. f[p] = ListOf(old, p) \o InOrder(S(p))
      BY DEF NewPartitions, PartitionsThen
    <2> HIDE DEF f, S
    <2> QED BY <1>3, <1>4, <2>1, ToSetConcat
  <1>6. DOMAIN f = D /\ f = [p \in D |-> f[p]]
    BY DEF NewPartitions, PartitionsThen
  <1>7. f \in [D -> Seq(Nat)]
    <2> HIDE DEF f, D, S
    <2> QED BY <1>5, <1>6
  <1>8. f \in PartitionsOn(Nat)
    <2> HIDE DEF f, D, S
    <2> QED BY <1>1, <1>7, IsPartitions
  <1>9. ASSUME NEW p \in D
        PROVE  ToSet(f[p]) = OldIn(old, p) \cup NewIn(id, parts, n, p)
    <2>1. S(p) = NewIn(id, parts, n, p)
      BY <1>2
    <2> HIDE DEF f, S
    <2> QED BY <1>5, <2>1 DEF OldIn
  <1> HIDE DEF S
  <1> HIDE DEF f
  <1>10. DividesThen(f, old, id, parts, n)
    BY <1>7, <1>8, <1>9 DEF DividesThen
  <1> QED BY <1>10 DEF f

\* Ghost nodes are created.
LEMMA GhostNodesOK ==
    ASSUME NEW id \in Seq(Int), NEW new \in Seq(Int), NEW m, MeshOK(m, id),
           Fresh(m.nodes, id, new),
           NEW parts, \A i \in 1..Len(new) : parts[i] \in Int
    PROVE  MeshOK([m EXCEPT !.nodes = @ \o Objects(id, Len(new)),
                            !.ghost = @ \o Objects(id, Len(new)),
                            !.partition = NewPartitions(@, id, parts, Len(new))],
                  id \o new)
  <1> DEFINE n   == Len(new)
             r   == Objects(id, n)
             old == m.partition
             f   == NewPartitions(old, id, parts, n)
             m2  == [m EXCEPT !.nodes = @ \o r, !.ghost = @ \o r, !.partition = f]
             D   == PartitionsThen(old, parts, n)
             S(p) == NewIn(id, parts, n, p)
  <1>1. m \in Mesh /\ n \in Nat /\ Len(id) \in Nat
    BY DEF MeshOK
  <1>2. r \in Seq(Nat) /\ \A a : a \in ToSet(r) <=> \E i \in 1..n : a = Len(id) + i
    <2> HIDE DEF n
    <2> QED BY <1>1, ObjectsFacts
  <1>3. /\ NodesOK(m.nodes \o r, id \o new)
        /\ ToSet(m.nodes) \cap ToSet(r) = {}
    BY <1>1, MeshFields, NodesAdded DEF MeshOK
  <1>4. /\ DOMAIN f = D /\ f \in PartitionsOn(Nat)
        /\ \A p \in D : ToSet(f[p])
              = OldIn(old, p) \cup S(p)
    <2>1. old \in PartitionsOn(Nat)
      BY <1>1, MeshFields
    <2>2. \A i \in 1..n : parts[i] \in Int
      OBVIOUS
    <2> HIDE DEF n, old, m2
    <2>3. DividesThen(f, old, id, parts, n)
      BY <1>1, <2>1, <2>2, NewPartitionsFacts
    <2> HIDE DEF f
    <2> QED BY <2>3 DEF DividesThen
  <1> HIDE DEF r, f, n, D
  <1>5. /\ m.nodes \o r \in Seq(Nat) /\ ToSet(m.nodes \o r) = ToSet(m.nodes) \cup ToSet(r)
        /\ m.ghost \o r \in Seq(Nat) /\ ToSet(m.ghost \o r) = ToSet(m.ghost) \cup ToSet(r)
    <2>1. m.nodes \in Seq(Nat) /\ m.ghost \in Seq(Nat)
      BY <1>1, MeshFields
    <2>2. m.nodes \o r \in Seq(Nat) /\ ToSet(m.nodes \o r) = ToSet(m.nodes) \cup ToSet(r)
      BY <1>2, <2>1, ToSetConcat
    <2>3. m.ghost \o r \in Seq(Nat) /\ ToSet(m.ghost \o r) = ToSet(m.ghost) \cup ToSet(r)
      BY <1>2, <2>1, ToSetConcat
    <2> QED BY <2>2, <2>3
  <1>6. /\ m2.nodes = m.nodes \o r /\ m2.ghost = m.ghost \o r /\ m2.local = m.local
        /\ m2.partition = f /\ m2.elements = m.elements
        /\ m2 \in Mesh
    BY <1>1, <1>4, <1>5 DEF Mesh
  <1> HIDE DEF m2
  <1>7. HalvesOK(m2)
    BY <1>3, <1>5, <1>6 DEF HalvesOK, MeshOK
  <1>8. /\ \A p \in DOMAIN old : ToSet(old[p]) \subseteq ToSet(m.ghost)
        /\ \A a \in ToSet(m.ghost) : \E p \in DOMAIN old : a \in ToSet(old[p])
        /\ \A a \in ToSet(m.ghost) : \A p, q \in DOMAIN old :
              a \in ToSet(old[p]) /\ a \in ToSet(old[q]) => p = q
        /\ ToSet(m.ghost) \cap ToSet(r) = {}
    BY <1>3 DEF PartitionOK, HalvesOK, MeshOK
  <1>13. << >> \in Seq(Nat) /\ ToSet(<< >>) = {}
    BY DEF ToSet
  <1>14. \A p : OldIn(old, p) = IF p \in DOMAIN old THEN ToSet(old[p]) ELSE {}
    BY <1>13 DEF OldIn, ListOf
  <1> HIDE DEF old
  <1>9. ASSUME NEW p \in D
        PROVE  S(p) \subseteq ToSet(r)
    BY <1>2 DEF NewIn
  <1>10. PartitionOK(m2)
    <2>1. ASSUME NEW p \in DOMAIN f PROVE ToSet(f[p]) \subseteq ToSet(m2.ghost)
      <3>1. p \in D /\ ToSet(f[p]) = OldIn(old, p) \cup S(p) /\ S(p) \subseteq ToSet(r)
        BY <1>4, <1>9
      <3>2. OldIn(old, p) \subseteq ToSet(m.ghost)
        <4>1. CASE p \in DOMAIN old
          BY <1>8, <1>14, <4>1
        <4>2. CASE p \notin DOMAIN old
          BY <1>14, <4>2
        <4> QED BY <4>1, <4>2
      <3>3. ToSet(m2.ghost) = ToSet(m.ghost) \cup ToSet(r)
        BY <1>5, <1>6
      <3> HIDE DEF S
      <3> QED BY <3>1, <3>2, <3>3
    <2>2. ASSUME NEW a \in ToSet(m.ghost) PROVE \E p \in DOMAIN f : a \in ToSet(f[p])
      <3>1. PICK p \in DOMAIN old : a \in ToSet(old[p])
        BY <1>8
      <3>2. p \in D
        BY DEF D, PartitionsThen
      <3> HIDE DEF S
      <3> QED BY <1>4, <1>14, <3>1, <3>2
    <2>3. ASSUME NEW a \in ToSet(r) PROVE \E p \in DOMAIN f : a \in ToSet(f[p])
      <3>1. PICK i \in 1..n : a = Len(id) + i
        BY <1>2
      <3>2. parts[i] \in D /\ a \in S(parts[i])
        BY <3>1 DEF D, PartitionsThen, NewIn
      <3> HIDE DEF S
      <3> QED BY <1>4, <3>2
    <2>4. ASSUME NEW a \in ToSet(m.ghost), NEW p \in D, a \in ToSet(f[p])
          PROVE  p \in DOMAIN old /\ a \in ToSet(old[p])
      <3> HIDE DEF S
      <3> QED BY <1>4, <1>8, <1>9, <1>14, <2>4
    <2>5. ASSUME NEW i \in 1..n, NEW p \in D, Len(id) + i \in ToSet(f[p])
          PROVE  p = parts[i]
      <3>1. Len(id) + i \in ToSet(r)
        BY <1>2
      <3>2. Len(id) + i \in S(p)
        <4> HIDE DEF S
        <4> QED BY <1>4, <1>8, <1>14, <2>5, <3>1
      <3>3. PICK j \in 1..n : parts[j] = p /\ Len(id) + i = Len(id) + j
        BY <3>2 DEF NewIn
      <3>4. i = j
        BY <1>1, <3>3
      <3> QED BY <3>3, <3>4
    <2>6. ASSUME NEW a \in ToSet(m2.ghost), NEW p \in DOMAIN f, NEW q \in DOMAIN f,
                 a \in ToSet(f[p]), a \in ToSet(f[q])
          PROVE  p = q
      <3>1. CASE a \in ToSet(m.ghost)
        BY <1>4, <1>8, <2>4, <2>6, <3>1
      <3>2. CASE a \in ToSet(r)
        <4>1. PICK i \in 1..n : a = Len(id) + i
          BY <1>2, <3>2
        <4>2. p = parts[i] /\ q = parts[i]
          BY <1>4, <2>5, <2>6, <4>1
        <4> QED BY <4>2
      <3> QED BY <1>5, <1>6, <3>1, <3>2
    <2> QED BY <1>5, <1>6, <2>1, <2>2, <2>3, <2>6 DEF PartitionOK
  <1>11. ElementsOK(m2)
    BY <1>5, <1>6 DEF ElementsOK, MeshOK
  <1>12. MeshOK(m2, id \o new)
    BY <1>3, <1>6, <1>7, <1>10, <1>11 DEF MeshOK
  <1> QED BY <1>12 DEF m2, r, f, n, old

\* Elements are added that point to nodes of the mesh.
LEMMA NewElementsOK ==
    ASSUME NEW id, NEW m, MeshOK(m, id), NEW new \in Seq(ElementOn(Nat)),
           \A i \in 1..Len(new) : ToSet(new[i].nodes) \subseteq ToSet(m.nodes)
    PROVE  MeshOK([m EXCEPT !.elements = @ \o new], id)
  <1> DEFINE e  == m.elements
             m2 == [m EXCEPT !.elements = @ \o new]
  <1>1. m \in Mesh /\ e \in Seq(ElementOn(Nat))
    BY MeshFields DEF MeshOK
  <1>2. /\ e \o new \in Seq(ElementOn(Nat)) /\ Len(e \o new) = Len(e) + Len(new)
        /\ \A i \in 1..Len(e \o new) :
              (e \o new)[i] = IF i <= Len(e) THEN e[i] ELSE new[i - Len(e)]
    <2> HIDE DEF e
    <2> QED BY <1>1, ConcatProperties
  <1>3. /\ m2.nodes = m.nodes /\ m2.ghost = m.ghost /\ m2.local = m.local
        /\ m2.partition = m.partition /\ m2.elements = e \o new
        /\ m2 \in Mesh
    BY <1>1, <1>2 DEF Mesh
  <1> HIDE DEF m2
  <1>4. ASSUME NEW i \in 1..Len(e \o new)
        PROVE  ToSet((e \o new)[i].nodes) \subseteq ToSet(m.nodes)
    <2>1. Len(e) \in Nat /\ Len(new) \in Nat
      BY <1>1
    <2>2. \A j \in 1..Len(e) : ToSet(e[j].nodes) \subseteq ToSet(m.nodes)
      BY DEF MeshOK, ElementsOK
    <2> HIDE DEF e
    <2>3. CASE i <= Len(e)
      <3>1. i \in 1..Len(e) /\ (e \o new)[i] = e[i]
        BY <1>2, <2>1, <2>3
      <3> QED BY <2>2, <3>1
    <2>4. CASE ~(i <= Len(e))
      <3>1. i - Len(e) \in 1..Len(new) /\ (e \o new)[i] = new[i - Len(e)]
        BY <1>2, <2>1, <2>4
      <3> QED BY <3>1
    <2> QED BY <2>3, <2>4
  <1>5. ElementsOK(m2)
    BY <1>3, <1>4 DEF ElementsOK
  <1>6. MeshOK(m2, id)
    BY <1>3, <1>5 DEF MeshOK, HalvesOK, PartitionOK
  <1> QED BY <1>6 DEF m2

\* A cleared ModelPart has no entities that could disagree.
LEMMA EmptyOK ==
    ASSUME NEW id
    PROVE  MeshOK(Empty, id)
  <1>1. /\ << >> \in Seq(Nat) /\ << >> \in Seq(ElementOn(Nat)) /\ Len(<< >>) = 0
        /\ << >> \in [{} -> Seq(Nat)] /\ DOMAIN << >> = {}
    OBVIOUS
  <1>2. << >> \in PartitionsOn(Nat)
    BY <1>1, IsPartitions
  <1>3. Empty \in Mesh
    BY <1>1, <1>2 DEF Empty, Mesh
  <1>4. /\ Empty.nodes = << >> /\ Empty.local = << >> /\ Empty.ghost = << >>
        /\ Empty.partition = << >> /\ Empty.elements = << >>
    BY DEF Empty
  <1>5. ToSet(<< >>) = {}
    BY <1>1 DEF ToSet
  <1>6. NodesOK(Empty.nodes, id) /\ HalvesOK(Empty)
    BY <1>1, <1>4, <1>5 DEF NodesOK, HalvesOK
  <1>7. PartitionOK(Empty) /\ ElementsOK(Empty)
    BY <1>1, <1>4, <1>5 DEF PartitionOK, ElementsOK
  <1> QED BY <1>3, <1>6, <1>7 DEF MeshOK

-----------------------------------------------------------------------------
(* The actions that create and delete.                                      *)

\* A call changes the mesh of one side, and keeps the ids of what exists.
LEMMA OneSide ==
    ASSUME MeshInv, NEW s \in Side, NEW m,
           mesh' = [t \in Side |-> IF t = s THEN m ELSE mesh[t]],
           ids' \in Seq(Int), Keeps(ids, ids'), MeshOK(m, ids')
    PROVE  MeshInv'
  <1>1. mesh' \in [Side -> Mesh]
    BY DEF MeshInv, MeshOK
  <1>2. ASSUME NEW t \in Side PROVE MeshOK(mesh'[t], ids')
    <2>1. CASE t = s
      BY <2>1 DEF MeshInv
    <2>2. CASE t # s
      <3>1. mesh'[t] = mesh[t] /\ MeshOK(mesh[t], ids) /\ ids \in Seq(Int)
        BY <2>2 DEF MeshInv
      <3>2. mesh[t].nodes \in Seq(Nat)
        BY <3>1, MeshFields DEF MeshOK
      <3>3. NodesOK(mesh[t].nodes, ids')
        BY <3>1, <3>2, NodesStay DEF MeshOK
      <3> QED BY <3>1, <3>3 DEF MeshOK
    <2> QED BY <2>1, <2>2
  <1> QED BY <1>1, <1>2 DEF MeshInv

\* The arguments of a call.
LEMMA ListsFacts ==
    ASSUME NEW S, NEW max \in Nat, NEW q \in Lists(S, max)
    PROVE  q \in Seq(S)
  <1>1. PICK n \in 1..max : q \in [1..n -> S]
    BY DEF Lists
  <1> QED BY <1>1, SeqDef

\* The nodes a call creates are fresh.
LEMMA FreshCreated ==
    ASSUME MeshInv, NEW s \in Side, NEW newIds \in Seq(Int), NEW good,
           \A i \in good : /\ newIds[i] \notin NodeIdsOf(s)
                           /\ \A j \in 1..(i - 1) : newIds[j] # newIds[i],
           NEW new, new = SubSeq(newIds, 1, Created(newIds, good))
    PROVE  /\ new \in Seq(Int) /\ Len(new) = Created(newIds, good)
           /\ Len(new) \in 0..Len(newIds)
           /\ Fresh(mesh[s].nodes, ids, new)
  <1> DEFINE n == Created(newIds, good)
  <1>1. n \in 0..Len(newIds) /\ 1..n \subseteq good
    BY CreatedFacts
  <1> HIDE DEF n
  <1>2. Len(newIds) \in Nat
    OBVIOUS
  <1>3. new \in Seq(Int) /\ Len(new) = n /\ \A i \in 1..n : new[i] = newIds[i]
    <2>1. /\ SubSeq(newIds, 1, n) \in Seq(Int)
          /\ Len(SubSeq(newIds, 1, n)) = n
          /\ \A i \in 1..n : SubSeq(newIds, 1, n)[i] = newIds[i]
      BY <1>1, <1>2
    <2> QED BY <2>1 DEF n
  <1>4. ASSUME NEW i \in 1..Len(new), NEW a \in ToSet(mesh[s].nodes)
        PROVE  ids[a] # new[i]
    <2>1. i \in good /\ new[i] = newIds[i]
      BY <1>1, <1>3
    <2> QED BY <2>1 DEF NodeIdsOf
  <1>5. ASSUME NEW i \in 1..Len(new), NEW j \in 1..Len(new), i < j
        PROVE  new[i] # new[j]
    <2>1. j \in good /\ i \in 1..(j - 1) /\ new[i] = newIds[i] /\ new[j] = newIds[j]
      BY <1>1, <1>3, <1>5
    <2> QED BY <2>1
  <1>6. ASSUME NEW i \in 1..Len(new), NEW j \in 1..Len(new), new[i] = new[j]
        PROVE  i = j
    <2>1. ~(i < j) /\ ~(j < i)
      BY <1>5, <1>6
    <2>2. i \in Int /\ j \in Int
      BY <1>1, <1>3
    <2> QED BY <2>1, <2>2
  <1> QED BY <1>1, <1>3, <1>4, <1>6 DEF Fresh, n

\* CreateNewNodes().
LEMMA NodesInv ==
    ASSUME MeshInv, NEW s \in Side, NEW newIds \in Seq(Int),
           CreateNewNodes(s, newIds)
    PROVE  MeshInv'
  <1> DEFINE good == {i \in DOMAIN newIds :
                        /\ newIds[i] >= 1
                        /\ newIds[i] \notin NodeIdsOf(s)
                        /\ \A j \in 1..(i - 1) : newIds[j] # newIds[i]}
             n    == Created(newIds, good)
             new  == SubSeq(newIds, 1, n)
             r    == Objects(ids, Len(new))
             m    == [mesh[s] EXCEPT !.nodes = @ \o r, !.local = @ \o r]
  <1>1. /\ ids' = ids \o new
        /\ mesh' = [mesh EXCEPT ![s].nodes = @ \o New(n), ![s].local = @ \o New(n)]
    BY DEF CreateNewNodes
  <1>2. \A i \in good : /\ newIds[i] \notin NodeIdsOf(s)
                        /\ \A j \in 1..(i - 1) : newIds[j] # newIds[i]
    OBVIOUS
  <1> HIDE DEF good
  <1>3. /\ new \in Seq(Int) /\ Len(new) = n
        /\ Fresh(mesh[s].nodes, ids, new)
    BY <1>2, FreshCreated
  <1>4. New(n) = r
    BY <1>3 DEF New, Objects
  <1> HIDE DEF new, n
  <1>5. ids \in Seq(Int) /\ mesh \in [Side -> Mesh] /\ MeshOK(mesh[s], ids)
    BY DEF MeshInv
  <1>6. MeshOK(m, ids \o new)
    BY <1>3, <1>5, LocalNodesOK
  <1>7. mesh' = [t \in Side |-> IF t = s THEN m ELSE mesh[t]]
    <2> HIDE DEF r
    <2> QED BY <1>1, <1>4, <1>5
  <1>8. ids' \in Seq(Int) /\ Keeps(ids, ids')
    BY <1>1, <1>3, <1>5, ConcatKeeps
  <1> HIDE DEF m
  <1> QED BY <1>1, <1>6, <1>7, <1>8, OneSide

\* CreateNewGhostNodes().
LEMMA GhostNodesInv ==
    ASSUME MeshInv, NEW s \in Side, NEW newIds \in Seq(Int),
           NEW parts \in [1..Len(newIds) -> Int],
           CreateNewGhostNodes(s, newIds, parts)
    PROVE  MeshInv'
  <1> DEFINE good == {i \in DOMAIN newIds :
                        /\ newIds[i] \notin NodeIdsOf(s)
                        /\ parts[i] >= 0
                        /\ newIds[i] >= 1
                        /\ \A j \in 1..(i - 1) : newIds[j] # newIds[i]}
             n    == Created(newIds, good)
             new  == SubSeq(newIds, 1, n)
             r    == Objects(ids, Len(new))
             f    == NewPartitions(mesh[s].partition, ids, parts, Len(new))
             m    == [mesh[s] EXCEPT !.nodes = @ \o r, !.ghost = @ \o r, !.partition = f]
             g    == [p \in DOMAIN mesh[s].partition \cup {parts[i] : i \in 1..n} |->
                        ListOf(mesh[s].partition, p) \o
                          InOrder({New(n)[i] : i \in {j \in 1..n : parts[j] = p}})]
  <1>1. /\ ids' = ids \o new
        /\ mesh' = [mesh EXCEPT ![s].nodes = @ \o New(n), ![s].ghost = @ \o New(n),
                                ![s].partition = g]
    BY DEF CreateNewGhostNodes
  <1>2. \A i \in good : /\ newIds[i] \notin NodeIdsOf(s)
                        /\ \A j \in 1..(i - 1) : newIds[j] # newIds[i]
    OBVIOUS
  <1> HIDE DEF good
  <1>3. /\ new \in Seq(Int) /\ Len(new) = n /\ n \in 0..Len(newIds)
        /\ Fresh(mesh[s].nodes, ids, new)
    <2>1. /\ new \in Seq(Int) /\ Len(new) = n /\ Len(new) \in 0..Len(newIds)
          /\ Fresh(mesh[s].nodes, ids, new)
      <3> HIDE DEF g, m, f, r
      <3> QED BY <1>2, FreshCreated
    <2> QED BY <2>1
  <1>4. New(n) = r
    BY <1>3 DEF New, Objects
  <1>5. g = f
    BY <1>3, <1>4 DEF NewPartitions
  <1> HIDE DEF new, n, g
  <1>6. ids \in Seq(Int) /\ mesh \in [Side -> Mesh] /\ MeshOK(mesh[s], ids)
    BY DEF MeshInv
  <1>7. \A i \in 1..Len(new) : parts[i] \in Int
    BY <1>3
  <1>8. MeshOK(m, ids \o new)
    BY <1>3, <1>6, <1>7, GhostNodesOK
  <1>9. mesh' = [t \in Side |-> IF t = s THEN m ELSE mesh[t]]
    <2> HIDE DEF r, f
    <2> QED BY <1>1, <1>4, <1>5, <1>6
  <1>10. ids' \in Seq(Int) /\ Keeps(ids, ids')
    BY <1>1, <1>3, <1>6, ConcatKeeps
  <1> HIDE DEF m
  <1> QED BY <1>1, <1>8, <1>9, <1>10, OneSide

\* pGetNode() finds the node.
LEMMA NodeWithFacts ==
    ASSUME NEW s \in Side, NEW id \in NodeIdsOf(s)
    PROVE  NodeWith(s, id) \in ToSet(mesh[s].nodes)
  <1>1. \E a \in ToSet(mesh[s].nodes) : ids[a] = id
    BY DEF NodeIdsOf
  <1> QED BY <1>1 DEF NodeWith

\* CreateNewElements().
LEMMA ElementsInv ==
    ASSUME MeshInv, NEW s \in Side, NEW newIds \in Seq(Int),
           NEW types \in [1..Len(newIds) -> DOMAIN ElementSize],
           NEW conns \in [1..Len(newIds) -> Seq(Int)],
           CreateNewElements(s, newIds, types, conns)
    PROVE  MeshInv'
  <1> DEFINE good == {i \in DOMAIN newIds :
                        /\ newIds[i] >= 1
                        /\ newIds[i] \notin ElementIdsOf(s)
                        /\ \A j \in 1..(i - 1) : newIds[j] # newIds[i]
                        /\ ToSet(conns[i]) \subseteq NodeIdsOf(s)
                        /\ \A k \in DOMAIN conns :
                              Len(conns[k]) = ElementSize[types[k]]}
             n == Created(newIds, good)
             nodes(i) == [k \in 1..Len(conns[i]) |-> NodeWith(s, conns[i][k])]
             new == [i \in 1..n |-> [id |-> newIds[i], type |-> types[i],
                                     nodes |-> nodes(i)]]
             m == [mesh[s] EXCEPT !.elements = @ \o new]
  <1>1. mesh' = [mesh EXCEPT ![s].elements = @ \o new] /\ UNCHANGED ids
    BY DEF CreateNewElements
  <1>2. \A i \in good : ToSet(conns[i]) \subseteq NodeIdsOf(s)
    OBVIOUS
  <1> HIDE DEF good
  <1>3. n \in 0..Len(newIds) /\ 1..n \subseteq good /\ n \in Nat
    BY CreatedFacts
  <1> HIDE DEF n
  <1>4. ids \in Seq(Int) /\ mesh \in [Side -> Mesh] /\ MeshOK(mesh[s], ids)
    BY DEF MeshInv
  <1>5. mesh[s].nodes \in Seq(Nat)
    BY <1>4, MeshFields
  <1>6. ASSUME NEW i \in 1..n
        PROVE  /\ nodes(i) \in Seq(Nat)
               /\ ToSet(nodes(i)) \subseteq ToSet(mesh[s].nodes)
    <2> DEFINE N == ToSet(mesh[s].nodes)
    <2>1. i \in good /\ i \in 1..Len(newIds) /\ conns[i] \in Seq(Int)
      BY <1>3
    <2>2. Len(conns[i]) \in Nat
      BY <2>1
    <2>3. ASSUME NEW k \in 1..Len(conns[i]) PROVE NodeWith(s, conns[i][k]) \in N
      <3>1. conns[i][k] \in ToSet(conns[i])
        BY <2>1, InToSet
      <3>2. conns[i][k] \in NodeIdsOf(s)
        BY <1>2, <2>1, <3>1
      <3> QED BY <3>2, NodeWithFacts
    <2>4. nodes(i) \in [1..Len(conns[i]) -> N]
      <3> HIDE DEF N
      <3> QED BY <2>3
    <2>5. nodes(i) \in Seq(N)
      <3> HIDE DEF N, nodes
      <3> DEFINE len == Len(conns[i])
      <3>1. len \in Nat /\ nodes(i) \in [1..len -> N]
        BY <2>2, <2>4
      <3> HIDE DEF len
      <3> QED BY <3>1, SeqDef
    <2>6. N \subseteq Nat
      BY <1>5, InToSet
    <2> HIDE DEF N, nodes
    <2>7. ToSet(nodes(i)) \subseteq N
      BY <2>5, InToSet
    <2>8. nodes(i) \in Seq(Nat)
      BY <2>5, <2>6, SeqMonotonic
    <2> QED BY <2>7, <2>8 DEF N
  <1> HIDE DEF nodes
  <1>7. new \in Seq(ElementOn(Nat)) /\ Len(new) = n
    <2>1. ASSUME NEW i \in 1..n PROVE newIds[i] \in Int /\ types[i] \in DOMAIN ElementSize
      <3>1. i \in 1..Len(newIds)
        BY <1>3
      <3> QED BY <3>1
    <2>2. ASSUME NEW i \in 1..n
          PROVE  [id |-> newIds[i], type |-> types[i], nodes |-> nodes(i)]
                    \in ElementOn(Nat)
      BY <1>6, <2>1 DEF ElementOn
    <2>3. new \in [1..n -> ElementOn(Nat)]
      BY <2>2
    <2> HIDE DEF new
    <2> QED BY <1>3, <2>3, SeqDef
  <1>8. \A i \in 1..n : new[i].nodes = nodes(i)
    OBVIOUS
  <1> HIDE DEF new
  <1>9. MeshOK(m, ids)
    <2>1. \A i \in 1..Len(new) : ToSet(new[i].nodes) \subseteq ToSet(mesh[s].nodes)
      BY <1>6, <1>7, <1>8
    <2> QED BY <1>4, <1>7, <2>1, NewElementsOK
  <1>10. mesh' = [t \in Side |-> IF t = s THEN m ELSE mesh[t]]
    BY <1>1, <1>4
  <1>11. ids' \in Seq(Int) /\ Keeps(ids, ids')
    BY <1>1, <1>4 DEF Keeps
  <1> HIDE DEF m
  <1> QED BY <1>1, <1>9, <1>10, <1>11, OneSide

\* Clear().
LEMMA ClearInv ==
    ASSUME MeshInv, NEW s \in Side, Clear(s)
    PROVE  MeshInv'
  <1>1. mesh' = [t \in Side |-> IF t = s THEN Empty ELSE mesh[t]]
    BY DEF Clear, MeshInv
  <1>2. ids' \in Seq(Int) /\ Keeps(ids, ids')
    BY DEF Clear, MeshInv, Keeps
  <1> QED BY <1>1, <1>2, EmptyOK, OneSide

-----------------------------------------------------------------------------
(* ImportMesh into an empty ModelPart.                                      *)

\* What is loaded: the lists of the source, with the new objects.
Copy(map, m) ==
    [nodes     |-> Through(map, m.nodes),
     local     |-> Through(map, m.local),
     ghost     |-> Through(map, m.ghost),
     partition |-> [p \in DOMAIN m.partition |-> Through(map, m.partition[p])],
     elements  |-> [i \in 1..Len(m.elements) |->
                       [m.elements[i] EXCEPT !.nodes = Through(map, @)]]]

\* map gives each node of S an object of its own, with the same id.
MapOK(map, S, id, id2) ==
    /\ map \in [S -> Nat]
    /\ \A a, b \in S : map[a] = map[b] => a = b
    /\ \A a \in S : map[a] \in 1..Len(id2) /\ id2[map[a]] = id[a]

\* The new objects of the nodes T.
Img(map, T) == {map[a] : a \in T}

\* A list and its copy.
LEMMA ThroughFacts ==
    ASSUME NEW S, NEW map \in [S -> Nat], NEW q \in Seq(Nat), ToSet(q) \subseteq S
    PROVE  /\ Through(map, q) \in Seq(Nat) /\ Len(Through(map, q)) = Len(q)
           /\ \A i \in 1..Len(q) : q[i] \in S /\ Through(map, q)[i] = map[q[i]]
           /\ ToSet(Through(map, q)) = Img(map, ToSet(q))
  <1> DEFINE t == Through(map, q)
  <1>1. Len(q) \in Nat /\ \A i \in 1..Len(q) : q[i] \in ToSet(q) /\ q[i] \in S
    BY InToSet
  <1>2. t \in [1..Len(q) -> Nat] /\ \A i \in 1..Len(q) : t[i] = map[q[i]]
    BY <1>1 DEF Through
  <1> HIDE DEF t
  <1>3. t \in Seq(Nat) /\ Len(t) = Len(q)
    <2> DEFINE n == Len(q)
    <2>1. n \in Nat /\ t \in [1..n -> Nat]
      BY <1>1, <1>2
    <2> HIDE DEF n
    <2>2. t \in Seq(Nat) /\ Len(t) = n
      BY <2>1, SeqDef
    <2> QED BY <2>2 DEF n
  <1>4. \A x : x \in ToSet(t) <=> \E i \in 1..Len(q) : map[q[i]] = x
    <2>1. \A x : x \in ToSet(t) <=> \E i \in 1..Len(t) : t[i] = x
      BY <1>3, InToSet
    <2> QED BY <1>2, <1>3, <2>1
  <1>5. \A a : a \in ToSet(q) <=> \E i \in 1..Len(q) : q[i] = a
    BY InToSet
  <1>6. ToSet(t) = {map[a] : a \in ToSet(q)}
    <2>1. ASSUME NEW x \in ToSet(t) PROVE x \in {map[a] : a \in ToSet(q)}
      <3>1. PICK i \in 1..Len(q) : map[q[i]] = x
        BY <1>4
      <3> QED BY <1>1, <3>1
    <2>2. ASSUME NEW a \in ToSet(q) PROVE map[a] \in ToSet(t)
      <3>1. PICK i \in 1..Len(q) : q[i] = a
        BY <1>5
      <3> QED BY <1>4, <3>1
    <2> QED BY <2>1, <2>2
  <1> QED BY <1>1, <1>2, <1>3, <1>6 DEF t, Img

\* The ids of the copy of a list are those of the list.
LEMMA SameIds ==
    ASSUME NEW id, NEW id2, NEW S, NEW map, MapOK(map, S, id, id2),
           NEW q \in Seq(Nat), ToSet(q) \subseteq S
    PROVE  Through(id2, Through(map, q)) = Through(id, q)
  <1> DEFINE t == Through(map, q)
  <1>1. Len(t) = Len(q) /\ \A i \in 1..Len(q) : q[i] \in S /\ t[i] = map[q[i]]
    BY ThroughFacts DEF MapOK
  <1> HIDE DEF t
  <1>2. \A i \in 1..Len(q) : id2[t[i]] = id[q[i]]
    BY <1>1 DEF MapOK
  <1>3. Through(id2, t) = Through(id, q)
    BY <1>1, <1>2 DEF Through
  <1> QED BY <1>3 DEF t

\* The lists of a mesh name only its nodes.
LEMMA InNodes ==
    ASSUME NEW m, NEW id, MeshOK(m, id)
    PROVE  /\ ToSet(m.local) \subseteq ToSet(m.nodes)
           /\ ToSet(m.ghost) \subseteq ToSet(m.nodes)
           /\ \A p \in DOMAIN m.partition :
                 ToSet(m.partition[p]) \subseteq ToSet(m.nodes)
           /\ \A i \in 1..Len(m.elements) :
                 ToSet(m.elements[i].nodes) \subseteq ToSet(m.nodes)
  BY DEF MeshOK, HalvesOK, PartitionOK, ElementsOK

\* The copy of a correct mesh is correct.
LEMMA CopyOK ==
    ASSUME NEW id \in Seq(Int), NEW id2 \in Seq(Int), NEW m, MeshOK(m, id),
           NEW map, MapOK(map, ToSet(m.nodes), id, id2)
    PROVE  MeshOK(Copy(map, m), id2)
  <1> DEFINE S   == ToSet(m.nodes)
             c   == Copy(map, m)
             e   == m.elements
             D   == DOMAIN m.partition
  <1>1. /\ m \in Mesh /\ m.nodes \in Seq(Nat) /\ m.local \in Seq(Nat)
        /\ m.ghost \in Seq(Nat) /\ D \subseteq Int
        /\ \A p \in D : m.partition[p] \in Seq(Nat)
        /\ e \in Seq(ElementOn(Nat))
        /\ \A i \in 1..Len(e) : e[i] \in ElementOn(Nat)
    BY MeshFields DEF MeshOK
  <1>2. /\ ToSet(m.local) \subseteq S /\ ToSet(m.ghost) \subseteq S
        /\ \A p \in D : ToSet(m.partition[p]) \subseteq S
        /\ \A i \in 1..Len(e) : ToSet(e[i].nodes) \subseteq S
    BY InNodes
  <1>3. map \in [S -> Nat] /\ \A a, b \in S : map[a] = map[b] => a = b
    BY DEF MapOK
  <1>4. /\ c.nodes = Through(map, m.nodes) /\ c.local = Through(map, m.local)
        /\ c.ghost = Through(map, m.ghost)
    BY DEF Copy
  <1>18. /\ c.partition = [p \in D |-> Through(map, m.partition[p])]
        /\ c.elements = [i \in 1..Len(e) |-> [e[i] EXCEPT !.nodes = Through(map, @)]]
        /\ c = [nodes |-> c.nodes, local |-> c.local, ghost |-> c.ghost,
                partition |-> c.partition, elements |-> c.elements]
    BY DEF Copy
  <1> HIDE DEF c, S, e, D
  <1>5. /\ c.nodes \in Seq(Nat) /\ Len(c.nodes) = Len(m.nodes)
        /\ \A i \in 1..Len(m.nodes) :
              m.nodes[i] \in S /\ c.nodes[i] = map[m.nodes[i]]
        /\ ToSet(c.nodes) = Img(map, S)
    <2>1. ToSet(m.nodes) \subseteq S
      BY DEF S
    <2> DEFINE q == m.nodes
               t == Through(map, q)
    <2>2. q \in Seq(Nat) /\ ToSet(q) \subseteq S
      BY <1>1, <2>1
    <2> HIDE DEF q
    <2>3. /\ t \in Seq(Nat) /\ Len(t) = Len(q)
          /\ \A i \in 1..Len(q) : q[i] \in S /\ t[i] = map[q[i]]
          /\ ToSet(t) = Img(map, ToSet(q))
      BY <1>3, <2>2, ThroughFacts
    <2> HIDE DEF t
    <2>4. c.nodes = t
      BY <1>4 DEF t, q
    <2> QED BY <2>3, <2>4 DEF S, q
  <1>6. c.local \in Seq(Nat) /\ ToSet(c.local) = Img(map, ToSet(m.local))
    <2> DEFINE q == m.local
               t == Through(map, q)
    <2>1. q \in Seq(Nat) /\ ToSet(q) \subseteq S
      BY <1>1, <1>2
    <2> HIDE DEF q
    <2>2. t \in Seq(Nat) /\ ToSet(t) = Img(map, ToSet(q))
      BY <1>3, <2>1, ThroughFacts
    <2> HIDE DEF t
    <2>3. c.local = t
      BY <1>4 DEF t, q
    <2> QED BY <2>2, <2>3 DEF q
  <1>7. c.ghost \in Seq(Nat) /\ ToSet(c.ghost) = Img(map, ToSet(m.ghost))
    <2> DEFINE q == m.ghost
               t == Through(map, q)
    <2>1. q \in Seq(Nat) /\ ToSet(q) \subseteq S
      BY <1>1, <1>2
    <2> HIDE DEF q
    <2>2. t \in Seq(Nat) /\ ToSet(t) = Img(map, ToSet(q))
      BY <1>3, <2>1, ThroughFacts
    <2> HIDE DEF t
    <2>3. c.ghost = t
      BY <1>4 DEF t, q
    <2> QED BY <2>2, <2>3 DEF q
  <1>8. ASSUME NEW p \in D
        PROVE  /\ c.partition[p] \in Seq(Nat)
               /\ ToSet(c.partition[p]) = Img(map, ToSet(m.partition[p]))
    <2>1. c.partition[p] = Through(map, m.partition[p])
      BY <1>18
    <2>2. m.partition[p] \in Seq(Nat) /\ ToSet(m.partition[p]) \subseteq S
      BY <1>1, <1>2
    <2> QED BY <1>3, <2>1, <2>2, ThroughFacts
  <1>9. ASSUME NEW i \in 1..Len(e)
        PROVE  /\ c.elements[i] \in ElementOn(Nat)
               /\ ToSet(c.elements[i].nodes) = Img(map, ToSet(e[i].nodes))
    <2>1. e[i] \in ElementOn(Nat) /\ ToSet(e[i].nodes) \subseteq S
      BY <1>1, <1>2
    <2>2. e[i].nodes \in Seq(Nat)
      BY <2>1 DEF ElementOn
    <2>3. /\ Through(map, e[i].nodes) \in Seq(Nat)
          /\ ToSet(Through(map, e[i].nodes)) = Img(map, ToSet(e[i].nodes))
      BY <1>3, <2>1, <2>2, ThroughFacts
    <2>4. c.elements[i] = [e[i] EXCEPT !.nodes = Through(map, @)]
      BY <1>18
    <2>5. c.elements[i] \in ElementOn(Nat) /\ c.elements[i].nodes = Through(map, e[i].nodes)
      BY <2>1, <2>3, <2>4 DEF ElementOn
    <2> QED BY <2>3, <2>5
  <1>10. DOMAIN c.partition = D /\ c.partition \in PartitionsOn(Nat)
    <2>1. c.partition \in [D -> Seq(Nat)] /\ DOMAIN c.partition = D
      BY <1>8, <1>18
    <2> QED BY <1>1, <2>1, IsPartitions
  <1>11. c.elements \in Seq(ElementOn(Nat)) /\ Len(c.elements) = Len(e)
    <2> DEFINE n == Len(e)
    <2>1. n \in Nat /\ c.elements \in [1..n -> ElementOn(Nat)]
      BY <1>1, <1>9, <1>18
    <2> HIDE DEF n
    <2>2. c.elements \in Seq(ElementOn(Nat)) /\ Len(c.elements) = n
      BY <2>1, SeqDef
    <2> QED BY <2>2 DEF n
  <1>12. c \in Mesh
    BY <1>5, <1>6, <1>7, <1>10, <1>11, <1>18 DEF Mesh
  <1>13. NodesOK(c.nodes, id2)
    <2>1. ASSUME NEW i \in 1..Len(c.nodes)
          PROVE  /\ i \in 1..Len(m.nodes) /\ c.nodes[i] \in 1..Len(id2)
                 /\ id2[c.nodes[i]] = id[m.nodes[i]]
      BY <1>5 DEF MapOK, S
    <2>2. NodesOK(m.nodes, id)
      BY DEF MeshOK
    <2> QED BY <2>1, <2>2 DEF NodesOK
  <1>14. HalvesOK(c)
    <2>1. S = ToSet(m.local) \cup ToSet(m.ghost) /\ ToSet(m.local) \cap ToSet(m.ghost) = {}
      BY DEF MeshOK, HalvesOK, S
    <2>2. ToSet(c.nodes) = ToSet(c.local) \cup ToSet(c.ghost)
      <3>1. Img(map, S) = Img(map, ToSet(m.local)) \cup Img(map, ToSet(m.ghost))
        BY <2>1 DEF Img
      <3> QED BY <1>5, <1>6, <1>7, <3>1
    <2>3. ToSet(c.local) \cap ToSet(c.ghost) = {}
      <3>1. Img(map, ToSet(m.local)) \cap Img(map, ToSet(m.ghost)) = {}
        BY <1>2, <1>3, <2>1 DEF Img
      <3> QED BY <1>6, <1>7, <3>1
    <2> QED BY <2>2, <2>3 DEF HalvesOK
  <1>15. PartitionOK(c)
    <2>1. /\ \A p \in D : ToSet(m.partition[p]) \subseteq ToSet(m.ghost)
          /\ \A a \in ToSet(m.ghost) : \E p \in D : a \in ToSet(m.partition[p])
          /\ \A a \in ToSet(m.ghost) : \A p, q \in D :
                a \in ToSet(m.partition[p]) /\ a \in ToSet(m.partition[q]) => p = q
      BY DEF MeshOK, PartitionOK, D
    <2>2. ASSUME NEW p \in D PROVE ToSet(c.partition[p]) \subseteq ToSet(c.ghost)
      <3>1. Img(map, ToSet(m.partition[p])) \subseteq Img(map, ToSet(m.ghost))
        BY <2>1 DEF Img
      <3> QED BY <1>7, <1>8, <3>1
    <2>3. ASSUME NEW b \in ToSet(c.ghost) PROVE \E p \in D : b \in ToSet(c.partition[p])
      <3>1. PICK a \in ToSet(m.ghost) : b = map[a]
        BY <1>7 DEF Img
      <3>2. PICK p \in D : a \in ToSet(m.partition[p])
        BY <2>1
      <3> QED BY <1>8, <3>1, <3>2 DEF Img
    <2>4. ASSUME NEW b, NEW p \in D, NEW q \in D,
                 b \in ToSet(c.partition[p]), b \in ToSet(c.partition[q])
          PROVE  p = q
      <3>1. PICK a \in ToSet(m.partition[p]) : b = map[a]
        BY <1>8, <2>4 DEF Img
      <3>2. PICK d \in ToSet(m.partition[q]) : b = map[d]
        BY <1>8, <2>4 DEF Img
      <3>3. a = d
        BY <1>2, <1>3, <3>1, <3>2
      <3> QED BY <2>1, <3>1, <3>2, <3>3
    <2> QED BY <1>10, <2>2, <2>3, <2>4 DEF PartitionOK
  <1>16. ElementsOK(c)
    <2>1. ASSUME NEW i \in 1..Len(e)
          PROVE  ToSet(c.elements[i].nodes) \subseteq ToSet(c.nodes)
      <3>1. Img(map, ToSet(e[i].nodes)) \subseteq Img(map, S)
        BY <1>2 DEF Img
      <3> QED BY <1>5, <1>9, <3>1
    <2> QED BY <1>11, <2>1 DEF ElementsOK
  <1>17. MeshOK(c, id2)
    BY <1>12, <1>13, <1>14, <1>15, <1>16 DEF MeshOK
  <1> QED BY <1>17 DEF c

\* A program sees in the copy what it sees in the mesh.
LEMMA CopyView ==
    ASSUME NEW id \in Seq(Int), NEW id2 \in Seq(Int), NEW m, MeshOK(m, id),
           NEW map, MapOK(map, ToSet(m.nodes), id, id2)
    PROVE  View(Copy(map, m), id2) = View(m, id)
  <1> DEFINE S == ToSet(m.nodes)
             c == Copy(map, m)
             e == m.elements
             D == DOMAIN m.partition
  <1>1. /\ m.nodes \in Seq(Nat) /\ m.local \in Seq(Nat) /\ m.ghost \in Seq(Nat)
        /\ \A p \in D : m.partition[p] \in Seq(Nat)
        /\ e \in Seq(ElementOn(Nat))
        /\ \A i \in 1..Len(e) : e[i] \in ElementOn(Nat)
    BY MeshFields DEF MeshOK
  <1>2. /\ ToSet(m.nodes) \subseteq S
        /\ ToSet(m.local) \subseteq S /\ ToSet(m.ghost) \subseteq S
        /\ \A p \in D : ToSet(m.partition[p]) \subseteq S
        /\ \A i \in 1..Len(e) : ToSet(e[i].nodes) \subseteq S
    BY InNodes
  <1>3. MapOK(map, S, id, id2)
    OBVIOUS
  <1>4. /\ c.nodes = Through(map, m.nodes) /\ c.local = Through(map, m.local)
        /\ c.ghost = Through(map, m.ghost)
    BY DEF Copy
  <1>18. /\ c.partition = [p \in D |-> Through(map, m.partition[p])]
        /\ c.elements = [i \in 1..Len(e) |-> [e[i] EXCEPT !.nodes = Through(map, @)]]
    BY DEF Copy
  <1> HIDE DEF c, S, e, D
  <1>5. /\ Through(id2, c.nodes) = Through(id, m.nodes)
        /\ Through(id2, c.local) = Through(id, m.local)
        /\ Through(id2, c.ghost) = Through(id, m.ghost)
    BY <1>1, <1>2, <1>3, <1>4, SameIds
  <1>6. [p \in DOMAIN c.partition |-> Through(id2, c.partition[p])]
          = [p \in D |-> Through(id, m.partition[p])]
    <2>1. DOMAIN c.partition = D
      BY <1>18
    <2>2. ASSUME NEW p \in D
          PROVE  Through(id2, c.partition[p]) = Through(id, m.partition[p])
      <3>1. c.partition[p] = Through(map, m.partition[p])
        BY <1>18
      <3>2. m.partition[p] \in Seq(Nat) /\ ToSet(m.partition[p]) \subseteq S
        BY <1>1, <1>2
      <3> QED BY <1>3, <3>1, <3>2, SameIds
    <2> QED BY <2>1, <2>2
  <1>7. [i \in 1..Len(c.elements) |-> [c.elements[i] EXCEPT !.nodes = Through(id2, @)]]
          = [i \in 1..Len(e) |-> [e[i] EXCEPT !.nodes = Through(id, @)]]
    <2>1. Len(c.elements) = Len(e)
      BY <1>1, <1>18
    <2>2. ASSUME NEW i \in 1..Len(e)
          PROVE  [c.elements[i] EXCEPT !.nodes = Through(id2, @)]
                   = [e[i] EXCEPT !.nodes = Through(id, @)]
      <3>1. e[i] \in ElementOn(Nat) /\ e[i].nodes \in Seq(Nat)
        BY <1>1 DEF ElementOn
      <3>2. Through(id2, Through(map, e[i].nodes)) = Through(id, e[i].nodes)
        BY <1>2, <1>3, <3>1, SameIds
      <3>3. c.elements[i] = [e[i] EXCEPT !.nodes = Through(map, @)]
        BY <1>18
      <3> QED BY <3>1, <3>2, <3>3 DEF ElementOn
    <2> QED BY <2>1, <2>2
  <1>8. View(c, id2) = View(m, id)
    BY <1>5, <1>6, <1>7 DEF View, e, D
  <1> QED BY <1>8 DEF c

\* The objects of a list of nodes differ.
LEMMA NodesDiffer ==
    ASSUME NEW q \in Seq(Nat), NEW id, NodesOK(q, id),
           NEW i \in 1..Len(q), NEW j \in 1..Len(q), q[i] = q[j]
    PROVE  i = j
  BY DEF NodesOK

\* An empty ModelPart gets a new object for each node.
LEMMA LoadedFacts ==
    ASSUME NEW m, m.nodes \in Seq(Nat), NodesOK(m.nodes, ids), ids \in Seq(Int)
    PROVE  /\ Loaded(Empty, m) \in [ToSet(m.nodes) -> Nat]
           /\ \A i \in 1..Len(m.nodes) : Loaded(Empty, m)[m.nodes[i]] = Len(ids) + i
  <1> DEFINE q == m.nodes
             map == Loaded(Empty, m)
             place(a) == CHOOSE j \in 1..Len(q) : q[j] = a
  <1>1. q \in Seq(Nat) /\ Len(q) \in Nat /\ Len(ids) \in Nat
    OBVIOUS
  <1>2. \A a : a \in ToSet(q) <=> \E i \in 1..Len(q) : q[i] = a
    BY InToSet
  <1>3. Empty.nodes = << >> /\ Len(Empty.nodes) = 0
    BY DEF Empty
  <1>4. ASSUME NEW a \in ToSet(q)
        PROVE  place(a) \in 1..Len(q) /\ q[place(a)] = a
    BY <1>2
  <1>5. ASSUME NEW i \in 1..Len(q) PROVE q[i] \in ToSet(q) /\ place(q[i]) = i
    <2>1. q[i] \in ToSet(q)
      BY <1>2
    <2>2. place(q[i]) \in 1..Len(q) /\ q[place(q[i])] = q[i]
      BY <1>4, <2>1
    <2> HIDE DEF place, q
    <2>3. NodesOK(q, ids)
      BY DEF q
    <2> QED BY <1>1, <2>1, <2>2, <2>3, NodesDiffer
  <1>6. map = [a \in ToSet(q) |->
                 IF place(a) <= Len(Empty.nodes) THEN Empty.nodes[place(a)]
                 ELSE Len(ids) + place(a) - Len(Empty.nodes)]
    BY DEF Loaded
  <1> HIDE DEF map, place, q
  <1>7. ASSUME NEW a \in ToSet(q) PROVE map[a] = Len(ids) + place(a) /\ map[a] \in Nat
    <2>1. place(a) \in Nat /\ ~(place(a) <= 0)
      BY <1>1, <1>4
    <2>2. map[a] = Len(ids) + place(a) - 0
      BY <1>3, <1>6, <2>1
    <2> QED BY <1>1, <2>1, <2>2
  <1>8. DOMAIN map = ToSet(q) /\ map = [a \in ToSet(q) |-> map[a]]
    BY <1>6
  <1>9. map \in [ToSet(q) -> Nat]
    BY <1>7, <1>8
  <1>10. \A i \in 1..Len(q) : map[q[i]] = Len(ids) + i
    BY <1>5, <1>7
  <1> QED BY <1>9, <1>10 DEF map, q

\* The larger of 0 and n.
LEMMA MoreFacts ==
    ASSUME NEW n \in Nat
    PROVE  Max({0, n}) = n
  <1>1. n \in {0, n} /\ \A y \in {0, n} : n >= y
    OBVIOUS
  <1>2. /\ Max({0, n}) \in {0, n}
        /\ \A y \in {0, n} : Max({0, n}) >= y
    BY <1>1 DEF Max
  <1>3. Max({0, n}) >= n /\ (Max({0, n}) = 0 \/ Max({0, n}) = n)
    BY <1>2
  <1> QED BY <1>3

\* What ImportMesh does.
LEMMA ImportFacts ==
    ASSUME MeshInv, ImportMesh, mesh["importer"] = Empty,
           NEW m, m = mesh["exporter"]
    PROVE  /\ ids' \in Seq(Int) /\ Keeps(ids, ids')
           /\ MapOK(Loaded(Empty, m), ToSet(m.nodes), ids, ids')
           /\ mesh' = [t \in Side |->
                         IF t = "importer" THEN Copy(Loaded(Empty, m), m) ELSE mesh[t]]
  <1> DEFINE q == m.nodes
             map == Loaded(Empty, m)
             n == Len(q)
             length == Len(ids)
             S == ToSet(q)
  <1>1. /\ m \in Mesh /\ q \in Seq(Nat) /\ NodesOK(q, ids) /\ ids \in Seq(Int)
        /\ mesh \in [Side -> Mesh]
    BY MeshFields DEF MeshInv, MeshOK, Side
  <1>2. n \in Nat /\ length \in Nat
    BY <1>1
  <1>3. Len(Empty.nodes) = 0
    BY DEF Empty
  <1>4. Max({0, n - 0}) = n
    BY <1>2, MoreFacts
  <1>5. /\ ids' = [b \in 1..(length + Max({0, n - Len(Empty.nodes)})) |->
                     IF \E a \in DOMAIN map : map[a] = b
                     THEN ids[CHOOSE a \in DOMAIN map : map[a] = b] ELSE ids[b]]
        /\ mesh' = [mesh EXCEPT !["importer"] = Load(Empty, m)]
    BY DEF ImportMesh
  <1>6. map \in [S -> Nat] /\ \A i \in 1..n : map[q[i]] = length + i
    BY <1>1, LoadedFacts
  <1>7. Load(Empty, m) = Copy(map, m)
    <2> DEFINE f == [p \in DOMAIN m.partition |-> Through(map, m.partition[p])]
    <2>1. Empty.partition = << >> /\ DOMAIN << >> = {}
      BY DEF Empty
    <2>2. Inserted(<< >>, f) = f
      <3>1. DOMAIN f = DOMAIN m.partition /\ f = [p \in DOMAIN f |-> f[p]]
        OBVIOUS
      <3> HIDE DEF f
      <3>2. Inserted(<< >>, f) = [p \in DOMAIN f |-> f[p]]
        BY <2>1 DEF Inserted
      <3> QED BY <3>1, <3>2
    <2> QED BY <2>1, <2>2 DEF Load, Copy
  <1> HIDE DEF map, n, q, length, S
  <1>8. ids' = [b \in 1..(length + n) |->
                  IF \E a \in S : map[a] = b
                  THEN ids[CHOOSE a \in S : map[a] = b] ELSE ids[b]]
    BY <1>3, <1>4, <1>5, <1>6
  <1>9. \A a : a \in S <=> \E i \in 1..n : q[i] = a
    BY <1>1, InToSet DEF S, n
  <1>10. ASSUME NEW a \in S, NEW b \in S, map[a] = map[b] PROVE a = b
    <2>1. PICK i \in 1..n : q[i] = a
      BY <1>9
    <2>2. PICK j \in 1..n : q[j] = b
      BY <1>9
    <2>3. length + i = length + j
      BY <1>6, <1>10, <2>1, <2>2
    <2>4. i = j
      BY <1>2, <2>3
    <2> QED BY <2>1, <2>2, <2>4
  <1>11. ASSUME NEW a \in S
         PROVE  map[a] \in 1..(length + n) /\ ~(map[a] <= length) /\ a \in 1..length
    <2>1. PICK i \in 1..n : q[i] = a
      BY <1>9
    <2>2. map[a] = length + i
      BY <1>6, <2>1
    <2>3. q[i] \in 1..length
      BY <1>1, <2>1 DEF NodesOK, n, length
    <2> QED BY <1>2, <2>1, <2>2, <2>3
  <1>12. ASSUME NEW a \in S PROVE ids'[map[a]] = ids[a]
    <2>1. (CHOOSE b \in S : map[b] = map[a]) = a
      BY <1>10
    <2>2. map[a] \in 1..(length + n)
      BY <1>11
    <2> QED BY <1>8, <2>1, <2>2
  <1>13. ASSUME NEW b \in 1..length PROVE ids'[b] = ids[b]
    <2>1. b \in 1..(length + n) /\ b <= length
      BY <1>2
    <2>2. ~ \E a \in S : map[a] = b
      BY <1>11, <2>1
    <2> QED BY <1>8, <2>1, <2>2
  <1>14. ASSUME NEW b \in 1..(length + n) PROVE ids'[b] \in Int
    <2>1. CASE \E a \in S : map[a] = b
      <3>1. PICK a \in S : map[a] = b
        BY <2>1
      <3>2. ids'[b] = ids[a] /\ a \in 1..Len(ids)
        BY <1>11, <1>12, <3>1 DEF length
      <3> QED BY <1>1, <3>2, ElementOfSeq
    <2>2. CASE ~ \E a \in S : map[a] = b
      <3>1. ASSUME b \notin 1..length PROVE FALSE
        <4>1. b - length \in 1..n
          BY <1>2, <3>1
        <4>2. q[b - length] \in S /\ map[q[b - length]] = length + (b - length)
          BY <1>6, <1>9, <4>1
        <4>3. length + (b - length) = b
          BY <1>2
        <4> QED BY <2>2, <4>2, <4>3
      <3>2. b \in 1..Len(ids) /\ ids'[b] = ids[b]
        BY <1>13, <3>1 DEF length
      <3> QED BY <1>1, <3>2, ElementOfSeq
    <2> QED BY <2>1, <2>2
  <1>15. ids' \in Seq(Int) /\ Len(ids') = length + n
    <2> DEFINE k == length + n
    <2>1. k \in Nat /\ ids' = [b \in 1..k |-> ids'[b]] /\ \A b \in 1..k : ids'[b] \in Int
      BY <1>2, <1>8, <1>14
    <2> HIDE DEF k
    <2>2. ids' \in [1..k -> Int]
      BY <2>1
    <2>3. ids' \in Seq(Int) /\ Len(ids') = k
      BY <2>1, <2>2, SeqDef
    <2> QED BY <2>3 DEF k
  <1>16. Keeps(ids, ids')
    BY <1>2, <1>13, <1>15 DEF Keeps, length
  <1>17. MapOK(map, S, ids, ids')
    BY <1>6, <1>10, <1>11, <1>12, <1>15 DEF MapOK
  <1>18. mesh' = [t \in Side |-> IF t = "importer" THEN Copy(map, m) ELSE mesh[t]]
    BY <1>1, <1>5, <1>7
  <1> QED BY <1>15, <1>16, <1>17, <1>18 DEF map, S, q

\* ImportMesh() keeps the lists consistent and shows the program the same mesh.
LEMMA ImportInv ==
    ASSUME MeshInv, ImportMesh, mesh["importer"] = Empty
    PROVE  /\ MeshInv'
           /\ View(mesh'["importer"], ids') = View(mesh["exporter"], ids)
  <1> DEFINE m == mesh["exporter"]
             map == Loaded(Empty, m)
             c == Copy(map, m)
  <1>1. MeshOK(m, ids) /\ ids \in Seq(Int)
    BY DEF MeshInv, Side
  <1>2. /\ ids' \in Seq(Int) /\ Keeps(ids, ids')
        /\ MapOK(map, ToSet(m.nodes), ids, ids')
        /\ mesh' = [t \in Side |-> IF t = "importer" THEN c ELSE mesh[t]]
    BY ImportFacts
  <1> HIDE DEF map, m
  <1>3. MeshOK(c, ids') /\ View(c, ids') = View(m, ids)
    BY <1>1, <1>2, CopyOK, CopyView
  <1> HIDE DEF c
  <1>4. "importer" \in Side
    BY DEF Side
  <1>5. MeshInv'
    BY <1>2, <1>3, <1>4, OneSide
  <1>6. mesh'["importer"] = c
    BY <1>2, <1>4
  <1> QED BY <1>3, <1>5, <1>6 DEF m

-----------------------------------------------------------------------------

\* In the beginning both are empty.
LEMMA MeshInit == ModelPartInit => MeshInv
  <1> SUFFICES ASSUME ModelPartInit PROVE MeshInv
    OBVIOUS
  <1>1. ids \in Seq(Int) /\ \A s \in Side : MeshOK(Empty, ids)
    BY EmptyOK DEF ModelPartInit
  <1>2. Empty \in Mesh
    BY EmptyOK DEF MeshOK
  <1> QED BY <1>1, <1>2 DEF ModelPartInit, MeshInv

\* Every step keeps the invariant.
LEMMA MeshStep ==
    ASSUME ~ImportsIntoUsed, MeshInv, [ModelPartNext]_mvars
    PROVE  MeshInv'
  <1>1. /\ \A q \in Lists(NodeIds, MaxBulk) : q \in Seq(Int)
        /\ \A q \in Lists(NodeIds, MaxConn) : q \in Seq(Int)
        /\ \A q \in Lists(ElementIds, MaxElementBulk) : q \in Seq(Int)
        /\ Partition \subseteq Int
    <2>1. /\ MaxBulk \in Nat /\ MaxConn \in Nat /\ MaxElementBulk \in Nat
          /\ NodeIds \subseteq Int /\ ElementIds \subseteq Int /\ Partition \subseteq Int
      BY ModelPartAssumption
    <2>2. /\ \A q \in Lists(NodeIds, MaxBulk) : q \in Seq(NodeIds)
          /\ \A q \in Lists(NodeIds, MaxConn) : q \in Seq(NodeIds)
          /\ \A q \in Lists(ElementIds, MaxElementBulk) : q \in Seq(ElementIds)
      BY <2>1, ListsFacts
    <2> QED BY <2>1, <2>2, SeqMonotonic
  <1>2. ASSUME NEW s \in Builders, NEW newIds \in Lists(NodeIds, MaxBulk),
               CreateNewNodes(s, newIds)
        PROVE  MeshInv'
    <2>1. s \in Side
      BY ModelPartAssumption
    <2> QED BY <1>1, <1>2, <2>1, NodesInv
  <1>3. ASSUME NEW s \in Builders, NEW newIds \in Lists(NodeIds, MaxBulk),
               NEW parts \in [1..Len(newIds) -> Partition],
               CreateNewGhostNodes(s, newIds, parts)
        PROVE  MeshInv'
    <2>1. s \in Side
      BY ModelPartAssumption
    <2>2. parts \in [1..Len(newIds) -> Int]
      BY <1>1
    <2> QED BY <1>1, <1>3, <2>1, <2>2, GhostNodesInv
  <1>4. ASSUME NEW s \in Builders, NEW newIds \in Lists(ElementIds, MaxElementBulk),
               NEW types \in [1..Len(newIds) -> DOMAIN ElementSize],
               NEW conns \in [1..Len(newIds) -> Lists(NodeIds, MaxConn)],
               CreateNewElements(s, newIds, types, conns)
        PROVE  MeshInv'
    <2>1. s \in Side
      BY ModelPartAssumption
    <2>2. conns \in [1..Len(newIds) -> Seq(Int)]
      BY <1>1
    <2> QED BY <1>1, <1>4, <2>1, <2>2, ElementsInv
  <1>5. ASSUME NEW s \in Side, Clear(s) PROVE MeshInv'
    BY <1>5, ClearInv
  <1>6. ASSUME ImportMesh PROVE MeshInv'
    <2>1. mesh["importer"] = Empty
      BY <1>6 DEF ImportMesh
    <2> QED BY <1>6, <2>1, ImportInv
  <1>7. ASSUME UNCHANGED mvars PROVE MeshInv'
    BY <1>7 DEF mvars, MeshInv
  <1> QED BY <1>2, <1>3, <1>4, <1>5, <1>6, <1>7 DEF ModelPartNext

\* The invariant holds always, for meshes of any size.
THEOREM MeshInductive ==
    ASSUME ~ImportsIntoUsed
    PROVE  ModelPartSpec => []MeshInv
  <1>1. ModelPartInit => MeshInv
    BY MeshInit
  <1>2. MeshInv /\ [ModelPartNext]_mvars => MeshInv'
    BY MeshStep
  <1> QED BY <1>1, <1>2, PTL DEF ModelPartSpec

\* The lists of a correct mesh agree.
LEMMA MeshAgrees == MeshInv => ListsAgree
  <1> SUFFICES ASSUME MeshInv, NEW s \in Side, NEW m, m = mesh[s]
               PROVE  LET all == ToSet(m.nodes)
                      IN  /\ all = ToSet(m.local) \cup ToSet(m.ghost)
                          /\ ToSet(m.local) \cap ToSet(m.ghost) = {}
                          /\ Len(m.nodes) = Cardinality({ids[a] : a \in all})
                          /\ \A p \in DOMAIN m.partition :
                                ToSet(m.partition[p]) \subseteq ToSet(m.ghost)
                          /\ \A a \in ToSet(m.ghost) :
                                Cardinality({p \in DOMAIN m.partition :
                                               a \in ToSet(m.partition[p])}) = 1
                          /\ \A e \in ToSet(m.elements) : ToSet(e.nodes) \subseteq all
    BY DEF ListsAgree
  <1> DEFINE q == m.nodes
             T == {ids[a] : a \in ToSet(q)}
             D == DOMAIN m.partition
  <1>1. MeshOK(m, ids)
    BY DEF MeshInv
  <1>2. m \in Mesh /\ q \in Seq(Nat) /\ m.elements \in Seq(ElementOn(Nat))
    BY <1>1, MeshFields DEF MeshOK
  <1>3. Len(q) = Cardinality(T)
    <2> DEFINE f == [i \in 1..Len(q) |-> ids[q[i]]]
    <2>1. Len(q) \in Nat
      BY <1>2
    <2>2. \A a : a \in ToSet(q) <=> \E i \in 1..Len(q) : q[i] = a
      BY <1>2, InToSet
    <2>3. \A i \in 1..Len(q) : ids[q[i]] \in T
      BY <2>2
    <2>4. \A x \in T : \E i \in 1..Len(q) : ids[q[i]] = x
      BY <2>2
    <2>5. \A i, j \in 1..Len(q) : ids[q[i]] = ids[q[j]] => i = j
      BY <1>1 DEF MeshOK, NodesOK
    <2> HIDE DEF q, T
    <2>6. f \in Bijection(1..Len(q), T)
      BY <2>3, <2>4, <2>5 DEF Bijection, Injection, Surjection, IsInjective
    <2> HIDE DEF f
    <2>7. ExistsBijection(1..Len(q), T)
      BY <2>6 DEF ExistsBijection
    <2>8. Cardinality(T) = Len(q)
      BY <2>1, <2>7, FS_CountingElements
    <2> QED BY <2>8
  <1>4. ASSUME NEW a \in ToSet(m.ghost)
        PROVE  Cardinality({p \in D : a \in ToSet(m.partition[p])}) = 1
    <2>1. PICK p \in D : a \in ToSet(m.partition[p])
      BY <1>1 DEF MeshOK, PartitionOK
    <2>2. \A r \in D : a \in ToSet(m.partition[r]) => r = p
      BY <1>1, <2>1 DEF MeshOK, PartitionOK
    <2>3. {r \in D : a \in ToSet(m.partition[r])} = {p}
      BY <2>1, <2>2
    <2> QED BY <2>3, FS_Singleton
  <1>5. ASSUME NEW e \in ToSet(m.elements)
        PROVE  ToSet(e.nodes) \subseteq ToSet(q)
    <2>1. PICK i \in 1..Len(m.elements) : m.elements[i] = e
      BY <1>2, InToSet
    <2> QED BY <1>1, <2>1 DEF MeshOK, ElementsOK
  <1> QED BY <1>1, <1>3, <1>4, <1>5 DEF MeshOK, HalvesOK, PartitionOK

\* The lists of a ModelPart agree after any sequence of calls, also of calls that
\* are refused half-way, and after ImportMesh() into an empty ModelPart.
THEOREM ListsAgreeAlways ==
    ASSUME ~ImportsIntoUsed
    PROVE  ModelPartSpec => []ListsAgree
  BY MeshInductive, MeshAgrees, PTL

\* ImportMesh() into an empty ModelPart shows the importer the mesh that was exported.
THEOREM ImportReproducesAlways ==
    ASSUME ~ImportsIntoUsed
    PROVE  ModelPartSpec => ImportReproduces
  <1>1. MeshInv /\ [ModelPartNext]_mvars =>
          [ImportMesh => View(mesh'["importer"], ids') = View(mesh["exporter"], ids)]_mvars
    <2> SUFFICES ASSUME MeshInv, ImportMesh
                 PROVE  View(mesh'["importer"], ids') = View(mesh["exporter"], ids)
      OBVIOUS
    <2>1. mesh["importer"] = Empty
      BY DEF ImportMesh
    <2> QED BY <2>1, ImportInv
  <1> QED BY <1>1, MeshInductive, PTL DEF ModelPartSpec, ImportReproduces
=============================================================================
