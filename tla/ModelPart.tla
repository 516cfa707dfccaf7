------------------------------ MODULE ModelPart ------------------------------
(***************************************************************************)
(* ModelPart, the mesh (model_part.hpp, model_part.cpp), and ExportMesh    *)
(* and ImportMesh, which save it on one side and load it on the other      *)
(* (serializer.hpp).                                                       *)
(*                                                                         *)
(* Nodes are objects with an address; a node is in the list of all nodes,  *)
(* in the list of the local or of the ghost nodes and, a ghost node, in    *)
(* the list of its partition.  Elements point to their nodes.  The         *)
(* coordinates are left out: they do not influence anything.               *)
(***************************************************************************)
EXTENDS Integers, FiniteSets, FiniteSetsExt, SequencesExt

CONSTANTS
    NodeIds,      \* ids the program asks for; some below 1
    Partition,    \* partition indices; some below 0
    ElementIds,   \* ids of elements
    ElementSize,  \* GetNumberOfNodesForElementType: [type -> Nat]
    MaxBulk,      \* bound: nodes created by one call
    MaxConn,      \* bound: nodes given for one element
    MaxElementBulk, \* bound: elements created by one call
    MaxNodes,     \* bound: node objects made
    MaxElements,  \* bound: elements of a mesh
    Builders,     \* the sides whose program creates entities itself
    ImportsIntoUsed  \* is ImportMesh called with a ModelPart that is not empty?

Side == {"exporter", "importer"}

ASSUME ModelPartAssumption ==
    /\ Builders \subseteq Side
    /\ NodeIds \cup Partition \cup ElementIds \subseteq Int
    /\ {MaxBulk, MaxConn, MaxElementBulk, MaxNodes, MaxElements} \subseteq Nat
    /\ ImportsIntoUsed \in BOOLEAN

VARIABLES
    mesh,  \* the ModelPart of each side
    ids    \* the id of each node object; the objects are numbered

mvars == <<mesh, ids>>

(***************************************************************************)
(* A ModelPart: mNodes and the lists of mpLocalModelPart, mpGhostModelPart *)
(* and mPartitionModelParts, and mElements, all of them local.             *)
(***************************************************************************)
Empty == [nodes |-> <<>>, local |-> <<>>, ghost |-> <<>>, partition |-> <<>>,
          elements |-> <<>>]

NodeIdsOf(s)    == {ids[a] : a \in ToSet(mesh[s].nodes)}
ElementIdsOf(s) == {e.id : e \in ToSet(mesh[s].elements)}

Lists(S, max) == UNION {[1..n -> S] : n \in 1..max}

-----------------------------------------------------------------------------
(* Creation.  A call for several entities creates them one by one; the      *)
(* first that is refused ends it with an exception, and the ones before it  *)
(* stay.  A call for one entity is the case of length 1.                    *)

\* How many of the sequence are created, when the ones at other than the good
\* positions are refused.
Created(seq, good) == Max({n \in 0..Len(seq) : 1..n \subseteq good})

New(n) == [i \in 1..n |-> Len(ids) + i]

\* Mutant: ids are compared with the nodes before the call only.
CreateNewNodesChecksFirst(s, newIds) ==
    LET good == {i \in DOMAIN newIds : newIds[i] >= 1 /\ newIds[i] \notin NodeIdsOf(s)}
        n    == Created(newIds, good)
    IN  /\ Len(ids) + n <= MaxNodes
        /\ ids' = ids \o SubSeq(newIds, 1, n)
        /\ mesh' = [mesh EXCEPT ![s].nodes = @ \o New(n), ![s].local = @ \o New(n)]

\* CreateNewNode() and CreateNewNodes().
CreateNewNodes(s, newIds) ==
    LET good == {i \in DOMAIN newIds :
                   /\ newIds[i] >= 1
                   /\ newIds[i] \notin NodeIdsOf(s)
                   /\ \A j \in 1..(i - 1) : newIds[j] # newIds[i]}
        n     == Created(newIds, good)
        nodes == New(n)
    IN  /\ Len(ids) + n <= MaxNodes
        /\ ids' = ids \o SubSeq(newIds, 1, n)
        /\ mesh' = [mesh EXCEPT ![s].nodes = @ \o nodes, ![s].local = @ \o nodes]

\* GetPartitionModelPart(): the list of a partition is made when it is needed.
ListOf(partitions, p) == IF p \in DOMAIN partitions THEN partitions[p] ELSE <<>>

\* A finite set of objects in the order in which they were made.
InOrder(S) ==
    [k \in 1..Cardinality(S) |->
        CHOOSE a \in S : Cardinality({b \in S : b <= a}) = k]

\* CreateNewGhostNode() and CreateNewGhostNodes().
CreateNewGhostNodes(s, newIds, parts) ==
    LET good == {i \in DOMAIN newIds :
                   /\ newIds[i] \notin NodeIdsOf(s)
                   /\ parts[i] >= 0
                   /\ newIds[i] >= 1
                   /\ \A j \in 1..(i - 1) : newIds[j] # newIds[i]}
        n     == Created(newIds, good)
        nodes == New(n)
        old   == mesh[s].partition
    IN  /\ Len(ids) + n <= MaxNodes
        /\ ids' = ids \o SubSeq(newIds, 1, n)
        /\ mesh' = [mesh EXCEPT ![s].nodes = @ \o nodes, ![s].ghost = @ \o nodes,
               ![s].partition = [p \in DOMAIN old \cup {parts[i] : i \in 1..n} |->
                   ListOf(old, p) \o
                       InOrder({nodes[i] : i \in {j \in 1..n : parts[j] = p}})]]

\* pGetNode().
NodeWith(s, id) == CHOOSE a \in ToSet(mesh[s].nodes) : ids[a] = id

\* CreateNewElement() and CreateNewElements().  conns gives the node ids; if they
\* are too many or too few for the types, nothing is created.
CreateNewElements(s, newIds, types, conns) ==
    LET good == {i \in DOMAIN newIds :
                   /\ newIds[i] >= 1
                   /\ newIds[i] \notin ElementIdsOf(s)
                   /\ \A j \in 1..(i - 1) : newIds[j] # newIds[i]
                   /\ ToSet(conns[i]) \subseteq NodeIdsOf(s)
                   /\ \A k \in DOMAIN conns : Len(conns[k]) = ElementSize[types[k]]}
        n == Created(newIds, good)
    IN  /\ Len(mesh[s].elements) + n <= MaxElements
        /\ mesh' = [mesh EXCEPT ![s].elements = @ \o
               [i \in 1..n |-> [id |-> newIds[i], type |-> types[i],
                   nodes |-> [k \in 1..Len(conns[i]) |-> NodeWith(s, conns[i][k])]]]]
        /\ UNCHANGED ids

Clear(s) == mesh' = [mesh EXCEPT ![s] = Empty] /\ UNCHANGED ids

-----------------------------------------------------------------------------
(* Serialisation.                                                           *)

(***************************************************************************)
(* Where the nodes of the source are loaded: into the node that is at the  *)
(* same place of the target's list, whatever it was, or into a new object. *)
(***************************************************************************)
Loaded(target, source) == [a \in ToSet(source.nodes) |->
    LET i == CHOOSE j \in 1..Len(source.nodes) : source.nodes[j] = a
    IN  IF i <= Len(target.nodes) THEN target.nodes[i]
        ELSE Len(ids) + i - Len(target.nodes)]

Through(map, seq) == [i \in 1..Len(seq) |-> map[seq[i]]]

\* A map after new entries were inserted: one whose key is there is ignored.
Inserted(old, new) ==
    [p \in DOMAIN old \cup DOMAIN new |-> IF p \in DOMAIN old THEN old[p] ELSE new[p]]

\* Mutant: load() forgets the elements.
LoadWithoutElements(target, source) ==
    LET map == Loaded(target, source)
    IN  [nodes     |-> Through(map, source.nodes),
         local     |-> Through(map, source.local),
         ghost     |-> Through(map, source.ghost),
         partition |-> Inserted(target.partition,
                       [p \in DOMAIN source.partition |-> Through(map, source.partition[p])]),
         elements  |-> target.elements]

\* load(): vectors are resized and overwritten, into a map the entries are inserted.
Load(target, source) ==
    LET map == Loaded(target, source)
    IN  [nodes     |-> Through(map, source.nodes),
         local     |-> Through(map, source.local),
         ghost     |-> Through(map, source.ghost),
         partition |-> Inserted(target.partition,
                       [p \in DOMAIN source.partition |-> Through(map, source.partition[p])]),
         elements  |-> [i \in 1..Len(source.elements) |->
                       [source.elements[i] EXCEPT !.nodes = Through(map, @)]]]

\* ExportMesh on one side and ImportMesh on the other.
ImportMesh ==
    LET source == mesh["exporter"]
        target == mesh["importer"]
        map    == Loaded(target, source)
        more   == Max({0, Len(source.nodes) - Len(target.nodes)})
    IN  /\ ImportsIntoUsed \/ target = Empty
        /\ Len(ids) + more <= MaxNodes
        /\ ids' = [b \in 1..(Len(ids) + more) |->
                     IF \E a \in DOMAIN map : map[a] = b
                     THEN ids[CHOOSE a \in DOMAIN map : map[a] = b] ELSE ids[b]]
        /\ mesh' = [mesh EXCEPT !["importer"] = Load(target, source)]

-----------------------------------------------------------------------------

ModelPartInit == mesh = [s \in Side |-> Empty] /\ ids = <<>>

ModelPartNext ==
    \/ \E s \in Builders :
        \/ \E newIds \in Lists(NodeIds, MaxBulk) : CreateNewNodes(s, newIds)
        \/ \E newIds \in Lists(NodeIds, MaxBulk) :
            \E parts \in [1..Len(newIds) -> Partition] :
                CreateNewGhostNodes(s, newIds, parts)
        \/ \E newIds \in Lists(ElementIds, MaxElementBulk) :
            \E types \in [1..Len(newIds) -> DOMAIN ElementSize],
               conns \in [1..Len(newIds) -> Lists(NodeIds, MaxConn)] :
                CreateNewElements(s, newIds, types, conns)
    \/ \E s \in Side : Clear(s)
    \/ ImportMesh

ModelPartSpec == ModelPartInit /\ [][ModelPartNext]_mvars

-----------------------------------------------------------------------------

\* The internal lists agree, also after a bulk creation that failed half-way and
\* after an import: every node is local or ghost and not both, every
\* ghost node is in the list of one partition, ids are unique and elements point
\* to nodes of the same ModelPart.
ListsAgree == \A s \in Side :
    LET m == mesh[s]
        all == ToSet(m.nodes)
    IN  /\ all = ToSet(m.local) \cup ToSet(m.ghost)
        /\ ToSet(m.local) \cap ToSet(m.ghost) = {}
        /\ Len(m.nodes) = Cardinality({ids[a] : a \in all})
        /\ \A p \in DOMAIN m.partition : ToSet(m.partition[p]) \subseteq ToSet(m.ghost)
        /\ \A a \in ToSet(m.ghost) :
              Cardinality({p \in DOMAIN m.partition : a \in ToSet(m.partition[p])}) = 1
        /\ \A e \in ToSet(m.elements) : ToSet(e.nodes) \subseteq all

\* What a program sees of a ModelPart: the ids instead of the addresses.
View(m, id) ==
    [nodes     |-> Through(id, m.nodes),
     local     |-> Through(id, m.local),
     ghost     |-> Through(id, m.ghost),
     partition |-> [p \in DOMAIN m.partition |-> Through(id, m.partition[p])],
     elements  |-> [i \in 1..Len(m.elements) |->
                       [m.elements[i] EXCEPT !.nodes = Through(id, @)]]]

\* ImportMesh makes the ModelPart of the importer equal to the one exported.
ImportReproduces == [][
    ImportMesh => View(mesh'["importer"], ids') = View(mesh["exporter"], ids) ]_mvars
===============================================================================
