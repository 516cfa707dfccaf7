---------------------------- MODULE DataContainer ----------------------------
(***************************************************************************)
(* DataContainerRawMemory (data_container.hpp): memory of a C program that *)
(* a container makes larger when more values are imported than fit.  The C *)
(* function CoSimIO_ImportData makes a container for each call, around the *)
(* pointer and the size the program hands in, and writes both back.        *)
(***************************************************************************)
EXTENDS Integers, Sequences

CONSTANTS
    MaxValues,   \* bound: values of an import
    WrapsEmpty   \* may a program import again after importing no value?

ASSUME DataContainerAssumption == MaxValues \in Nat /\ WrapsEmpty \in BOOLEAN

VARIABLES
    box,   \* the container: mSize and mCapacity
    ptr,   \* *mppData: the number of a block, 0 for nullptr
    block  \* lengths of the blocks allocated so far; nothing frees one

cvars == <<box, ptr, block>>

Larger(a, b) == IF a > b THEN a ELSE b

-----------------------------------------------------------------------------

\* The program starts without memory, or with some it has allocated.
ContainerInit ==
    \/ box = [size |-> 0, capacity |-> 0] /\ ptr = 0 /\ block = <<>>
    \/ \E n \in 1..MaxValues :
        box = [size |-> n, capacity |-> n] /\ ptr = 1 /\ block = <<n>>

\* realloc(): a new block, or the same one with another length.
Realloc(p, length) ==
    IF p = 0 THEN ptr' = Len(block) + 1 /\ block' = Append(block, length)
             ELSE ptr' = p /\ block' = [block EXCEPT ![p] = length]

\* Mutant: the capacity is doubled once.
ResizeDoubles(capacity, n) ==
    IF n > capacity
    THEN LET larger == Larger(2 * capacity, 1)
         IN  /\ box' = [size |-> n, capacity |-> larger]
             /\ Realloc(IF capacity = 0 THEN 0 ELSE ptr, larger)
    ELSE box' = [size |-> n, capacity |-> capacity] /\ UNCHANGED <<ptr, block>>

\* Mutant: malloc() in place of realloc().
ResizeAllocates(capacity, n) ==
    IF n > capacity
    THEN /\ box' = [size |-> n, capacity |-> n]
         /\ Realloc(0, n)
    ELSE box' = [size |-> n, capacity |-> capacity] /\ UNCHANGED <<ptr, block>>

\* resize() of a container with this capacity.
Resize(capacity, n) ==
    IF n > capacity
    THEN LET larger == Larger(2 * capacity, n)
         IN  /\ box' = [size |-> n, capacity |-> larger]
             /\ Realloc(IF capacity = 0 THEN 0 ELSE ptr, larger)
    ELSE box' = [size |-> n, capacity |-> capacity] /\ UNCHANGED <<ptr, block>>

\* load(), and the imports of all forms of communication: a container receives n
\* values.
Receive(n) == Resize(box.capacity, n)

\* CoSimIO_ImportData(): a new container takes the size for its capacity.
ImportData(n) ==
    /\ WrapsEmpty \/ box.size # 0 \/ ptr = 0
    /\ Resize(box.size, n)

ContainerNext == \E n \in 0..MaxValues : Receive(n) \/ ImportData(n)

ContainerSpec == ContainerInit /\ [][ContainerNext]_cvars

-----------------------------------------------------------------------------

\* The values a container holds fit into the memory it points to, however imports
\* through old and new containers alternate.
ValuesFit ==
    /\ box.size <= box.capacity
    /\ box.capacity # 0 => ptr # 0 /\ box.capacity <= block[ptr]

\* The program can free all memory: its pointer still leads to the only block.
NothingLost == Len(block) <= 1 /\ (Len(block) = 1 => ptr = 1)
===============================================================================
