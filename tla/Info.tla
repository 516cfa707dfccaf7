--------------------------------- MODULE Info ---------------------------------
(***************************************************************************)
(* Info, the container of settings and metadata (info.hpp), and what       *)
(* becomes of it when it is exported and imported (serializer.hpp).        *)
(*                                                                         *)
(* An Info maps keys to shared pointers.  Set always makes a new object,   *)
(* but a copy of an Info points to the same objects, and so does an Info   *)
(* stored inside of another one.  An object is either a value or an Info.  *)
(* The serializer writes the content of an object once; at every further   *)
(* pointer to it only the address.                                         *)
(***************************************************************************)
EXTENDS Integers, Sequences, SequencesExt

CONSTANTS
    Var,         \* the Infos of the program
    Key,         \* their keys, in the order of the map: a sequence
    Value,       \* what is stored
    MaxObject,   \* bound: objects made
    NestsTwice   \* may an Info hold one object in two places?

Garbage == [value |-> "garbage"]
Elapsed == "elapsed_time"

ASSUME InfoAssumption ==
    /\ Elapsed \notin ToSet(Key)
    /\ MaxObject \in Nat
    /\ NestsTwice \in BOOLEAN

VARIABLES
    options,   \* [Var -> map from keys to addresses]: mOptions
    heap,      \* the objects, addressed by their number
    exported,  \* the content of the last Info exported
    imported   \* and what ImportInfo made of it

ivars == <<options, heap, exported, imported>>

IsInfo(a) == heap[a].kind = "info"

-----------------------------------------------------------------------------
(* Content: what an Info means to the program, without addresses.           *)

RECURSIVE Content(_, _)
Content(objects, map) == [k \in DOMAIN map |->
    IF objects[map[k]].kind = "info" THEN Content(objects, objects[map[k]].map)
                                     ELSE [value |-> objects[map[k]].value]]

RECURSIVE Reachable(_)
Reachable(map) == UNION {{map[k]} \cup
    (IF IsInfo(map[k]) THEN Reachable(heap[map[k]].map) ELSE {}) : k \in DOMAIN map}

-----------------------------------------------------------------------------
(* Changes of an Info.                                                      *)

Assign(v, map) == options' = [options EXCEPT ![v] = map]

Insert(v, k, object) ==
    /\ Len(heap) < MaxObject
    /\ heap' = Append(heap, object)
    /\ Assign(v, [l \in DOMAIN options[v] \cup {k} |->
                    IF l = k THEN Len(heap) + 1 ELSE options[v][l]])
    /\ UNCHANGED <<exported, imported>>

\* Mutant: an existing object is overwritten.
SetInPlace(v, k, x) ==
    IF k \in DOMAIN options[v]
    THEN /\ heap' = [heap EXCEPT ![options[v][k]] = [kind |-> "value", value |-> x]]
         /\ UNCHANGED <<options, exported, imported>>
    ELSE Insert(v, k, [kind |-> "value", value |-> x])

Set(v, k, x) == Insert(v, k, [kind |-> "value", value |-> x])

\* Set<Info>: the new object has a copy of the map of w.
SetInfo(v, k, w) ==
    /\ NestsTwice \/ Reachable(options[v]) \cap Reachable(options[w]) = {}
    /\ Insert(v, k, [kind |-> "info", map |-> options[w]])

Copy(v, w) == v # w /\ Assign(v, options[w]) /\ UNCHANGED <<heap, exported, imported>>

Erase(v, k) ==
    /\ k \in DOMAIN options[v]
    /\ Assign(v, [l \in DOMAIN options[v] \ {k} |-> options[v][l]])
    /\ UNCHANGED <<heap, exported, imported>>

Clear(v) == Assign(v, <<>>) /\ UNCHANGED <<heap, exported, imported>>

-----------------------------------------------------------------------------
(* Serializer: pointers and maps.                                           *)

(***************************************************************************)
(* Loading one pointer and loading a map, both after the objects in        *)
(* "seen".  The pointer to an object that was loaded before is read from   *)
(* the place where that pointer was put.  For the entry of a map this is   *)
(* the local variable of load_map, which is gone by then.                  *)
(***************************************************************************)
RECURSIVE LoadPointer(_, _)

\* Mutant: the number of entries is the one of the empty Info.
LoadMapOfTarget(map, seen) == [content |-> <<>>, seen |-> seen]

LoadMap(map, seen) ==
    FoldLeft(LAMBDA acc, k :
        IF k \notin DOMAIN map THEN acc
        ELSE LET p == LoadPointer(map[k], acc.seen)
             IN  [content |-> [l \in DOMAIN acc.content \cup {k} |->
                        IF l = k THEN p.content ELSE acc.content[l]],
                  seen |-> p.seen],
        [content |-> <<>>, seen |-> seen], Key)

LoadPointer(a, seen) ==
    CASE a \in seen -> [content |-> Garbage, seen |-> seen]
      [] a \notin seen /\ IsInfo(a) -> LoadMap(heap[a].map, seen \cup {a})
      [] OTHER -> [content |-> [value |-> heap[a].value], seen |-> seen \cup {a}]

\* ExportInfo, and ImportInfo of the partner, which adds the time it took.
Exchange(v) ==
    LET loaded == LoadMap(options[v], {}).content
    IN  /\ exported' = Content(heap, options[v])
        /\ imported' = [k \in DOMAIN loaded \cup {Elapsed} |->
                            IF k = Elapsed THEN [value |-> Elapsed] ELSE loaded[k]]
        /\ UNCHANGED <<options, heap>>

-----------------------------------------------------------------------------

InfoInit ==
    /\ options = [v \in Var |-> <<>>]
    /\ heap = <<>>
    /\ exported = <<>>
    /\ imported = <<>>

InfoNext == \E v \in Var :
    \/ \E k \in ToSet(Key) :
        \/ \E x \in Value : Set(v, k, x)
        \/ \E w \in Var : SetInfo(v, k, w)
        \/ Erase(v, k)
    \/ \E w \in Var : Copy(v, w)
    \/ Clear(v)
    \/ Exchange(v)

InfoSpec == InfoInit /\ [][InfoNext]_ivars

-----------------------------------------------------------------------------

\* The partner imports what was exported (docs/info: an Info can be used to
\* exchange metadata with ImportInfo and ExportInfo).
ImportEqualsExport == \A k \in DOMAIN exported \cup (DOMAIN imported \ {Elapsed}) :
    k \in DOMAIN exported /\ k \in DOMAIN imported /\ imported[k] = exported[k]

\* An Info is a value: changing one of them never changes what another Info, or
\* an Info stored in it, contains, although they share objects.
CopiesAreIndependent == [][
    \A w \in Var : options'[w] = options[w] =>
        Content(heap', options'[w]) = Content(heap, options[w]) ]_ivars
===============================================================================
