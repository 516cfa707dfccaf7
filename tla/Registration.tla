----------------------------- MODULE Registration -----------------------------
(***************************************************************************)
(* Info::RegisterTypesInSerializer (info.cpp): the first thread that saves *)
(* or loads an Info fills the tables of the serializer with the types an   *)
(* Info can hold, under a mutex; every other thread looks the types up     *)
(* without it.  Whether the tables are complete is told by a pointer that  *)
(* is read once without and once with the mutex.                           *)
(*                                                                         *)
(* The pointer is no atomic variable.  The model takes it for one, which   *)
(* the builds for x86 make of it: they write it after the insertions into  *)
(* the tables, and a reader sees them in that order.                       *)
(***************************************************************************)
EXTENDS Naturals

CONSTANTS
    Thread,     \* threads of the program, each with connections of its own
    NoThread,   \* none of them
    NumTypes    \* types that are registered

ASSUME RegistrationAssumption == NumTypes \in Nat /\ NoThread \notin Thread

Type == 1..NumTypes

VARIABLES
    pc,      \* where each thread is
    next,    \* the type each thread registers next
    types,   \* the types in the tables of the serializer
    flag,    \* mpSerializerTypesRegistered is not nullptr
    owner    \* who holds register_mutex

gvars == <<pc, next, types, flag, owner>>

Position == {"idle", "check", "lock", "recheck", "register", "unlock", "use"}

Go(t, position) == pc' = [pc EXCEPT ![t] = position]

-----------------------------------------------------------------------------

RegistrationInit ==
    /\ pc = [t \in Thread |-> "idle"]
    /\ next = [t \in Thread |-> 1]
    /\ types = {}
    /\ flag = FALSE
    /\ owner = NoThread

\* Info::save() or Info::load() begins.
Call(t) == /\ pc[t] = "idle"
           /\ Go(t, "check")
           /\ UNCHANGED <<next, types, flag, owner>>

Check(t) == /\ pc[t] = "check"
            /\ Go(t, IF flag THEN "use" ELSE "lock")
            /\ UNCHANGED <<next, types, flag, owner>>

Lock(t) == /\ pc[t] = "lock"
           /\ owner = NoThread
           /\ owner' = t
           /\ Go(t, "recheck")
           /\ UNCHANGED <<next, types, flag>>

\* Mutant: the pointer is not read again.
RecheckNot(t) == /\ pc[t] = "recheck"
                 /\ Go(t, "register")
                 /\ UNCHANGED <<next, types, flag, owner>>

Recheck(t) == /\ pc[t] = "recheck"
              /\ Go(t, IF flag THEN "unlock" ELSE "register")
              /\ UNCHANGED <<next, types, flag, owner>>

\* Serializer::Register() of one type after the other.
Register(t) == /\ pc[t] = "register"
               /\ next[t] <= NumTypes
               /\ types' = types \cup {next[t]}
               /\ next' = [next EXCEPT ![t] = @ + 1]
               /\ UNCHANGED <<pc, flag, owner>>

\* Mutant: the mutex is not released.
PublishKeeps(t) == /\ pc[t] = "register"
                   /\ next[t] > NumTypes
                   /\ flag' = TRUE
                   /\ Go(t, "use")
                   /\ UNCHANGED <<next, types, owner>>

Publish(t) == /\ pc[t] = "register"
              /\ next[t] > NumTypes
              /\ flag' = TRUE
              /\ Go(t, "unlock")
              /\ UNCHANGED <<next, types, owner>>

Unlock(t) == /\ pc[t] = "unlock"
             /\ owner' = NoThread
             /\ Go(t, "use")
             /\ UNCHANGED <<next, types, flag>>

\* The values are saved or loaded, with a look into the tables for each.
Use(t) == /\ pc[t] = "use"
          /\ Go(t, "idle")
          /\ UNCHANGED <<next, types, flag, owner>>

Step(t) == \/ Check(t) \/ Lock(t) \/ Recheck(t) \/ Register(t)
           \/ Publish(t) \/ Unlock(t) \/ Use(t)

RegistrationNext == \E t \in Thread : Call(t) \/ Step(t)

RegistrationSpec == RegistrationInit /\ [][RegistrationNext]_gvars

\* A call that has begun goes on; a free mutex is given to who waits for it.
FairRegistrationSpec == RegistrationSpec /\ \A t \in Thread : WF_gvars(Step(t))

-----------------------------------------------------------------------------

RegistrationTypeOK ==
    /\ pc \in [Thread -> Position]
    /\ next \in [Thread -> 1..(NumTypes + 1)]
    /\ types \subseteq Type
    /\ flag \in BOOLEAN
    /\ owner \in Thread \cup {NoThread}

\* A thread that looks types up finds all of them, and no other thread is changing
\* the tables meanwhile (SavePointer() and load() read them without the mutex).
LookupsAreSafe == \A t \in Thread : pc[t] = "use" =>
    /\ types = Type
    /\ \A u \in Thread : pc[u] # "register"

\* Every call that saves or loads an Info ends: no thread is left behind at the
\* mutex.
EveryCallEnds == \A t \in Thread : pc[t] = "check" ~> pc[t] = "idle"

-----------------------------------------------------------------------------
(* The inductive invariant of the proofs.                                   *)

Holding(t) == pc[t] \in {"recheck", "register", "unlock"}

MutexInv == \A t \in Thread : Holding(t) <=> owner = t

\* The tables are complete when the pointer is set, and filled from the first type
\* on before that.
TablesInv ==
    /\ flag => types = Type
    /\ \A t \in Thread : pc[t] = "register" => ~flag /\ 1..(next[t] - 1) \subseteq types
    /\ \A t \in Thread : next[t] = 1 \/ pc[t] = "register" \/ flag
    /\ \A t \in Thread : pc[t] \in {"unlock", "use"} => flag

RegistrationInv == RegistrationTypeOK /\ MutexInv /\ TablesInv
===============================================================================
