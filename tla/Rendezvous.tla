----------------------------- MODULE Rendezvous -----------------------------
(***************************************************************************)
(* What Communication::SynchronizeAll promises, without files: a barrier   *)
(* between the partners of a connection.  A partner counts the             *)
(* synchronisations it has entered and the ones it has left; it may leave  *)
(* the n-th only when every partner has entered the n-th.  Partners leave  *)
(* one after the other, and one of them may be in the next synchronisation *)
(* before the other has left this one.  A new execution of the coupled     *)
(* program starts counting again.                                          *)
(***************************************************************************)
EXTENDS Naturals

CONSTANT Partner

VARIABLES
    run,      \* number of the execution of the coupled program
    entered,  \* how many synchronisations a partner has entered in it
    left      \* and how many it has left

vars == <<run, entered, left>>

Init ==
    /\ run = 1
    /\ entered = [p \in Partner |-> 0]
    /\ left    = [p \in Partner |-> 0]

Enter(p) ==
    /\ entered[p] = left[p]
    /\ entered' = [entered EXCEPT ![p] = @ + 1]
    /\ UNCHANGED <<run, left>>

Leave(p) ==
    /\ left[p] < entered[p]
    /\ \A q \in Partner : left[p] < entered[q]
    /\ left' = [left EXCEPT ![p] = @ + 1]
    /\ UNCHANGED <<run, entered>>

Restart ==
    /\ run' = run + 1
    /\ entered' = [p \in Partner |-> 0]
    /\ left'    = [p \in Partner |-> 0]

Next ==
    \/ \E p \in Partner : Enter(p) \/ Leave(p)
    \/ Restart

Spec == Init /\ [][Next]_vars
=============================================================================
