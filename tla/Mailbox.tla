------------------------------ MODULE Mailbox ------------------------------
(***************************************************************************)
(* What the exchange of data under one identifier promises, without files: *)
(* a mailbox that holds at most one message.  A sender waits until it is   *)
(* empty, a receiver until it is full; a message is received once.  When   *)
(* the connection ends, a message nobody received is thrown away.          *)
(***************************************************************************)
EXTENDS Naturals

CONSTANTS Id, Message, Nothing

VARIABLES
    run,  \* number of the execution of the coupled program
    box   \* the message waiting under an identifier

vars == <<run, box>>

Init ==
    /\ run = 1
    /\ box = [i \in Id |-> Nothing]

\* Only messages of this execution are delivered in it.
Put(i) ==
    /\ box[i] = Nothing
    /\ \E m \in Message : m.run = run /\ box' = [box EXCEPT ![i] = m]
    /\ UNCHANGED run

\* The message is received, or thrown away when the connection ends.
Take(i) ==
    /\ box[i] # Nothing
    /\ box' = [box EXCEPT ![i] = Nothing]
    /\ UNCHANGED run

\* A new execution of the programs does not see earlier messages.
Restart ==
    /\ run' = run + 1
    /\ box' = [i \in Id |-> Nothing]

Next ==
    \/ \E i \in Id : Put(i) \/ Take(i)
    \/ Restart

Spec == Init /\ [][Next]_vars
=============================================================================
