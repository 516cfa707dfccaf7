--------------------------- MODULE MCCommunication ---------------------------
(* Instances of Communication for TLC. *)
EXTENDS CommunicationInv
=============================================================================
