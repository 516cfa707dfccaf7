------------------------------- MODULE MCLocal -------------------------------
(***************************************************************************)
(* The parts of a program that work without the partner and do not share   *)
(* anything: the registration of types, the memory of imported data, and   *)
(* the choice of partner ranks.  They take their steps independently.      *)
(***************************************************************************)
EXTENDS Registration, DataContainer, PartnerRanks

LocalInit == RegistrationInit /\ ContainerInit /\ PartnerInit

LocalNext ==
    \/ RegistrationNext /\ UNCHANGED <<cvars, pvars>>
    \/ ContainerNext /\ UNCHANGED <<gvars, pvars>>
    \/ PartnerNext /\ UNCHANGED <<gvars, cvars>>

\* The threads are scheduled; see FairRegistrationSpec.
LocalSpec ==
    /\ LocalInit
    /\ [][LocalNext]_<<gvars, cvars, pvars>>
    /\ \A t \in Thread : WF_gvars(Step(t))
===============================================================================
