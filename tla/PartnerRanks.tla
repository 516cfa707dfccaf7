---------------------------- MODULE PartnerRanks ----------------------------
(***************************************************************************)
(* Which ranks of the partner a rank exchanges data with:                  *)
(* ComputePartnerRanksAsImporter and ComputePartnerRanksAsExporter         *)
(* (utilities.cpp).  Every rank of either side computes its answer alone,  *)
(* from its rank and the two sizes; the answers must fit together, or a    *)
(* rank waits for data nobody sends it.                                    *)
(***************************************************************************)
EXTENDS Integers

CONSTANT MaxRanks  \* bound: ranks of a side

ASSUME MaxRanksAssumption == MaxRanks \in Nat

VARIABLES
    size,  \* the number of ranks of each side
    talks  \* the set each rank has computed

pvars == <<size, talks>>

Side == {"importer", "exporter"}

Ranks(n) == 0..(n - 1)

\* std::ceil(a / double(b)); the quotient of two numbers of ranks is exact enough.
CeilDiv(a, b) == (a + b - 1) \div b

\* Mutant: integer division in place of ceil().
AsExporterRoundsDown(rank, mySize, partnerSize) ==
    IF mySize = 1 \/ partnerSize = 1 THEN {0}
    ELSE IF mySize > partnerSize THEN {rank \div (mySize \div partnerSize)}
    ELSE {rank}

\* ComputePartnerRanksAsImporter().
AsImporter(rank, mySize, partnerSize) ==
    IF mySize = 1 THEN Ranks(partnerSize)
    ELSE IF mySize >= partnerSize THEN Ranks(partnerSize) \cap {rank}
    ELSE LET n == CeilDiv(partnerSize, mySize)
         IN  {i \in Ranks(partnerSize) : i >= rank * n /\ i < (rank + 1) * n}

\* ComputePartnerRanksAsExporter().
AsExporter(rank, mySize, partnerSize) ==
    IF mySize = 1 \/ partnerSize = 1 THEN {0}
    ELSE IF mySize > partnerSize THEN {rank \div CeilDiv(mySize, partnerSize)}
    ELSE {rank}

-----------------------------------------------------------------------------

PartnerInit ==
    /\ size = [s \in Side |-> 1]
    /\ talks = [s \in Side |-> [r \in Ranks(1) |-> {0}]]

\* All ranks of both sides ask; a size of zero is refused.
Compute(i, e) ==
    /\ i # 0 /\ e # 0
    /\ size'  = [importer |-> i, exporter |-> e]
    /\ talks' = [importer |-> [r \in Ranks(i) |-> AsImporter(r, i, e)],
                 exporter |-> [r \in Ranks(e) |-> AsExporter(r, e, i)]]

PartnerNext == \E i, e \in 0..MaxRanks : Compute(i, e)

PartnerSpec == PartnerInit /\ [][PartnerNext]_pvars

-----------------------------------------------------------------------------

\* The two functions answer alike: a rank of the importer receives from a rank of
\* the exporter exactly if that one sends to it.
PartnersAgree ==
    \A i \in Ranks(size["importer"]), e \in Ranks(size["exporter"]) :
        e \in talks["importer"][i] <=> i \in talks["exporter"][e]

\* No data are lost: every rank of the exporter sends to a rank the importer has.
EveryExporterSends ==
    \A e \in Ranks(size["exporter"]) :
        /\ talks["exporter"][e] # {}
        /\ talks["exporter"][e] \subseteq Ranks(size["importer"])
===============================================================================
