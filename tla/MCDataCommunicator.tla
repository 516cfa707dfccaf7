-------------------------- MODULE MCDataCommunicator --------------------------
\* Instances of DataCommunicator for TLC.
EXTENDS DataCommunicator

AllOps == Operations

\* All ranks name the root, or a rank that does not exist, or they name different ones.
AllRoots == {root \in [Rank -> 0..N] :
    (\A q, r \in Rank : root[q] = root[r]) => root[Root] \in {Root, N}}
===============================================================================
