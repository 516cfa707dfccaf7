------------------------ MODULE MCPipeCommunication ------------------------
(* Instances of PipeCommunication for TLC. *)
EXTENDS PipeCommunication

Exp(n, w) == [op |-> "export", size |-> n, width |-> w]
Imp(n, w) == [op |-> "import", size |-> n, width |-> w]

MCDataFile    == Partner \X {"fifo"}
MCDataContent == {Fifo}

\* Messages of one, of several and of no chunks, in both directions, and more
\* bytes in flight than the pipe can hold.
ScriptsMatched ==
    {[primary   |-> <<Exp(3, 1), Exp(0, 1), Exp(2, 2), Imp(3, 1)>>,
      secondary |-> <<Imp(3, 1), Imp(0, 1), Imp(2, 2), Exp(3, 1)>>]}

\* With all programs of up to two operations, whether they fit together or not.
ScriptsAll ==
    LET upTo2 == UNION {[1..n -> {Exp(2, 1), Imp(2, 1)}] : n \in 0..2}
    IN  ScriptsMatched \cup [primary : upTo2, secondary : upTo2]
=============================================================================
