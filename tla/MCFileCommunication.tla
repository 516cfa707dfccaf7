------------------------ MODULE MCFileCommunication ------------------------
(* Instances of FileCommunication for TLC. *)
EXTENDS FileCommunicationInv

Exp(i) == [op |-> "export", id |-> i]
Imp(i) == [op |-> "import", id |-> i]

MCId          == {"a", "b"}
MCDataFile    == MCId \X {"tmp", "data", "avail"}
MCDataContent == Message \cup {Partial}

\* Two exports under one identifier, the second one sent while the first may
\* still be unread, and an answer under another identifier.
ScriptsMatched ==
    {[primary   |-> <<Exp("a"), Exp("a"), Imp("b"), Exp("a")>>,
      secondary |-> <<Imp("a"), Exp("b"), Imp("a"), Imp("a")>>]}

\* The pairs of programs with up to four operations, three of one partner, in which
\* the primary exports under one identifier and the secondary under the other: also
\* programs that leave messages unread or import what is never exported.
ScriptsAll ==
    LET upTo3(S) == UNION {[1..n -> S] : n \in 0..3}
    IN  ScriptsMatched \cup
        {s \in [primary   : upTo3({Exp("a"), Imp("b")}),
                secondary : upTo3({Imp("a"), Exp("b")})] :
            Len(s.primary) + Len(s.secondary) <= 4}

\* The program of docs/tutorials/python/basic_data_exchange_with_kratos.md:
\* the data that was sent is received back under the same identifier.
ScriptsEcho ==
    {[primary   |-> <<Exp("a"), Imp("a")>>,
      secondary |-> <<Imp("a"), Exp("a")>>]}
=============================================================================
