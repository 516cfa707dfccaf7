------------------------------- MODULE MCRanks -------------------------------
\* Instances of Ranks for TLC.
EXTENDS Ranks

Both(v) == [p \in Partner |-> v]

\* The secondary reads everything the primary sends, and answers.
Answer == [primary |-> <<"send", "send", "receive">>,
           secondary |-> <<"receive", "receive", "send">>]

\* Programs in which the partners never both send first.
Single == [primary |-> <<"send">>, secondary |-> <<"receive">>]
CoupledScripts == {Answer, Single,
    [primary |-> <<"receive", "send">>, secondary |-> <<"send", "receive">>]}

\* All programs with two operations together, whether they match or not, and
\* those in which a partner closes its socket while a message is on the way to it.
AllScripts ==
    {s \in [Partner -> UNION {[1..n -> Op] : n \in 0..2}] :
        Len(s["primary"]) + Len(s["secondary"]) <= 2}
    \cup {[primary |-> <<"send", "send">>, secondary |-> <<"receive">>],
          [primary |-> <<"receive", "send">>, secondary |-> <<"send">>]}

Connected(size, format, eager, setting, script) ==
    [size |-> size, format |-> format, eager |-> eager, setting |-> setting,
     script |-> script]

\* Every kind of connection, by partners that agree ...
Agreeing ==
    {Connected(Both(3), "socket", TRUE, Both("s"), Single)}
    \cup {Connected(Both(2), "socket", FALSE, Both("s"), sc) :
            sc \in CoupledScripts \cup AllScripts}
    \cup {Connected(Both(1), "local_socket", TRUE, Both("s"), sc) : sc \in CoupledScripts}
    \cup {Connected(Both(2), "mpi_inter", FALSE, Both("s"), sc) : sc \in CoupledScripts}

\* ... and by partners that do not.
Disagreeing ==
    LET different == [primary |-> "s", secondary |-> "t"]
        unequal   == [primary |-> 2, secondary |-> 3]
    IN  {Connected(Both(2), "socket", TRUE, different, Both(<<>>)),
         Connected(unequal, "mpi_inter", TRUE, Both("s"), Both(<<>>)),
         Connected(unequal, "socket", TRUE, Both("s"), Both(<<>>))}

AllInstances == Agreeing \cup Disagreeing

\* A local socket between partners with more than one rank.
LocalSocketMPI == {Connected(Both(2), "local_socket", TRUE, Both("s"), Single)}
===============================================================================
