----------------------------- MODULE MCConnection -----------------------------
\* Instances of Connection for TLC.
EXTENDS Connection

a == <<1>>
b == <<2>>
c3 == <<3>>

\* A program "a" with two partners, and names it cannot connect to: its own and one
\* that is too long.
TwoPartners == {<<a, b>>, <<a, c3>>, <<a, a>>, <<a, <<2, 2, 2, 2>>>>}

\* "a" - "b_c" and "a_b" - "c".
Colliding == {<<a, b \o <<Underscore>> \o c3>>, <<a \o <<Underscore>> \o b, c3>>}
===============================================================================
