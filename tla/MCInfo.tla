-------------------------------- MODULE MCInfo --------------------------------
\* Instances of Info for TLC.
EXTENDS Info

TwoKeys == <<"k1", "k2">>
===============================================================================
