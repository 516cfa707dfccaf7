----------------------------- MODULE MCModelPart -----------------------------
\* Instances of ModelPart for TLC.
EXTENDS ModelPart

Partitions == {-1, 0, 1}

LinesAndPoints == [Point2D |-> 1, Line2D2 |-> 2]
===============================================================================
