\* Entities are created one or two at a time, with ids that repeat or are invalid,
\* invalid partitions, missing nodes and wrong numbers of nodes.
SPECIFICATION ModelPartSpec
CONSTANTS
    NodeIds = {0, 1, 2}
    Partition <- Partitions
    ElementIds = {0, 1}
    ElementSize <- LinesAndPoints
    MaxBulk = 2
    MaxConn = 2
    MaxElementBulk = 2
    MaxNodes = 4
    MaxElements = 2
    Builders = {"exporter"}
    ImportsIntoUsed = FALSE
INVARIANT ListsAgree
PROPERTY ImportReproduces
