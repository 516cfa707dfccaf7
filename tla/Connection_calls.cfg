\* Connection_calls
SPECIFICATION ConnectionSpec
CONSTANTS
    Component <- TwoPartners
    Format = {"socket", "mpi_inter"}
    UseMPI = FALSE
    BuildMPI = FALSE
    Fct = {"ImportData", "exit", "Unknown"}
    MaxNameLength = 3
    MaxObject = 3
    MaxDepth = 2
    EntryFirst = {TRUE, FALSE}
INVARIANTS
    HoldersAreServed
    CallsRegistered
