\* Registration of types, memory of imported data and choice of partner ranks.
SPECIFICATION LocalSpec
CONSTANTS
    Thread = {t1, t2}
    NoThread = nobody
    NumTypes = 3
    MaxValues = 4
    WrapsEmpty = FALSE
    MaxRanks = 4
INVARIANTS
    LookupsAreSafe
    ValuesFit
    NothingLost
    PartnersAgree
    EveryExporterSends
PROPERTY EveryCallEnds
