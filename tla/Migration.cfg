SPECIFICATION Spec
CONSTANTS
    Tables <- MCTables
    Order <- MCOrder
    Users = "users"
    Seed = "readings"
    Identity <- MCIdentity
    Sources <- MCSources
    MaxId = 3
    None = None
    Inserts = 2
    Faults = 1
    Kills = 2
INVARIANTS
    SequencesAhead
    ZeroMeansComplete
PROPERTY
    AppRowsSurvive
