\* Two clients, each with one file.
CONSTANTS
    client1 = client1  client2 = client2
    None = None
    Client = {client1, client2}
    Plans <- MCPlans
    ChunkSize = 2
    CacheSize = 4
    MaxOps = 2
    MaxReaders = 2
CHECK_DEADLOCK FALSE
SPECIFICATION FairSpec
INVARIANTS TypeOK AckMeansStored ReadIsSequential
PROPERTY CallsReturn
