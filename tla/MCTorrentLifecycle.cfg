SPECIFICATION FairSpec
CONSTANTS
    Torrent = {t1}
    QueueLimit <- NoQueues
    Calls = {"add", "start", "stop", "verify", "remove", "stat"}
    DiskLoss = {TRUE, FALSE}
    SeedLimit = {TRUE, FALSE}
    PipeBound = 3
    None = None
INVARIANTS PeersNeedRunning
PROPERTIES RemoveCompletes VerifyEnds NotedStartMade
