SPECIFICATION Spec
CONSTANTS
    Torrent = {t1}
    QueueLimit <- NoQueues
    Calls = {"add", "start"}
    DiskLoss = {FALSE}
    SeedLimit = {FALSE}
    PipeBound = 2
    None = None
INVARIANTS VerifiedBeforePeers
