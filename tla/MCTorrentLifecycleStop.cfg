SPECIFICATION Spec
CONSTANTS
    Torrent = {t1}
    QueueLimit <- NoQueues
    Calls = {"add", "start", "stop"}
    DiskLoss = {FALSE}
    SeedLimit = {FALSE}
    PipeBound = 2
    None = None
INVARIANTS StopPauses
