SPECIFICATION FairSpec
CONSTANTS
    Torrent = {t1, t2}
    QueueLimit <- DownloadQueueOfOne
    Calls = {"add", "start"}
    DiskLoss = {FALSE}
    SeedLimit = {FALSE}
    PipeBound = 1
    None = None
PROPERTIES QueueServed
