SPECIFICATION Spec
CONSTANTS
    Torrent = {t1, t2}
    QueueLimit <- QueuesOfOne
    Calls = {"add", "start", "remove"}
    DiskLoss = {FALSE}
    SeedLimit = {FALSE}
    PipeBound = 2
    None = None
INVARIANTS TypeOK VerifierAgrees PipeOrderProtects
SYMMETRY Symmetry
