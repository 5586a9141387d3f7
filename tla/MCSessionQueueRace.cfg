CONSTANTS
    Torrent = {t1, t2, t3}
    Thread = {main, event}
    IntMax = 9
    None = None
SPECIFICATION Spec
INVARIANT QueueSequenced
