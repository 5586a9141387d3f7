CONSTANTS
    Torrent = {t1, t2, t3, t4}
    Thread = {event}
    IntMax = 9
    None = None
SPECIFICATION Spec
INVARIANT TypeOK
INVARIANT QueueSequenced
PROPERTY BatchMovesToEnd
PROPERTY StepKeepsOthers
PROPERTY ImplementsQueueOrder
