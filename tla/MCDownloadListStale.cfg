SPECIFICATION Spec
CONSTANTS
    File = {f1}
    Readable = {f1}
    None = None
INVARIANTS HandlesLive
