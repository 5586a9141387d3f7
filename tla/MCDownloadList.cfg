SPECIFICATION Spec
CONSTANTS
    File = {f1, f2, page}
    Readable = {f1, f2}
    None = None
INVARIANTS TypeOK RowsOnce RowsInFolder NewFilesListed PausedStaysPaused
SYMMETRY Symmetry
