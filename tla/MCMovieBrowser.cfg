SPECIFICATION Spec
CONSTANTS
    s1 = s1
    k1 = k1
    a = a
    b = b
    Empty = Empty
    None = None
    Section = {s1}
    Keywords = {Empty, k1}
    Pref = {english, french}
    MaxSearches = 1
    MaxFinds = 2
    Listed <- MCListed
    Hits <- MCHits
INVARIANTS
    TypeOK
    SectionKept
    ResultsMatchField
    PageKeepsMovie
    DownloadHasTorrent
    ChoiceObeyed
PROPERTIES
    LoadingEnds
    FindEnds
CHECK_DEADLOCK FALSE
