CONSTANTS
    p = p
    q = q
    Examples = {e}
    Texts = {t}
    Uploads = {u}
    Reviews = {v}
    Cases = {1}
    MaxInputs = 4
    Repositories = {p, q}
    DefaultRepository = q
    SavedPairs <- MCSavedPairs
    HistoryLength <- MCHistoryLength
    WithMoves <- MCWithMoves
    PAGE = 2
    MaxPolls = 1
    MaxFailures = 1
    MaxPending = 2
SPECIFICATION BrowserSpec
INVARIANT ChartShowsTheRepository ContextNamesTheShown
PROPERTY ChartFollowsExtensions
CHECK_DEADLOCK FALSE
