SPECIFICATION Spec
CONSTANTS
    Users = {u1, u2}
    Objects = {o1, o2}
    Urls = {page}
    None = None
    Tomb = Tomb
    FetchAttempts = 1
    RedirectLimit = 0
    MaxLen = 1
    MaxCount = 1
    MaxCalls = 4
    Answers = {"ok", "need"}
SYMMETRY Symmetry
INVARIANTS
    LlCacheInv
    NobodyForgotten
    WholeBody
    NobodyAhead
