SPECIFICATION Spec
CONSTANTS
    news = news
    splash = splash
    mail = mail
    Blank = Blank
    None = None
    Handles = {h1, h2, h3}
    Urls <- MCUrls
    RefreshTo <- MCRefreshTo
    RedirectTo <- MCNoRedirects
    Foreign = {mail}
    MaxEntries = 2
INVARIANTS
    HistoryShowsItsPage
