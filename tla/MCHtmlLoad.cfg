SPECIFICATION Spec
CONSTANTS
    page = page
    child = child
    img = img
    pic = pic
    spec = spec
    base = base
    style = style
    quirks = quirks
    link = link
    Docs = {page, child}
    Images = {img, pic, spec}
    Root = page
    Parent <- MCParent
    Speculative = {spec}
    Sheets = {base, style, quirks, link}
    Base = base
    Initial = {base}
    Styles = {style}
    Empty = {}
    Quirks = {quirks}
    Has <- MCHas
    Refreshing = {child}
    Prompt = FALSE
    MaxRefresh = 1
INVARIANTS
    ReadyIsLaidOut
    ActiveCounts
    AwaitedIsAlive
PROPERTIES
    StopsAtOnce
    Settles
CHECK_DEADLOCK FALSE
