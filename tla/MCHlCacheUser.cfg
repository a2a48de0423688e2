SPECIFICATION Spec
CONSTANTS
    image = image
    sheet = sheet
    page = page
    other = other
    no = no
    full = full
    Handles = {h1, h2}
    Contents = {c1, c2}
    Objects = {o1, o2}
    Urls = {image, sheet, page, other}
    TypeOf <- MCTypes
    Quirks = {no, full}
    Requests <- MCPages
    None = None
PROPERTIES
    UnusedGo
    ToldAsPromised
