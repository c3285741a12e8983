SPECIFICATION Spec
CONSTANTS
    Chars = {"slash", "e"}
    Slash = "slash"
    Width <- MCWidth
    Terminals <- MCTerminals
    Sizes = {3}
    MaxBytes = 3
    MaxMessages = 3
INVARIANTS TypeOK ScrolledWithin RowsShowHistory InputBoxShowsLine
PROPERTIES ImplementsEditor ViewStaysPut
