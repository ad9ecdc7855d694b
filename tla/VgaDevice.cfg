CONSTANTS
    WIDTH = 2
    HEIGHT = 2
    TAB = 1
    BYTE = 16
    Chars <- MCChars
    Attrs <- MCAttrs
    Space = " "
    Nul = "nul"
    Pixels = {0}
    Colors = {0, 1}
    Typed = {"LF", "CR", "BS", "HT"}
    Drawn = {}
    Windows = {}
    PortBytes = {14, 15}
SPECIFICATION PollingSpec
INVARIANTS
    TypeOK
    CursorOnScreen
    CursorHalves
    PicturesCoherent
PROPERTIES
    RetraceComesAndGoes
