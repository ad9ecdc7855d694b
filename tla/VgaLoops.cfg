CONSTANTS
    WIDTH = 1
    HEIGHT = 3
    TAB = 2
    BYTE = 16
    Chars <- MCChars
    Attrs <- MCAttrs
    Space = " "
    Nul = "nul"
    Pixels = {}
    Colors = {0}
    Typed = {"a", "LF", "HT"}
    Drawn <- MCDrawn
    Windows <- MCWindows
    PortBytes = {}
SPECIFICATION LoopSpec
INVARIANTS
    NothingVanishes
    TextCoherent
PROPERTIES
    DrawsAtOnce
