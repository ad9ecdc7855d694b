CONSTANTS
    WIDTH = 3
    HEIGHT = 2
    TAB = 2
    BYTE = 16
    Chars <- MCChars
    Attrs <- MCAttrs
    Space = " "
    Nul = "nul"
    Pixels = {}
    Colors = {0}
    Typed = {"a", "LF", "CR", "BS", "HT"}
    Drawn = {}
    Windows = {}
    PortBytes = {}
    MaxGone = 2
SPECIFICATION TerminalSpec
PROPERTIES
    PrintsOnPaper
