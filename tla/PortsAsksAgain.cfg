CONSTANTS
    PORTS = 2
    Byte = {0, 1, 255}
    Floating = 255
    Sent = {0, 1}
    Answers = {1}
    Defaults = {0}
SPECIFICATION Spec
PROPERTIES
    AsksAgain
