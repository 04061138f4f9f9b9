SPECIFICATION LiveSpec
CONSTANTS
    RingSize = 3
    MaxLineLen = 2
    ControllerSize = 2
    Counts = {1, 2, 4}
    Sessions <- MCTyping
PROPERTIES
    KeyedLineIsRead
