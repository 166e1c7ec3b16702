\* Six bytes, cut into messages in every way; the kernel holds three of them.
CONSTANTS
    Length = 6
    Capacity = 3
    LUAL_BUFFERSIZE = 2
SPECIFICATION FairSpec
INVARIANT OnlyTailsMissing
PROPERTIES
    ImplementsRead
    WritesEnd
