SPECIFICATION BlockSpec
CONSTANTS
    NumInodes = 6
    ArrayLen = 8
    v1 = v1
    v2 = v2
    Data <- MCData
    Zero = Zero
    Pad = Pad
    Changes <- MCChanges
    MaxFaults = 1
    MaxKills = 1
INVARIANTS
    BlockInv
    FlushIsPrefix
    ServedIsStored
    
    PaddedNotServed
PROPERTIES
    ClearedKeepsFile
    LoopsEnd
