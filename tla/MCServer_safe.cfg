SPECIFICATION OrderedSpec
CONSTANTS
    Rec = rec
    Rul = rul
    Main = main
    Guis = {g}
    s1 = s1
    Sensors = {s1}
    Aliens = {x}
    Values = {0, 1}
    old = old
    new = new
    Contents = {old, new}
    Bad = Bad
    Rules <- MCRules
    Ends <- MCEnds
    light = light
    Commands = {light}
    Editable = {"rules"}
    Sendable = {"sensors"}
    Lines = {"reload"}
    MaxTokens = 1
    MqSize = 1
    None = None
INVARIANTS
    TypeOK
    WalksLive
    NotifiedOrDone
    DiskMatches
    OnlyDiskStops
PROPERTIES
    WalkSeesOneState
