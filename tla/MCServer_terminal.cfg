SPECIFICATION FairSpec
CONSTANTS
    Rec = rec
    Rul = rul
    Main = main
    Guis = {}
    s1 = s1
    Sensors = {s1}
    Aliens = {}
    Values = {0, 1}
    old = old
    new = new
    Contents = {new}
    Bad = Bad
    Rules <- MCRules
    Ends <- MCEnds
    light = light
    Commands = {light}
    Editable = {}
    Sendable = {}
    Lines = {"reload"}
    MaxTokens = 1
    MqSize = 1
    None = None
PROPERTIES
    TypedIsServed
