SPECIFICATION FairOrderedSpec
CONSTANTS
    Rec = rec
    Rul = rul
    Main = main
    Guis = {g}
    s1 = s1
    Sensors = {s1}
    Aliens = {}
    Values = {0, 1}
    old = old
    new = new
    Contents = {new}
    Bad = Bad
    Rules <- MCRules
    Ends <- MCEnds
    light = light
    Commands = {light}
    Editable = {}
    Sendable = {"rules"}
    Lines = {"launchT", "stopT"}
    MaxTokens = 1
    MqSize = 1
    None = None
PROPERTIES
    Evaluated
    CommandsSent
    LoadsEnd
