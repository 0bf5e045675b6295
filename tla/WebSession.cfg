CONSTANTS
    Sliders = {"load", "start"}
    Values = {1, 2}
    Default = 1
    MaxSockets = 4
SPECIFICATION FairSessionSpec
INVARIANTS
    OneConnection
    SettledAgree
    RunIsWhatIsShown
PROPERTIES
    NoReconnectMidDrag
    ButtonReturns
