CONSTANTS
    Sliders = {"load", "start"}
    Values = {1, 2}
    Default = 1
    MaxSockets = 4
SPECIFICATION SessionSpec
INVARIANT StartIsKept
