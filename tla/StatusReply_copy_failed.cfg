SPECIFICATION Spec
CONSTANTS
    Stats <- MCStats
    Pictures <- MCPictures
    PreviewWidth = 2
    Commands <- MCCommands
    Flips = {1, 64}
    EventsKept = 1
    Buffered = 0
    MaxFaults = 1
INVARIANT LinksAlwaysWork
