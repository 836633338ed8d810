SPECIFICATION Spec
CONSTANTS
    Stats <- MCStats
    Pictures <- MCPictures
    PreviewWidth = 2
    Commands <- MCCommands
    Flips = {1, 64}
    EventsKept = 1
    Buffered = 12
    MaxFaults = 1
INVARIANTS
    ReplyIsCausal
    LinksWork
    BothEndsAgree
    PreviewShown
