SPECIFICATION FairSpec
CONSTANTS
    MinPreamble = 1
    MaxPreamble = 2
    EthLen = 2
    IpLen = 3
    UdpLen = 4
    PortByte = 2
    MinPayload = 2
    CmdLen = 3
    FcsLen = 1
    LengthMod = 16
    DropMod = 4
    Lengths = {0, 1, 3, 4}
    Preambles = {0, 1, 2, 3}
    MinGap = 7
    MaxFrames = 3
    MaxCuts = 1
    MaxResets = 1
INVARIANTS CommandHeard
PROPERTIES CommandIsOnePacket ReceiverRecovers
