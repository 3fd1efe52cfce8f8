\* Forms alone: the Content-Length and the body.
CONSTANTS
    Part = {"forms"}
    p1 = p1 p2 = p2
    Producer = {p1} Nobody = Nobody Limit = 2 MaxPackets = 1 MaxCloses = 1
    Caller = {p1} Owner = p1 NoCaller = Nobody NFrames = 1 MaxCapCalls = 1
    Time = {1} VideoDelay = 1 AudioDelays = {0} FrameSize = 2 MaxSamples = 1 MaxMedia = 1
    User = {p1} Key = {"k"} Addr = {1} NoItem = 0 Delay = {0} MaxTicks = 1 MaxManaged = 1
    MaxMessages = 1 MaxLogCalls = 2 MaxLogTime = 1 RotationInterval = 0 LogLevel = {1} ChannelName <- ChannelNames
    Peer = {p1} FrameSamples = 2 MaxAudio = 1 MaxAudioCalls = 1 PacketTime = {1} MaxVideo = 1
    Format = {"s", "t", "p"} Planar = {"p"} CodecDelay = 1 ShortFrames = {{}} MaxCodecCalls = 1 MaxResample = 1
    HeaderSize = 3 EndSize = 4 FieldSize = 2 ChunkSize = 2 PartSize = {0, 2, 3} MaxFields = 2 MaxParts = 2
SPECIFICATION ServicesSpec
CHECK_DEADLOCK FALSE
INVARIANT LengthAnnounced
