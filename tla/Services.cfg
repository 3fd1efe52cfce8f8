\* An open queue pushed over its limit and closed twice; a capture with two callers;
\* sessions of an encoder; codecs and a resampler; a timed manager with two threads and addresses used
\* again; a logger with two channels; two peers; audio, video and a
\* recorder of WebRTC; a form of up to two fields and two parts.
\* Packets, calls and messages run out.
CONSTANTS
    Part = {"queue", "capture", "encoder", "timed", "logs", "peers", "forms", "audio", "video", "record", "codec", "resampler"}
    p1 = p1 p2 = p2
    Producer = {p1, p2} Nobody = Nobody Limit = 2 MaxPackets = 6 MaxCloses = 2
    Caller = {p1, p2} Owner = p1 NoCaller = Nobody NFrames = 2 MaxCapCalls = 6
    Time = {1, 2, 3, 4} VideoDelay = 1 AudioDelays = {0, 1, 2} FrameSize = 2 MaxSamples = 3 MaxMedia = 6
    Format = {"s", "t", "p"} Planar = {"p"} CodecDelay = 1 ShortFrames = {{}, {1, 2}} MaxCodecCalls = 5 MaxResample = 12
    User = {p1, p2} Key = {"k"} Addr = {1, 2} NoItem = 0 Delay = {0, 1} MaxTicks = 2 MaxManaged = 3
    MaxMessages = 2 MaxLogCalls = 2 MaxLogTime = 1 RotationInterval = 0 LogLevel = {1} ChannelName <- ChannelNames
    Peer = {p1, p2} FrameSamples = 2 MaxAudio = 5 MaxAudioCalls = 5 PacketTime = {0, 40, 80, 120} MaxVideo = 5
    HeaderSize = 3 EndSize = 4 FieldSize = 2 ChunkSize = 2 PartSize = {0, 2, 3} MaxFields = 2 MaxParts = 2
SPECIFICATION ServicesSpec
CHECK_DEADLOCK FALSE
INVARIANT EveryPacketAccounted ManagedAlive PeersDeletedOnce WebrtcMediaSound CaptureSound LogFaithful DeliveredInOrder
PROPERTY FifoWhileOpen ServicesEnd
