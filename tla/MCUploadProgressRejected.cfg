SPECIFICATION CalmSpec
CONSTANTS
    Steps = 1
    MaxStreams = 3
    MaxChannels = 3
PROPERTY StreamsEnd
CHECK_DEADLOCK FALSE
