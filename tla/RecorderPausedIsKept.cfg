CONSTANTS
    MaxSessions = 2
    MaxEvents = 2
SPECIFICATION RecorderSpec
PROPERTIES PausedIsKept
