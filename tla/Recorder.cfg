CONSTANTS
    MaxSessions = 2
    MaxEvents = 2
SPECIFICATION RecorderSpec
INVARIANTS RecorderTypeOK
PROPERTIES RecordingIsFiled
