CONSTANTS
    LenBase = 3
    UintMod = 65536
    Messages <- MCMessages
    ReadMax = 5
    Garbage = {0, 255}
    SendMax = 2
SPECIFICATION MqttSpec
INVARIANT
    RoundTrip
CHECK_DEADLOCK FALSE
