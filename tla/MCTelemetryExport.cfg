SPECIFICATION LiveSpec
CONSTANTS
    MaxItems = 3
    CAPACITY = 2
    PRE_CONFIG_CAPACITY = 1
    MAX_BATCH = 2
    KEEPALIVE_MAX_ITEMS = 2
    MAX_BATCH_ATTEMPTS = 2
    MAX_CONSECUTIVE_FAILURES = 3
    PRE_CONFIG_MAX = 1
INVARIANTS
    OutboxIsSound
    ItemsAreAccountedFor
PROPERTIES
    OffIsFinal
    SilentWhenRefusedOrOff
    TelemetrySettles
CHECK_DEADLOCK FALSE
