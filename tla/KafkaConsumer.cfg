CONSTANTS
    LogLength = 3
    MaxRestarts = 2
SPECIFICATION KafkaFairSpec
CHECK_DEADLOCK FALSE
INVARIANTS KafkaTypeOK CommitFollowsAck NoGapBehindPosition
PROPERTIES EveryMessageTakenUp
