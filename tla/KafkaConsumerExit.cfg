CONSTANTS
    LogLength = 2
    MaxRestarts = 0
SPECIFICATION KafkaFairSpec
CHECK_DEADLOCK FALSE
PROPERTIES SignalStopsConsumer
