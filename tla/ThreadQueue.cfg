\* Three consumers that keep popping, one of them with a time limit.
SPECIFICATION FairSpec
CONSTANTS
    Consumers = {c1, c2, c3}
    TimedConsumers = {c3}
    Items = {i1, i2}
    NULL = NULL
    MaxPushes = 3
    Spurious = TRUE
INVARIANTS TypeOK Fifo NoLostWakeup
PROPERTIES ImplementsFifoQueue EveryEntryDelivered
