SPECIFICATION ServerSpec
CONSTANTS
    ephemeral = ephemeral
    media = media
    j1 = j1
    j2 = j2
    j3 = j3
    Workers = {ephemeral, media}
    Jobs = {j1, j2, j3}
    QueueOf <- TwoQueues
    Concurrency = 2
    Connections = {c1, c2}
    MaxSignals = 3
CHECK_DEADLOCK FALSE
INVARIANTS
    JobsFinish
    ServedWithStores
