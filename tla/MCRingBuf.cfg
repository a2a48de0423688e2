SPECIFICATION FairSpec
CONSTANTS
    Producers = {input}
    Consumers = {main}
    Item = {press, release}
    NoItem = NoItem
    NoThread = NoThread
    InitCapacity = 2
    ElemSize = 2
    SizeMax = 8
INVARIANTS NoLostWakeup
PROPERTIES ImplementsQueue EveryWaitReturns
