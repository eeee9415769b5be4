\* Two concurrent callbacks of every body shape, over a network that loses and delays.
CONSTANTS
    m1 = m1  m2 = m2
    None = None
    Msgs <- MCMsgs
SPECIFICATION Spec
INVARIANT NoMessageWithoutRecord
PROPERTY EveryCallbackAnswered
\* Every callback is answered once; the model stops when all are and the network is drained.
CHECK_DEADLOCK FALSE
