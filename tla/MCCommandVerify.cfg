\* Three goroutines, six messages, two starts of the agent.
CONSTANTS
    stream = stream
    startup = startup
    reconcile = reconcile
    c2 = c2
    l3 = l3
    c4 = c4
    l5 = l5
    forged = forged
    unsigned = unsigned
    Callers <- MCCallers
    NoMessage = NoMessage
    ReceiveLoop = stream
    Messages <- MCMessages
    Lists <- MCLists
    Genuine <- MCGenuine
    Nonce <- MCNonce
    MaxBoots = 2
SPECIFICATION Spec
INVARIANTS TypeOK NoReplay OnlyGenuineAdvance DiskBehindMemory
PROPERTIES ReceiveLoopGuarded
\* The messages expire and the starts run out.
CHECK_DEADLOCK FALSE
