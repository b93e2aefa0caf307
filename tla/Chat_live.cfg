\* Two workers pulling one session's packets while joins, parts and channel
\* messages go on; no symmetry (liveness).
CONSTANTS
    Users = {u1}
    Channels = {c1}
    Workers = {w1, w2}
    MaxMsgs = 2
    Capacity = 1
    MaxQueue = 1
    NoCursor = NoCursor
    Nil = Nil
SPECIFICATION Spec
PROPERTIES
    PullReturns
    ReadsRefineChannelRead
\* Requests are client driven: once the bounded messages are spent the
\* service waits for requests that the model no longer makes.
CHECK_DEADLOCK FALSE
