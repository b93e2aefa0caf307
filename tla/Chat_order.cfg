\* Pulls, joins, parts and channel messages of two users in one channel.
CONSTANTS
    Users = {u1, u2}
    Channels = {c1}
    Workers = {w1, w2}
    MaxMsgs = 2
    Capacity = 2
    MaxQueue = 1
    NoCursor = NoCursor
    Nil = Nil
SYMMETRY MCSymmetry
SPECIFICATION Spec
INVARIANTS
    TypeOK
    ChannelMessagesInOrder
\* Requests are client driven: once the bounded messages are spent the
\* service waits for requests that the model no longer makes.
CHECK_DEADLOCK FALSE
