\* Two users, one channel, two workers.
CONSTANTS
    Users = {u1, u2}
    Channels = {c1}
    Workers = {w1, w2}
    MaxMsgs = 2
    Capacity = 2
    MaxQueue = 1
    NoCursor = NoCursor
    Nil = Nil
SYMMETRY MCSymmetry
SPECIFICATION Spec
INVARIANT
    NoticeMatchesMembership
CHECK_DEADLOCK FALSE
