\* Two joins deliver their member counts in the opposite order.
CONSTANTS
    Users = {u1, u2}
    Workers = {w1, w2}
    OnlineStatuses = {"Idle"}
    Modes = {"Standard"}
    MaxSessions = 2
    MaxFrames = 2
    NoSession = NoSession
    NoUser = NoUser
    PresenceFilters = {"None", "All"}
    DefaultStatus <- MCDefaultStatus
SYMMETRY MCSymmetry
SPECIFICATION FlowSpec
INVARIANT ChannelInfoLatest
\* The service is request-driven: once the bounded logins and packets are
\* spent and no session is left, no request can change the state.
CHECK_DEADLOCK FALSE
