\* Broadcasts reach every addressed session before its logout, under every
\* bancho state call interleaved with concurrent CHANNEL_JOIN / CHANNEL_PART
\* handlers.
CONSTANTS
    Users = {u1, u2}
    Workers = {w1, w2}
    OnlineStatuses = {"Idle"}
    Modes = {"Standard"}
    MaxSessions = 2
    MaxFrames = 2
    NoSession = NoSession
    NoUser = NoUser
    PresenceFilters = {"None"}
    DefaultStatus <- MCDefaultStatus
SYMMETRY MCSymmetry
SPECIFICATION FlowSpec
INVARIANT TypeOK
INVARIANT BroadcastPrecedesLogout
\* The service is request-driven: once the bounded logins and packets are
\* spent and no session is left, no request can change the state.
CHECK_DEADLOCK FALSE
