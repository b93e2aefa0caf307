\* A packet enqueued by user id racing with a second login of that user.
CONSTANTS
    Users = {u1, u2}
    Workers = {w1, w2}
    OnlineStatuses = {"Idle"}
    Modes = {"Standard"}
    MaxSessions = 2
    MaxFrames = 2
    NoSession = NoSession
    NoUser = NoUser
    PresenceFilters = {"None", "All"}
    DefaultStatus <- MCDefaultStatus
SYMMETRY MCSymmetry
SPECIFICATION Spec
\* The service is request-driven: once the bounded logins and packets are
\* spent and no session is left, no request can change the state.
CHECK_DEADLOCK FALSE
INVARIANT LogoutIsTerminal
