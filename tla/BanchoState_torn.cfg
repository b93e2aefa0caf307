\* update_user_bancho_status racing with a stats read of the same session.
CONSTANTS
    Users = {u1, u2}
    Workers = {w1, w2}
    OnlineStatuses = {"Idle", "Playing"}
    Modes = {"Standard", "Taiko"}
    MaxSessions = 2
    MaxFrames = 2
    NoSession = NoSession
    NoUser = NoUser
    PresenceFilters = {"None", "All"}
    DefaultStatus <- MCDefaultStatus
SYMMETRY MCSymmetry
SPECIFICATION Spec
\* The service is request-driven: once the bounded logins and packets are
\* spent and no session is left, no request can change the state.
CHECK_DEADLOCK FALSE
INVARIANT NoTornStats
