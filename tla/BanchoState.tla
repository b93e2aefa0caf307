----------------------------- MODULE BanchoState -----------------------------
(***************************************************************************)
(* The local bancho_state service: the session registry (UserSessions),    *)
(* the per-session packet queue (BanchoPacketsQueue) and the service       *)
(* operations of BanchoStateServiceImpl::Local that touch them.            *)
(*                                                                         *)
(* Every service call runs as a tokio task.  A task is a Worker; each      *)
(* .await on a lock is a step of its own, so the steps of several tasks    *)
(* interleave.  The registry is an RwLock: create/delete take it           *)
(* exclusively and atomically; `get` takes a read lease, clones the        *)
(* Arc<Session> and drops the lease; broadcast holds a read lease while it *)
(* pushes to every queue.  Each queue is a Mutex<VecDeque<Packet>>, so a   *)
(* push or a whole drain is one step.  The status fields of a session are  *)
(* independent atomic cells: update_all writes them one by one and         *)
(* user_stats_packet loads them one by one.                                *)
(*                                                                         *)
(* Data is abstracted: a packet is a record naming what it carries; a      *)
(* status is two of its six fields (online_status, written first, and      *)
(* mode, written last).                                                    *)
(***************************************************************************)
EXTENDS Naturals, Sequences, FiniteSets, SequencesExt

CONSTANTS
    Users,          \* user ids of the accounts that log in
    Workers,        \* concurrent service tasks
    OnlineStatuses, \* values of UserOnlineStatus the model uses
    Modes,          \* values of GameMode the model uses
    MaxSessions,    \* session ids 1..MaxSessions (a Ulid, increasing)
    MaxFrames,      \* packets created by service calls, ids 1..MaxFrames
    NoSession,      \* Option::None for a session handle
    NoUser,         \* no user id (a free session id, an idle task)
    PresenceFilters \* values of PresenceFilter the model uses

ASSUME MaxSessions \in Nat \ {0} /\ MaxFrames \in Nat \ {0}
ASSUME "None" \in PresenceFilters /\ PresenceFilters \subseteq {"None", "All", "Friends"}

SessionIds == 1 .. MaxSessions

Status == [online : OnlineStatuses, mode : Modes]

\* BanchoStatus::default(): Idle / Standard
CONSTANT DefaultStatus
ASSUME DefaultStatus \in Status

Kinds == {"data", "stats", "logout"}
Frame == [kind : Kinds, id : 0 .. MaxFrames, about : SessionIds, st : Status]

VARIABLES
    user_index,   \* indexes.user_id: user id -> session id
    session_index,\* indexes.session_id: the set of live session ids
    owner,        \* session id -> user id of the session (fixed at create)
    next_session, \* the next Ulid to hand out
    queue,        \* session id -> packets_queue contents
    status,       \* session id -> the bancho_status atomic cells
    presence_filter, \* session id -> the presence_filter atomic cell
    readers,      \* read leases held on the registry RwLock
    task,         \* worker -> the call it is executing and its locals
    next_frame,   \* ids handed to packets so far
    pushed,       \* history: every packet ever pushed to a queue
    delivered,    \* history: every packet a drain returned
    submitted,    \* history: the statuses callers asked to set
    bc_done       \* history: finished broadcasts and their target sets

vars == <<user_index, session_index, owner, next_session, queue, status,
          presence_filter, readers, task, next_frame, pushed, delivered,
          submitted, bc_done>>

Idle == [pc |-> "idle", op |-> "none", handle |-> NoSession, to |-> NoUser,
         st |-> DefaultStatus, rd |-> DefaultStatus,
         frame |-> [kind |-> "data", id |-> 0, about |-> 1, st |-> DefaultStatus],
         todo |-> {}, targets |-> {}]

\* cj_checked: a request whose session token the gateway has checked;
\* cj_notify: a CHANNEL_JOIN/PART handler between its chat call and its
\* channel_update_notify (ChannelJoinFlow).
Pcs == {"idle", "bc_push", "enq_push", "deq_drain", "upd_set_online",
        "upd_set_mode", "rd_online", "rd_mode", "enq_get", "cj_checked",
        "cj_notify"}

TypeOK ==
    /\ user_index \in [Users -> SessionIds \cup {NoSession}]
    /\ session_index \subseteq SessionIds
    /\ owner \in [SessionIds -> Users \cup {NoUser}]
    /\ next_session \in 1 .. MaxSessions + 1
    /\ queue \in [SessionIds -> Seq(Frame)]
    /\ status \in [SessionIds -> Status]
    /\ presence_filter \in [SessionIds -> PresenceFilters]
    /\ readers \in 0 .. Cardinality(Workers)
    /\ task \in [Workers -> [pc : Pcs, op : {"none", "update", "send_stats"},
                             handle : SessionIds \cup {NoSession},
                             to : Users \cup {NoUser}, st : Status, rd : Status,
                             frame : Frame, todo : SUBSET SessionIds,
                             targets : SUBSET SessionIds]]
    /\ next_frame \in 0 .. MaxFrames
    /\ pushed \in [SessionIds -> Seq(Frame)]
    /\ delivered \in [SessionIds -> Seq(Frame)]
    /\ submitted \in [SessionIds -> SUBSET Status]
    /\ bc_done \in SUBSET [id : 1 .. MaxFrames, targets : SUBSET SessionIds]

Init ==
    /\ user_index = [u \in Users |-> NoSession]
    /\ session_index = {}
    /\ owner = [s \in SessionIds |-> NoUser]
    /\ next_session = 1
    /\ queue = [s \in SessionIds |-> <<>>]
    /\ status = [s \in SessionIds |-> DefaultStatus]
    /\ presence_filter = [s \in SessionIds |-> "None"]
    /\ readers = 0
    /\ task = [w \in Workers |-> Idle]
    /\ next_frame = 0
    /\ pushed = [s \in SessionIds |-> <<>>]
    /\ delivered = [s \in SessionIds |-> <<>>]
    /\ submitted = [s \in SessionIds |-> {DefaultStatus}]
    /\ bc_done = {}

(***************************************************************************)
(* BanchoPacketsQueue::push_packet: lock the queue, push_back.             *)
(***************************************************************************)
push_packet(s, f) ==
    /\ queue' = [queue EXCEPT ![s] = Append(@, f)]
    /\ pushed' = [pushed EXCEPT ![s] = Append(@, f)]

NewFrame(kind, about, st) ==
    [kind |-> kind, id |-> next_frame + 1, about |-> about, st |-> st]

\* Resolve a UserQuery::UserId under a read lease released on return.
get(u) == user_index[u]

\* SessionFilter::session_is_target: the session is the one the packets go
\* to.  Targets are user ids here; the SessionId, Username and
\* UsernameUnicode arms name the same session of the same user.
session_is_target(s, u) == owner[s] = u

(***************************************************************************)
(* UserSessions::create under the write lease (readers = 0): a live        *)
(* session of the same user gets a logout packet and is removed from all   *)
(* indexes, then the new session is inserted with a fresh Ulid.            *)
(* create_user_session (Local) forwards to it.                             *)
(***************************************************************************)
create_user_session(u) ==
    LET s   == next_session
        old == user_index[u]
    IN /\ readers = 0
       /\ s <= MaxSessions
       /\ IF old # NoSession
            THEN push_packet(old, [kind |-> "logout", id |-> 0, about |-> old,
                                   st |-> DefaultStatus])
            ELSE UNCHANGED <<queue, pushed>>
       /\ session_index' = (session_index \ {old}) \cup {s}
       /\ user_index' = [user_index EXCEPT ![u] = s]
       /\ owner' = [owner EXCEPT ![s] = u]
       /\ next_session' = s + 1
       /\ presence_filter' = [presence_filter EXCEPT ![s] = "None"]
       /\ UNCHANGED <<status, readers, task, next_frame, delivered, submitted,
                      bc_done>>

(***************************************************************************)
(* delete_user_session -> UserSessions::delete under the write lease.      *)
(***************************************************************************)
delete_user_session(s) ==
    /\ readers = 0
    /\ s \in session_index
    /\ session_index' = session_index \ {s}
    /\ user_index' = [user_index EXCEPT ![owner[s]] = NoSession]
    /\ UNCHANGED <<owner, next_session, queue, status, readers, task,
                   next_frame, pushed, delivered, submitted, bc_done,
                   presence_filter>>

(***************************************************************************)
(* broadcast_bancho_packets: take a read lease, then for every session     *)
(* push the shared packet (one await on each queue lock), then drop the    *)
(* lease.  BeginBroadcast is the lease acquisition and the set of         *)
(* sessions the loop will visit: user_sessions.values(), or the targets    *)
(* resolved by get_inner under the same lease.                             *)
(***************************************************************************)
BeginBroadcast(w, f, ts) ==
    /\ readers' = readers + 1
    /\ task' = [task EXCEPT ![w] = [@ EXCEPT !.pc = "bc_push", !.frame = f,
                                             !.todo = ts, !.targets = ts]]

\* UserSessions::get_inner for each UserId target; misses are skipped.
Resolve(us) == {user_index[u] : u \in us} \ {NoSession}

broadcast_bancho_packets(w) ==
    /\ task[w].pc = "idle"
    /\ next_frame < MaxFrames
    /\ BeginBroadcast(w, NewFrame("data", 1, DefaultStatus), session_index)
    /\ next_frame' = next_frame + 1
    /\ UNCHANGED <<user_index, session_index, owner, next_session, queue,
                   status, pushed, delivered, submitted, bc_done,
                   presence_filter>>

(***************************************************************************)
(* batch_enqueue_bancho_packets(targets): under one read lease, push the   *)
(* shared packet to the session of every target that resolves.            *)
(***************************************************************************)
batch_enqueue_bancho_packets(w, us) ==
    /\ task[w].pc = "idle"
    /\ next_frame < MaxFrames
    /\ BeginBroadcast(w, NewFrame("data", 1, DefaultStatus), Resolve(us))
    /\ next_frame' = next_frame + 1
    /\ UNCHANGED <<user_index, session_index, owner, next_session, queue,
                   status, pushed, delivered, submitted, bc_done,
                   presence_filter>>

(***************************************************************************)
(* channel_update_notify(targets, info): build the ChannelInfo packet,    *)
(* then under one read lease push it to each resolved target (the misses  *)
(* are the reported fails) or, with no targets, to every session.         *)
(***************************************************************************)
channel_update_notify(w, us, all) ==
    /\ task[w].pc = "idle"
    /\ next_frame < MaxFrames
    /\ BeginBroadcast(w, NewFrame("data", 1, DefaultStatus),
                      IF all THEN session_index ELSE Resolve(us))
    /\ next_frame' = next_frame + 1
    /\ UNCHANGED <<user_index, session_index, owner, next_session, queue,
                   status, pushed, delivered, submitted, bc_done,
                   presence_filter>>

\* A loop that drops the read lease after each push.
broadcast_push_release(w) ==
    /\ task[w].pc = "bc_push"
    /\ \E s \in task[w].todo :
          /\ push_packet(s, task[w].frame)
          /\ task' = [task EXCEPT ![w].todo = @ \ {s}]
    /\ readers' = readers - 1
    /\ UNCHANGED <<user_index, session_index, owner, next_session, status,
                   next_frame, delivered, submitted, bc_done,
                   presence_filter>>

broadcast_push(w) ==
    /\ task[w].pc = "bc_push"
    /\ \E s \in task[w].todo :
          /\ push_packet(s, task[w].frame)
          /\ task' = [task EXCEPT ![w].todo = @ \ {s}]
    /\ UNCHANGED <<user_index, session_index, owner, next_session, status,
                   readers, next_frame, delivered, submitted, bc_done,
                   presence_filter>>

\* A loop that stops one session early.
broadcast_end_early(w) ==
    /\ task[w].pc = "bc_push"
    /\ Cardinality(task[w].todo) <= 1
    /\ readers' = readers - 1
    /\ bc_done' = bc_done \cup {[id |-> task[w].frame.id,
                                 targets |-> task[w].targets]}
    /\ task' = [task EXCEPT ![w] = Idle]
    /\ UNCHANGED <<user_index, session_index, owner, next_session, queue,
                   status, next_frame, pushed, delivered, submitted,
                   presence_filter>>

broadcast_end(w) ==
    /\ task[w].pc = "bc_push"
    /\ task[w].todo = {}
    /\ readers' = readers - 1
    /\ bc_done' = bc_done \cup {[id |-> task[w].frame.id,
                                 targets |-> task[w].targets]}
    /\ task' = [task EXCEPT ![w] = Idle]
    /\ UNCHANGED <<user_index, session_index, owner, next_session, queue,
                   status, next_frame, pushed, delivered, submitted,
                   presence_filter>>

(***************************************************************************)
(* enqueue_bancho_packets(UserId u): `get` resolves the session and drops  *)
(* the lease; the push happens after, on the cloned Arc<Session>.  When    *)
(* get returns None the call fails with SessionNotExists and changes       *)
(* nothing.                                                                *)
(***************************************************************************)
enqueue_bancho_packets(w, u) ==
    /\ task[w].pc = "idle"
    /\ next_frame < MaxFrames
    /\ get(u) # NoSession
    /\ task' = [task EXCEPT ![w] = [Idle EXCEPT !.pc = "enq_push",
                                     !.handle = get(u),
                                     !.frame = NewFrame("data", get(u),
                                                        DefaultStatus)]]
    /\ next_frame' = next_frame + 1
    /\ UNCHANGED <<user_index, session_index, owner, next_session, queue,
                   status, readers, pushed, delivered, submitted, bc_done,
                   presence_filter>>

\* The second half of enqueue_bancho_packets when it is reached from
\* send_user_stats_packet: resolve `to`, or fail with SessionNotExists.
enqueue_resolve(w) ==
    /\ task[w].pc = "enq_get"
    /\ task' = [task EXCEPT ![w] =
                  IF get(task[w].to) = NoSession
                    THEN Idle
                    ELSE [@ EXCEPT !.pc = "enq_push", !.handle = get(task[w].to)]]
    /\ UNCHANGED <<user_index, session_index, owner, next_session, queue,
                   status, readers, next_frame, pushed, delivered, submitted,
                   bc_done, presence_filter>>

enqueue_push(w) ==
    /\ task[w].pc = "enq_push"
    /\ push_packet(task[w].handle, task[w].frame)
    /\ task' = [task EXCEPT ![w] = Idle]
    /\ UNCHANGED <<user_index, session_index, owner, next_session, status,
                   readers, next_frame, delivered, submitted, bc_done,
                   presence_filter>>

(***************************************************************************)
(* dequeue_bancho_packets(SessionId s): `get`, then lock the queue and     *)
(* pop every packet into one buffer while holding the lock.                *)
(***************************************************************************)
dequeue_bancho_packets(w, s) ==
    /\ task[w].pc = "idle"
    /\ s \in session_index
    /\ task' = [task EXCEPT ![w] = [Idle EXCEPT !.pc = "deq_drain", !.handle = s]]
    /\ UNCHANGED <<user_index, session_index, owner, next_session, queue,
                   status, readers, next_frame, pushed, delivered, submitted,
                   bc_done, presence_filter>>

dequeue_drain(w) ==
    LET h == task[w].handle IN
    /\ task[w].pc = "deq_drain"
    /\ delivered' = [delivered EXCEPT ![h] = @ \o queue[h]]
    /\ queue' = [queue EXCEPT ![h] = <<>>]
    /\ task' = [task EXCEPT ![w] = Idle]
    /\ UNCHANGED <<user_index, session_index, owner, next_session, status,
                   readers, next_frame, pushed, submitted, bc_done,
                   presence_filter>>

(***************************************************************************)
(* update_user_bancho_status(SessionId s, st): `get`, then                 *)
(* BanchoStatus::update_all stores the fields one atomic cell at a time,   *)
(* then user_stats_packet loads them one at a time, then the packet is     *)
(* broadcast.  No lock orders these steps against other tasks.             *)
(***************************************************************************)
update_user_bancho_status(w, s, st) ==
    /\ task[w].pc = "idle"
    /\ next_frame < MaxFrames
    /\ s \in session_index
    /\ task' = [task EXCEPT ![w] = [Idle EXCEPT !.pc = "upd_set_online",
                                     !.op = "update", !.handle = s, !.st = st,
                                     !.frame = NewFrame("stats", s, st)]]
    /\ submitted' = [submitted EXCEPT ![s] = @ \cup {st}]
    /\ next_frame' = next_frame + 1
    /\ UNCHANGED <<user_index, session_index, owner, next_session, queue,
                   status, readers, pushed, delivered, bc_done,
                   presence_filter>>

\* update_all: self.online_status.set(..)
set_online_status(w) ==
    /\ task[w].pc = "upd_set_online"
    /\ status' = [status EXCEPT ![task[w].handle].online = task[w].st.online]
    /\ task' = [task EXCEPT ![w].pc = "upd_set_mode"]
    /\ UNCHANGED <<user_index, session_index, owner, next_session, queue,
                   readers, next_frame, pushed, delivered, submitted, bc_done,
                   presence_filter>>

\* update_all: self.mode.set(..), the last of its stores
set_mode(w) ==
    /\ task[w].pc = "upd_set_mode"
    /\ status' = [status EXCEPT ![task[w].handle].mode = task[w].st.mode]
    /\ task' = [task EXCEPT ![w].pc = "rd_online"]
    /\ UNCHANGED <<user_index, session_index, owner, next_session, queue,
                   readers, next_frame, pushed, delivered, submitted, bc_done,
                   presence_filter>>

(***************************************************************************)
(* send_user_stats_packet(query s, to u): `get` the session of s, build    *)
(* its stats packet, then enqueue_bancho_packets(to).                      *)
(***************************************************************************)
send_user_stats_packet(w, s, u) ==
    /\ task[w].pc = "idle"
    /\ next_frame < MaxFrames
    /\ s \in session_index
    /\ task' = [task EXCEPT ![w] = [Idle EXCEPT !.pc = "rd_online",
                                     !.op = "send_stats", !.handle = s,
                                     !.to = u,
                                     !.frame = NewFrame("stats", s,
                                                        DefaultStatus)]]
    /\ next_frame' = next_frame + 1
    /\ UNCHANGED <<user_index, session_index, owner, next_session, queue,
                   status, readers, pushed, delivered, submitted, bc_done,
                   presence_filter>>

(***************************************************************************)
(* batch_send_user_stats_packet(queries, to u), for one query s: under a   *)
(* read lease, look s up and, unless it is the session of u itself         *)
(* (session_is_target), take its user_stats_packet -- the atomic cells are *)
(* loaded without an await, in one step here; then drop the lease and      *)
(* enqueue_bancho_packets(to) the batch, empty or not.                     *)
(***************************************************************************)
batch_send_user_stats_packet(w, s, u) ==
    /\ task[w].pc = "idle"
    /\ next_frame < MaxFrames
    /\ task' = [task EXCEPT ![w] =
                  [Idle EXCEPT !.pc = "enq_get", !.to = u,
                   !.frame = IF s \in session_index /\ ~session_is_target(s, u)
                               THEN NewFrame("stats", s, status[s])
                               ELSE NewFrame("data", 1, DefaultStatus)]]
    /\ next_frame' = next_frame + 1
    /\ UNCHANGED <<user_index, session_index, owner, next_session, queue,
                   status, presence_filter, readers, pushed, delivered,
                   submitted, bc_done>>

(***************************************************************************)
(* send_all_presences(to u): under a read lease, the presence packet of    *)
(* every session but u's own; then enqueue_bancho_packets(to).  The        *)
(* presence_filter of u is not consulted.                                  *)
(***************************************************************************)
send_all_presences(w, u) ==
    /\ task[w].pc = "idle"
    /\ next_frame < MaxFrames
    /\ task' = [task EXCEPT ![w] =
                  [Idle EXCEPT !.pc = "enq_get", !.to = u,
                   !.frame = NewFrame("data", 1, DefaultStatus)]]
    /\ next_frame' = next_frame + 1
    /\ UNCHANGED <<user_index, session_index, owner, next_session, queue,
                   status, presence_filter, readers, pushed, delivered,
                   submitted, bc_done>>

(***************************************************************************)
(* batch_send_presences(queries, to u): with no queries it returns at     *)
(* once (a stutter); otherwise under a read lease it looks each query up,  *)
(* skips misses and u's own session, and takes the presence packets; then *)
(* it drops the lease and enqueue_bancho_packets(to) the batch.  Which    *)
(* sessions the batch describes no property tells apart.                   *)
(***************************************************************************)
batch_send_presences(w, u) ==
    /\ task[w].pc = "idle"
    /\ next_frame < MaxFrames
    /\ task' = [task EXCEPT ![w] =
                  [Idle EXCEPT !.pc = "enq_get", !.to = u,
                   !.frame = NewFrame("data", 1, DefaultStatus)]]
    /\ next_frame' = next_frame + 1
    /\ UNCHANGED <<user_index, session_index, owner, next_session, queue,
                   status, presence_filter, readers, pushed, delivered,
                   submitted, bc_done>>

\* update_presence_filter: `get` the session (SessionNotExists otherwise),
\* then store the filter in its atomic cell.
update_presence_filter(s, f) ==
    /\ s \in session_index
    /\ presence_filter' = [presence_filter EXCEPT ![s] = f]
    /\ UNCHANGED <<user_index, session_index, owner, next_session, queue,
                   status, readers, task, next_frame, pushed, delivered,
                   submitted, bc_done>>

\* user_stats_packet: status.online_status.load()
load_online_status(w) ==
    /\ task[w].pc = "rd_online"
    /\ task' = [task EXCEPT ![w].rd.online = status[task[w].handle].online,
                            ![w].pc = "rd_mode"]
    /\ UNCHANGED <<user_index, session_index, owner, next_session, queue,
                   status, readers, next_frame, pushed, delivered, submitted,
                   bc_done, presence_filter>>

\* user_stats_packet: status.mode.load(); the packet is complete.  An update
\* goes on to broadcast it, send_user_stats_packet to enqueue it.
load_mode(w) ==
    LET t  == task[w]
        f  == [t.frame EXCEPT !.st = [t.rd EXCEPT !.mode =
                                                  status[t.handle].mode]]
    IN /\ t.pc = "rd_mode"
       /\ IF t.op = "update"
            THEN BeginBroadcast(w, f, session_index)
            ELSE /\ task' = [task EXCEPT ![w].pc = "enq_get", ![w].frame = f]
                 /\ UNCHANGED readers
       /\ UNCHANGED <<user_index, session_index, owner, next_session, queue,
                      status, next_frame, pushed, delivered, submitted,
                      bc_done, presence_filter>>

Next ==
    \/ \E u \in Users : create_user_session(u)
    \/ \E s \in SessionIds : delete_user_session(s)
    \/ \E s \in SessionIds, f \in PresenceFilters : update_presence_filter(s, f)
    \/ \E w \in Workers :
          \/ broadcast_bancho_packets(w)
          \/ broadcast_push(w)
          \/ broadcast_end(w)
          \/ \E us \in SUBSET Users : batch_enqueue_bancho_packets(w, us)
          \/ \E us \in SUBSET Users, all \in BOOLEAN :
                channel_update_notify(w, us, all)
          \/ \E u \in Users : enqueue_bancho_packets(w, u)
          \/ enqueue_resolve(w)
          \/ enqueue_push(w)
          \/ \E s \in SessionIds : dequeue_bancho_packets(w, s)
          \/ dequeue_drain(w)
          \/ \E s \in SessionIds, st \in Status :
                update_user_bancho_status(w, s, st)
          \/ set_online_status(w)
          \/ set_mode(w)
          \/ \E s \in SessionIds, u \in Users : send_user_stats_packet(w, s, u)
          \/ load_online_status(w)
          \/ load_mode(w)
          \/ \E s \in SessionIds, u \in Users :
                batch_send_user_stats_packet(w, s, u)
          \/ \E u \in Users : send_all_presences(w, u)
          \/ \E u \in Users : batch_send_presences(w, u)

Spec == Init /\ [][Next]_vars

-----------------------------------------------------------------------------
(***************************************************************************)
(* Properties.                                                             *)
(***************************************************************************)

\* broadcast_bancho_packets and channel_update_notify(None) hold the read
\* lease on the registry across their whole loop of queue pushes, so a
\* login that would displace one of the sessions they address waits for
\* the loop to end.  Hence every finished broadcast reached each session
\* registered when it began, and reached it before that session's logout
\* packet -- however logins, deletes, enqueues, drains and other
\* broadcasts interleave with the loop's awaits.
BroadcastPrecedesLogout ==
    \A b \in bc_done : \A s \in b.targets :
        \E i \in DOMAIN pushed[s] :
            /\ pushed[s][i].id = b.id
            /\ \A j \in 1 .. i - 1 : pushed[s][j].kind # "logout"

\* A stats packet describes a status some caller set as a whole: the
\* service layer serialises multi-field status updates (spec 5, 9), so no
\* packet mixes fields of two different update_user_bancho_status calls.
NoTornStats ==
    \A s \in SessionIds : \A i \in DOMAIN pushed[s] :
        pushed[s][i].kind = "stats" =>
            pushed[s][i].st \in submitted[pushed[s][i].about]

\* The logout packet a displaced session receives is its last packet
\* (spec 8: "its queue contains a terminal logout frame"): nothing is
\* pushed onto a session after it has been displaced.
LogoutIsTerminal ==
    \A s \in SessionIds : \A i \in DOMAIN pushed[s] :
        pushed[s][i].kind = "logout" => i = Len(pushed[s])

=============================================================================
