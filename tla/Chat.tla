-------------------------------- MODULE Chat --------------------------------
(***************************************************************************)
(* ChatServiceImpl: channels with per-platform membership, each with a     *)
(* message log (a bounded ring of packets with increasing Ulid ids), the   *)
(* per-session read cursors (channel_read_process) and the session packet  *)
(* queues the chat service pushes notices into and drains on pull.         *)
(*                                                                         *)
(* A service call is a tokio task (a Worker); every .await is a step.      *)
(* The channel registry operations (add_user, remove_user_platforms,       *)
(* remove_user) and the log operations (push_message, receive_messages)    *)
(* are atomic under their own locks.  A user has at most one session here; *)
(* logins happen, displacement and logout are the subject of BanchoState.  *)
(* A todo!() in the code is a panic: the task stops where it is.           *)
(***************************************************************************)
EXTENDS Naturals, Sequences, FiniteSets, SequencesExt

CONSTANTS
    Users,      \* user ids
    Channels,   \* public channels (created at start, never removed)
    Workers,    \* concurrent service tasks
    MaxMsgs,    \* Ulid message ids handed out: 1..MaxMsgs
    Capacity,   \* entries a channel message log retains
    MaxQueue,   \* bound on a session queue's length (private messages)
    NoCursor,   \* channel_read_process has no entry for the channel
    Nil         \* no user / channel (locals of an idle task)

ASSUME MaxMsgs \in Nat \ {0} /\ Capacity \in Nat \ {0} /\ MaxQueue \in Nat

\* Platform bitflags; Web behaves as Lazer (nothing is sent to it).
Platforms == {"Bancho", "Lazer"}
PlatformSets == (SUBSET Platforms) \ {{}}

MsgIds == 0 .. MaxMsgs

\* A packet: a queued notice (join), a private message (pm), or a log entry
\* of a channel (msg, or info carrying the Bancho member count n).
Item == [kind : {"join", "pm", "msg", "info"}, ch : Channels \cup {Nil},
         id : MsgIds, n : 0 .. Cardinality(Users)]

VARIABLES
    members,    \* channel -> platform -> users (Channel members)
    online,     \* users with a session
    squeue,     \* user -> the session's packets_queue
    log,        \* channel -> retained message_queue entries, oldest first
    next_msg,   \* Ulids handed out so far
    dflt,       \* user -> default_read_process (Ulid at session creation)
    cursor,     \* user -> channel -> channel_read_process entry
    rp_locked,  \* user -> channel_read_process write lock is held
    task,       \* worker -> call in progress and its locals
    recv,       \* history: user -> every channel entry a pull returned
    told        \* history: user -> channel -> last notice pushed to it

vars == <<members, online, squeue, log, next_msg, dflt, cursor, rp_locked,
          task, recv, told>>

Idle == [pc |-> "idle", op |-> "none", u |-> Nil, c |-> Nil, n |-> 0,
         todo |-> {}, data |-> <<>>]

Pcs == {"idle", "notify", "count", "info_push", "pull_drain", "pull_lock",
        "pull_chan"}

TypeOK ==
    /\ members \in [Channels -> [Platforms -> SUBSET Users]]
    /\ online \subseteq Users
    /\ squeue \in [Users -> Seq(Item)]
    /\ log \in [Channels -> Seq(Item)]
    /\ next_msg \in MsgIds
    /\ dflt \in [Users -> MsgIds]
    /\ cursor \in [Users -> [Channels -> MsgIds \cup {NoCursor}]]
    /\ rp_locked \in [Users -> BOOLEAN]
    /\ task \in [Workers -> [pc : Pcs, op : {"none", "add", "remove"},
                             u : Users \cup {Nil}, c : Channels \cup {Nil},
                             n : 0 .. Cardinality(Users),
                             todo : SUBSET Channels, data : Seq(Item)]]
    /\ recv \in [Users -> Seq(Item)]
    /\ told \in [Users -> [Channels -> {"none", "join"}]]

\* No channel members and no messages yet; the users in us logged in.
InitOnline(us) ==
    /\ members = [c \in Channels |-> [p \in Platforms |-> {}]]
    /\ online = us
    /\ squeue = [u \in Users |-> <<>>]
    /\ log = [c \in Channels |-> <<>>]
    /\ next_msg = 0
    /\ dflt = [u \in Users |-> 0]
    /\ cursor = [u \in Users |-> [c \in Channels |-> NoCursor]]
    /\ rp_locked = [u \in Users |-> FALSE]
    /\ task = [w \in Workers |-> Idle]
    /\ recv = [u \in Users |-> <<>>]
    /\ told = [u \in Users |-> [c \in Channels |-> "none"]]

Init == InitOnline({})

Bancho(c) == members[c]["Bancho"]

\* The Bancho channels of u (user_channels[u].platform_channels[Bancho]).
JoinedBancho(u) == {c \in Channels : u \in Bancho(c)}

\* Tasks that have still to push a ChannelInfo entry into a log.
Posting == {w \in Workers : task[w].pc \in {"notify", "count", "info_push"}}

\* Room for one more log entry, counting those in-flight tasks will push.
CanPost == next_msg + Cardinality(Posting) < MaxMsgs

(***************************************************************************)
(* MessageQueue::push_message: append an entry with a fresh Ulid; the      *)
(* oldest entry is evicted once the ring holds more than Capacity.         *)
(***************************************************************************)
push_message(c, kind, n) ==
    LET l == Append(log[c], [kind |-> kind, ch |-> c, id |-> next_msg + 1,
                             n |-> n])
    IN /\ log' = [log EXCEPT ![c] = IF Len(l) > Capacity THEN Tail(l) ELSE l]
       /\ next_msg' = next_msg + 1

\* The channel log entries in a packet sequence.
LogEntries(s) == SelectSeq(s, LAMBDA m : m.kind \in {"msg", "info"})

\* MessageQueue::receive_messages: the retained entries newer than cur.
receive_messages(c, cur) == SelectSeq(log[c], LAMBDA m : m.id > cur)

(***************************************************************************)
(* A login creates the session: an empty packet queue, no read cursors,    *)
(* and default_read_process set to the current Ulid.                       *)
(***************************************************************************)
create_session(u) ==
    /\ u \notin online
    /\ online' = online \cup {u}
    /\ dflt' = [dflt EXCEPT ![u] = next_msg]
    /\ UNCHANGED <<members, squeue, log, next_msg, cursor, rp_locked, task,
                   recv, told>>

(***************************************************************************)
(* add_user_into_channel: channel_service.add_user adds u on the listed    *)
(* platforms; for Bancho it then notifies the user and posts a ChannelInfo *)
(* update into the channel's log.                                          *)
(***************************************************************************)
add_user_into_channel(w, c, u, ps) ==
    /\ task[w].pc = "idle"
    /\ CanPost
    /\ members' = [members EXCEPT ![c] =
                     [p \in Platforms |-> IF p \in ps THEN @[p] \cup {u}
                                                      ELSE @[p]]]
    /\ task' = IF "Bancho" \in ps
                 THEN [task EXCEPT ![w] = [Idle EXCEPT !.pc = "notify",
                                            !.op = "add", !.u = u, !.c = c]]
                 ELSE task
    /\ UNCHANGED <<online, squeue, log, next_msg, dflt, cursor, rp_locked,
                   recv, told>>

\* remove_user_platforms_from_channel: the same, removing.
remove_user_platforms_from_channel(w, c, u, ps) ==
    /\ task[w].pc = "idle"
    /\ CanPost
    /\ members' = [members EXCEPT ![c] =
                     [p \in Platforms |-> IF p \in ps THEN @[p] \ {u}
                                                      ELSE @[p]]]
    /\ task' = IF "Bancho" \in ps
                 THEN [task EXCEPT ![w] = [Idle EXCEPT !.pc = "notify",
                                            !.op = "remove", !.u = u, !.c = c]]
                 ELSE task
    /\ UNCHANGED <<online, squeue, log, next_msg, dflt, cursor, rp_locked,
                   recv, told>>

\* remove_user_from_channel: remove u from every platform, then notify and
\* post the update unconditionally.
remove_user_from_channel(w, c, u) ==
    /\ task[w].pc = "idle"
    /\ CanPost
    /\ members' = [members EXCEPT ![c] = [p \in Platforms |-> @[p] \ {u}]]
    /\ task' = [task EXCEPT ![w] = [Idle EXCEPT !.pc = "notify",
                                     !.op = "remove", !.u = u, !.c = c]]
    /\ UNCHANGED <<online, squeue, log, next_msg, dflt, cursor, rp_locked,
                   recv, told>>

(***************************************************************************)
(* channel_handle_for_bancho_user: look up the session of u (todo!() when  *)
(* there is none: the task panics) and push ChannelJoin(channel).          *)
(***************************************************************************)
channel_handle_for_bancho_user(w) ==
    LET t == task[w] IN
    /\ t.pc = "notify"
    /\ IF t.u \in online
         THEN /\ squeue' = [squeue EXCEPT ![t.u] =
                              Append(@, [kind |-> "join", ch |-> t.c, id |-> 0,
                                         n |-> 0])]
              /\ told' = [told EXCEPT ![t.u][t.c] = "join"]
              /\ task' = [task EXCEPT ![w].pc = "count"]
         ELSE /\ task' = [task EXCEPT ![w] = Idle]
              /\ UNCHANGED <<squeue, told>>
    /\ UNCHANGED <<members, online, log, next_msg, dflt, cursor, rp_locked,
                   recv>>

(***************************************************************************)
(* channel_update_for_bancho: ChannelInfo::pack reads session_count(Bancho) *)
(* first; the log lock is awaited after, and the entry pushed under it.    *)
(***************************************************************************)
\* A count that includes the joining user a second time.
channel_update_count_plus_one(w) ==
    /\ task[w].pc = "count"
    /\ task' = [task EXCEPT ![w].n = Cardinality(Bancho(task[w].c)) + 1,
                            ![w].pc = "info_push"]
    /\ UNCHANGED <<members, online, squeue, log, next_msg, dflt, cursor,
                   rp_locked, recv, told>>

channel_update_count(w) ==
    /\ task[w].pc = "count"
    /\ task' = [task EXCEPT ![w].n = Cardinality(Bancho(task[w].c)),
                            ![w].pc = "info_push"]
    /\ UNCHANGED <<members, online, squeue, log, next_msg, dflt, cursor,
                   rp_locked, recv, told>>

channel_update_push(w) ==
    /\ task[w].pc = "info_push"
    /\ push_message(task[w].c, "info", task[w].n)
    /\ task' = [task EXCEPT ![w] = Idle]
    /\ UNCHANGED <<members, online, squeue, dflt, cursor, rp_locked, recv,
                   told>>

(***************************************************************************)
(* send_message -> process_bancho_message (platforms default to all).      *)
(* To a channel: push a SendMessage entry into its log; nothing checks     *)
(* that the sender is a member.  To a user: push onto the session queue,   *)
(* or panic (todo!) when the user has no session.                          *)
(***************************************************************************)
send_message_to_channel(w, c) ==
    /\ task[w].pc = "idle"
    /\ CanPost
    /\ push_message(c, "msg", 0)
    /\ UNCHANGED <<members, online, squeue, dflt, cursor, rp_locked, task,
                   recv, told>>

send_message_to_user(w, u) ==
    /\ task[w].pc = "idle"
    /\ u \in online
    /\ Len(squeue[u]) < MaxQueue
    /\ squeue' = [squeue EXCEPT ![u] = Append(@, [kind |-> "pm", ch |-> Nil,
                                                  id |-> 0, n |-> 0])]
    /\ UNCHANGED <<members, online, log, next_msg, dflt, cursor, rp_locked,
                   task, recv, told>>

\* process_bancho_message: a channel target or a user target.
process_bancho_message(w, t) ==
    IF t \in Channels THEN send_message_to_channel(w, t)
                      ELSE send_message_to_user(w, t)

(***************************************************************************)
(* send_message: no platforms means Platform::all(); only the Bancho arm   *)
(* does anything (its result is unwrapped: process_bancho_message returns *)
(* Ok or panics through todo!), the Lazer and Web arms are empty.  A      *)
(* request without a target fails with InvalidArgument: a stutter.        *)
(***************************************************************************)
send_message(w, t, ps) ==
    /\ "Bancho" \in (IF ps = {} THEN Platforms ELSE ps)
    /\ process_bancho_message(w, t)

(***************************************************************************)
(* pull_chat_packets(u): get the session (u has one: todo!() otherwise),   *)
(* drain its packet queue, then under the channel_read_process write lock  *)
(* walk each Bancho channel of u from its cursor (default_read_process     *)
(* when it has none), append what receive_messages returns and move the    *)
(* cursor to the last id returned.  The lock guard drops on return.        *)
(***************************************************************************)
pull_chat_packets(w, u) ==
    /\ task[w].pc = "idle"
    /\ u \in online
    /\ task' = [task EXCEPT ![w] = [Idle EXCEPT !.pc = "pull_drain", !.u = u]]
    /\ UNCHANGED <<members, online, squeue, log, next_msg, dflt, cursor,
                   rp_locked, recv, told>>

\* Read the user_channels record, dequeue_all_packets(None) (the whole
\* queue, under its mutex) and read the record's Bancho channel ids: all
\* before the channel_read_process lock is awaited.
pull_drain(w) ==
    LET u == task[w].u IN
    /\ task[w].pc = "pull_drain"
    /\ task' = [task EXCEPT ![w].data = squeue[u], ![w].todo = JoinedBancho(u),
                            ![w].pc = "pull_lock"]
    /\ squeue' = [squeue EXCEPT ![u] = <<>>]
    /\ UNCHANGED <<members, online, log, next_msg, dflt, cursor, rp_locked,
                   recv, told>>

\* The channel loop run without the channel_read_process lock.
pull_lock_unguarded(w) ==
    /\ task[w].pc = "pull_lock"
    /\ task' = [task EXCEPT ![w].pc = "pull_chan"]
    /\ UNCHANGED <<members, online, squeue, log, next_msg, dflt, cursor,
                   rp_locked, recv, told>>

\* The channel_read_process write lock is awaited.
pull_lock(w) ==
    LET u == task[w].u IN
    /\ task[w].pc = "pull_lock"
    /\ ~rp_locked[u]
    /\ rp_locked' = [rp_locked EXCEPT ![u] = TRUE]
    /\ task' = [task EXCEPT ![w].pc = "pull_chan"]
    /\ UNCHANGED <<members, online, squeue, log, next_msg, dflt, cursor, recv,
                   told>>

\* One channel of the loop: the message_queue lock is taken for the read.
pull_channel(w) ==
    LET t == task[w]
        u == t.u
    IN
    /\ t.pc = "pull_chan"
    /\ \E c \in t.todo :
         LET cur == IF cursor[u][c] = NoCursor THEN dflt[u] ELSE cursor[u][c]
             new == receive_messages(c, cur)
         IN /\ task' = [task EXCEPT ![w].todo = @ \ {c},
                                    ![w].data = @ \o new]
            /\ cursor' = IF new = <<>> THEN cursor
                         ELSE [cursor EXCEPT ![u][c] = Last(new).id]
    /\ UNCHANGED <<members, online, squeue, log, next_msg, dflt, rp_locked,
                   recv, told>>

\* A return that keeps the lock (a guard moved into a longer-lived value).
pull_return_keep_lock(w) ==
    LET t == task[w] IN
    /\ t.pc = "pull_chan"
    /\ t.todo = {}
    /\ recv' = [recv EXCEPT ![t.u] = @ \o LogEntries(t.data)]
    /\ task' = [task EXCEPT ![w] = Idle]
    /\ UNCHANGED <<members, online, squeue, log, next_msg, dflt, cursor,
                   rp_locked, told>>

\* Return: the lock guard drops and the bytes go back to the caller.
pull_return(w) ==
    LET t == task[w] IN
    /\ t.pc = "pull_chan"
    /\ t.todo = {}
    /\ rp_locked' = [rp_locked EXCEPT ![t.u] = FALSE]
    /\ recv' = [recv EXCEPT ![t.u] = @ \o LogEntries(t.data)]
    /\ task' = [task EXCEPT ![w] = Idle]
    /\ UNCHANGED <<members, online, squeue, log, next_msg, dflt, cursor,
                   told>>

(***************************************************************************)
(* The steps a started call takes by itself, and the calls clients make.   *)
(***************************************************************************)
Step(w) ==
    \/ channel_handle_for_bancho_user(w)
    \/ channel_update_count(w)
    \/ channel_update_push(w)
    \/ pull_drain(w)
    \/ pull_lock(w)
    \/ pull_channel(w)
    \/ pull_return(w)

Call(w) ==
    \/ \E u \in Users : create_session(u)
    \/ \E c \in Channels, u \in Users, ps \in PlatformSets :
         \/ add_user_into_channel(w, c, u, ps)
         \/ remove_user_platforms_from_channel(w, c, u, ps)
    \/ \E c \in Channels, u \in Users : remove_user_from_channel(w, c, u)
    \/ \E t \in Channels \cup Users, ps \in SUBSET Platforms :
         send_message(w, t, ps)
    \/ \E u \in Users : pull_chat_packets(w, u)

Next == \E w \in Workers : Step(w) \/ Call(w)

(***************************************************************************)
(* A started task is polled by the tokio runtime until it finishes: weak   *)
(* fairness on its steps.  The tokio RwLock is fair (waiters are queued in *)
(* arrival order), so a task waiting for the channel_read_process lock     *)
(* gets it once holders release it: strong fairness on pull_lock.  Client  *)
(* calls are not fair.                                                     *)
(***************************************************************************)
Fairness ==
    \A w \in Workers :
        /\ WF_vars(Step(w))
        /\ SF_vars(pull_lock(w))

Spec == Init /\ [][Next]_vars /\ Fairness

-----------------------------------------------------------------------------
(* Properties *)

\* The channel entries of c in a packet sequence.
FromChannel(s, c) ==
    SelectSeq(LogEntries(s), LAMBDA m : m.ch = c)

(***************************************************************************)
(* At-least-once via cursor, never out of order (spec, message log): the   *)
(* entries of a channel that pull_chat_packets hands a user, over all its  *)
(* pulls, have strictly increasing ids: no entry twice, none older than    *)
(* one already returned.  Concurrent pulls of one session rely on the      *)
(* channel_read_process write lock for this.                               *)
(***************************************************************************)
ChannelMessagesInOrder ==
    \A u \in Users, c \in Channels :
        LET s == FromChannel(recv[u], c) IN
        \A i \in 1 .. Len(s) - 1 : s[i].id < s[i + 1].id

(***************************************************************************)
(* Every pull_chat_packets call returns: a call waiting for the            *)
(* channel_read_process lock is never starved by other pulls of the same  *)
(* session.                                                               *)
(***************************************************************************)
PullReturns ==
    \A w \in Workers : task[w].pc = "pull_drain" ~> task[w].pc = "idle"

(***************************************************************************)
(* The notices a user's session receives agree with its membership: once  *)
(* no join or part of u in c is in flight, u was last sent ChannelJoin(c)  *)
(* only if it is a Bancho member of c (spec: CHANNEL_PART answers          *)
(* ChannelKick).  remove_user_from_channel and                            *)
(* remove_user_platforms_from_channel call channel_handle_for_bancho_user, *)
(* which packs ChannelJoin.                                                *)
(***************************************************************************)
InFlight(u, c) ==
    \E w \in Workers : task[w].pc = "notify" /\ task[w].u = u /\ task[w].c = c

NoticeMatchesMembership ==
    \A u \in online, c \in Channels :
        ~InFlight(u, c) /\ told[u][c] = "join" => u \in Bancho(c)

(***************************************************************************)
(* The channel's newest ChannelInfo is current: once no task is posting    *)
(* into c, the last info entry retained in its log carries the number of   *)
(* Bancho members.  channel_update_for_bancho reads session_count before  *)
(* it awaits the log lock.                                                 *)
(***************************************************************************)
ChannelInfoCurrent ==
    \A c \in Channels :
        LET infos == SelectSeq(log[c], LAMBDA m : m.kind = "info") IN
        (infos # <<>> /\ \A w \in Posting : task[w].c # c)
            => Last(infos).n = Cardinality(Bancho(c))

(***************************************************************************)
(* Chat implements ChannelRead: the entries a user has been handed are     *)
(* what its pulls returned plus what the pull holding its                  *)
(* channel_read_process lock has read so far; the read position is the     *)
(* cursor, or default_read_process where the channel has none.  Every     *)
(* pull_channel must then be one atomic Read of ChannelRead: no entry     *)
(* lost, repeated or reordered across concurrent pulls of one session,    *)
(* across eviction from the ring, and from the session's first pull on.   *)
(***************************************************************************)
Reading(u) == {w \in Workers : task[w].pc = "pull_chan" /\ task[w].u = u}

Pending(u) ==
    IF Reading(u) = {} THEN <<>>
    ELSE LogEntries(task[CHOOSE w \in Reading(u) : TRUE].data)

ReadPosition ==
    [u \in Users |-> [c \in Channels |->
        IF cursor[u][c] = NoCursor THEN dflt[u] ELSE cursor[u][c]]]

Abstract == INSTANCE ChannelRead WITH
    Entries <- {m \in Item : m.kind \in {"msg", "info"} /\ m.id > 0},
    opened <- online,
    rd <- ReadPosition,
    recv <- [u \in Users |-> recv[u] \o Pending(u)]

ReadsRefineChannelRead == Abstract!Spec
=============================================================================
