--------------------------- MODULE ChannelJoinFlow ---------------------------
(***************************************************************************)
(* The packet processor's CHANNEL_JOIN and CHANNEL_PART handlers           *)
(* (user_channel_join, user_channel_part) composed with the bancho state   *)
(* service.  The gateway first checks the request's session token; each   *)
(* handler is then three steps of the same task:                          *)
(*   1. chat_service.join_into_channel / leave_from_channel changes the    *)
(*      bancho membership of the channel and returns its ChannelInfo,      *)
(*      which carries the member count as it was at that moment;           *)
(*   2. bancho_state_service.channel_update_notify(None, info) builds the  *)
(*      ChannelInfo packet and takes the registry read lease;              *)
(*   3. the broadcast loop of BanchoState pushes it to every session.      *)
(* The reply packet (ChannelJoin / ChannelKick) goes back in the HTTP      *)
(* response, not through a queue, and is left out.  One channel; the      *)
(* channel registry (join_into_channel, leave_from_channel) is not in this *)
(* tree and is modelled from the spec.  A payload that does not decode    *)
(* (read_channel_name) fails the handler before any step: a stutter.       *)
(***************************************************************************)
EXTENDS BanchoState, TLC

VARIABLES
    chan,   \* the bancho-platform members of the channel
    info    \* history: ChannelInfo packet id -> the member count it carries

flow_vars == <<vars, chan, info>>

FlowInit ==
    /\ Init
    /\ chan = {}
    /\ info = <<>>

(***************************************************************************)
(* The gateway's check_user_session: check_user_session_exists looks the   *)
(* request's session token up in the registry (an atomic get under the     *)
(* read lease), touches its last_active and returns its user id; an        *)
(* unknown token fails the request before any packet is dispatched (a      *)
(* stutter).  The packets of the request are then processed for that user *)
(* id, with no further check of the session.                               *)
(***************************************************************************)
check_user_session_exists(s) == s \in session_index

check_user_session(w, s) ==
    /\ task[w].pc = "idle"
    /\ check_user_session_exists(s)
    /\ task' = [task EXCEPT ![w] = [Idle EXCEPT !.pc = "cj_checked",
                                                 !.handle = s, !.to = owner[s]]]
    /\ UNCHANGED <<user_index, session_index, owner, next_session, queue,
                   status, presence_filter, readers, next_frame, pushed,
                   delivered, submitted, bc_done, chan, info>>

\* Steps 1 and 2 of a handler for the checked user: `change` is the
\* membership after the chat call; the packet is created with the count of
\* that membership.
ChangeMembership(w, change) ==
    /\ task[w].pc = "cj_checked"
    /\ next_frame < MaxFrames
    /\ chan' = change
    /\ info' = info @@ (next_frame + 1 :> Cardinality(change))
    /\ task' = [task EXCEPT ![w] =
                  [Idle EXCEPT !.pc = "cj_notify",
                               !.frame = NewFrame("data", 1, DefaultStatus)]]
    /\ next_frame' = next_frame + 1
    /\ UNCHANGED <<user_index, session_index, owner, next_session, queue,
                   status, presence_filter, readers, pushed, delivered,
                   submitted, bc_done>>

user_channel_join(w) == ChangeMembership(w, chan \cup {task[w].to})

user_channel_part(w) == ChangeMembership(w, chan \ {task[w].to})

\* channel_update_notify(None, info).unwrap(): the read lease over every
\* session; BanchoState's broadcast_push / broadcast_end finish it.
notify_begin(w) ==
    /\ task[w].pc = "cj_notify"
    /\ BeginBroadcast(w, task[w].frame, session_index)
    /\ UNCHANGED <<user_index, session_index, owner, next_session, queue,
                   status, presence_filter, next_frame, pushed, delivered,
                   submitted, bc_done, chan, info>>

(***************************************************************************)
(* The gateway's bancho_login: a missing or mismatched client version, or *)
(* a body that does not parse, returns a login error before any call (a    *)
(* stutter); otherwise bancho_service.login (not in this tree; from the    *)
(* spec, it creates the user's session) runs create_user_session.          *)
(***************************************************************************)
bancho_login(u) ==
    /\ create_user_session(u)
    /\ UNCHANGED <<chan, info>>

(***************************************************************************)
(* Other frames of a checked request, each dispatched with the request's   *)
(* session id.  A missing or undecodable payload fails the frame before   *)
(* any call (PacketPayloadNotExists, InvalidPacketPayload): a stutter.     *)
(* The bancho service the handlers forward to (svc_impl) is not in this   *)
(* tree; from the spec's dispatch table, RECEIVE_UPDATES stores the       *)
(* presence filter and LOGOUT deletes the session.                        *)
(***************************************************************************)
\* PresenceFilter::from_i32(i).unwrap_or_default(): unknown values are None.
PresenceFilterOf(i) ==
    CASE i = 1 -> "All"
      [] i = 2 -> "Friends"
      [] OTHER -> "None"

user_receive_updates(w, i) ==
    /\ task[w].pc = "cj_checked"
    /\ PresenceFilterOf(i) \in PresenceFilters
    /\ update_presence_filter(task[w].handle, PresenceFilterOf(i))
    /\ UNCHANGED <<chan, info>>

user_logout(w) ==
    /\ task[w].pc = "cj_checked"
    /\ delete_user_session(task[w].handle)
    /\ UNCHANGED <<chan, info>>

\* The last frame is handled: the response is written and the task ends.
request_done(w) ==
    /\ task[w].pc = "cj_checked"
    /\ task' = [task EXCEPT ![w] = Idle]
    /\ UNCHANGED <<user_index, session_index, owner, next_session, queue,
                   status, presence_filter, readers, next_frame, pushed,
                   delivered, submitted, bc_done, chan, info>>

FlowNext ==
    \/ Next /\ UNCHANGED <<chan, info>>
    \/ \E u \in Users : bancho_login(u)
    \/ \E w \in Workers :
          \/ \E s \in SessionIds : check_user_session(w, s)
          \/ user_channel_join(w) \/ user_channel_part(w)
          \/ notify_begin(w)
          \/ \E i \in 0 .. 3 : user_receive_updates(w, i)
          \/ user_logout(w) \/ request_done(w)

FlowSpec == FlowInit /\ [][FlowNext]_flow_vars

-----------------------------------------------------------------------------
(* Properties *)

\* No join or part is between its membership change and the end of its
\* broadcast.
Quiet ==
    \A w \in Workers :
        /\ task[w].pc # "cj_notify"
        /\ task[w].pc = "bc_push" => task[w].frame.id \notin DOMAIN info

\* The positions in a session's history that hold ChannelInfo packets.
InfoAt(s) == {i \in DOMAIN pushed[s] : pushed[s][i].id \in DOMAIN info}

(***************************************************************************)
(* Once every join and part has finished, the newest ChannelInfo packet a  *)
(* live session was sent reports the channel's current member count (spec *)
(* end-to-end scenario 1).  Each handler reads the count at its chat call *)
(* and broadcasts later, so two handlers can deliver their counts in the  *)
(* opposite order.                                                         *)
(***************************************************************************)
ChannelInfoLatest ==
    Quiet =>
        \A s \in session_index :
            InfoAt(s) # {} =>
                info[pushed[s][Max(InfoAt(s))].id] = Cardinality(chan)

=============================================================================
