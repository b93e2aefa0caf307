----------------------------- MODULE ChannelRead -----------------------------
(***************************************************************************)
(* What the chat service promises a session reading channel messages      *)
(* (spec: message log, "at-least-once via cursor"): each channel has a    *)
(* log of entries with increasing ids; a session starts reading at the    *)
(* id current when it was created; one read of a channel atomically      *)
(* hands the session every retained entry after its read position and     *)
(* moves the position to the last one handed out.                         *)
(*                                                                         *)
(* Chat refines this: its pull_channel step is Read, every push_message   *)
(* is Post, create_session is Open; draining queues, taking and releasing *)
(* locks and returning the bytes are stuttering steps.                    *)
(***************************************************************************)
EXTENDS Naturals, Sequences, SequencesExt

CONSTANTS
    Users,      \* user ids
    Channels,   \* channels
    Entries,    \* the log entries a channel can receive
    MaxMsgs,    \* ids handed out: 1..MaxMsgs
    Capacity    \* entries a channel log retains

VARIABLES
    log,        \* channel -> retained entries, oldest first
    next_msg,   \* ids handed out so far
    opened,     \* users with a session
    rd,         \* user -> channel -> id of the last entry handed out
    recv        \* user -> the entries handed out, in order

avars == <<log, next_msg, opened, rd, recv>>

Init ==
    /\ log = [c \in Channels |-> <<>>]
    /\ next_msg = 0
    /\ opened = {}
    /\ rd = [u \in Users |-> [c \in Channels |-> 0]]
    /\ recv = [u \in Users |-> <<>>]

\* A new entry with the next id; the oldest is dropped past Capacity.
Post(c, m) ==
    /\ next_msg < MaxMsgs
    /\ m \in Entries /\ m.ch = c /\ m.id = next_msg + 1
    /\ LET l == Append(log[c], m)
       IN log' = [log EXCEPT ![c] = IF Len(l) > Capacity THEN Tail(l) ELSE l]
    /\ next_msg' = next_msg + 1
    /\ UNCHANGED <<opened, rd, recv>>

\* A session opens: it reads only what is posted from now on.
Open(u) ==
    /\ u \notin opened
    /\ opened' = opened \cup {u}
    /\ rd' = [rd EXCEPT ![u] = [c \in Channels |-> next_msg]]
    /\ UNCHANGED <<log, next_msg, recv>>

\* One atomic read of channel c by the session of u.
Read(u, c) ==
    LET new == SelectSeq(log[c], LAMBDA m : m.id > rd[u][c]) IN
    /\ u \in opened
    /\ recv' = [recv EXCEPT ![u] = @ \o new]
    /\ rd' = IF new = <<>> THEN rd ELSE [rd EXCEPT ![u][c] = Last(new).id]
    /\ UNCHANGED <<log, next_msg, opened>>

Next ==
    \/ \E c \in Channels, m \in Entries : Post(c, m)
    \/ \E u \in Users : Open(u)
    \/ \E u \in Users, c \in Channels : Read(u, c)

Spec == Init /\ [][Next]_avars
=============================================================================
