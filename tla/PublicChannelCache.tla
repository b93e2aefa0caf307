------------------------- MODULE PublicChannelCache -------------------------
(***************************************************************************)
(* ChatServiceRemote::get_public_channels (chat.rs) and its cache,         *)
(* PublicChannelInfo: a CachedAtomic<Vec<ChannelInfo>> with a 300 s TTL    *)
(* (DEFAULT_CHANNEL_CACHE_EXPIRES) in front of the chat server's           *)
(* get_public_channels RPC.                                                *)
(*                                                                         *)
(* A call is a tokio task; `fetch` loads the cache without a lock, and on  *)
(* a miss or an expired entry awaits the RPC, which may fail.  The server  *)
(* answers from its channel index under a read lock, so it serves the list *)
(* as it is at one instant.  The channel list is abstracted to a version   *)
(* number that grows when the server's public channels change.  Time is    *)
(* abstracted to the moment an entry becomes expired.  CachedAtomic (in    *)
(* the tools crate, not in this tree) is modelled from the spec: `set`     *)
(* stores a fresh entry, `get` returns it with its expiry flag.            *)
(***************************************************************************)
EXTENDS Naturals

CONSTANTS
    Tasks,       \* concurrent get_public_channels calls
    MaxVersion,  \* versions 1..MaxVersion of the server's channel list
    MaxCalls     \* bound on the calls made

NoValue == 0     \* no cached entry / nothing returned yet

Versions == 1 .. MaxVersion

VARIABLES
    channels,  \* the server's channel_public index (its version)
    info,      \* PublicChannelInfo: the cached entry
    task,      \* task -> the call it runs and its locals
    calls      \* calls made so far

vars == <<channels, info, task, calls>>

Entry == [set : BOOLEAN, v : Versions \cup {NoValue}, expired : BOOLEAN]

\* pc: idle, rpc (request sent), resp (server answered, reply in flight).
\* fb: the cached value `fetch` read before its await (the fallback).
\* got: what the server served; result: how the last call ended.
Call == [pc : {"idle", "rpc", "resp"}, fb : Versions \cup {NoValue},
         got : Versions \cup {NoValue}, result : {"none", "ok", "err"}]

TypeOK ==
    /\ channels \in Versions
    /\ info \in Entry
    /\ task \in [Tasks -> Call]
    /\ calls \in 0 .. MaxCalls

Init ==
    /\ channels = 1
    /\ info = [set |-> FALSE, v |-> NoValue, expired |-> FALSE]
    /\ task = [t \in Tasks |->
                 [pc |-> "idle", fb |-> NoValue, got |-> NoValue,
                  result |-> "none"]]
    /\ calls = 0

\* The chat server's public channels change (a channel is created or
\* removed there).
channels_update ==
    /\ channels < MaxVersion
    /\ channels' = channels + 1
    /\ UNCHANGED <<info, task, calls>>

\* DEFAULT_CHANNEL_CACHE_EXPIRES seconds pass since the entry was set.
cache_expire ==
    /\ info.set /\ ~info.expired
    /\ info' = [info EXCEPT !.expired = TRUE]
    /\ UNCHANGED <<channels, task, calls>>

(***************************************************************************)
(* get_public_channels -> PublicChannelInfo::fetch: a fresh entry is       *)
(* returned at once; an expired entry or none sends the RPC (fetch_new),   *)
(* keeping the entry read as the fallback.                                  *)
(***************************************************************************)
get_public_channels(t) ==
    /\ task[t].pc = "idle"
    /\ calls < MaxCalls
    /\ calls' = calls + 1
    /\ task' = [task EXCEPT ![t] =
                  IF info.set /\ ~info.expired
                    THEN [pc |-> "idle", fb |-> info.v, got |-> NoValue,
                          result |-> "ok"]
                    ELSE [pc |-> "rpc", fb |-> info.v, got |-> NoValue,
                          result |-> "none"]]
    /\ UNCHANGED <<channels, info>>

\* The server handles GetPublicChannelsRequest: one read of its index.
rpc_served(t) ==
    /\ task[t].pc = "rpc"
    /\ task' = [task EXCEPT ![t].pc = "resp", ![t].got = channels]
    /\ UNCHANGED <<channels, info, calls>>

\* fetch_new's map: the reply is stored with context.info.set and returned.
rpc_reply(t) ==
    /\ task[t].pc = "resp"
    /\ info' = [set |-> TRUE, v |-> task[t].got, expired |-> FALSE]
    /\ task' = [task EXCEPT ![t].pc = "idle", ![t].result = "ok"]
    /\ UNCHANGED <<channels, calls>>

(***************************************************************************)
(* The RPC fails (request or reply lost, server error): with an expired    *)
(* entry `fetch` returns it (unwrap_or); with none the RpcError is the     *)
(* result.                                                                 *)
(***************************************************************************)
rpc_error(t) ==
    /\ task[t].pc \in {"rpc", "resp"}
    /\ task' = [task EXCEPT ![t].pc = "idle",
                            ![t].result = IF task[t].fb = NoValue
                                            THEN "err" ELSE "ok"]
    /\ UNCHANGED <<channels, info, calls>>

Next ==
    \/ channels_update
    \/ cache_expire
    \/ \E t \in Tasks :
          \/ get_public_channels(t)
          \/ rpc_served(t)
          \/ rpc_reply(t)
          \/ rpc_error(t)

Spec == Init /\ [][Next]_vars

-----------------------------------------------------------------------------
(* Properties *)

(***************************************************************************)
(* The cache never goes back to an older channel list than it held.  Two  *)
(* calls that both found the entry expired race their RPCs; each stores    *)
(* its reply as it arrives, so the list served first can land last and is  *)
(* then kept as fresh for another TTL.                                     *)
(***************************************************************************)
CacheNeverRegresses ==
    [][info.set /\ info'.set => info'.v >= info.v]_vars

=============================================================================
