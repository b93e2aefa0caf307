# TLA+ models of peace (bancho state, chat, packet processor, channel cache, osu! api key pool)

This directory holds TLA+ models of the concurrent core of the peace server. It
also holds the TLC configurations that check the models. Every module is
written from the Rust source under `src/`. `PROJECT.json` maps each definition
to the lines it models, and lists the runs, the mutants, the findings and the
hazards.

## 1. The system and its parts

Peace is an osu! game server. The parts that hold shared mutable state are
these.

| Part | Source | State | Operations |
|---|---|---|---|
| Bancho state service | `core/services/src/bancho_state/services/bancho_state.rs`, `bancho_state/components.rs` | session registry (4 indexes behind one tokio `RwLock`); per session: packet queue (`Mutex<VecDeque>`), status atomic cells, presence filter | create/delete session, enqueue, batch enqueue, broadcast, channel_update_notify, dequeue, update status, send stats / presences, update presence filter |
| Chat service | `core/services/src/chat/services/chat.rs` | channels with per-platform members, each with a message log (a ring with increasing Ulid ids); per session: read cursors behind an `RwLock`, the packet queue | join, part, remove, send message (to a channel or a user), pull packets |
| Packet processor | `core/services/src/bancho/services/bancho/packet_processor.rs` | none of its own | decodes client packets and calls chat and bancho state; CHANNEL_JOIN / CHANNEL_PART call the chat service, then `channel_update_notify(None)` |
| Public channel cache | `core/services/src/chat/services/chat.rs` (`ChatServiceRemote`, `PublicChannelInfo`) | a TTL cache (300 s) of the chat server's public channel list | `get_public_channels`: return the fresh entry, or refresh by RPC and fall back to the expired entry on failure |
| Gateway endpoints | `core/services/src/gateway/bancho_endpoints/repository.rs` | none | login version checks; packet dispatch (every arm is `todo!()`) |
| osu! api client pool (legacy) | `src/src/objects/osu_api.rs` | list of clients, each with a key and counters | `new`, `reload_clients`, `get` (failover), `test_all` |
| The rest | entities, routes, utils, binaries | none shared | I/O, parsing, wiring |

### How the parts interact

Interaction runs through the session queues.
- Chat pushes ChannelJoin notices onto a session's queue.
- Chat pushes ChannelInfo packets and messages into channel logs.
- `pull_chat_packets` drains the session queue together with the session's channel logs, reading each log from the session's cursor.
- The bancho state service pushes stats, presences and broadcasts onto the same queues. Its `dequeue` drains them.

Every service call runs as a tokio task on a multi-threaded runtime, so these
calls interleave at each `.await`. The atomic cells also interleave between
threads.

### The hard behaviours

- **Read leases.** `get` clones an `Arc<Session>` and drops the registry lease. The caller then uses the session after a login or delete may have displaced it.
- **Broadcasts.** A broadcast holds a read lease across one await per queue.
- **Status cells.** `update_all` writes six atomic cells with no lock. `user_stats_packet` loads them one by one.
- **Join and part.** Each is three steps: a membership change, a notice, and a ChannelInfo. The member count is read before the log lock is awaited.
- **Concurrent pulls.** Two pulls of one session share the cursors. They are serialised only by the `channel_read_process` write lock.
- **Panics.** `todo!()` panics when a session is missing. This happens after the membership change.
- **`reload_clients`.** It removes by indexes computed before the vector shrinks.
- **Join/part notices.** The packet processor takes the member count from the chat call and broadcasts it after another await.
- **Cache refreshes.** Concurrent refreshes of the public channel cache store their replies in arrival order.

## 2. Modules

| Module | Models | Notes |
|---|---|---|
| `BanchoState` | the registry, the queues, the status cells, and the bancho state operations above | A Worker is a task. Each await is a step: `enq_get`, `enq_push`, `bc_push`, `deq_drain`, `upd_set_online`, `upd_set_mode`, `rd_online`, `rd_mode`. |
| `Chat` | membership, notices, message logs, cursors, and pulls | `send_message` takes the platform set (none means `Platform::all()`); only its Bancho arm acts, through `process_bancho_message`, whose channel and user arms are `send_message_to_channel` and `send_message_to_user`. The channel registry and the `MessageQueue` are not in this tree. They are modelled from the spec: `push_message`, `receive_messages`, `create_session`. |
| `ChannelJoinFlow` | `user_channel_join` and `user_channel_part` composed with `BanchoState`, and the gateway's `bancho_login` and `check_user_session` | EXTENDS `BanchoState`; adds the channel's bancho members (`chan`) and a history of the count each ChannelInfo carries (`info`). Steps: `check_user_session` (the gateway looks the token up with `check_user_session_exists` and hands the user id on, pc `cj_checked`), the chat call (`user_channel_join` / `user_channel_part`, which builds the packet), `notify_begin` (the read lease of `channel_update_notify`), then BanchoState's `broadcast_push` / `broadcast_end`. |
| `ChannelRead` | what a reading session is promised: an atomic read of a channel from the session's read position | Abstract spec (no code of its own). Actions `Post`, `Open`, `Read`. `Chat` instantiates it with `INSTANCE ChannelRead WITH` and checks `ReadsRefineChannelRead == Abstract!Spec`. |
| `PublicChannelCache` | `ChatServiceRemote::get_public_channels`, `PublicChannelInfo::fetch` / `fetch_new`, the server's `get_public_channels` | Steps: `get_public_channels` (read the entry; return it or send the RPC), `rpc_served` (the server reads its index), `rpc_reply` (store and return), `rpc_error` (fall back or fail). The environment changes the server's list (`channels_update`) and lets the entry expire (`cache_expire`). |
| `OsuApiKeys` | `OsuApi::new`, `reload_clients`, `get`, `test_all` | `reload_clients` is one step, because it takes `&mut self`. Its loops are operators: `ShouldRemove`, the recursive `RemoveEach`, and `AddNewClients` (a `FoldLeft`). |
| `MC_*` | model values, symmetry, and the all-logged-in initial state of `chat_info` | |

`BanchoState`'s own actions run in `bancho_queue` through `ChannelJoinFlow`, whose next-state relation is BanchoState's `Next` (with `chan` and `info` unchanged), or a step of a checked request. Once `check_user_session` has put a task at `cj_checked` with its session id, the task can:
- start a join or part;
- handle a RECEIVE_UPDATES frame (`user_receive_updates`: `PresenceFilterOf` is `PresenceFilter::from_i32(i).unwrap_or_default()`, so an unknown value becomes None; then the filter is stored);
- handle a LOGOUT frame (`user_logout`: the session is deleted);
- finish (`request_done`).

A checked request keeps its session id across frames, so a frame can act on a session that an earlier frame, or another task, has already deleted.

### Correspondence with the code

**Variables.**
- `queue[s]` is `packets_queue`.
- `status[s]` stands for two of the six cells: `online_status`, written first, and `mode`, written last. Two cells are enough to tear a packet.
- `readers` counts the registry read leases. `create_user_session` and `delete_user_session` require `readers = 0`, which is the write lease.
- In Chat:
  - `members[c][p]` is the channel's member set on platform `p`.
  - `log[c]` is the message queue.
  - `cursor[u][c]` is `channel_read_process`.
  - `dflt[u]` is `default_read_process`.
  - `rp_locked[u]` is its write lock.

**Refinement mapping (Chat to ChannelRead).** `opened` is `online` and `log`/`next_msg` are shared. `rd[u][c]` is `cursor[u][c]`, or `dflt[u]` for a channel with no cursor. `recv[u]` is `recv[u]`, followed by the log entries that the pull of `u` in `pull_chan` has gathered (`Pending`).

**Ghost histories.** These record what the code does not keep, so that properties can be stated:
- `pushed`, `delivered`, `submitted` and `bc_done` in `BanchoState`;
- `recv` and `told` in `Chat`;
- `last_reload` and `read_keys` in `OsuApiKeys`.

**Data abstraction.**
- A packet is a record naming its kind, a unique id, and the session and status it describes.
- Names, descriptions and byte layouts are left out.

**Bounds.** Each bound is a named constant:
- `MaxFrames` counts the packets created by service calls.
- `MaxSessions` counts the Ulids handed out.
- `MaxMsgs` counts the log entries. In-flight joins reserve their entry when they start.
- `MaxQueue` caps the private messages queued.
- `MaxGets` caps the api requests.

## 3. Runs

The runs for BanchoState and Chat use 2 users and 2 workers. Chat uses 1 channel.

| Run | Expect | Checks | Shows |
|---|---|---|---|
| `bancho_queue` | pass | `TypeOK`, `BroadcastPrecedesLogout` | Run on `ChannelJoinFlow`. Every finished broadcast (`broadcast_bancho_packets`, `channel_update_notify(None)`, the join/part ChannelInfo) reached each session registered when it began, and reached it before that session's logout packet. This holds because the loop keeps the registry read lease across its awaits, so a displacing login waits; it holds under any interleaving of logins, displacements, deletes, enqueues, drains and join/part handlers. Contrast `bancho_logout`: `enqueue_bancho_packets` drops the lease before its push, and there the same race breaks it. |
| `bancho_torn` | violation | `NoTornStats` | A stats packet mixes a new `online_status` with an old `mode`. |
| `bancho_logout` | violation | `LogoutIsTerminal` | A packet lands on a displaced session after its logout packet. |
| `join_flow_info` | violation | `ChannelInfoLatest` | Two join/part handlers deliver their member counts in the opposite order. |
| `chat_order` | pass | `TypeOK`, `ChannelMessagesInOrder` | `TypeOK`: cursors, default read positions, the member counts tasks carry and the lock flags stay in range. `ChannelMessagesInOrder`: concurrent pulls of one session never return a channel entry twice or out of order. |
| `chat_live` | pass | `PullReturns`, `ReadsRefineChannelRead` | Every pull returns. `Chat` refines `ChannelRead`: each `pull_channel` is one atomic `Read`, each `push_message` a `Post`, `create_session` an `Open`, and everything else stutters. The refinement mapping sets the abstract `recv` to what the pulls returned plus what the lock-holding pull has read so far. It sets `rd` to the cursor, or `default_read_process` where there is none. So no entry is lost, repeated or reordered, including across eviction from the ring (Capacity 1 here) and two concurrent pulls of the session. |
| `chat_notice` | violation | `NoticeMatchesMembership` | A part sends ChannelJoin. |
| `chat_info` | violation | `ChannelInfoCurrent` | Two joins leave a stale member count as the newest ChannelInfo. |
| `cache_regress` | violation | `CacheNeverRegresses` | Two racing refreshes put an older channel list back into the cache. |
| `osu_keys_loaded` | pass | `ConfiguredKeysLoaded`, `TotalsCoverClients` | A reload that returns has a client for every configured key; the totals never fall below the clients' counters. |
| `osu_keys_stale` | violation | `NoStaleKeys` | A reload keeps a key the config dropped (here by panicking in `Vec::remove`). |

`PublicChannelCache` has no passing run. The spec's one promise about the cache, that an expired entry is returned when the refresh fails, is kept by construction: `fetch` returns the copy it read before its await, a task-local value. The checkable question is whether the shared entry can move backwards, and it can (`cache_regress`).

**Why the bounds are enough.**
- `bancho_queue` uses 2 sessions and 2 packets (a join/part packet counts as one). Its presence filter set is {None}. Nothing reads the filter, and a second value made the run four times larger. `user_receive_updates` still runs, with inputs 0 and 3 (3 is decoded to None).
  - This covers a displacement, which needs two sessions of one user.
  - It covers two overlapping broadcasts.
  - It covers a broadcast racing a displacing login (the login must wait for the lease), and two join/part handlers racing.
  - It uses one status value, because the status does not affect these properties. The torn run uses two values per field.
- `chat_order` uses 2 log entries.
  - Two pulls can read the same cursor.
  - A second entry can be posted between them. That is the least it takes to return an entry twice.
- The osu! key runs use 3 keys and lists of up to 3. This covers a stale key surviving the shifted removal, and a panic. The pass run uses 2 keys, lists of up to 2 and 2 requests, so counts survive a reload and grow after it.
- The cache run uses 2 concurrent calls, 4 calls and 3 versions of the server's list: two refreshes can overlap a server change and an expiry.

**Symmetry.** Users, workers, keys and cache calls are model values under symmetry. Workers are interchangeable tasks. Users and keys are only compared for equality. `chat_live` checks liveness and runs without symmetry.

**Deadlock.** It is not checked for BanchoState, ChannelJoinFlow, Chat and PublicChannelCache. These services are request-driven: once the bounded packets, messages and calls are spent, they wait for requests the model no longer makes. It is checked for `OsuApiKeys`, where config edits and reloads are always possible.

### Fairness

`Chat!Spec` has two fairness conditions:
- Weak fairness on each task's own steps. The tokio runtime polls a woken task until it completes.
- Strong fairness on `pull_lock`. A tokio `RwLock` queues waiters in FIFO order, so a waiter is not overtaken forever.

Client requests (`Call`) carry no fairness: clients may stop calling. `BanchoState!Spec` has no fairness, because no liveness property is stated of it yet.

### Mutants

Each property of a passing run is broken by a plausible bug in the code it
depends on:

| Property | Mutant | The bug |
|---|---|---|
| `BroadcastPrecedesLogout` | `broadcast_push_release` | The lease is dropped inside the loop: a login displaces an addressed session and the broadcast lands after its logout packet. |
| `TypeOK` (BanchoState) | `broadcast_push_release` | The lease is dropped inside the loop. |
| `TypeOK` (Chat) | `channel_update_count_plus_one` | The joining user is counted twice. |
| `ChannelMessagesInOrder` | `pull_lock_unguarded` | No `channel_read_process` lock is taken. |
| `PullReturns` | `pull_return_keep_lock` | The guard outlives the call. |
| `ReadsRefineChannelRead` | `pull_lock_unguarded` | Two pulls of one session read and move the cursors concurrently. |
| `ConfiguredKeysLoaded` | `reload_clients_old_keys_first` | `old_keys` is taken before the removals. |
| `TotalsCoverClients` | `test_all_no_total_failed` | `test_all`'s error arm forgets `self.failed`. |

## 4. Findings

1. **Torn stats packets** (spec sections 5 and 9). `update_all` and `user_stats_packet` are not serialised.
2. **Push after logout.** `enqueue_bancho_packets` pushes after dropping the lease. The spec says reads hold the lease, and that a displaced session ends in a terminal logout packet.
3. **A part sends ChannelJoin.** `channel_handle_for_bancho_user` always packs ChannelJoin.
4. **Stale ChannelInfo.** The member count is read before the log lock.
5. **`reload_clients` keeps stale keys, or panics.** It uses index removal on a shrinking vector.
6. **Join/part ChannelInfo out of order.** `user_channel_join` / `user_channel_part` broadcast a count read one await earlier; concurrent handlers leave every session with a count the channel no longer has.
7. **The public channel cache goes back in time.** `fetch_new` stores replies as they arrive; a slower, older reply replaces a newer one and is served as fresh for 300 s.

`PROJECT.json` gives the lines and the traces behind each finding.

## 5. Not modelled, and the plan

### Not modelled

- The `Remote` (gRPC) variants, which forward requests.
- The read-only getters.
- `last_active`, which `check_user_session_exists` refreshes; nothing in this tree reads it.
- The rest of the gateway (`repository.rs`): every arm of `process_bancho_packet` is `todo!()`. (`bancho_login` and `check_user_session` are actions of `ChannelJoinFlow`.) The packet handlers trust the user id that `check_user_session` returned; a logout between that check and the join is reachable in the model. No property is stated about it, because session deletion never removes channel membership in this tree, race or not.
- The other packet-processor handlers. They forward to multi-step calls of the bancho service (not in this tree), or to state the tree does not hold (the non-friend DM toggle).
- The legacy `Player` object, which nothing in this tree drives concurrently.
- Entities, string validation and the binaries.

### Plan for later modules

1. **An abstract `PacketQueue` specification** (per-session FIFO). It will be refined by `BanchoState` through `INSTANCE ... WITH queue <- queue`, checked as a PROPERTY.
2. **Extend `ChannelJoinFlow` with `Chat`.** Today the chat call is one step modelled from the spec. Composing it with `Chat`'s membership and log would cover logout racing a pull, and the panic after a membership change.
3. **Liveness of `dequeue`** against displaced sessions. A displaced session's queue is never drained.
