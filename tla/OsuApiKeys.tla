----------------------------- MODULE OsuApiKeys -----------------------------
(***************************************************************************)
(* OsuApi (src/src/objects/osu_api.rs): the list of osu! api clients, one  *)
(* per configured key with its success/failure counters, the failover loop *)
(* of `get`, and reload_clients, which brings the list in line with the    *)
(* keys of the bancho config.                                              *)
(*                                                                         *)
(* reload_clients takes &mut self, so it never overlaps a `get`; each call *)
(* is one step.  The config is edited elsewhere (BanchoConfig is not in    *)
(* this tree): config_update is the environment.  A panic inside          *)
(* reload_clients ends that call and leaves the removals it made.          *)
(***************************************************************************)
EXTENDS Naturals, Sequences, FiniteSets, SequencesExt

CONSTANTS
    Keys,       \* osu! api keys
    MaxKeys,    \* bound on the length of the configured key list
    MaxGets     \* bound on the requests made through `get`

\* The key lists the config can hold (a Vec<String>, duplicates allowed).
KeyLists == BoundedSeq(Keys, MaxKeys)

Client == [key : Keys, success : Nat, failed : Nat]

VARIABLES
    config,         \* bancho_config.osu_api_keys
    api_clients,    \* OsuApi.api_clients
    success_count,  \* OsuApi.success_count
    failed_count,   \* OsuApi.failed_count
    gets,           \* requests made so far (bounded by MaxGets)
    last_reload,    \* history: outcome of the last reload_clients call
    read_keys       \* history: the new_keys that call read

vars == <<config, api_clients, success_count, failed_count, gets, last_reload,
          read_keys>>

\* OsuApiClient::new: a client with zeroed counters.
NewClient(key) == [key |-> key, success |-> 0, failed |-> 0]

\* OsuApiClient::success / OsuApiClient::failed: bump one counter.
client_success(c) == [c EXCEPT !.success = @ + 1]
client_failed(c) == [c EXCEPT !.failed = @ + 1]

ClientKeys(cl) == [i \in DOMAIN cl |-> cl[i].key]

TypeOK ==
    /\ config \in KeyLists
    /\ api_clients \in Seq(Client)
    /\ success_count \in Nat
    /\ failed_count \in Nat
    /\ gets \in 0 .. MaxGets
    /\ last_reload \in {"none", "returned", "panicked"}
    /\ read_keys \in KeyLists

\* OsuApi::new: one client per configured key, in config order.
Init ==
    /\ config \in KeyLists
    /\ api_clients = [i \in DOMAIN config |-> NewClient(config[i])]
    /\ success_count = 0
    /\ failed_count = 0
    /\ gets = 0
    /\ last_reload = "none"
    /\ read_keys = <<>>

(***************************************************************************)
(* reload_clients, first loop: the indexes (ascending) of the clients      *)
(* whose key is not among the new keys.                                    *)
(***************************************************************************)
ShouldRemove(cl, new) ==
    SetToSortSeq({i \in DOMAIN cl : cl[i].key \notin ToSet(new)}, <)

(***************************************************************************)
(* reload_clients, second loop: api_clients.remove(idx) for each collected *)
(* index in turn, on the vector as the earlier removals left it.           *)
(* Vec::remove panics when idx is out of bounds; the result says whether   *)
(* the loop got through and what the vector holds where it stopped.        *)
(***************************************************************************)
RECURSIVE RemoveEach(_, _)
RemoveEach(cl, idxs) ==
    IF idxs = <<>> THEN [ok |-> TRUE, clients |-> cl]
    ELSE IF Head(idxs) > Len(cl) THEN [ok |-> FALSE, clients |-> cl]
    ELSE RemoveEach(RemoveAt(cl, Head(idxs)), Tail(idxs))

(***************************************************************************)
(* reload_clients, last loop: old_keys are the keys left after the         *)
(* removals; every new key not among them gets a client, in config order.  *)
(***************************************************************************)
AddNewClients(kept, new) ==
    LET old_keys == ToSet(ClientKeys(kept)) IN
    FoldLeft(LAMBDA acc, key : IF key \in old_keys
                                  THEN acc ELSE Append(acc, NewClient(key)),
             kept, new)

\* The bancho config's key list is edited.
config_update ==
    /\ \E new \in KeyLists : config' = new
    /\ UNCHANGED <<api_clients, success_count, failed_count, gets,
                   last_reload, read_keys>>

\* reload_clients with old_keys taken before the removals.
reload_clients_old_keys_first ==
    LET new == config
        r   == RemoveEach(api_clients, ShouldRemove(api_clients, new))
        old == ToSet(ClientKeys(api_clients))
        add == FoldLeft(LAMBDA acc, key : IF key \in old
                                             THEN acc
                                             ELSE Append(acc, NewClient(key)),
                        r.clients, new)
    IN /\ api_clients' = IF r.ok THEN add ELSE r.clients
       /\ last_reload' = IF r.ok THEN "returned" ELSE "panicked"
       /\ read_keys' = new
       /\ UNCHANGED <<config, success_count, failed_count, gets>>

reload_clients ==
    LET new == config
        r   == RemoveEach(api_clients, ShouldRemove(api_clients, new))
    IN /\ api_clients' = IF r.ok THEN AddNewClients(r.clients, new)
                                 ELSE r.clients
       /\ last_reload' = IF r.ok THEN "returned" ELSE "panicked"
       /\ read_keys' = new
       /\ UNCHANGED <<config, success_count, failed_count, gets>>

(***************************************************************************)
(* get: with no clients, None.  Otherwise the clients are tried in order:  *)
(* each failed request bumps that client's and the total failure counter   *)
(* and moves on; the first success bumps the success counters and returns. *)
(* k is the number of clients that fail before one succeeds (or all fail). *)
(***************************************************************************)
get ==
    /\ gets < MaxGets
    /\ api_clients # <<>>
    /\ \E k \in 0 .. Len(api_clients) :
         LET won == k < Len(api_clients) IN
         /\ api_clients' =
              [i \in DOMAIN api_clients |->
                 IF i <= k THEN client_failed(api_clients[i])
                 ELSE IF won /\ i = k + 1
                        THEN client_success(api_clients[i])
                        ELSE api_clients[i]]
         /\ failed_count' = failed_count + k
         /\ success_count' = success_count + (IF won THEN 1 ELSE 0)
    /\ gets' = gets + 1
    /\ UNCHANGED <<config, last_reload, read_keys>>

(***************************************************************************)
(* test_all: with no clients it returns the NOT_API_KEYS text.  Otherwise  *)
(* every client is tried once, in order: a response bumps its and the      *)
(* total success counter, an error its and the total failure counter.     *)
(* ok is the set of clients whose request got a response.  The JSON report *)
(* it returns is left out.                                                 *)
(***************************************************************************)
test_all_no_total_failed ==
    /\ gets < MaxGets
    /\ api_clients # <<>>
    /\ \E ok \in SUBSET DOMAIN api_clients :
         /\ api_clients' = [i \in DOMAIN api_clients |->
                               IF i \in ok THEN client_success(api_clients[i])
                                           ELSE client_failed(api_clients[i])]
         /\ success_count' = success_count + Cardinality(ok)
         /\ failed_count' = failed_count
    /\ gets' = gets + 1
    /\ UNCHANGED <<config, last_reload, read_keys>>

test_all ==
    /\ gets < MaxGets
    /\ api_clients # <<>>
    /\ \E ok \in SUBSET DOMAIN api_clients :
         /\ api_clients' = [i \in DOMAIN api_clients |->
                               IF i \in ok THEN client_success(api_clients[i])
                                           ELSE client_failed(api_clients[i])]
         /\ success_count' = success_count + Cardinality(ok)
         /\ failed_count' = failed_count + Len(api_clients) - Cardinality(ok)
    /\ gets' = gets + 1
    /\ UNCHANGED <<config, last_reload, read_keys>>

Next == config_update \/ reload_clients \/ get \/ test_all

Spec == Init /\ [][Next]_vars

-----------------------------------------------------------------------------
(* Properties *)

(***************************************************************************)
(* After a reload_clients call that returned, every key of the config it  *)
(* read has a client: requests can use every configured key.               *)
(***************************************************************************)
ConfiguredKeysLoaded ==
    last_reload = "returned" =>
        ToSet(read_keys) \subseteq ToSet(ClientKeys(api_clients))

(***************************************************************************)
(* After a reload_clients call, no client holds a key the config it read   *)
(* no longer lists ("Remove client if not exists in new keys").  The       *)
(* removal loop removes by indexes computed before the vector shifts: it   *)
(* removes a wrong client, or runs past the end and panics with stale      *)
(* clients left in place.                                                  *)
(***************************************************************************)
NoStaleKeys ==
    last_reload # "none" =>
        ToSet(ClientKeys(api_clients)) \subseteq ToSet(read_keys)

(***************************************************************************)
(* The totals OsuApi keeps are never below what its current clients        *)
(* counted: get and test_all bump a client's counter and the total one     *)
(* together, and reload_clients only drops clients (with their counts) or  *)
(* adds fresh ones.                                                        *)
(***************************************************************************)
SumOf(field(_)) == FoldLeft(LAMBDA a, c : a + field(c), 0, api_clients)

TotalsCoverClients ==
    /\ success_count >= SumOf(LAMBDA c : c.success)
    /\ failed_count >= SumOf(LAMBDA c : c.failed)

=============================================================================
