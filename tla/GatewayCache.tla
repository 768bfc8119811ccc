---------------------------- MODULE GatewayCache ----------------------------
(***************************************************************************)
(* The gateway directory of the daemon: the cache actor of                 *)
(* nym-gateway-directory (one task, one command queue, background fetches  *)
(* in a JoinSet), the topology service, and the two parties that repoint   *)
(* them: update_caches_for_network, run when discovery announces a changed *)
(* network, and the tunnel monitor, which installs a client of its own at  *)
(* every connect.                                                          *)
(*                                                                         *)
(* A network is a number (1 is the one the daemon started with).  A list   *)
(* is the network and thresholds it was fetched under, its age and the     *)
(* number of clears the actor had handled when the fetch began.  Ages and  *)
(* the three windows are in one unit of time, MAX_CACHE_AGE of the code    *)
(* being one.  {} stands for None, {x} for Some(x).                        *)
(***************************************************************************)
EXTENDS Naturals, Sequences, FiniteSets

CONSTANTS GwTypes,                 \* the gateway lists (GatewayType)
          MAX_CACHE_AGE,           \* younger lists are current
          MAX_STALE_SERVE_AGE,     \* older ones are fetched inline
          LOOKUP_INTEREST_WINDOW,  \* how long a lookup keeps its list warm
          DirNetworks,             \* how many networks discovery announces
          DirWork,                 \* bound on lookups and connects
          DirFaults                \* bound on failed fetches and outages

ASSUME DirAssumption ==
    /\ MAX_CACHE_AGE \in Nat \ {0} /\ MAX_STALE_SERVE_AGE \in Nat
    /\ MAX_CACHE_AGE <= MAX_STALE_SERVE_AGE
    /\ LOOKUP_INTEREST_WINDOW \in Nat /\ DirNetworks \in Nat \ {0}
    /\ DirWork \in Nat /\ DirFaults \in Nat

VARIABLES cache,     \* the cache actor
          inbox,     \* its command queue
          topology,  \* the topology service
          updater,   \* the daemon's handling of a changed network
          outside    \* connectivity and the budgets

dirVars == <<cache, inbox, topology, updater, outside>>

OldestAge == IF MAX_STALE_SERVE_AGE > LOOKUP_INTEREST_WINDOW
             THEN MAX_STALE_SERVE_AGE ELSE LOOKUP_INTEREST_WINDOW
Thresholds == {"none", "set"}
DirClient == [env : 1..DirNetworks, min : Thresholds]
List == [env : 1..DirNetworks, min : Thresholds, age : 0..OldestAge,
         epoch : 0..DirNetworks]

(* The actor takes nothing else while it awaits an inline fetch.           *)
Ready == cache.inline = {} /\ ~cache.nodesInline

-----------------------------------------------------------------------------
(* The lists.                                                              *)

is_gateways_current(t) ==
    \E l \in cache.lists[t] : l.age < MAX_CACHE_AGE

Fetched(client) == [env |-> client.env, min |-> client.min, age |-> 0,
                    epoch |-> cache.clears]

Online == outside.online

(* One background task per type of ts that has none, made with a clone of  *)
(* the present client; nothing while offline.                              *)
spawn_background_refreshes(ts) ==
    LET new == {t \in ts : ~\E task \in cache.refreshing : task.type = t}
    IN IF Online
       THEN cache.refreshing
              \cup {[type |-> t, list |-> Fetched(cache.client)] : t \in new}
       ELSE cache.refreshing

(* The minute timer: stale lists somebody asked for lately are refetched.  *)
refresh_recently_used ==
    /\ Ready
    /\ LET due == {t \in GwTypes : /\ ~is_gateways_current(t)
                                   /\ \E a \in cache.interest[t] :
                                        a < LOOKUP_INTEREST_WINDOW}
       IN /\ spawn_background_refreshes(due) # cache.refreshing
          /\ cache' = [cache EXCEPT !.refreshing =
                                      spawn_background_refreshes(due)]
    /\ UNCHANGED <<inbox, topology, updater, outside>>

(* A background fetch ends; ok says how, and a failed one changes nothing  *)
(* but the table of fetches.                                               *)
store_background_refresh(task, ok) ==
    /\ Ready
    /\ task \in cache.refreshing
    /\ ok \/ outside.faults > 0
    /\ cache' = [cache EXCEPT
         !.refreshing = @ \ {task},
         !.lists[task.type] = IF ok THEN {[task.list EXCEPT !.age = 0]} ELSE @]
    /\ outside' = IF ok THEN outside ELSE [outside EXCEPT !.faults = @ - 1]
    /\ UNCHANGED <<inbox, topology, updater>>

(* Faulty variant: the tasks are detached instead of aborted.              *)
cancel_background_refreshes_detached(c) == c

(* Dropping the JoinSet aborts its tasks.                                  *)
cancel_background_refreshes(c) == [c EXCEPT !.refreshing = {}]

Emptied(c) == cancel_background_refreshes(
                 [c EXCEPT !.lists = [t \in GwTypes |-> {}], !.nodes = {}])

(* Only changed thresholds empty the cache when the client is replaced.    *)
replace_gateway_client(client) ==
    LET c == [cache EXCEPT !.client = client]
    IN IF client.min # cache.client.min THEN Emptied(c) ELSE c

clear_cache == [Emptied(cache) EXCEPT !.initial = FALSE, !.clears = @ + 1]

(* refresh and fetch_gateways_inline: the actor waits for the lists ts.    *)
Fetching(c, ts) == [c EXCEPT !.inline = ts]

refresh_all(c) ==
    IF Online THEN Fetching(c, {t \in GwTypes : ~is_gateways_current(t)}) ELSE c

(* A connectivity event: the first time the router is reported online      *)
(* since start or the last clear, every list that is not current is        *)
(* fetched.                                                                *)
perform_initial_fetch_once ==
    /\ Ready /\ outside.reported
    /\ outside' = [outside EXCEPT !.reported = FALSE]
    /\ cache' = IF cache.initial THEN cache ELSE refresh_all([cache EXCEPT !.initial = TRUE])
    /\ UNCHANGED <<inbox, topology, updater>>

(* A lookup: current lists are served, stale ones served and refetched     *)
(* behind the caller's back, older or missing ones fetched first; offline  *)
(* nothing is fetched and what is held, however old, is the answer.        *)
lookup_gateways(t) ==
    LET asked == [cache EXCEPT !.interest[t] = {0}]
        old == \A l \in cache.lists[t] : l.age >= MAX_STALE_SERVE_AGE
    IN CASE is_gateways_current(t) -> asked
         [] ~is_gateways_current(t) /\ ~old ->
              [asked EXCEPT !.refreshing = spawn_background_refreshes({t})]
         [] old -> IF Online THEN Fetching(asked, {t}) ELSE asked

(* lookup_nymnode_by_identity: the node list has one age limit.            *)
refresh_nymnodes ==
    IF (\E n \in cache.nodes : n.age < MAX_CACHE_AGE) \/ ~Online
    THEN cache ELSE [cache EXCEPT !.nodesInline = TRUE]

TakeCommand ==
    /\ Ready /\ inbox # <<>>
    /\ LET cmd == Head(inbox) IN
       cache' = CASE cmd.op = "lookup"  -> lookup_gateways(cmd.arg)
                  [] cmd.op = "node"    -> refresh_nymnodes
                  [] cmd.op = "replace" -> replace_gateway_client(cmd.arg)
                  [] cmd.op = "clear"   -> clear_cache
    /\ inbox' = Tail(inbox)
    /\ UNCHANGED <<topology, updater, outside>>

(* The inline fetches come back, those of ok with a list.                  *)
InlineEnds(ok) ==
    /\ cache.inline # {}
    /\ ok \subseteq cache.inline
    /\ ok = cache.inline \/ outside.faults > 0
    /\ cache' = [cache EXCEPT
         !.inline = {},
         !.lists = [t \in GwTypes |-> IF t \in ok THEN {Fetched(cache.client)}
                                                  ELSE @[t]]]
    /\ outside' = IF ok = cache.inline THEN outside
                  ELSE [outside EXCEPT !.faults = @ - 1]
    /\ UNCHANGED <<inbox, topology, updater>>

NodesInlineEnds(ok) ==
    /\ cache.nodesInline
    /\ ok \/ outside.faults > 0
    /\ cache' = [cache EXCEPT
         !.nodesInline = FALSE,
         !.nodes = IF ok THEN {Fetched(cache.client)} ELSE @]
    /\ outside' = IF ok THEN outside ELSE [outside EXCEPT !.faults = @ - 1]
    /\ UNCHANGED <<inbox, topology, updater>>

-----------------------------------------------------------------------------
(* The topology service.  Its API urls are those it was spawned with.      *)

TopologyUrls == 1

(* get_cached_or_fetch, asked by the mixnet client: a topology within its  *)
(* expiry is served, otherwise one is fetched and the old one is the       *)
(* fallback.                                                               *)
get_cached_or_fetch ==
    /\ ~topology.busy
    /\ outside.work > 0
    /\ ~\E s \in topology.cached : s.age < MAX_CACHE_AGE
    /\ topology' = [topology EXCEPT !.busy = TRUE]
    /\ outside' = [outside EXCEPT !.work = @ - 1]
    /\ UNCHANGED <<cache, inbox, updater>>

TopologyFetched(ok) ==
    /\ topology.busy
    /\ ok \/ outside.faults > 0
    /\ topology' = [topology EXCEPT
         !.busy = FALSE,
         !.cached = IF ok THEN {[env |-> TopologyUrls, age |-> 0,
                                 min |-> topology.min]} ELSE @]
    /\ outside' = IF ok THEN outside ELSE [outside EXCEPT !.faults = @ - 1]
    /\ UNCHANGED <<cache, inbox, updater>>

-----------------------------------------------------------------------------
(* Who asks.                                                               *)

Posted(cmd) == Append(inbox, cmd)

(* handle_discovery_refresher_event: the network is published and the      *)
(* cache told to clear; the handler then waits for the topology service.   *)
NewNetwork ==
    /\ updater.at = "idle" /\ updater.network < DirNetworks
    /\ updater' = [updater EXCEPT !.at = "topology", !.network = @ + 1]
    /\ inbox' = Posted([op |-> "clear", arg |-> updater.network + 1])
    /\ UNCHANGED <<cache, topology, outside>>

(* Faulty variant: the handler waits for a topology to be cached.          *)
ClearTopologyCached ==
    /\ updater.at = "topology" /\ ~topology.busy /\ topology.cached # {}
    /\ topology' = [topology EXCEPT !.cached = {}]
    /\ updater' = [updater EXCEPT !.at = "client"]
    /\ UNCHANGED <<cache, inbox, outside>>

ClearTopology ==
    /\ updater.at = "topology" /\ ~topology.busy
    /\ topology' = [topology EXCEPT !.cached = {}]
    /\ updater' = [updater EXCEPT !.at = "client"]
    /\ UNCHANGED <<cache, inbox, outside>>

(* The new client, without thresholds, is built and handed over; a network *)
(* without VPN API urls, or a client that cannot be built, ends it early.  *)
update_caches_for_network(ok) ==
    /\ updater.at = "client"
    /\ ok \/ outside.faults > 0
    /\ updater' = [updater EXCEPT !.at = "idle"]
    /\ inbox' = IF ok THEN Posted([op |-> "replace", arg |->
                              [env |-> updater.network, min |-> "none"]])
                ELSE inbox
    /\ outside' = IF ok THEN outside ELSE [outside EXCEPT !.faults = @ - 1]
    /\ UNCHANGED <<cache, topology>>

(* The tunnel monitor at a connect: a client made from the configuration   *)
(* of the daemon's start and the thresholds of the settings, then the      *)
(* lookups of the selection; the topology service gets the thresholds.     *)
MonitorConnects(min, t) ==
    /\ outside.work > 0
    /\ ~topology.busy
    /\ inbox' = inbox \o << [op |-> "replace", arg |-> [env |-> 1, min |-> min]],
                            [op |-> "lookup", arg |-> t] >>
    /\ topology' = [topology EXCEPT !.min = min]
    /\ outside' = [outside EXCEPT !.work = @ - 1]
    /\ UNCHANGED <<cache, updater>>

(* The gateway picker, the bridge and SOCKS5.                              *)
ListGateways(cmd) ==
    /\ outside.work > 0
    /\ inbox' = Posted(cmd)
    /\ outside' = [outside EXCEPT !.work = @ - 1]
    /\ UNCHANGED <<cache, topology, updater>>

Queries == {[op |-> "lookup", arg |-> t] : t \in GwTypes}
             \cup {[op |-> "node", arg |-> "socks5"]}

ConnectivityFlips ==
    /\ outside.faults > 0 \/ ~Online
    /\ outside' = [outside EXCEPT !.online = ~@, !.reported = ~Online,
                                  !.faults = IF Online THEN @ - 1 ELSE @]
    /\ UNCHANGED <<cache, inbox, topology, updater>>

Aged(s) == {[x EXCEPT !.age = IF @ < OldestAge THEN @ + 1 ELSE @] : x \in s}

(* Time passes; the fetches in flight take less than a unit.               *)
DirTimePasses ==
    /\ Ready /\ cache.refreshing = {}
    /\ cache' = [cache EXCEPT
         !.lists = [t \in GwTypes |-> Aged(@[t])],
         !.nodes = Aged(@),
         !.interest = [t \in GwTypes |->
                        {IF a < OldestAge THEN a + 1 ELSE a : a \in @[t]}]]
    /\ topology' = [topology EXCEPT !.cached = Aged(@)]
    /\ UNCHANGED <<inbox, updater, outside>>
    /\ <<cache, topology>>' # <<cache, topology>>

-----------------------------------------------------------------------------
(* An actor spawned online begins with the initial fetch.                  *)
DirInit ==
    /\ outside \in [online : BOOLEAN, reported : {FALSE},
                    work : {DirWork}, faults : {DirFaults}]
    /\ cache = [client |-> [env |-> 1, min |-> "none"],
                lists |-> [t \in GwTypes |-> {}], nodes |-> {},
                interest |-> [t \in GwTypes |-> {}], refreshing |-> {},
                inline |-> IF Online THEN GwTypes ELSE {},
                nodesInline |-> FALSE, initial |-> Online, clears |-> 0]
    /\ inbox = <<>>
    /\ topology = [cached |-> {}, busy |-> FALSE, min |-> "none"]
    /\ updater = [at |-> "idle", network |-> 1]

BackgroundEnds == \E task \in cache.refreshing, ok \in BOOLEAN :
                     store_background_refresh(task, ok)

CacheNext ==
    \/ refresh_recently_used
    \/ BackgroundEnds
    \/ perform_initial_fetch_once
    \/ TakeCommand
    \/ \E ok \in SUBSET GwTypes : InlineEnds(ok)
    \/ \E ok \in BOOLEAN : NodesInlineEnds(ok)

TopologyNext ==
    \/ get_cached_or_fetch
    \/ \E ok \in BOOLEAN : TopologyFetched(ok)

UpdaterNext ==
    \/ NewNetwork
    \/ ClearTopology
    \/ \E ok \in BOOLEAN : update_caches_for_network(ok)

AskersNext ==
    \/ \E min \in Thresholds, t \in GwTypes : MonitorConnects(min, t)
    \/ \E cmd \in Queries : ListGateways(cmd)
    \/ ConnectivityFlips
    \/ DirTimePasses

DirNext == CacheNext \/ TopologyNext \/ UpdaterNext \/ AskersNext

(* The actor, the timer, the fetches (all have timeouts) and the handler   *)
(* run on.                                                                 *)
DirFairSteps == {"keep warm", "background", "command", "inline", "nodes", "topology", "clear", "network"}

DirFair(s) ==
    \/ s = "keep warm" /\ refresh_recently_used
    \/ s = "background" /\ BackgroundEnds
    \/ s = "command" /\ TakeCommand
    \/ s = "inline" /\ \E ok \in SUBSET GwTypes : InlineEnds(ok)
    \/ s = "nodes" /\ \E ok \in BOOLEAN : NodesInlineEnds(ok)
    \/ s = "topology" /\ \E ok \in BOOLEAN : TopologyFetched(ok)
    \/ s = "clear" /\ ClearTopology
    \/ s = "network" /\ \E ok \in BOOLEAN : update_caches_for_network(ok)

DirFairness == \A s \in DirFairSteps : WF_dirVars(DirFair(s))

DirSpec == DirInit /\ [][DirNext]_dirVars /\ DirFairness
-----------------------------------------------------------------------------
(* Types: at most one list per type and one node list, and ages within the *)
(* bound (gateway_cache.rs).                                               *)
DirTypeOK ==
    /\ cache.client \in DirClient
    /\ \A t \in GwTypes : /\ cache.lists[t] \subseteq List
                          /\ Cardinality(cache.lists[t]) <= 1
                          /\ cache.interest[t] \subseteq 0..OldestAge
    /\ cache.nodes \subseteq List /\ Cardinality(cache.nodes) <= 1
    /\ cache.refreshing \subseteq [type : GwTypes, list : List]
    /\ cache.inline \subseteq GwTypes
    /\ topology.busy \in BOOLEAN /\ topology.min \in Thresholds
    /\ updater.network \in 1..DirNetworks
    /\ outside.work \in 0..DirWork /\ outside.faults \in 0..DirFaults

(* gateway_cache.rs cancel_background_refreshes: whatever was being        *)
(* fetched when the cache was cleared is abandoned, so every list and node *)
(* list the actor holds comes from a fetch begun after the last clear.     *)
ClearedStaysCleared ==
    /\ \A t \in GwTypes : \A l \in cache.lists[t] : l.epoch = cache.clears
    /\ \A n \in cache.nodes : n.epoch = cache.clears

(* gateway_cache.rs replace_gateway_client: a selection is never made from *)
(* a list that was fetched under other performance thresholds than those   *)
(* of the client now installed, whichever of the three fetches stored it.  *)
ListsMeetThresholds ==
    \A t \in GwTypes : \A l \in cache.lists[t] : l.min = cache.client.min

(* gateway_cache.rs spawn_background_refreshes: one list is never fetched  *)
(* twice at once in the background, however lookups and the minute timer   *)
(* interleave.                                                             *)
OneFetchPerList ==
    \A a, b \in cache.refreshing : a.type = b.type => a = b

(* gateway_cache.rs LOOKUP_INTEREST_WINDOW: a list somebody asked for      *)
(* within the window does not stay stale while the router is online.       *)
KeptWarm ==
    \A t \in GwTypes :
      (\E a \in cache.interest[t] : a < LOOKUP_INTEREST_WINDOW)
        ~> \/ is_gateways_current(t) \/ ~Online
           \/ \A a \in cache.interest[t] : a >= LOOKUP_INTEREST_WINDOW

(* Neither the actor's inline fetches nor the handler waiting for the      *)
(* topology service keeps the queue or a network change from being         *)
(* finished.                                                               *)
DirectorySettles ==
    (inbox # <<>> \/ updater.at # "idle")
      ~> (inbox = <<>> /\ updater.at = "idle" /\ Ready)

(* What the actor holds is whole: no list outlives a clear, none was made  *)
(* under other thresholds, none is fetched twice at once.                  *)
DirectoryConsistent == DirTypeOK /\ ClearedStaysCleared /\ ListsMeetThresholds /\ OneFetchPerList
=============================================================================
