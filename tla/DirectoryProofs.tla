--------------------------- MODULE DirectoryProofs ---------------------------
(***************************************************************************)
(* Proofs about the gateway directory: what the cache actor holds is whole *)
(* for every set of gateway types and every number of networks, lookups    *)
(* and failures.                                                           *)
(***************************************************************************)
EXTENDS GatewayCache, FiniteSetTheorems, TLAPS

(***************************************************************************)
(* The gateway directory.                                                  *)
(***************************************************************************)
AtMostOne(s) == \A x, y \in s : x = y

DirTask == [type : GwTypes, list : List]
DirAges == 0..OldestAge
Clears == 0..DirNetworks
CacheType ==
    [client : DirClient, lists : [GwTypes -> SUBSET List], nodes : SUBSET List,
     interest : [GwTypes -> SUBSET DirAges], refreshing : SUBSET DirTask,
     inline : SUBSET GwTypes, nodesInline : BOOLEAN, initial : BOOLEAN, clears : Clears]
Cmds == [op : {"lookup"}, arg : GwTypes] \cup [op : {"node"}, arg : {"socks5"}]
          \cup [op : {"replace"}, arg : DirClient] \cup [op : {"clear"}, arg : Nat]
Snapshots == [env : Nat, age : Nat, min : Thresholds]
TopologyType == [cached : SUBSET Snapshots, busy : BOOLEAN, min : Thresholds]
UpdaterType == [at : {"idle", "topology", "client"}, network : 1..DirNetworks]
OutsideType == [online : BOOLEAN, reported : BOOLEAN, work : 0..DirWork, faults : 0..DirFaults]

\* A list made by the present client since the last clear.
OfClient(l, c) == l.epoch = c.clears /\ l.min = c.client.min

\* The fetches under way: one per type, by the present client.
TasksOK(tasks, c) ==
    /\ tasks \in SUBSET DirTask
    /\ \A a \in tasks : OfClient(a.list, c)
    /\ \A a, b \in tasks : a.type = b.type => a = b

\* The actor: the fetches under way are as good as the lists it holds, which is
\* why what they store is too.
CacheOK(c) ==
    /\ c \in CacheType /\ TasksOK(c.refreshing, c)
    /\ \A t \in GwTypes : AtMostOne(c.lists[t]) /\ \A l \in c.lists[t] : OfClient(l, c)
    /\ AtMostOne(c.nodes) /\ \A n \in c.nodes : n.epoch = c.clears

\* The clears in the queue carry the networks announced since those handled,
\* in order: the actor never handles more clears than there were networks.
InboxOK(q, clears, network) ==
    /\ q \in Seq(Cmds) /\ clears < network
    /\ \A i \in 1..Len(q) : q[i].op = "clear" => q[i].arg > clears + 1 /\ q[i].arg <= network
    /\ \A i, j \in 1..Len(q) : i < j /\ q[i].op = "clear" /\ q[j].op = "clear" => q[i].arg < q[j].arg

\* The inductive invariant.
DirInv ==
    /\ CacheOK(cache) /\ InboxOK(inbox, cache.clears, updater.network)
    /\ topology \in TopologyType /\ updater \in UpdaterType /\ outside \in OutsideType

\* A step that leaves the lists alone, and one that stores some.
Keeping(c, interest, tasks, inline, nodesInline, initial) ==
    [c EXCEPT !.interest = interest, !.refreshing = tasks, !.inline = inline,
              !.nodesInline = nodesInline, !.initial = initial]
Storing(c, lists, nodes, tasks, inline, nodesInline) ==
    [c EXCEPT !.lists = lists, !.nodes = nodes, !.refreshing = tasks, !.inline = inline,
              !.nodesInline = nodesInline]

\* Ages are natural numbers, from 0.
LEMMA OldestAgeIs == OldestAge \in Nat /\ 0 \in DirAges
BY DirAssumption DEF OldestAge, DirAges

\* A fetch by the present client gives a list of it.
LEMMA FetchedIsOf ==
    ASSUME CacheOK(cache)
    PROVE  Fetched(cache.client) \in List /\ OfClient(Fetched(cache.client), cache)
<1>1. /\ cache.client \in DirClient /\ cache.client.env \in 1..DirNetworks
      /\ cache.client.min \in Thresholds /\ cache.clears \in 0..DirNetworks
    BY DEF CacheOK, CacheType, DirClient, Clears
<1>2. QED
    BY <1>1, OldestAgeIs DEF Fetched, List, OfClient, DirAges

\* New fetches are made by the present client, for types that have none.
LEMMA SpawnIs ==
    ASSUME CacheOK(cache), NEW ts \in SUBSET GwTypes
    PROVE  TasksOK(spawn_background_refreshes(ts), cache)
<1> DEFINE new == {t \in ts : ~\E task \in cache.refreshing : task.type = t}
           l == Fetched(cache.client)
           tasks == {[type |-> t, list |-> l] : t \in new}
<1>1. l \in List /\ OfClient(l, cache)
    BY FetchedIsOf
<1>2. TasksOK(cache.refreshing, cache)
    BY DEF CacheOK
<1>3. spawn_background_refreshes(ts) = IF Online THEN cache.refreshing \cup tasks ELSE cache.refreshing
    BY DEF spawn_background_refreshes
<1> HIDE DEF l
<1>4. \A a \in tasks : a \in DirTask /\ a.list = l /\ a.type \in new /\ a = [type |-> a.type, list |-> l]
    BY <1>1 DEF DirTask
<1>5. \A a \in cache.refreshing : a.type \notin new
    OBVIOUS
<1> HIDE DEF new, tasks
<1>6. TasksOK(cache.refreshing \cup tasks, cache)
    <2>1. cache.refreshing \cup tasks \in SUBSET DirTask
        BY <1>2, <1>4 DEF TasksOK
    <2>2. \A a \in cache.refreshing \cup tasks : OfClient(a.list, cache)
        BY <1>1, <1>2, <1>4 DEF TasksOK
    <2>3. ASSUME NEW a \in cache.refreshing \cup tasks, NEW b \in cache.refreshing \cup tasks, a.type = b.type
          PROVE  a = b
        BY <1>2, <1>4, <1>5, <2>3 DEF TasksOK
    <2>4. QED
        BY <2>1, <2>2, <2>3 DEF TasksOK
<1>7. QED
    BY <1>2, <1>3, <1>6

\* What leaves the lists, the client and the clears alone keeps the actor whole.
LEMMA CacheKeeps ==
    ASSUME NEW c, CacheOK(c), NEW interest \in [GwTypes -> SUBSET DirAges], NEW tasks, TasksOK(tasks, c),
           NEW inline \in SUBSET GwTypes, NEW nodesInline \in BOOLEAN, NEW initial \in BOOLEAN, NEW x,
           x = Keeping(c, interest, tasks, inline, nodesInline, initial)
    PROVE  CacheOK(x) /\ x.clears = c.clears
<1>1. c \in CacheType /\ tasks \in SUBSET DirTask
    BY DEF CacheOK, TasksOK
<1>2. x \in CacheType
    BY <1>1 DEF CacheType, Keeping
<1>3. /\ x.lists = c.lists /\ x.nodes = c.nodes /\ x.clears = c.clears /\ x.client = c.client
      /\ x.refreshing = tasks
    BY <1>1 DEF CacheType, Keeping
<1>4. \A l : OfClient(l, c) => OfClient(l, x)
    BY <1>3 DEF OfClient
<1>5. TasksOK(x.refreshing, x)
    BY <1>3, <1>4 DEF TasksOK
<1>6. QED
    BY <1>2, <1>3, <1>4, <1>5 DEF CacheOK

\* Lists that come in are of the present client.
LEMMA CacheStores ==
    ASSUME NEW c, CacheOK(c), NEW lists \in [GwTypes -> SUBSET List],
           \A t \in GwTypes : \/ lists[t] = c.lists[t]
                              \/ \E l : lists[t] = {l} /\ OfClient(l, c),
           NEW nodes \in SUBSET List, AtMostOne(nodes), \A n \in nodes : n.epoch = c.clears,
           NEW tasks \in SUBSET c.refreshing, NEW inline \in SUBSET GwTypes,
           NEW nodesInline \in BOOLEAN, NEW x,
           x = Storing(c, lists, nodes, tasks, inline, nodesInline)
    PROVE  CacheOK(x) /\ x.clears = c.clears
<1>1. c \in CacheType /\ TasksOK(c.refreshing, c)
    BY DEF CacheOK
<1>2. tasks \in SUBSET DirTask
    BY <1>1 DEF TasksOK
<1>3. x \in CacheType
    BY <1>1, <1>2 DEF CacheType, Storing
<1>4. /\ x.lists = lists /\ x.nodes = nodes /\ x.clears = c.clears /\ x.client = c.client
      /\ x.refreshing = tasks
    BY <1>1 DEF CacheType, Storing
<1>5. \A l : OfClient(l, c) => OfClient(l, x)
    BY <1>4 DEF OfClient
<1>6. TasksOK(x.refreshing, x)
    BY <1>1, <1>2, <1>4, <1>5 DEF TasksOK
<1>7. ASSUME NEW t \in GwTypes PROVE AtMostOne(lists[t]) /\ \A l \in lists[t] : OfClient(l, c)
    BY DEF CacheOK, AtMostOne
<1>8. QED
    BY <1>3, <1>4, <1>5, <1>6, <1>7 DEF CacheOK

\* Emptying it.
LEMMA EmptiedIs ==
    ASSUME NEW c \in CacheType
    PROVE  CacheOK(Emptied(c)) /\ Emptied(c).clears = c.clears /\ Emptied(c).client = c.client
<1> DEFINE x == Emptied(c)
           none == [t \in GwTypes |-> {}]
<1>1. x = [c EXCEPT !.lists = none, !.nodes = {}, !.refreshing = {}]
    BY DEF Emptied, cancel_background_refreshes, CacheType
<1>2. none \in [GwTypes -> SUBSET List] /\ \A t \in GwTypes : none[t] = {}
    OBVIOUS
<1> HIDE DEF x, none
<1>3. x \in CacheType
    BY <1>1, <1>2 DEF CacheType
<1>4. x.lists = none /\ x.nodes = {} /\ x.refreshing = {} /\ x.clears = c.clears /\ x.client = c.client
    BY <1>1 DEF CacheType
<1>5. CacheOK(x)
    BY <1>2, <1>3, <1>4 DEF CacheOK, TasksOK, AtMostOne
<1>6. QED
    BY <1>4, <1>5 DEF x

\* A step of the actor that takes no command.
LEMMA ActorMoves ==
    ASSUME DirInv, CacheOK(cache'), cache'.clears = cache.clears, outside' \in OutsideType,
           UNCHANGED <<inbox, topology, updater>>
    PROVE  DirInv'
BY DEF DirInv

\* A spent fault.
LEMMA DirFaultIs ==
    ASSUME outside \in OutsideType, outside.faults > 0
    PROVE  [outside EXCEPT !.faults = @ - 1] \in OutsideType
BY DirAssumption DEF OutsideType

\* A spent piece of work.
LEMMA DirWorkIs ==
    ASSUME outside \in OutsideType, outside.work > 0
    PROVE  [outside EXCEPT !.work = @ - 1] \in OutsideType
BY DirAssumption DEF OutsideType

\* The actor's own steps: the timer, the fetches and connectivity.
LEMMA ActorSteps ==
    ASSUME DirInv,
           \/ refresh_recently_used \/ BackgroundEnds \/ perform_initial_fetch_once
           \/ \E ok \in SUBSET GwTypes : InlineEnds(ok)
           \/ \E ok \in BOOLEAN : NodesInlineEnds(ok)
    PROVE  DirInv'
<1>1. CacheOK(cache) /\ cache \in CacheType /\ outside \in OutsideType /\ TasksOK(cache.refreshing, cache)
    BY DEF DirInv, CacheOK
<1>2. /\ cache.interest \in [GwTypes -> SUBSET DirAges] /\ cache.inline \in SUBSET GwTypes
      /\ cache.nodesInline \in BOOLEAN /\ cache.initial \in BOOLEAN /\ cache.nodes \in SUBSET List
      /\ cache.lists \in [GwTypes -> SUBSET List] /\ cache.refreshing \in SUBSET cache.refreshing
    BY <1>1 DEF CacheType
<1>3. AtMostOne(cache.nodes) /\ \A n \in cache.nodes : n.epoch = cache.clears
    BY <1>1 DEF CacheOK
<1>4. CASE refresh_recently_used
    <2> DEFINE due == {t \in GwTypes : /\ ~is_gateways_current(t)
                                       /\ \E a \in cache.interest[t] : a < LOOKUP_INTEREST_WINDOW}
               tasks == spawn_background_refreshes(due)
    <2>1. cache' = [cache EXCEPT !.refreshing = tasks] /\ UNCHANGED <<inbox, topology, updater, outside>>
        BY <1>4 DEF refresh_recently_used
    <2>2. TasksOK(tasks, cache)
        BY <1>1, SpawnIs
    <2> HIDE DEF tasks
    <2>3. cache' = Keeping(cache, cache.interest, tasks, cache.inline, cache.nodesInline, cache.initial)
        BY <1>1, <2>1 DEF CacheType, Keeping
    <2>4. CacheOK(cache') /\ cache'.clears = cache.clears
        BY <1>1, <1>2, <2>2, <2>3, CacheKeeps
    <2>5. QED
        BY <1>1, <2>1, <2>4, ActorMoves
<1>5. CASE BackgroundEnds
    <2>1. PICK task \in cache.refreshing, ok \in BOOLEAN : store_background_refresh(task, ok)
        BY <1>5 DEF BackgroundEnds
    <2> DEFINE l == [task.list EXCEPT !.age = 0]
               lists == [cache.lists EXCEPT ![task.type] = IF ok THEN {l} ELSE @]
               tasks == cache.refreshing \ {task}
    <2>2. /\ cache' = [cache EXCEPT !.refreshing = tasks, !.lists = lists]
          /\ UNCHANGED <<inbox, topology, updater>>
        BY <2>1 DEF store_background_refresh
    <2>3. outside' \in OutsideType
        BY <1>1, <2>1, DirFaultIs DEF store_background_refresh
    <2>4. task.list \in List /\ task.type \in GwTypes /\ OfClient(task.list, cache)
        BY <1>1 DEF TasksOK, DirTask
    <2>5. l \in List /\ OfClient(l, cache)
        BY <2>4, OldestAgeIs DEF List, OfClient, DirAges
    <2> HIDE DEF l
    <2>6. /\ lists \in [GwTypes -> SUBSET List]
          /\ \A t \in GwTypes : lists[t] = cache.lists[t] \/ lists[t] = {l}
        BY <1>2, <2>4, <2>5
    <2>7. tasks \in SUBSET cache.refreshing
        OBVIOUS
    <2> HIDE DEF lists, tasks
    <2>8. cache' = Storing(cache, lists, cache.nodes, tasks, cache.inline, cache.nodesInline)
        BY <1>1, <2>2 DEF CacheType, Storing
    <2>9. CacheOK(cache') /\ cache'.clears = cache.clears
        BY <1>1, <1>2, <1>3, <2>5, <2>6, <2>7, <2>8, CacheStores
    <2>10. QED
        BY <2>2, <2>3, <2>9, ActorMoves
<1>6. CASE perform_initial_fetch_once
    <2>1. /\ outside' = [outside EXCEPT !.reported = FALSE] /\ UNCHANGED <<inbox, topology, updater>>
          /\ cache' = IF cache.initial THEN cache ELSE refresh_all([cache EXCEPT !.initial = TRUE])
        BY <1>6 DEF perform_initial_fetch_once
    <2>2. outside' \in OutsideType
        BY <1>1, <2>1 DEF OutsideType
    <2>3. PICK initial \in BOOLEAN, inline \in SUBSET GwTypes :
              cache' = Keeping(cache, cache.interest, cache.refreshing, inline, cache.nodesInline, initial)
        <3> DEFINE due == {t \in GwTypes : ~is_gateways_current(t)}
        <3>1. CASE cache.initial
            <4>1. cache' = Keeping(cache, cache.interest, cache.refreshing, cache.inline, cache.nodesInline, cache.initial)
                BY <1>1, <2>1, <3>1 DEF CacheType, Keeping
            <4>2. QED
                BY <1>2, <4>1
        <3>2. CASE ~cache.initial /\ Online
            <4>1. cache' = Keeping(cache, cache.interest, cache.refreshing, due, cache.nodesInline, TRUE)
                BY <1>1, <2>1, <3>2 DEF refresh_all, Fetching, CacheType, Keeping
            <4>2. due \in SUBSET GwTypes
                OBVIOUS
            <4> HIDE DEF due
            <4>3. QED
                BY <4>1, <4>2
        <3>3. CASE ~cache.initial /\ ~Online
            <4>1. cache' = Keeping(cache, cache.interest, cache.refreshing, cache.inline, cache.nodesInline, TRUE)
                BY <1>1, <2>1, <3>3 DEF refresh_all, CacheType, Keeping
            <4>2. QED
                BY <1>2, <4>1
        <3>4. QED
            BY <3>1, <3>2, <3>3
    <2>4. CacheOK(cache') /\ cache'.clears = cache.clears
        BY <1>1, <1>2, <2>3, CacheKeeps
    <2>5. QED
        BY <2>1, <2>2, <2>4, ActorMoves
<1>7. ASSUME NEW ok \in SUBSET GwTypes, InlineEnds(ok) PROVE DirInv'
    <2> DEFINE l == Fetched(cache.client)
               lists == [t \in GwTypes |-> IF t \in ok THEN {l} ELSE cache.lists[t]]
    <2>1. cache' = [cache EXCEPT !.inline = {}, !.lists = lists] /\ UNCHANGED <<inbox, topology, updater>>
        BY <1>7 DEF InlineEnds
    <2>2. outside' \in OutsideType
        BY <1>1, <1>7, DirFaultIs DEF InlineEnds
    <2>3. l \in List /\ OfClient(l, cache)
        BY <1>1, FetchedIsOf
    <2> HIDE DEF l
    <2>4. /\ lists \in [GwTypes -> SUBSET List]
          /\ \A t \in GwTypes : lists[t] = cache.lists[t] \/ lists[t] = {l}
        BY <1>2, <2>3
    <2> HIDE DEF lists
    <2>5. cache' = Storing(cache, lists, cache.nodes, cache.refreshing, {}, cache.nodesInline)
        BY <1>1, <2>1 DEF CacheType, Storing
    <2>6. CacheOK(cache') /\ cache'.clears = cache.clears
        BY <1>1, <1>2, <1>3, <2>3, <2>4, <2>5, CacheStores
    <2>7. QED
        BY <2>1, <2>2, <2>6, ActorMoves
<1>8. ASSUME NEW ok \in BOOLEAN, NodesInlineEnds(ok) PROVE DirInv'
    <2> DEFINE l == Fetched(cache.client)
               nodes == IF ok THEN {l} ELSE cache.nodes
    <2>1. cache' = [cache EXCEPT !.nodesInline = FALSE, !.nodes = nodes] /\ UNCHANGED <<inbox, topology, updater>>
        BY <1>8 DEF NodesInlineEnds
    <2>2. outside' \in OutsideType
        BY <1>1, <1>8, DirFaultIs DEF NodesInlineEnds
    <2>3. l \in List /\ l.epoch = cache.clears
        BY <1>1, FetchedIsOf DEF OfClient
    <2> HIDE DEF l
    <2>4. nodes \in SUBSET List /\ AtMostOne(nodes) /\ \A n \in nodes : n.epoch = cache.clears
        BY <1>2, <1>3, <2>3 DEF AtMostOne
    <2> DEFINE ended == FALSE
    <2>5. cache' = Storing(cache, cache.lists, nodes, cache.refreshing, cache.inline, ended) /\ ended \in BOOLEAN
        BY <1>1, <2>1 DEF CacheType, Storing
    <2> HIDE DEF nodes, ended
    <2>6. CacheOK(cache') /\ cache'.clears = cache.clears
        BY <1>1, <1>2, <2>4, <2>5, CacheStores
    <2>7. QED
        BY <2>1, <2>2, <2>6, ActorMoves
<1>9. QED
    BY <1>4, <1>5, <1>6, <1>7, <1>8

\* The rest of the queue, when the actor takes its head.
LEMMA InboxTaken ==
    ASSUME NEW q, NEW clears \in Nat, NEW network \in Nat, InboxOK(q, clears, network), q # <<>>
    PROVE  /\ Head(q) \in Cmds
           /\ Head(q).op # "clear" => InboxOK(Tail(q), clears, network)
           /\ Head(q).op = "clear" => InboxOK(Tail(q), clears + 1, network)
<1>1. q \in Seq(Cmds) /\ Len(q) \in Nat \ {0} /\ Head(q) = q[1] /\ Head(q) \in Cmds
    BY DEF InboxOK
<1>2. /\ Tail(q) \in Seq(Cmds) /\ Len(Tail(q)) = Len(q) - 1
      /\ \A i \in 1..Len(Tail(q)) : Tail(q)[i] = q[i + 1] /\ i + 1 \in 1..Len(q)
    BY <1>1
<1>3. \A i, j \in 1..Len(Tail(q)) :
        i < j /\ Tail(q)[i].op = "clear" /\ Tail(q)[j].op = "clear" => Tail(q)[i].arg < Tail(q)[j].arg
    BY <1>2 DEF InboxOK
<1>4. \A i \in 1..Len(Tail(q)) : Tail(q)[i].op = "clear" => Tail(q)[i].arg > clears + 1 /\ Tail(q)[i].arg <= network
    BY <1>2 DEF InboxOK
<1>5. InboxOK(Tail(q), clears, network)
    BY <1>2, <1>3, <1>4 DEF InboxOK
<1>6. ASSUME Head(q).op = "clear" PROVE InboxOK(Tail(q), clears + 1, network)
    <2>1. q[1].arg > clears + 1 /\ q[1].arg <= network /\ q[1].arg \in Nat
        BY <1>1, <1>6 DEF InboxOK, Cmds
    <2>2. ASSUME NEW i \in 1..Len(Tail(q)), Tail(q)[i].op = "clear"
          PROVE  Tail(q)[i].arg > clears + 1 + 1
        <3>1. q[i + 1].op = "clear" /\ i + 1 \in 1..Len(q) /\ 1 < i + 1 /\ Tail(q)[i] = q[i + 1]
            BY <1>2, <2>2
        <3>2. q[1].arg < q[i + 1].arg
            BY <1>1, <1>6, <3>1 DEF InboxOK
        <3>3. q[i + 1].arg \in Nat
            BY <1>1, <3>1 DEF Cmds
        <3>4. QED
            BY <2>1, <3>1, <3>2, <3>3
    <2>3. QED
        BY <1>2, <1>3, <1>4, <2>1, <2>2 DEF InboxOK
<1>7. QED
    BY <1>1, <1>5, <1>6

\* What the commands that fetch leave behind.
LEMMA LookupIs ==
    ASSUME CacheOK(cache), NEW t \in GwTypes, NEW x, x = lookup_gateways(t)
    PROVE  CacheOK(x) /\ x.clears = cache.clears
<1> DEFINE interest == [cache.interest EXCEPT ![t] = {0}]
           asked == [cache EXCEPT !.interest = interest]
           tasks == spawn_background_refreshes({t})
           old == \A l \in cache.lists[t] : l.age >= MAX_STALE_SERVE_AGE
<1>1. cache \in CacheType /\ TasksOK(cache.refreshing, cache)
    BY DEF CacheOK
<1>2. TasksOK(tasks, cache)
    BY SpawnIs
<1>3. interest \in [GwTypes -> SUBSET DirAges]
    BY <1>1, OldestAgeIs DEF CacheType
<1>4. /\ cache.inline \in SUBSET GwTypes /\ {t} \in SUBSET GwTypes
      /\ cache.nodesInline \in BOOLEAN /\ cache.initial \in BOOLEAN
    BY <1>1 DEF CacheType
<1>5. \/ x = asked
      \/ x = [asked EXCEPT !.refreshing = tasks]
      \/ x = [asked EXCEPT !.inline = {t}]
    <2>1. asked = [cache EXCEPT !.interest[t] = {0}]
        BY <1>1 DEF CacheType
    <2>2. is_gateways_current(t) \/ (~is_gateways_current(t) /\ ~old) \/ old
        OBVIOUS
    <2> HIDE DEF asked, tasks, old
    <2>3. x = CASE is_gateways_current(t) -> asked
                [] ~is_gateways_current(t) /\ ~old -> [asked EXCEPT !.refreshing = tasks]
                [] old -> IF Online THEN [asked EXCEPT !.inline = {t}] ELSE asked
        BY <2>1 DEF lookup_gateways, Fetching, tasks, old
    <2>4. QED
        BY <2>2, <2>3
<1> HIDE DEF interest, tasks
<1>6. \E r \in {cache.refreshing, tasks}, n \in {cache.inline, {t}} :
        x = Keeping(cache, interest, r, n, cache.nodesInline, cache.initial)
    <2>1. CASE x = asked
        <3>1. x = Keeping(cache, interest, cache.refreshing, cache.inline, cache.nodesInline, cache.initial)
            BY <1>1, <2>1 DEF CacheType, Keeping
        <3>2. QED
            BY <3>1
    <2>2. CASE x = [asked EXCEPT !.refreshing = tasks]
        <3>1. x = Keeping(cache, interest, tasks, cache.inline, cache.nodesInline, cache.initial)
            BY <1>1, <2>2 DEF CacheType, Keeping
        <3>2. QED
            BY <3>1
    <2>3. CASE x = [asked EXCEPT !.inline = {t}]
        <3>1. x = Keeping(cache, interest, cache.refreshing, {t}, cache.nodesInline, cache.initial)
            BY <1>1, <2>3 DEF CacheType, Keeping
        <3>2. QED
            BY <3>1
    <2>4. QED
        BY <1>5, <2>1, <2>2, <2>3
<1> HIDE DEF asked
<1>7. QED
    BY <1>1, <1>2, <1>3, <1>4, <1>6, CacheKeeps

\* A node lookup.
LEMMA NodesIs ==
    ASSUME CacheOK(cache), NEW x, x = refresh_nymnodes
    PROVE  CacheOK(x) /\ x.clears = cache.clears
<1>1. cache \in CacheType /\ TasksOK(cache.refreshing, cache)
    BY DEF CacheOK
<1>2. /\ cache.interest \in [GwTypes -> SUBSET DirAges] /\ cache.inline \in SUBSET GwTypes
      /\ cache.initial \in BOOLEAN
    BY <1>1 DEF CacheType
<1>3. CASE x = cache
    BY <1>3
<1>4. CASE x = [cache EXCEPT !.nodesInline = TRUE]
    <2> DEFINE begun == TRUE
    <2>1. /\ x = Keeping(cache, cache.interest, cache.refreshing, cache.inline, begun, cache.initial)
          /\ begun \in BOOLEAN
        BY <1>1, <1>4 DEF CacheType, Keeping
    <2> HIDE DEF begun
    <2>2. QED
        BY <1>1, <1>2, <2>1, CacheKeeps
<1>5. QED
    BY <1>3, <1>4 DEF refresh_nymnodes

\* A client that is handed over.
LEMMA ReplaceIs ==
    ASSUME CacheOK(cache), NEW client \in DirClient, NEW x, x = replace_gateway_client(client)
    PROVE  CacheOK(x) /\ x.clears = cache.clears
<1> DEFINE c == [cache EXCEPT !.client = client]
<1>1. cache \in CacheType
    BY DEF CacheOK
<1>2. c \in CacheType
    BY <1>1 DEF CacheType
<1>3. /\ c.lists = cache.lists /\ c.nodes = cache.nodes /\ c.clears = cache.clears
      /\ c.client = client /\ c.refreshing = cache.refreshing
    BY <1>1 DEF CacheType
<1>4. x = IF client.min # cache.client.min THEN Emptied(c) ELSE c
    BY DEF replace_gateway_client
<1> HIDE DEF c
<1>5. CASE client.min # cache.client.min
    BY <1>2, <1>3, <1>4, <1>5, EmptiedIs
<1>6. CASE client.min = cache.client.min
    <2>1. \A l : OfClient(l, cache) => OfClient(l, c)
        BY <1>3, <1>6 DEF OfClient
    <2>2. TasksOK(c.refreshing, c)
        BY <1>3, <2>1 DEF CacheOK, TasksOK
    <2>3. CacheOK(c)
        BY <1>2, <1>3, <2>1, <2>2 DEF CacheOK
    <2>4. QED
        BY <1>3, <1>4, <1>6, <2>3
<1>7. QED
    BY <1>5, <1>6

\* A clear that was due.
LEMMA ClearIs ==
    ASSUME CacheOK(cache), cache.clears + 1 \in Clears, NEW x, x = clear_cache
    PROVE  CacheOK(x) /\ x.clears = cache.clears + 1
<1> DEFINE e == Emptied(cache)
           clears == cache.clears + 1
           none == [t \in GwTypes |-> {}]
<1>1. cache \in CacheType
    BY DEF CacheOK
<1>2. e = [cache EXCEPT !.lists = none, !.nodes = {}, !.refreshing = {}]
    BY <1>1 DEF Emptied, cancel_background_refreshes, CacheType
<1>3. x = [e EXCEPT !.initial = FALSE, !.clears = @ + 1]
    BY DEF clear_cache
<1>4. clears \in Clears /\ none \in [GwTypes -> SUBSET List] /\ \A t \in GwTypes : none[t] = {}
    OBVIOUS
<1>5. x = [cache EXCEPT !.lists = none, !.nodes = {}, !.refreshing = {}, !.initial = FALSE, !.clears = clears]
    BY <1>1, <1>2, <1>3 DEF CacheType
<1> HIDE DEF e, clears, none
<1>6. x \in CacheType
    BY <1>1, <1>4, <1>5 DEF CacheType
<1>7. x.lists = none /\ x.nodes = {} /\ x.refreshing = {} /\ x.clears = clears
    BY <1>1, <1>5 DEF CacheType
<1>8. CacheOK(x)
    BY <1>4, <1>6, <1>7 DEF CacheOK, TasksOK, AtMostOne
<1>9. QED
    BY <1>7, <1>8 DEF clears

\* The actor takes a command.
LEMMA CommandStep ==
    ASSUME DirInv, TakeCommand
    PROVE  DirInv'
<1> DEFINE cmd == Head(inbox)
<1>1. /\ CacheOK(cache) /\ cache.clears \in 0..DirNetworks /\ updater.network \in 1..DirNetworks
      /\ InboxOK(inbox, cache.clears, updater.network)
    BY DEF DirInv, CacheOK, CacheType, Clears, UpdaterType
<1>2. /\ inbox # <<>> /\ inbox' = Tail(inbox) /\ UNCHANGED <<topology, updater, outside>>
      /\ cache' = CASE cmd.op = "lookup"  -> lookup_gateways(cmd.arg)
                    [] cmd.op = "node"    -> refresh_nymnodes
                    [] cmd.op = "replace" -> replace_gateway_client(cmd.arg)
                    [] cmd.op = "clear"   -> clear_cache
    BY DEF TakeCommand
<1>3. /\ cmd \in Cmds
      /\ cmd.op # "clear" => InboxOK(Tail(inbox), cache.clears, updater.network)
      /\ cmd.op = "clear" => InboxOK(Tail(inbox), cache.clears + 1, updater.network)
    BY <1>1, <1>2, DirAssumption, InboxTaken
<1>4. /\ cmd.op \in {"lookup", "node", "replace", "clear"}
      /\ cmd.op = "lookup" => cmd.arg \in GwTypes
      /\ cmd.op = "replace" => cmd.arg \in DirClient
    BY <1>3 DEF Cmds
<1> HIDE DEF cmd
<1>5. CASE cmd.op = "lookup"
    <2>1. cache' = lookup_gateways(cmd.arg)
        BY <1>2, <1>5
    <2>2. CacheOK(cache') /\ cache'.clears = cache.clears
        BY <1>1, <1>4, <1>5, <2>1, LookupIs
    <2>3. QED
        BY <1>2, <1>3, <1>5, <2>2 DEF DirInv
<1>6. CASE cmd.op = "node"
    <2>1. cache' = refresh_nymnodes
        BY <1>2, <1>6
    <2>2. CacheOK(cache') /\ cache'.clears = cache.clears
        BY <1>1, <2>1, NodesIs
    <2>3. QED
        BY <1>2, <1>3, <1>6, <2>2 DEF DirInv
<1>7. CASE cmd.op = "replace"
    <2>1. cache' = replace_gateway_client(cmd.arg)
        BY <1>2, <1>7
    <2>2. CacheOK(cache') /\ cache'.clears = cache.clears
        BY <1>1, <1>4, <1>7, <2>1, ReplaceIs
    <2>3. QED
        BY <1>2, <1>3, <1>7, <2>2 DEF DirInv
<1>8. CASE cmd.op = "clear"
    <2>1. cache' = clear_cache
        BY <1>2, <1>8
    <2>2. cache.clears + 1 < updater.network
        BY <1>3, <1>8 DEF InboxOK
    <2>3. cache.clears + 1 \in Clears
        BY <1>1, <2>2, DirAssumption DEF Clears
    <2>4. CacheOK(cache') /\ cache'.clears = cache.clears + 1
        BY <1>1, <2>1, <2>3, ClearIs
    <2>5. QED
        BY <1>2, <1>3, <1>8, <2>4 DEF DirInv
<1>9. QED
    BY <1>4, <1>5, <1>6, <1>7, <1>8

\* A command that does not clear joins the queue.
LEMMA PostedIs ==
    ASSUME NEW q, NEW clears, NEW network, InboxOK(q, clears, network),
           NEW cmd \in Cmds, cmd.op # "clear"
    PROVE  InboxOK(Append(q, cmd), clears, network)
<1>1. q \in Seq(Cmds) /\ Len(q) \in Nat
    BY DEF InboxOK
<1>2. /\ Append(q, cmd) \in Seq(Cmds) /\ Len(Append(q, cmd)) = Len(q) + 1
      /\ \A i \in 1..Len(q) + 1 : \/ i \in 1..Len(q) /\ Append(q, cmd)[i] = q[i]
                                  \/ Append(q, cmd)[i] = cmd
    BY <1>1
<1>3. QED
    BY <1>2 DEF InboxOK

\* A network is announced: its clear comes after all the others.
LEMMA ClearPosted ==
    ASSUME NEW q, NEW clears \in Nat, NEW network \in Nat, InboxOK(q, clears, network), NEW cmd,
           cmd = [op |-> "clear", arg |-> network + 1]
    PROVE  InboxOK(Append(q, cmd), clears, network + 1)
<1>1. q \in Seq(Cmds) /\ Len(q) \in Nat
    BY DEF InboxOK
<1>2. cmd \in Cmds /\ cmd.arg = network + 1 /\ cmd.op = "clear"
    BY DEF Cmds
<1>3. /\ Append(q, cmd) \in Seq(Cmds) /\ Len(Append(q, cmd)) = Len(q) + 1
      /\ \A i \in 1..Len(q) : Append(q, cmd)[i] = q[i]
      /\ Append(q, cmd)[Len(q) + 1] = cmd
    BY <1>1, <1>2
<1> DEFINE r == Append(q, cmd)
<1> HIDE DEF r
<1>4. \A i \in 1..Len(q) : q[i].op = "clear" => q[i].arg \in Nat /\ q[i].arg > clears + 1 /\ q[i].arg <= network
    BY <1>1 DEF InboxOK, Cmds
<1>5. ASSUME NEW i \in 1..Len(q) + 1, r[i].op = "clear"
      PROVE  r[i].arg > clears + 1 /\ r[i].arg <= network + 1
    <2>1. clears < network
        BY DEF InboxOK
    <2>2. CASE i \in 1..Len(q)
        BY <1>3, <1>4, <1>5, <2>2 DEF r
    <2>3. CASE i = Len(q) + 1
        BY <1>2, <1>3, <2>1, <2>3 DEF r
    <2>4. QED
        BY <1>1, <2>2, <2>3
<1>6. ASSUME NEW i \in 1..Len(q) + 1, NEW j \in 1..Len(q) + 1, i < j, r[i].op = "clear", r[j].op = "clear"
      PROVE  r[i].arg < r[j].arg
    <2>1. i \in 1..Len(q)
        BY <1>1, <1>6
    <2>2. CASE j \in 1..Len(q)
        BY <1>3, <1>6, <2>1, <2>2 DEF r, InboxOK
    <2>3. CASE j = Len(q) + 1
        BY <1>2, <1>3, <1>4, <1>6, <2>1, <2>3 DEF r
    <2>4. QED
        BY <1>1, <2>2, <2>3
<1>7. clears < network + 1
    BY DEF InboxOK
<1>8. QED
    BY <1>3, <1>5, <1>6, <1>7 DEF r, InboxOK

\* The topology service.
LEMMA TopologySteps ==
    ASSUME DirInv, TopologyNext
    PROVE  DirInv'
<1>1. topology \in TopologyType /\ outside \in OutsideType
    BY DEF DirInv
<1>2. CASE get_cached_or_fetch
    <2>1. /\ topology' = [topology EXCEPT !.busy = TRUE] /\ outside' = [outside EXCEPT !.work = @ - 1]
          /\ outside.work > 0 /\ UNCHANGED <<cache, inbox, updater>>
        BY <1>2 DEF get_cached_or_fetch
    <2>2. topology' \in TopologyType
        BY <1>1, <2>1 DEF TopologyType
    <2>3. outside' \in OutsideType
        BY <1>1, <2>1, DirWorkIs
    <2>4. QED
        BY <2>1, <2>2, <2>3 DEF DirInv
<1>3. ASSUME NEW ok \in BOOLEAN, TopologyFetched(ok) PROVE DirInv'
    <2> DEFINE s == [env |-> TopologyUrls, age |-> 0, min |-> topology.min]
               cached == IF ok THEN {s} ELSE topology.cached
    <2>1. topology' = [topology EXCEPT !.busy = FALSE, !.cached = cached] /\ UNCHANGED <<cache, inbox, updater>>
        BY <1>3 DEF TopologyFetched
    <2>2. outside' \in OutsideType
        BY <1>1, <1>3, DirFaultIs DEF TopologyFetched
    <2>3. s \in Snapshots /\ topology.cached \in SUBSET Snapshots
        BY <1>1 DEF TopologyType, Snapshots, TopologyUrls
    <2> HIDE DEF s
    <2>4. cached \in SUBSET Snapshots
        BY <2>3
    <2> HIDE DEF cached
    <2>5. topology' \in TopologyType
        BY <1>1, <2>1, <2>4 DEF TopologyType
    <2>6. QED
        BY <2>1, <2>2, <2>5 DEF DirInv
<1>4. QED
    BY <1>2, <1>3 DEF TopologyNext

\* The handling of a changed network.
LEMMA UpdaterSteps ==
    ASSUME DirInv, UpdaterNext
    PROVE  DirInv'
<1>1. /\ topology \in TopologyType /\ outside \in OutsideType /\ updater \in UpdaterType
      /\ InboxOK(inbox, cache.clears, updater.network)
    BY DEF DirInv
<1>2. updater.network \in 1..DirNetworks /\ cache.clears \in 0..DirNetworks
    BY DEF DirInv, CacheOK, CacheType, Clears, UpdaterType
<1>3. CASE NewNetwork
    <2> DEFINE network == updater.network + 1
               cmd == [op |-> "clear", arg |-> network]
    <2>1. /\ updater' = [updater EXCEPT !.at = "topology", !.network = network]
          /\ inbox' = Append(inbox, cmd) /\ updater.network < DirNetworks
          /\ UNCHANGED <<cache, topology, outside>>
        BY <1>3 DEF NewNetwork, Posted
    <2>2. network \in 1..DirNetworks
        BY <1>2, <2>1, DirAssumption
    <2>3. InboxOK(Append(inbox, cmd), cache.clears, network)
        BY <1>1, <1>2, DirAssumption, ClearPosted
    <2> HIDE DEF network, cmd
    <2>4. updater' \in UpdaterType /\ updater'.network = network
        BY <1>1, <2>1, <2>2 DEF UpdaterType
    <2>5. QED
        BY <2>1, <2>3, <2>4 DEF DirInv
<1>4. CASE ClearTopology
    <2>1. /\ topology' = [topology EXCEPT !.cached = {}] /\ updater' = [updater EXCEPT !.at = "client"]
          /\ UNCHANGED <<cache, inbox, outside>>
        BY <1>4 DEF ClearTopology
    <2>2. topology' \in TopologyType /\ updater' \in UpdaterType
        BY <1>1, <2>1 DEF TopologyType, UpdaterType
    <2>3. updater'.network = updater.network
        BY <1>1, <2>1 DEF UpdaterType
    <2>4. QED
        BY <2>1, <2>2, <2>3 DEF DirInv
<1>5. ASSUME NEW ok \in BOOLEAN, update_caches_for_network(ok) PROVE DirInv'
    <2> DEFINE client == [env |-> updater.network, min |-> "none"]
               cmd == [op |-> "replace", arg |-> client]
    <2>1. /\ updater' = [updater EXCEPT !.at = "idle"] /\ UNCHANGED <<cache, topology>>
          /\ inbox' = IF ok THEN Append(inbox, cmd) ELSE inbox
        BY <1>5 DEF update_caches_for_network, Posted
    <2>2. outside' \in OutsideType
        BY <1>1, <1>5, DirFaultIs DEF update_caches_for_network
    <2>3. client \in DirClient
        BY <1>2 DEF DirClient, Thresholds
    <2> HIDE DEF client
    <2>4. cmd \in Cmds /\ cmd.op # "clear"
        BY <2>3 DEF Cmds
    <2> HIDE DEF cmd
    <2>5. InboxOK(inbox', cache.clears, updater.network)
        BY <1>1, <2>1, <2>4, PostedIs
    <2>6. updater' \in UpdaterType /\ updater'.network = updater.network
        BY <1>1, <2>1 DEF UpdaterType
    <2>7. QED
        BY <2>1, <2>2, <2>5, <2>6 DEF DirInv
<1>6. QED
    BY <1>3, <1>4, <1>5 DEF UpdaterNext

\* What ages stays what it was.
LEMMA AgedIs ==
    ASSUME NEW s \in SUBSET List
    PROVE  /\ Aged(s) \in SUBSET List
           /\ AtMostOne(s) => AtMostOne(Aged(s))
           /\ \A x \in Aged(s) : \E y \in s : x.epoch = y.epoch /\ x.min = y.min
<1> DEFINE Older(x) == [x EXCEPT !.age = IF @ < OldestAge THEN @ + 1 ELSE @]
<1>1. Aged(s) = {Older(x) : x \in s}
    BY DEF Aged
<1>2. ASSUME NEW x \in s PROVE Older(x) \in List /\ Older(x).epoch = x.epoch /\ Older(x).min = x.min
    <2> DEFINE age == IF x.age < OldestAge THEN x.age + 1 ELSE x.age
    <2>1. x \in List /\ x.age \in 0..OldestAge
        BY DEF List
    <2>2. age \in 0..OldestAge
        BY <2>1, OldestAgeIs
    <2>3. Older(x) = [x EXCEPT !.age = age]
        BY <2>1 DEF List
    <2> HIDE DEF age, Older
    <2>4. QED
        BY <2>1, <2>2, <2>3 DEF List
<1> HIDE DEF Older
<1>3. QED
    BY <1>1, <1>2 DEF AtMostOne

\* Time passes.
LEMMA TimeStep ==
    ASSUME DirInv, DirTimePasses
    PROVE  DirInv'
<1> DEFINE lists == [t \in GwTypes |-> Aged(cache.lists[t])]
           nodes == Aged(cache.nodes)
           interest == [t \in GwTypes |-> {IF a < OldestAge THEN a + 1 ELSE a : a \in cache.interest[t]}]
           cached == Aged(topology.cached)
<1>1. CacheOK(cache) /\ cache \in CacheType /\ topology \in TopologyType
    BY DEF DirInv, CacheOK
<1>2. /\ cache' = [cache EXCEPT !.lists = lists, !.nodes = nodes, !.interest = interest]
      /\ topology' = [topology EXCEPT !.cached = cached] /\ UNCHANGED <<inbox, updater, outside>>
    BY DEF DirTimePasses
<1>3. /\ cache.nodes \in SUBSET List /\ cache.lists \in [GwTypes -> SUBSET List]
      /\ cache.interest \in [GwTypes -> SUBSET DirAges]
    BY <1>1 DEF CacheType
<1>4. lists \in [GwTypes -> SUBSET List] /\ \A t \in GwTypes : lists[t] = Aged(cache.lists[t])
    BY <1>3, AgedIs
<1>5. nodes \in SUBSET List
    BY <1>3, AgedIs
<1>6. interest \in [GwTypes -> SUBSET DirAges]
    BY <1>3, OldestAgeIs DEF DirAges
<1>7. cached \in SUBSET Snapshots
    <2>1. ASSUME NEW x \in Snapshots PROVE [x EXCEPT !.age = IF @ < OldestAge THEN @ + 1 ELSE @] \in Snapshots
        BY OldestAgeIs DEF Snapshots
    <2>2. topology.cached \in SUBSET Snapshots
        BY <1>1 DEF TopologyType
    <2>3. QED
        BY <2>1, <2>2 DEF Aged
<1>8. \A t \in GwTypes : AtMostOne(lists[t]) /\ \A l \in lists[t] : OfClient(l, cache)
    <2> SUFFICES ASSUME NEW t \in GwTypes
                 PROVE  AtMostOne(lists[t]) /\ \A l \in lists[t] : OfClient(l, cache)
        OBVIOUS
    <2>1. AtMostOne(cache.lists[t]) /\ \A l \in cache.lists[t] : OfClient(l, cache)
        BY <1>1 DEF CacheOK
    <2> HIDE DEF lists
    <2>2. cache.lists[t] \in SUBSET List
        BY <1>3
    <2>3. QED
        BY <1>4, <2>1, <2>2, AgedIs DEF OfClient
<1>9. AtMostOne(nodes) /\ \A n \in nodes : n.epoch = cache.clears
    BY <1>1, <1>3, AgedIs DEF CacheOK
<1> HIDE DEF lists, nodes, interest, cached
<1>10. topology' \in TopologyType
    BY <1>1, <1>2, <1>7 DEF TopologyType
<1>11. cache' \in CacheType
    BY <1>1, <1>2, <1>4, <1>5, <1>6 DEF CacheType
<1>12. /\ cache'.lists = lists /\ cache'.nodes = nodes /\ cache'.clears = cache.clears
       /\ cache'.client = cache.client /\ cache'.refreshing = cache.refreshing
    BY <1>1, <1>2 DEF CacheType
<1>13. \A l : OfClient(l, cache) => OfClient(l, cache')
    BY <1>12 DEF OfClient
<1>14. TasksOK(cache'.refreshing, cache')
    BY <1>1, <1>12, <1>13 DEF CacheOK, TasksOK
<1>15. CacheOK(cache')
    BY <1>8, <1>9, <1>11, <1>12, <1>13, <1>14 DEF CacheOK
<1>16. QED
    BY <1>2, <1>10, <1>12, <1>15 DEF DirInv

\* Those who ask, connectivity and time.
LEMMA AskerSteps ==
    ASSUME DirInv, AskersNext
    PROVE  DirInv'
<1>1. /\ topology \in TopologyType /\ outside \in OutsideType
      /\ InboxOK(inbox, cache.clears, updater.network)
    BY DEF DirInv
<1>2. ASSUME NEW min \in Thresholds, NEW t \in GwTypes, MonitorConnects(min, t) PROVE DirInv'
    <2> DEFINE client == [env |-> 1, min |-> min]
               a == [op |-> "replace", arg |-> client]
               b == [op |-> "lookup", arg |-> t]
    <2>1. /\ inbox' = inbox \o <<a, b>> /\ outside.work > 0 /\ topology' = [topology EXCEPT !.min = min]
          /\ outside' = [outside EXCEPT !.work = @ - 1] /\ UNCHANGED <<cache, updater>>
        BY <1>2 DEF MonitorConnects
    <2>2. client \in DirClient
        BY DirAssumption DEF DirClient
    <2> HIDE DEF client
    <2>3. a \in Cmds /\ a.op # "clear" /\ b \in Cmds /\ b.op # "clear"
        BY <2>2 DEF Cmds
    <2> HIDE DEF a, b
    <2>4. inbox \in Seq(Cmds) /\ inbox \o <<a, b>> = Append(Append(inbox, a), b)
        BY <1>1, <2>3 DEF InboxOK
    <2>5. InboxOK(inbox', cache.clears, updater.network)
        BY <1>1, <2>1, <2>3, <2>4, PostedIs
    <2>6. topology' \in TopologyType
        BY <1>1, <2>1 DEF TopologyType
    <2>7. outside' \in OutsideType
        BY <1>1, <2>1, DirWorkIs
    <2>8. QED
        BY <2>1, <2>5, <2>6, <2>7 DEF DirInv
<1>3. ASSUME NEW cmd \in Queries, ListGateways(cmd) PROVE DirInv'
    <2>1. /\ inbox' = Append(inbox, cmd) /\ outside.work > 0
          /\ outside' = [outside EXCEPT !.work = @ - 1] /\ UNCHANGED <<cache, topology, updater>>
        BY <1>3 DEF ListGateways, Posted
    <2>2. cmd \in Cmds /\ cmd.op # "clear"
        BY DEF Queries, Cmds
    <2>3. InboxOK(inbox', cache.clears, updater.network)
        BY <1>1, <2>1, <2>2, PostedIs
    <2>4. outside' \in OutsideType
        BY <1>1, <2>1, DirWorkIs
    <2>5. QED
        BY <2>1, <2>3, <2>4 DEF DirInv
<1>4. CASE ConnectivityFlips
    <2> DEFINE faults == IF Online THEN outside.faults - 1 ELSE outside.faults
    <2>1. outside' = [outside EXCEPT !.online = ~outside.online, !.reported = ~Online, !.faults = faults]
        BY <1>4 DEF ConnectivityFlips
    <2>2. UNCHANGED <<cache, inbox, topology, updater>> /\ (outside.faults > 0 \/ ~Online)
        BY <1>4 DEF ConnectivityFlips
    <2>3. faults \in 0..DirFaults
        BY <1>1, <2>2, DirAssumption DEF OutsideType
    <2> HIDE DEF faults
    <2>4. (~outside.online) \in BOOLEAN /\ (~Online) \in BOOLEAN
        OBVIOUS
    <2>5. outside' \in OutsideType
        BY <1>1, <2>1, <2>3, <2>4 DEF OutsideType
    <2>6. QED
        BY <2>2, <2>5 DEF DirInv
<1>5. QED
    BY <1>2, <1>3, <1>4, TimeStep DEF AskersNext

\* At most one is a cardinality of at most one.
LEMMA FewIs ==
    ASSUME NEW s, AtMostOne(s)
    PROVE  Cardinality(s) <= 1
<1>1. CASE s = {}
    BY <1>1, FS_EmptySet
<1>2. CASE s # {}
    <2>1. PICK x : s = {x}
        BY <1>2 DEF AtMostOne
    <2>2. QED
        BY <2>1, FS_Singleton
<1>3. QED
    BY <1>1, <1>2

\* The gateway cache and the topology service (gateway_cache.rs): for any
\* number of networks, lookups, connects, outages and failed fetches, no list
\* or node list outlives a clear, none was made under thresholds other than
\* those of the client installed, and no list is fetched twice at once.
THEOREM DirectoryAlwaysConsistent == DirSpec => []DirectoryConsistent
<1>1. DirInit => DirInv
    <2> SUFFICES ASSUME DirInit PROVE DirInv
        OBVIOUS
    <2> DEFINE inline == IF Online THEN GwTypes ELSE {}
               initial == Online
               none == [t \in GwTypes |-> {}]
               client == [env |-> 1, min |-> "none"]
    <2>1. /\ outside \in [online : BOOLEAN, reported : {FALSE}, work : {DirWork}, faults : {DirFaults}]
          /\ cache = [client |-> client, lists |-> none, nodes |-> {}, interest |-> none,
                      refreshing |-> {}, inline |-> inline, nodesInline |-> FALSE, initial |-> initial,
                      clears |-> 0]
          /\ inbox = <<>> /\ topology = [cached |-> {}, busy |-> FALSE, min |-> "none"]
          /\ updater = [at |-> "idle", network |-> 1]
        BY DEF DirInit
    <2>2. outside \in OutsideType
        <3>1. DirWork \in 0..DirWork /\ DirFaults \in 0..DirFaults
            BY DirAssumption
        <3>2. {DirWork} \subseteq 0..DirWork /\ {DirFaults} \subseteq 0..DirFaults /\ {FALSE} \subseteq BOOLEAN
            BY <3>1
        <3> DEFINE W == 0..DirWork
                   F == 0..DirFaults
        <3> HIDE DEF W, F
        <3>3. outside \in [online : BOOLEAN, reported : BOOLEAN, work : W, faults : F]
            BY <2>1, <3>2 DEF W, F
        <3>4. QED
            BY <3>3 DEF W, F, OutsideType
    <2>3. inline \in SUBSET GwTypes /\ initial \in BOOLEAN
        BY <2>2 DEF Online, OutsideType
    <2>4. client \in DirClient
        BY DirAssumption DEF DirClient, Thresholds
    <2>5. /\ none \in [GwTypes -> SUBSET List] /\ none \in [GwTypes -> SUBSET DirAges]
          /\ \A t \in GwTypes : none[t] = {}
        OBVIOUS
    <2>6. 0 \in Clears
        BY DirAssumption DEF Clears
    <2> HIDE DEF inline, initial, none, client
    <2>7. cache \in CacheType
        BY <2>1, <2>3, <2>4, <2>5, <2>6 DEF CacheType
    <2>8. cache.lists = none /\ cache.nodes = {} /\ cache.refreshing = {} /\ cache.clears = 0
        BY <2>1
    <2>9. CacheOK(cache)
        BY <2>5, <2>7, <2>8 DEF CacheOK, TasksOK, AtMostOne
    <2>10. topology \in TopologyType /\ updater \in UpdaterType /\ updater.network = 1
        BY <2>1, DirAssumption DEF TopologyType, UpdaterType, Thresholds
    <2>11. InboxOK(inbox, cache.clears, updater.network)
        BY <2>1, <2>8, <2>10 DEF InboxOK
    <2>12. QED
        BY <2>2, <2>9, <2>10, <2>11 DEF DirInv
<1>2. DirInv /\ [DirNext]_dirVars => DirInv'
    <2> SUFFICES ASSUME DirInv, [DirNext]_dirVars PROVE DirInv'
        OBVIOUS
    <2>1. CASE CacheNext
        BY <2>1, ActorSteps, CommandStep DEF CacheNext
    <2>2. CASE UNCHANGED dirVars
        BY <2>2 DEF dirVars, DirInv
    <2>3. QED
        BY <2>1, <2>2, TopologySteps, UpdaterSteps, AskerSteps DEF DirNext
<1>3. DirInv => DirectoryConsistent
    <2> SUFFICES ASSUME DirInv PROVE DirectoryConsistent
        OBVIOUS
    <2>1. CacheOK(cache) /\ cache \in CacheType
        BY DEF DirInv, CacheOK
    <2>2. \A t \in GwTypes : Cardinality(cache.lists[t]) <= 1
        BY <2>1, FewIs DEF CacheOK
    <2>3. Cardinality(cache.nodes) <= 1
        BY <2>1, FewIs DEF CacheOK
    <2>4. DirTypeOK
        BY <2>1, <2>2, <2>3 DEF DirInv, DirTypeOK, CacheType, DirTask, DirAges, TopologyType, UpdaterType, OutsideType
    <2>5. ClearedStaysCleared /\ ListsMeetThresholds /\ OneFetchPerList
        BY <2>1 DEF CacheOK, TasksOK, OfClient, ClearedStaysCleared, ListsMeetThresholds, OneFetchPerList
    <2>6. QED
        BY <2>4, <2>5 DEF DirectoryConsistent
<1>4. QED
    BY <1>1, <1>2, <1>3, PTL DEF DirSpec
==============================================================================
