------------------------------ MODULE Routing ------------------------------
(***************************************************************************)
(* The route manager (nym-routing/src/unix/linux.rs, unix/mod.rs), the     *)
(* handle the tunnel code drives it through (route_handler.rs), and the    *)
(* two tasks that hold a clone of that handle: the tunnel monitor, which   *)
(* installs the rules and routes of a session, and the state machine,      *)
(* which removes them.                                                     *)
(*                                                                         *)
(* The manager is an actor.  It serves one command at a time and, between  *)
(* commands, the kernel's link and route notifications.  A command is a    *)
(* list of netlink requests; each is one step here, so that a crash or an  *)
(* error may fall between any two.                                         *)
(***************************************************************************)
EXTENDS Naturals, Sequences, FiniteSets

CONSTANTS
    RtSessions,    \* how many tunnel sessions are started
    RtFaults       \* how many netlink errors and crashes happen

VARIABLES
    kernel,    \* rules, routes of the tunnel table, the live tunnel device
    netlink,   \* notifications the manager has not read yet
    manager,   \* the actor: interface map, added routes, commands
    tundev    \* monitor and state machine, as far as they touch routes

rtVars == <<kernel, netlink, manager, tundev>>

(***************************************************************************)
(* Rules.  A rule is its family and kind; the kind fixes the priority      *)
(* (90 exempt, 100 suppress, 200 tunnel), the mark and the table.          *)
(***************************************************************************)
IpFamilies == {4, 6}
IpRule(k, f) == [kind |-> k, family |-> f]

Priority(k) == CASE k = "exempt" -> 90 [] k = "suppress" -> 100 [] k = "tunnel" -> 200

\* In the order of the vector: tunnel, suppress, exempt; v4 before v6.
all_rules ==
    << IpRule("tunnel", 4), IpRule("tunnel", 6), IpRule("suppress", 4),
       IpRule("suppress", 6), IpRule("exempt", 4), IpRule("exempt", 6) >>

\* The kernel's rule walk: where a packet of family f with mark m ("none",
\* "tunnel", "exempt") to a destination "lan" (a specific route of the main
\* table) or "wan" (its default route only) is looked up.  The tunnel rule
\* falls through when the tunnel table has no route for the packet.
Hits(r, f, m, to) ==
    /\ r.family = f
    /\ CASE r.kind = "exempt" -> m = "exempt"
         [] r.kind = "suppress" -> to = "lan"
         [] r.kind = "tunnel" ->
              m # "tunnel" /\ \E x \in kernel.routes : x.prefix = <<"default", f>>

RouteOf(f, m, to) ==
    LET hits == {r \in kernel.rules : Hits(r, f, m, to)}
    IN IF \E r \in hits : /\ r.kind = "tunnel"
                          /\ \A q \in hits : Priority(r.kind) <= Priority(q.kind)
       THEN "tunnel" ELSE "main"

(***************************************************************************)
(* What the handle sends (unix/mod.rs) and the manager turns into          *)
(* requests.  A request is <<op, argument>>.                               *)
(***************************************************************************)
Request(op, x) == [op |-> op, on |-> x]

\* The dump of the kernel's rules.
get_rules == kernel.rules

clear_routing_rules ==
    SelectSeq([i \in DOMAIN all_rules |-> Request("del_rule", all_rules[i])],
              LAMBDA q : q.on \in get_rules)

create_routing_rules(v6) ==
    clear_routing_rules \o
    SelectSeq([i \in DOMAIN all_rules |-> Request("add_rule", all_rules[i])],
              LAMBDA q : q.on.family = 4 \/ v6)

\* The WireGuard gateway routes always, the default routes unless split
\* tunnelling is the legacy, inclusive kind.  The entry and the exit device
\* come and go together and are one device here.
get_routes(v6, legacy) ==
    { <<"gateway", 4>> } \cup
    (IF legacy THEN {} ELSE { <<"default", f>> : f \in IF v6 THEN {4, 6} ELSE {4} })

\* Both sets are HashSets: the requests come in any order.
AnyOrder(S) == {q \in [1 .. Cardinality(S) -> S] : \A x \in S : \E i \in DOMAIN q : q[i] = x}

Requests(op, S) == {[i \in DOMAIN q |-> Request(op, q[i])] : q \in AnyOrder(S)}

\* What a command asks of the kernel.
Plans(c) ==
    CASE c.cmd = "create" -> { create_routing_rules(c.v6) }
      [] c.cmd = "add" -> Requests("add_route", c.routes)
      [] c.cmd = "clear_routes" -> Requests("del_route", manager.added)
      [] c.cmd = "clear_rules" -> { clear_routing_rules }
      [] c.cmd = "shutdown" -> Requests("del_route", manager.added)

RtFaulty == tundev.faults < RtFaults

(***************************************************************************)
(* The actor.                                                              *)
(***************************************************************************)
RouteReply(c, ok) == tundev' = [tundev EXCEPT ![c.from] = [@ EXCEPT !.answer = IF ok THEN "ok" ELSE "err"]]

\* select!: take a command.  clear_routes and shutdown drain added_routes
\* first.
process_command ==
    /\ manager.alive /\ manager.cmd = {} /\ manager.queue # <<>>
    /\ LET c == Head(manager.queue) IN
       \E plan \in Plans(c) :
         manager' = [manager EXCEPT !.queue = Tail(@), !.cmd = {c}, !.todo = plan,
                       !.added = IF c.cmd \in {"clear_routes", "shutdown"} THEN {} ELSE @]
    /\ UNCHANGED <<kernel, netlink, tundev>>

\* Errors of the route deletions are only logged; every other error ends the
\* command.  After the routes a shutdown clears the rules.
Lowest(S) == CHOOSE i \in S : \A j \in S : i <= j

find_iface_idx(map) == IF map = {} THEN {} ELSE {Lowest(map)}

\* find_iface_idx_or_refresh: only a name that is not in the map refreshes it.
refreshed == IF manager.map = {} THEN kernel.links ELSE manager.map

add_route(p) ==
    LET map == refreshed
        idx == find_iface_idx(map)
        ok == idx # {} /\ idx \subseteq kernel.links
    IN /\ kernel' = IF ok THEN [kernel EXCEPT !.routes = @ \cup {[prefix |-> p, idx |-> Lowest(map)]}]
                          ELSE kernel
       /\ manager' = IF ok THEN [manager EXCEPT !.map = map, !.added = @ \cup {p}, !.todo = Tail(@)]
                           ELSE [manager EXCEPT !.map = map, !.todo = <<>>, !.failed = TRUE]
       /\ UNCHANGED <<netlink, tundev>>

\* No index in the request when the name is not in the map: the kernel then
\* matches on the prefix alone.  A stale index matches nothing (ESRCH).
delete_route(p) ==
    LET idx == find_iface_idx(manager.map)
        gone == {x \in kernel.routes : x.prefix = p /\ (idx = {} \/ x.idx \in idx)}
    IN /\ kernel' = [kernel EXCEPT !.routes = @ \ gone]
       /\ netlink' = netlink \o [i \in 1 .. Cardinality(gone) |->
                        [msg |-> "del_route", idx |-> (CHOOSE x \in gone : TRUE).idx, prefix |-> p]]
       /\ manager' = [manager EXCEPT !.todo = Tail(@)]
       /\ UNCHANGED tundev

ManagerRequest ==
    /\ manager.todo # <<>>
    /\ LET q == Head(manager.todo) IN
       CASE q.op = "add_rule" ->
              /\ kernel' = [kernel EXCEPT !.rules = @ \cup {q.on}]
              /\ manager' = [manager EXCEPT !.todo = Tail(@)]
              /\ UNCHANGED <<netlink, tundev>>
         [] q.op = "del_rule" ->
              /\ kernel' = [kernel EXCEPT !.rules = @ \ {q.on}]
              /\ manager' = [manager EXCEPT !.todo = Tail(@)]
              /\ UNCHANGED <<netlink, tundev>>
         [] q.op = "add_route" -> add_route(q.on)
         [] q.op = "del_route" -> delete_route(q.on)

\* The kernel refuses a request: a failed deletion of a route is logged and
\* the next one tried, anything else is the command's result.
RequestFails ==
    /\ manager.todo # <<>> /\ RtFaulty
    /\ manager' = [manager EXCEPT
         !.todo = IF Head(@).op = "del_route" THEN Tail(@) ELSE <<>>,
         !.failed = Head(manager.todo).op # "del_route"]
    /\ tundev' = [tundev EXCEPT !.faults = @ + 1, !.clean = FALSE]
    /\ UNCHANGED <<kernel, netlink>>

\* Faulty variant: the actor ends with its routes.
CommandEndsEarly ==
    /\ manager.cmd # {} /\ manager.todo = <<>>
    /\ LET c == CHOOSE x \in manager.cmd : TRUE IN
       /\ manager' = [manager EXCEPT !.cmd = {}, !.failed = FALSE, !.alive = c.cmd # "shutdown"]
       /\ IF c.cmd = "clear_routes" THEN UNCHANGED tundev ELSE RouteReply(c, ~manager.failed)
    /\ UNCHANGED <<kernel, netlink>>

\* The command is done: answer it.  A shutdown goes on to clear the rules
\* (destructor) before it answers and the actor ends.
CommandEnds ==
    /\ manager.cmd # {} /\ manager.todo = <<>>
    /\ LET c == CHOOSE x \in manager.cmd : TRUE IN
       IF c.cmd = "shutdown" /\ clear_routing_rules # <<>> /\ ~manager.failed
       THEN /\ manager' = [manager EXCEPT !.todo = clear_routing_rules]
            /\ UNCHANGED tundev
       ELSE /\ manager' = [manager EXCEPT !.cmd = {}, !.failed = FALSE,
                             !.alive = c.cmd # "shutdown"]
            /\ IF c.cmd = "clear_routes" THEN UNCHANGED tundev ELSE RouteReply(c, ~manager.failed)
    /\ UNCHANGED <<kernel, netlink>>

\* select!: the other branch.  A deletion through a device the map does not
\* know is an error; an IPv6 route comes back with the kernel's metric and
\* so equals none of added_routes.
process_netlink_message ==
    /\ manager.alive /\ manager.cmd = {} /\ netlink # <<>>
    /\ LET m == Head(netlink) IN
       manager' = [manager EXCEPT
         !.map = CASE m.msg = "new_link" -> @ \cup {m.idx}
                   [] m.msg = "del_link" -> @ \ {m.idx}
                   [] OTHER -> @,
         !.added = IF m.msg = "del_route" /\ m.idx \in manager.map /\ m.prefix[2] = 4
                   THEN @ \ {m.prefix} ELSE @]
    /\ netlink' = Tail(netlink)
    /\ UNCHANGED <<kernel, tundev>>

(***************************************************************************)
(* The two users of the handle.                                            *)
(***************************************************************************)
SendCmd(cs) == manager' = [manager EXCEPT !.queue = @ \o cs]

Cmd(c, who) == [cmd |-> c, from |-> who, v6 |-> tundev.v6,
                routes |-> get_routes(tundev.v6, tundev.legacy)]

\* A session starts: the settings are read and the device is made, which
\* the kernel announces.
StartTunnel ==
    /\ manager.alive /\ tundev.tsm.at = "idle" /\ tundev.count < RtSessions
    /\ \E v6, legacy \in BOOLEAN :
         tundev' = [tundev EXCEPT !.v6 = v6, !.legacy = legacy, !.count = @ + 1,
                       !.tsm.at = "connecting", !.monitor = [at |-> "device", answer |-> "none"]]
    /\ kernel' = [kernel EXCEPT !.links = {tundev.count + 1}]
    /\ netlink' = Append(netlink, [msg |-> "new_link", idx |-> tundev.count + 1, prefix |-> <<>>])
    /\ UNCHANGED manager

\* RouteHandler::add_routes: rules, then routes; an error ends the attempt.
\* set_routes does not look at the shutdown token.
add_routes ==
    /\ \/ /\ tundev.monitor.at = "device"
          /\ SendCmd(<<Cmd("create", "monitor")>>)
          /\ tundev' = [tundev EXCEPT !.monitor.at = "rules"]
       \/ /\ tundev.monitor.at = "rules" /\ tundev.monitor.answer = "ok"
          /\ SendCmd(<<Cmd("add", "monitor")>>)
          /\ tundev' = [tundev EXCEPT !.monitor = [at |-> "routes", answer |-> "none"]]
       \/ /\ tundev.monitor.at = "routes" /\ tundev.monitor.answer = "ok"
          /\ tundev' = [tundev EXCEPT !.monitor = [at |-> "up", answer |-> "none"]]
          /\ UNCHANGED manager
    /\ UNCHANGED <<kernel, netlink>>

\* The monitor ends: an error of add_routes, the tunnel's own end, or the
\* cancelled token, which is only read once the routes are set.  Its device
\* goes with it; the kernel drops the device's routes and says so.
MonitorEnds ==
    /\ \/ tundev.monitor.answer = "err"
       \/ tundev.monitor.at = "up"
    /\ \E gone \in AnyOrder(kernel.routes) :
       netlink' = netlink
         \o [i \in DOMAIN gone |-> [msg |-> "del_route", idx |-> gone[i].idx, prefix |-> gone[i].prefix]]
         \o <<[msg |-> "del_link", idx |-> tundev.count, prefix |-> <<>>]>>
    /\ kernel' = [kernel EXCEPT !.routes = {}, !.links = {}]
    /\ tundev' = [tundev EXCEPT !.monitor =
         [at |-> IF @.answer = "err" THEN "failed" ELSE "ended", answer |-> "none"]]
    /\ UNCHANGED manager

\* The monitor reports an AddRoutes error as a reason for the error state,
\* which is entered without remove_routes.
SetRoutingError ==
    /\ tundev.tsm.at = "connecting" /\ tundev.monitor.at = "failed"
    /\ tundev' = [tundev EXCEPT !.tsm.at = "idle", !.monitor.at = "none", !.overlapped = TRUE]
    /\ UNCHANGED <<kernel, netlink, manager>>

\* Disconnect or reconnect of a session whose monitor still runs: remove_routes
\* first, the token after it.  A monitor that ended by itself: remove_routes.
remove_routes ==
    /\ tundev.tsm.at = "connecting" /\ tundev.monitor.at # "failed"
    /\ SendCmd(<<Cmd("clear_routes", "tsm"), Cmd("clear_rules", "tsm")>>)
    /\ tundev' = [tundev EXCEPT !.tsm = [at |-> "removing", answer |-> "none"],
         !.overlapped = @ \/ tundev.monitor.at \in {"device", "rules", "routes"}]
    /\ UNCHANGED <<kernel, netlink>>

\* Errors are only traced.  DisconnectingState waits for the monitor and
\* removes nothing itself.
Disconnecting ==
    /\ tundev.tsm.at = "removing" /\ tundev.tsm.answer # "none"
    /\ tundev.monitor.at \in {"ended", "failed"}
    /\ tundev' = [tundev EXCEPT !.tsm = [at |-> "idle", answer |-> "none"], !.monitor.at = "none"]
    /\ UNCHANGED <<kernel, netlink, manager>>

stop_routes ==
    /\ manager.alive /\ tundev.tsm.at = "idle"
    /\ SendCmd(<<Cmd("shutdown", "tsm")>>)
    /\ tundev' = [tundev EXCEPT !.tsm.at = "stopping"]
    /\ UNCHANGED <<kernel, netlink>>

RoutesStopped ==
    /\ tundev.tsm.at = "stopping" /\ tundev.tsm.answer # "none"
    /\ tundev' = [tundev EXCEPT !.tsm = [at |-> "stopped", answer |-> "none"]]
    /\ UNCHANGED <<kernel, netlink, manager>>

\* The process dies: the device, and the routes through it, die with it; the
\* rules do not.
RouteCrash ==
    /\ tundev.tsm.at # "stopped" /\ RtFaulty
    /\ kernel' = [kernel EXCEPT !.routes = {}, !.links = {}]
    /\ netlink' = <<>>
    /\ manager' = [manager EXCEPT !.alive = FALSE, !.queue = <<>>, !.cmd = {}, !.todo = <<>>,
                     !.failed = FALSE, !.added = {}, !.map = {}]
    /\ tundev' = [tundev EXCEPT !.tsm = [at |-> "stopped", answer |-> "none"], !.clean = FALSE,
                     !.monitor = [at |-> "none", answer |-> "none"], !.faults = @ + 1]

\* RouteManagerImpl::new: open a new socket, read the links, clear the rules of an earlier run;
\* an error there and the daemon does not come up.
new_route_manager ==
    /\ tundev.tsm.at = "stopped" /\ tundev.count < RtSessions
    /\ kernel' = [kernel EXCEPT !.rules = {}]
    /\ manager' = [manager EXCEPT !.alive = TRUE, !.map = kernel.links, !.added = {}]
    /\ tundev' = [tundev EXCEPT !.tsm.at = "idle", !.clean = TRUE, !.overlapped = FALSE]
    /\ netlink' = <<>>

(***************************************************************************)
(* Specification.                                                          *)
(***************************************************************************)
NoTask == [at |-> "none", answer |-> "none"]

RoutingInit ==
    /\ kernel = [rules |-> {}, routes |-> {}, links |-> {}]
    /\ netlink = <<>>
    /\ manager = [alive |-> TRUE, map |-> {}, added |-> {}, queue |-> <<>>, cmd |-> {},
                  todo |-> <<>>, failed |-> FALSE]
    /\ tundev = [monitor |-> NoTask, tsm |-> [NoTask EXCEPT !.at = "idle"], v6 |-> FALSE,
                  legacy |-> FALSE, count |-> 0, faults |-> 0, overlapped |-> FALSE, clean |-> TRUE]

ManagerNext == process_command \/ ManagerRequest \/ RequestFails \/ CommandEnds \/ process_netlink_message

RoutingNext ==
    \/ ManagerNext
    \/ StartTunnel \/ add_routes \/ MonitorEnds
    \/ SetRoutingError \/ remove_routes \/ Disconnecting \/ stop_routes \/ RoutesStopped \/ RouteCrash \/ new_route_manager

RoutingSpec == RoutingInit /\ [][RoutingNext]_rtVars

(***************************************************************************)
(* Properties.                                                             *)
(***************************************************************************)
RoutePrefixes == {<<"gateway", 4>>, <<"default", 4>>, <<"default", 6>>}

\* Types: one tunnel device at a time, no route on a device that is gone and no
\* route of a family or prefix that get_routes does not name (route_handler.rs).
RoutingTypeOK ==
    /\ kernel.rules \subseteq {IpRule(k, f) : k \in {"exempt", "suppress", "tunnel"}, f \in IpFamilies}
    /\ kernel.links \subseteq 1 .. RtSessions /\ Cardinality(kernel.links) <= 1
    /\ \A x \in kernel.routes : x.prefix \in RoutePrefixes /\ x.idx \in kernel.links
    /\ manager.map \subseteq 1 .. RtSessions /\ manager.added \subseteq RoutePrefixes
    /\ tundev.monitor.at \in {"none", "device", "rules", "routes", "up", "ended", "failed"}
    /\ tundev.tsm.at \in {"idle", "connecting", "removing", "stopping", "stopped"}

\* While a session is up and nobody has asked for its removal, a marked packet
\* leaves by the main table, LAN traffic stays on the LAN, and every other
\* packet of a family the tunnel carries enters the tunnel.
RoutedWhileUp ==
    tundev.monitor.at = "up" /\ tundev.tsm.at = "connecting" =>
        \A f \in IF tundev.v6 THEN {4, 6} ELSE {4}, m \in {"none", "tunnel", "exempt"},
           to \in {"lan", "wan"} :
             RouteOf(f, m, to) =
               IF m = "none" /\ to = "wan" /\ ~tundev.legacy THEN "tunnel" ELSE "main"

\* Until their removal is asked for, the manager tracks every route it has
\* installed: a late notification about the last session's device, whose name
\* the new device reuses, never makes it forget a route of the new one.
RoutesTracked ==
    tundev.tsm.at = "connecting" /\ manager.cmd = {} =>
        \A x \in kernel.routes : x.prefix \in manager.added

\* After an orderly stop, and after a start, no rule of the daemon is left,
\* whatever sessions and races came before; only a netlink error or a crash
\* leaves some ("The daemon normally clears these itself on stop; a crashed
\* one does not", docs/development/packaging.md).
StopClearsRules == tundev.tsm.at = "stopped" /\ tundev.clean => kernel.rules = {}

\* Once a session has been taken down no rule of it is left, unless the
\* removal overtook a monitor that was still installing them, or installing
\* the routes failed.
IdleHasNoRules ==
    tundev.tsm.at = "idle" /\ tundev.clean /\ ~tundev.overlapped => kernel.rules = {}

\* Rules and routes are those of the session there is: the facts above.
RoutesConsistent ==
    RoutingTypeOK /\ RoutedWhileUp /\ RoutesTracked /\ StopClearsRules /\ IdleHasNoRules
=============================================================================
