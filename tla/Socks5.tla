------------------------------- MODULE Socks5 -------------------------------
(***************************************************************************)
(* The lazy SOCKS5 proxy of the daemon: the enable, disable and            *)
(* auto-disable tasks of VpnService, which take socks5_ops one at a time;  *)
(* the LazySocks5 wrapper each enable builds, with its accept loop and its *)
(* three monitors; and the connection tasks, which are detached from all   *)
(* of these and start the mixnet client on first use.                      *)
(*                                                                         *)
(* A gateway pair of the VPN is a number: pair p has entry gateway p and   *)
(* exit gateway p, and the network requesters are the exit gateways.  The  *)
(* shared tunnel state is <<"down">> (Disconnected or Error),              *)
(* <<"changing">> (Connecting, Disconnecting or Offline), <<"wg", p>> or   *)
(* <<"mixnet", p>> (Connected).  A mixnet client is the entry gateway it   *)
(* was built on (0: the SDK's random choice) and its network requester.    *)
(* {} stands for None, {x} for Some(x).                                    *)
(***************************************************************************)
EXTENDS Naturals, Sequences

CONSTANTS S5Pairs,     \* the gateway pairs the VPN may connect to
          S5Wrappers,  \* bound on the enables that build a wrapper
          S5Conns,     \* bound on accepted connections
          S5Requests,  \* bound on enable and disable requests
          S5Events,    \* bound on tunnel events
          S5Retries    \* MAX_RETRIES of ensure_backend_started_with_retry

ASSUME Socks5Assumption ==
    /\ S5Pairs # {} /\ S5Pairs \subseteq Nat \ {0}
    /\ {S5Wrappers, S5Conns, S5Requests, S5Events, S5Retries} \subseteq Nat

VARIABLES service,  \* Socks5ServiceState, socks5_ops and socks5_enables
          ops,      \* the tasks that want or hold socks5_ops
          wrapper,  \* every LazySocks5 built so far
          conn,     \* the connection tasks
          vpn       \* the tunnel state shared with the service, and its budget

s5vars == <<service, ops, wrapper, conn, vpn>>

Tunnels == {<<"down">>, <<"changing">>}
             \cup {"wg", "mixnet"} \X S5Pairs
Is(state, kind) == state[1] = kind
IsConnected(state) == state[1] \in {"wg", "mixnet"}
MixClient == [entry : S5Pairs \cup {0}, nr : S5Pairs]
Timers == {"unset", "running", "elapsed"}

-----------------------------------------------------------------------------
(* LazySocks5.                                                             *)

(* A wrapper before and after LazySocks5::new.  `excluded' is the VPN exit *)
(* gateway known when the enable looked up its configuration, `seen' the   *)
(* state monitor's last_vpn_state, `ending' the decrements spawned by      *)
(* dropped guards and `alive' the monitors that still run.                 *)
NewWrapper(excluded) ==
    [run |-> "binding", cancelled |-> FALSE, excluded |-> excluded,
     client |-> {}, running |-> FALSE, init |-> 0, count |-> 0, ending |-> 0,
     closed |-> "unset", rotation |-> "unset", seen |-> <<"down">>,
     alive |-> {}, idle |-> FALSE, rotate |-> FALSE]
Unbuilt == [NewWrapper({}) EXCEPT !.run = "unbuilt"]

shutdown_backend(w) ==
    IF w.client # {} THEN [w EXCEPT !.client = {}, !.running = FALSE] ELSE w

(* The task of the wrapper has not finished.                               *)
Unfinished(w) == w.run \in {"binding", "serving", "stopping"}

(* Something holds the Arc, so the client in it has not been dropped.      *)
Held(g) ==
    \/ service.cur = g \/ wrapper[g].alive # {}
    \/ Unfinished(wrapper[g])
    \/ \E c \in DOMAIN conn :
          conn[c].of = g /\ conn[c].at \notin {"free", "closed"}

(* run: the listener is bound and the monitors spawned, or the bind fails. *)
Bind(g) ==
    /\ wrapper[g].run = "binding"
    /\ wrapper' = [wrapper EXCEPT
          ![g].run = "serving", ![g].alive = {"idle", "state", "rotation"}]
    /\ UNCHANGED <<service, ops, conn, vpn>>

BindFails(g) ==
    /\ wrapper[g].run = "binding"
    /\ wrapper' = [wrapper EXCEPT ![g].run = "failed"]
    /\ UNCHANGED <<service, ops, conn, vpn>>

(* run: the accept loop routes by the tunnel state of that moment and      *)
(* refuses a connection while the tunnel changes.                          *)
AcceptConn(g, c) ==
    /\ wrapper[g].run = "serving" /\ conn[c].at = "free"
    /\ \A d \in 1..(c - 1) : conn[d].at # "free"
    /\ ~Is(vpn.state, "changing")
    /\ conn' = [conn EXCEPT
          ![c].of = g,
          ![c].at = IF Is(vpn.state, "mixnet") THEN "existing" ELSE "new"]
    /\ UNCHANGED <<service, ops, wrapper, vpn>>

(* run: the loop ends on the token.  Its clean-up aborts the monitors and  *)
(* shuts the backend down, unless the task is aborted before it gets there.*)
RunCancelled(g) ==
    /\ wrapper[g].run = "serving" /\ wrapper[g].cancelled
    /\ wrapper' = [wrapper EXCEPT ![g].run = "stopping", ![g].alive = {}]
    /\ UNCHANGED <<service, ops, conn, vpn>>

RunStops(g) ==
    /\ wrapper[g].run = "stopping"
    /\ wrapper' = [wrapper EXCEPT
          ![g] = [shutdown_backend(@) EXCEPT !.run = "stopped"]]
    /\ UNCHANGED <<service, ops, conn, vpn>>

-----------------------------------------------------------------------------
(* The connection tasks.                                                   *)

ConnMoves(c, at) == conn' = [conn EXCEPT ![c].at = at]

(* ConnectionGuard::new, the first step of both routes.                    *)
Guarded(c) ==
    /\ conn[c].at \in {"existing", "new"}
    /\ ConnMoves(c, IF conn[c].at = "existing" THEN "handshake" ELSE "ensure")
    /\ wrapper' = [wrapper EXCEPT ![conn[c].of].count = @ + 1]
    /\ UNCHANGED <<service, ops, vpn>>

(* The guard is dropped: the decrement is a task of its own.               *)
DropConn(c, w) ==
    /\ ConnMoves(c, "closed")
    /\ wrapper' = [w EXCEPT ![conn[c].of].ending = @ + 1]

Decrement(g) ==
    /\ wrapper[g].ending > 0
    /\ wrapper' = [wrapper EXCEPT ![g].ending = @ - 1,
          ![g].count = IF @ > 0 THEN @ - 1 ELSE @]
    /\ UNCHANGED <<service, ops, conn, vpn>>

(* ensure_backend_started: the check without the mutex.                    *)
EnsureQuick(c) ==
    /\ conn[c].at = "ensure"
    /\ ConnMoves(c, IF wrapper[conn[c].of].client # {} THEN "internal" ELSE "mutex")
    /\ UNCHANGED <<service, ops, wrapper, vpn>>

(* ensure_backend_started: the mutex, and the check under it.              *)
EnsureLocked(c) ==
    LET g == conn[c].of IN
    /\ conn[c].at = "mutex" /\ wrapper[g].init = 0
    /\ IF wrapper[g].client # {}
       THEN ConnMoves(c, "internal") /\ UNCHANGED wrapper
       ELSE /\ ConnMoves(c, "select")
            /\ wrapper' = [wrapper EXCEPT ![g].init = c]
    /\ UNCHANGED <<service, ops, vpn>>

(* The requester is drawn from the directory, never the excluded gateway.  *)
select_random_network_requester(c) ==
    /\ conn[c].at = "select"
    /\ \E nr \in S5Pairs \ wrapper[conn[c].of].excluded :
          conn' = [conn EXCEPT ![c].at = "build", ![c].nr = nr]
    /\ UNCHANGED <<service, ops, wrapper, vpn>>

(* The tunnel state is read, and the client built on the VPN's entry       *)
(* gateway when the VPN is connected.                                      *)
build_mixnet_client(c) ==
    /\ conn[c].at = "build"
    /\ conn' = [conn EXCEPT
          ![c].at = IF Is(vpn.state, "mixnet") THEN "connect_any" ELSE "connect",
          ![c].entry = IF IsConnected(vpn.state) THEN vpn.state[2] ELSE 0]
    /\ UNCHANGED <<service, ops, wrapper, vpn>>

(* The client is connected and stored.  A requested gateway the directory  *)
(* does not know gives way to a random one, except in WireGuard mode.      *)
StoreClient(c) ==
    LET g == conn[c].of IN
    /\ conn[c].at \in {"connect", "connect_any"}
    /\ \E entry \in {conn[c].entry}
            \cup (IF conn[c].at = "connect_any" THEN {0} ELSE {}) :
          wrapper' = [wrapper EXCEPT ![g].init = 0,
             ![g].client = {[entry |-> entry, nr |-> conn[c].nr]}]
    /\ conn' = [conn EXCEPT ![c].at = "internal", ![c].nr = 0, ![c].entry = 0]
    /\ UNCHANGED <<service, ops, vpn>>

(* Any step of the initialisation fails: the mutex is released and the     *)
(* attempt repeated, or the connection refused and its guard dropped.      *)
EnsureFails(c) ==
    LET g == conn[c].of
        released == [wrapper EXCEPT ![g].init = 0]
    IN  /\ conn[c].at \in {"select", "build", "connect", "connect_any"}
        /\ IF conn[c].tries < S5Retries
           THEN /\ wrapper' = released
                /\ conn' = [conn EXCEPT ![c].at = "ensure", ![c].nr = 0,
                      ![c].entry = 0, ![c].tries = @ + 1]
           ELSE DropConn(c, released)
        /\ UNCHANGED <<service, ops, vpn>>

(* connect_to_internal_with_retry: the fixed internal port answers while a *)
(* client of any wrapper serves it; the flag is set in a later step.       *)
PortServed == \E g \in DOMAIN wrapper : wrapper[g].client # {} /\ Held(g)

ConnectInternal(c) ==
    /\ conn[c].at = "internal" /\ PortServed
    /\ ConnMoves(c, "mark")
    /\ UNCHANGED <<service, ops, wrapper, vpn>>

MarkRunning(c) ==
    /\ conn[c].at = "mark"
    /\ ConnMoves(c, "proxy")
    /\ wrapper' = [wrapper EXCEPT ![conn[c].of].running = TRUE]
    /\ UNCHANGED <<service, ops, vpn>>

InternalFails(c) ==
    /\ conn[c].at = "internal" /\ ~PortServed
    /\ DropConn(c, wrapper)
    /\ UNCHANGED <<service, ops, vpn>>

(* The handshake on the existing tunnel gives a target, or fails.          *)
socks5_handshake(c) ==
    /\ conn[c].at = "handshake"
    /\ \/ ConnMoves(c, "direct") /\ UNCHANGED wrapper
       \/ DropConn(c, wrapper)
    /\ UNCHANGED <<service, ops, vpn>>

(* The target is not reached, or the proxying to it ends.                  *)
route_via_existing_tunnel(c) ==
    /\ conn[c].at = "direct"
    /\ DropConn(c, wrapper)
    /\ UNCHANGED <<service, ops, vpn>>

(* copy_bidirectional returns.                                             *)
CloseConn(c) ==
    /\ conn[c].at = "proxy"
    /\ DropConn(c, wrapper)
    /\ UNCHANGED <<service, ops, vpn>>

-----------------------------------------------------------------------------
(* The monitors.  Each looks at the token after its work.                  *)

Ticked(w, task) ==
    IF w.cancelled THEN [w EXCEPT !.alive = @ \ {task}] ELSE w

(* monitor_idle_timeout: a tick decides on the count it reads ...          *)
monitor_idle_timeout(g) ==
    LET w == wrapper[g]
        idle == w.count = 0 /\ w.closed = "elapsed"
        timer == IF w.count > 0 THEN "unset"
                 ELSE IF w.closed = "unset" THEN "running" ELSE w.closed
        after == [w EXCEPT !.closed = timer, !.idle = idle]
    IN  /\ "idle" \in w.alive /\ ~w.idle
        /\ wrapper' = [wrapper EXCEPT
              ![g] = IF idle THEN after ELSE Ticked(after, "idle")]
        /\ UNCHANGED <<service, ops, conn, vpn>>

(* ... and the shutdown follows once the client's lock is free.            *)
IdleShutdown(g) ==
    LET w == wrapper[g] IN
    /\ "idle" \in w.alive /\ w.idle
    /\ wrapper' = [wrapper EXCEPT
          ![g] = Ticked([shutdown_backend(w) EXCEPT
                            !.idle = FALSE, !.closed = "unset"], "idle")]
    /\ UNCHANGED <<service, ops, conn, vpn>>

monitor_tunnel_state(g) ==
    LET w == wrapper[g]
        stop == \/ Is(vpn.state, "mixnet") /\ ~Is(w.seen, "mixnet")
                \/ Is(vpn.state, "wg") /\ ~Is(w.seen, "wg") /\ w.running
        after == IF stop THEN shutdown_backend(w) ELSE w
    IN  /\ "state" \in w.alive
        /\ wrapper' = [wrapper EXCEPT
              ![g] = Ticked([after EXCEPT !.seen = vpn.state], "state")]
        /\ UNCHANGED <<service, ops, conn, vpn>>

(* monitor_network_requester_rotation, and the count rotate_network_       *)
(* requester reads ...                                                     *)
monitor_network_requester_rotation(g) ==
    LET w == wrapper[g]
        active == w.running /\ Is(vpn.state, "wg")
        due == active /\ w.rotation = "elapsed"
        timer == IF active /\ (due \/ w.rotation = "unset") THEN "running"
                 ELSE w.rotation
        rotate == due /\ w.count = 0
        after == [w EXCEPT !.rotation = timer, !.rotate = rotate]
    IN  /\ "rotation" \in w.alive /\ ~w.rotate
        /\ wrapper' = [wrapper EXCEPT
              ![g] = IF rotate THEN after ELSE Ticked(after, "rotation")]
        /\ UNCHANGED <<service, ops, conn, vpn>>

(* ... and the shutdown it then makes.                                     *)
rotate_network_requester(g) ==
    LET w == wrapper[g] IN
    /\ "rotation" \in w.alive /\ w.rotate
    /\ wrapper' = [wrapper EXCEPT
          ![g] = Ticked([shutdown_backend(w) EXCEPT !.rotate = FALSE],
                        "rotation")]
    /\ UNCHANGED <<service, ops, conn, vpn>>

(* External: the idle timeout, or the rotation interval, passes.           *)
IdleElapses(g) ==
    /\ wrapper[g].closed = "running" /\ "idle" \in wrapper[g].alive
    /\ wrapper' = [wrapper EXCEPT ![g].closed = "elapsed"]
    /\ UNCHANGED <<service, ops, conn, vpn>>

RotationElapses(g) ==
    /\ wrapper[g].rotation = "running" /\ "rotation" \in wrapper[g].alive
    /\ wrapper' = [wrapper EXCEPT ![g].rotation = "elapsed"]
    /\ UNCHANGED <<service, ops, conn, vpn>>

-----------------------------------------------------------------------------
(* The service: enable, disable and auto-disable tasks under socks5_ops.   *)

Free5 == \A i \in DOMAIN ops : ops[i].at \in {"waiting", "done"}
OpEnds(i) == ops' = [ops EXCEPT ![i].at = "done"]

(* handle_enable_socks5: the counter moves when the request is handled,    *)
(* the task it spawns waits for the lock.                                  *)
handle_enable_socks5 ==
    /\ Len(SelectSeq(ops, LAMBDA o : o.kind # "auto")) < S5Requests
    /\ service' = [service EXCEPT !.enables = @ + 1]
    /\ ops' = Append(ops, [kind |-> "enable", at |-> "waiting",
                           seen |-> service.enables + 1, excluded |-> {}])
    /\ UNCHANGED <<wrapper, conn, vpn>>

handle_disable_socks5 ==
    /\ Len(SelectSeq(ops, LAMBDA o : o.kind # "auto")) < S5Requests
    /\ ops' = Append(ops, [kind |-> "disable", at |-> "waiting", seen |-> 0,
                           excluded |-> {}])
    /\ UNCHANGED <<service, wrapper, conn, vpn>>

(* handle_tunnel_event: the shared state is replaced, and a disconnect     *)
(* spawns an auto-disable that remembers the enables asked for so far.     *)
handle_tunnel_event(state) ==
    /\ vpn.events < S5Events
    /\ state # vpn.state /\ Is(state, "changing") # Is(vpn.state, "changing")
    /\ vpn' = [state |-> state, events |-> vpn.events + 1]
    /\ ops' = IF Is(state, "down")
              THEN Append(ops, [kind |-> "auto", at |-> "waiting",
                                seen |-> service.enables, excluded |-> {}])
              ELSE ops
    /\ UNCHANGED <<service, wrapper, conn>>

\* Faulty variant: the enables asked for since the disconnect are not looked at.
StillWantedAlways(o) == service.state # "disabled"

(* The task gets the lock.  The auto-disable looks at the counter and at   *)
(* is_enabled under it, Socks5ServiceState::disable at the state.          *)
StillWanted(o) ==
    /\ service.state # "disabled"
    /\ o.kind = "auto" => o.seen = service.enables

\* Faulty variant: disable takes socks5_ops as well, under its callers.
TakeLockTwice(i) ==
    /\ ops[i].at = "waiting" /\ Free5
    /\ IF ops[i].kind = "enable" \/ StillWanted(ops[i])
       THEN ops' = [ops EXCEPT ![i].at = IF ops[i].kind = "enable" THEN "held" ELSE "relocking"]
       ELSE OpEnds(i)
    /\ UNCHANGED <<service, wrapper, conn, vpn>>

TakeLock(i) ==
    /\ ops[i].at = "waiting" /\ Free5
    /\ IF ops[i].kind = "enable" \/ StillWanted(ops[i])
       THEN ops' = [ops EXCEPT ![i].at = "held"]
       ELSE OpEnds(i)
    /\ UNCHANGED <<service, wrapper, conn, vpn>>

(* The lookups fail, time out, or the caller goes away.                    *)
LookupFails(i) ==
    /\ ops[i].kind = "enable" /\ ops[i].at = "held"
    /\ OpEnds(i)
    /\ UNCHANGED <<service, wrapper, conn, vpn>>

(* The lookups succeed; the VPN's exit gateway is the last thing read, and *)
(* the network requester is left to the random choice.                     *)
socks5_enable_config(i) ==
    /\ ops[i].kind = "enable" /\ ops[i].at = "held"
    /\ ops' = [ops EXCEPT ![i].at = "configured",
          ![i].excluded = IF IsConnected(vpn.state) THEN {vpn.state[2]} ELSE {}]
    /\ UNCHANGED <<service, wrapper, conn, vpn>>

(* Socks5ServiceState::enable keeps a wrapper whose task still runs, or    *)
(* cleans up one that has finished and spawns a new one, unless the listen *)
(* address is not acceptable.                                              *)
Enable(i) ==
    LET g == service.cur
        alive == g # 0 /\ Unfinished(wrapper[g])
        cleaned == IF g = 0 THEN wrapper
                   ELSE [wrapper EXCEPT ![g].cancelled = TRUE]
    IN  /\ ops[i].at = "configured"
        /\ \/ alive /\ UNCHANGED <<service, wrapper>>
           \/ /\ ~alive
              /\ wrapper' = cleaned /\ service' = [service EXCEPT !.cur = 0]
           \/ /\ ~alive
              /\ \E n \in DOMAIN wrapper :
                    /\ wrapper[n].run = "unbuilt"
                    /\ \A m \in 1..(n - 1) : wrapper[m].run # "unbuilt"
                    /\ wrapper' = [cleaned EXCEPT ![n] = NewWrapper(ops[i].excluded)]
                    /\ service' = [service EXCEPT !.state = "idle", !.cur = n,
                                                  !.by = ops[i].seen]
        /\ OpEnds(i)
        /\ UNCHANGED <<conn, vpn>>

(* Socks5ServiceState::cleanup for a disable: the token is cancelled ...   *)
CancelWrapper(i) ==
    /\ ops[i].kind # "enable" /\ ops[i].at = "held"
    /\ wrapper' = [g \in DOMAIN wrapper |->
          IF g = service.cur THEN [wrapper[g] EXCEPT !.cancelled = TRUE] ELSE wrapper[g]]
    /\ ops' = [ops EXCEPT ![i].at = "cancelled"]
    /\ UNCHANGED <<service, conn, vpn>>

(* ... and the wrapper's task aborted wherever it is.  The monitors it     *)
(* spawned are detached: they end at their next look at the token.         *)
AbortWrapper(i) ==
    /\ ops[i].at = "cancelled"
    /\ wrapper' = [g \in DOMAIN wrapper |->
          IF g = service.cur /\ Unfinished(wrapper[g])
          THEN [wrapper[g] EXCEPT !.run = "aborted"] ELSE wrapper[g]]
    /\ service' = [service EXCEPT !.state = "disabled", !.cur = 0, !.by = 0]
    /\ OpEnds(i)
    /\ UNCHANGED <<conn, vpn>>

-----------------------------------------------------------------------------
Socks5Init ==
    /\ service = [state |-> "disabled", cur |-> 0, enables |-> 0, by |-> 0]
    /\ ops = <<>>
    /\ wrapper = [g \in 1..S5Wrappers |-> Unbuilt]
    /\ conn = [c \in 1..S5Conns |->
                 [of |-> 0, at |-> "free", nr |-> 0, entry |-> 0, tries |-> 1]]
    /\ vpn = [state |-> <<"down">>, events |-> 0]

WrapperStep(g) ==
    \/ Bind(g) \/ BindFails(g) \/ RunCancelled(g) \/ RunStops(g) \/ Decrement(g)
    \/ monitor_idle_timeout(g) \/ IdleShutdown(g) \/ monitor_tunnel_state(g)
    \/ monitor_network_requester_rotation(g) \/ rotate_network_requester(g)

ConnStep(c) ==
    \/ Guarded(c) \/ EnsureQuick(c) \/ EnsureLocked(c)
    \/ select_random_network_requester(c) \/ build_mixnet_client(c)
    \/ StoreClient(c) \/ EnsureFails(c) \/ ConnectInternal(c) \/ MarkRunning(c)
    \/ InternalFails(c) \/ socks5_handshake(c)

OpStep(i) ==
    \/ TakeLock(i) \/ LookupFails(i) \/ socks5_enable_config(i) \/ Enable(i) \/ CancelWrapper(i)
    \/ AbortWrapper(i)

Socks5Next ==
    \/ \E g \in DOMAIN wrapper :
          \/ WrapperStep(g) \/ IdleElapses(g) \/ RotationElapses(g)
          \/ \E c \in DOMAIN conn : AcceptConn(g, c)
    \/ \E c \in DOMAIN conn : ConnStep(c) \/ route_via_existing_tunnel(c) \/ CloseConn(c)
    \/ \E i \in DOMAIN ops : OpStep(i)
    \/ handle_enable_socks5 \/ handle_disable_socks5
    \/ \E state \in Tunnels : handle_tunnel_event(state)

(* Every task is scheduled and every timer fires; requests, connections,   *)
(* their closing and tunnel events come as they please.                    *)
Socks5FairSteps == {"bind", "run", "decrement", "idle", "tunnel", "rotation", "elapses"}

Socks5Fair(s, g) ==
    \/ s = "bind" /\ (Bind(g) \/ BindFails(g))
    \/ s = "run" /\ (RunCancelled(g) \/ RunStops(g))
    \/ s = "decrement" /\ Decrement(g)
    \/ s = "idle" /\ (monitor_idle_timeout(g) \/ IdleShutdown(g))
    \/ s = "tunnel" /\ monitor_tunnel_state(g)
    \/ s = "rotation" /\ (monitor_network_requester_rotation(g) \/ rotate_network_requester(g))
    \/ s = "elapses" /\ IdleElapses(g)

Socks5Fairness ==
    /\ \A s \in Socks5FairSteps, g \in 1..S5Wrappers : WF_s5vars(Socks5Fair(s, g))
    /\ \A c \in 1..S5Conns : WF_s5vars(ConnStep(c))
    /\ \A i \in 1..(S5Requests + S5Events) : WF_s5vars(i \in DOMAIN ops /\ OpStep(i))

Socks5Spec == Socks5Init /\ [][Socks5Next]_s5vars /\ Socks5Fairness

-----------------------------------------------------------------------------
(* Types: every task is at one of its steps, no count of connections is    *)
(* negative or above their number, and no connection tries more often than *)
(* it may (lazy_socks5.rs ensure_backend_started).                         *)
Socks5TypeOK ==
    /\ service \in [state : {"disabled", "idle"}, cur : 0..S5Wrappers,
                    enables : 0..S5Requests, by : 0..S5Requests]
    /\ ops \in Seq([kind : {"enable", "disable", "auto"},
                    at : {"waiting", "held", "configured", "cancelled", "done"},
                    seen : 0..S5Requests, excluded : SUBSET S5Pairs])
    /\ wrapper \in [1..S5Wrappers ->
          [run : {"unbuilt", "binding", "serving", "failed", "stopping",
                  "stopped", "aborted"},
           cancelled : BOOLEAN, excluded : SUBSET S5Pairs,
           client : SUBSET MixClient, running : BOOLEAN,
           init : 0..S5Conns, count : 0..S5Conns, ending : 0..S5Conns,
           closed : Timers, rotation : Timers, seen : Tunnels,
           alive : SUBSET {"idle", "state", "rotation"},
           idle : BOOLEAN, rotate : BOOLEAN]]
    /\ conn \in [1..S5Conns ->
          [of : 0..S5Wrappers, nr : S5Pairs \cup {0}, entry : S5Pairs \cup {0},
           at : {"free", "existing", "new", "ensure", "mutex", "select",
                 "build", "connect", "connect_any", "internal", "mark",
                 "proxy", "handshake", "direct", "closed"},
           tries : 1..S5Retries]]
    /\ vpn \in [state : Tunnels, events : 0..S5Events]

(* Connections that arrive together start one mixnet client between them:  *)
(* no initialisation overwrites a client another one has stored, which     *)
(* would drop it connected and never disconnect it (init_mutex and the     *)
(* second check of ensure_backend_started).                                *)
OneClientPerWrapper ==
    \A g \in DOMAIN wrapper :
      wrapper[g].client # {} /\ wrapper'[g].client # wrapper[g].client
        => wrapper'[g].client = {}

(* The auto-disable of a disconnect never takes down a proxy that was      *)
(* asked for after that disconnect, whichever task got socks5_ops first    *)
(* (handle_tunnel_event; "it stands").                                     *)
LaterEnableStands ==
    \A i \in DOMAIN ops :
      ops[i].kind = "auto" /\ ops[i].at = "cancelled" /\ AbortWrapper(i)
        => service.by <= ops[i].seen

(* No step of a connection or an operation undoes a later one's: the two   *)
(* facts above.                                                            *)
Socks5Ordered == [][OneClientPerWrapper /\ LaterEnableStands]_s5vars

(* A backend no connection uses is shut down, or used again, whatever      *)
(* became of the service in the meantime: the idle monitor stops it, and   *)
(* after a disable the last holder of the wrapper drops it.                *)
IdleBackendStops ==
    \A g \in 1..S5Wrappers :
        wrapper[g].client # {} /\ wrapper[g].count = 0
          ~> wrapper[g].client = {} \/ wrapper[g].count > 0 \/ ~Held(g)

(* Every enable, disable and auto-disable gets socks5_ops and releases it. *)
OpsDrain ==
    \A i \in 1..(S5Requests + S5Events) :
        (i \in DOMAIN ops) ~> (i \in DOMAIN ops /\ ops[i].at = "done")
=============================================================================
