----------------------------- MODULE Socks5Proofs -----------------------------
(***************************************************************************)
(* Proofs about the SOCKS5 proxy: connections that arrive together start   *)
(* one mixnet client between them, and the auto-disable of a disconnect    *)
(* never takes down a proxy asked for after it, for every number of        *)
(* wrappers, connections and requests.                                     *)
(***************************************************************************)
EXTENDS Socks5, TLAPS

Wrappers == 1..S5Wrappers
Conns == 1..S5Conns
Runs == {"unbuilt", "binding", "serving", "failed", "stopping", "stopped", "aborted"}
Places == {"free", "existing", "new", "ensure", "mutex", "select", "build", "connect",
           "connect_any", "internal", "mark", "proxy", "handshake", "direct", "closed"}
Kinds == {"enable", "disable", "auto"}
Turns == {"waiting", "held", "configured", "cancelled", "done"}

WrapType ==
    [run : Runs, cancelled : BOOLEAN, excluded : SUBSET S5Pairs,
     client : SUBSET [entry : Nat, nr : Nat], running : BOOLEAN,
     init : Nat, count : Nat, ending : Nat, closed : Timers, rotation : Timers, seen : Tunnels,
     alive : SUBSET {"idle", "state", "rotation"}, idle : BOOLEAN, rotate : BOOLEAN]
ConnType == [of : Nat, at : Places, nr : Nat, entry : Nat, tries : Nat]
OpType == [kind : Kinds, at : Turns, seen : Nat, excluded : SUBSET S5Pairs]

\* The steps of an initialisation, from the check under init_mutex on.
Initialising == {"select", "build", "connect", "connect_any"}

\* A connection task belongs to a wrapper that was built; while it initialises
\* it has the wrapper's mutex, and the wrapper has no client.
ConnOK(w, k, c) ==
    /\ k.at # "free" => k.of \in Wrappers /\ w[k.of].run # "unbuilt"
    /\ k.at \in Initialising => w[k.of].init = c /\ w[k.of].client = {}

\* The first half of the inductive invariant: wrappers and connections.
ClientInv ==
    /\ wrapper \in [Wrappers -> WrapType] /\ conn \in [Conns -> ConnType]
    /\ vpn \in [state : Tunnels, events : Nat]
    /\ \A c \in Conns : ConnOK(wrapper, conn[c], c)

HoldsOps(o) == o.at \in {"held", "configured", "cancelled"}

\* The second half: one task holds socks5_ops; an auto-disable that holds it
\* has seen every enable up to the one that built the running wrapper.
OpsInv ==
    /\ service \in [state : {"disabled", "idle"}, cur : 0..S5Wrappers, enables : Nat, by : Nat]
    /\ ops \in Seq(OpType)
    /\ service.by <= service.enables
    /\ \A i \in DOMAIN ops :
         /\ ops[i].seen <= service.enables
         /\ ops[i].at = "configured" => ops[i].kind = "enable"
         /\ ops[i].kind = "auto" /\ HoldsOps(ops[i]) => service.by <= ops[i].seen
         /\ \A j \in DOMAIN ops : HoldsOps(ops[i]) /\ HoldsOps(ops[j]) => i = j

\* Wrappers change, connections do not: none that was built loses its mutex or
\* gets a client.
LEMMA WrappersMove ==
    ASSUME ClientInv, wrapper' \in [Wrappers -> WrapType], UNCHANGED conn,
           vpn' \in [state : Tunnels, events : Nat],
           \A g \in Wrappers :
              \/ /\ wrapper'[g].init = wrapper[g].init
                 /\ wrapper'[g].client \in {wrapper[g].client, {}}
                 /\ wrapper[g].run # "unbuilt" => wrapper'[g].run # "unbuilt"
              \/ wrapper[g].run = "unbuilt" /\ wrapper'[g].client = {}
    PROVE  ClientInv' /\ OneClientPerWrapper
<1>1. OneClientPerWrapper
    BY DEF ClientInv, OneClientPerWrapper
<1>2. ASSUME NEW c \in Conns PROVE ConnOK(wrapper', conn[c], c)
    <2>1. ConnOK(wrapper, conn[c], c)
        BY DEF ClientInv
    <2>2. CASE conn[c].at = "free"
        BY <2>2 DEF ConnOK, Initialising
    <2>3. CASE conn[c].at # "free"
        <3> DEFINE g == conn[c].of
        <3>1. g \in Wrappers /\ wrapper[g].run # "unbuilt"
            BY <2>1, <2>3 DEF ConnOK
        <3>2. /\ wrapper'[g].init = wrapper[g].init /\ wrapper'[g].client \in {wrapper[g].client, {}}
              /\ wrapper'[g].run # "unbuilt"
            BY <3>1
        <3>3. QED
            BY <2>1, <3>1, <3>2 DEF ConnOK
    <2>4. QED
        BY <2>2, <2>3
<1>3. QED
    BY <1>1, <1>2 DEF ClientInv

\* One wrapper changes.
LEMMA WrapperMoves ==
    ASSUME ClientInv, NEW g \in Wrappers, NEW w \in WrapType, wrapper' = [wrapper EXCEPT ![g] = w],
           w.init = wrapper[g].init, w.client \in {wrapper[g].client, {}},
           wrapper[g].run # "unbuilt" => w.run # "unbuilt", UNCHANGED <<conn, vpn>>
    PROVE  ClientInv' /\ OneClientPerWrapper
<1>1. wrapper \in [Wrappers -> WrapType] /\ vpn' \in [state : Tunnels, events : Nat]
    BY DEF ClientInv
<1>2. wrapper' \in [Wrappers -> WrapType]
    BY <1>1
<1>3. ASSUME NEW h \in Wrappers
      PROVE  /\ wrapper'[h].init = wrapper[h].init
             /\ wrapper'[h].client \in {wrapper[h].client, {}}
             /\ wrapper[h].run # "unbuilt" => wrapper'[h].run # "unbuilt"
    BY <1>1
<1>4. QED
    BY <1>1, <1>2, <1>3, WrappersMove

\* A connection task and its wrapper change: the client changes only under the
\* mutex, or goes.
LEMMA ConnTurn ==
    ASSUME ClientInv, NEW c \in Conns, NEW g \in Wrappers,
           NEW k \in ConnType, NEW w \in WrapType,
           conn' = [conn EXCEPT ![c] = k], wrapper' = [wrapper EXCEPT ![g] = w], UNCHANGED vpn,
           w.run = wrapper[g].run, wrapper[g].run # "unbuilt", k.of = g,
           k.at \in Initialising => w.init = c /\ w.client = {},
           \/ w.init = wrapper[g].init /\ w.client = wrapper[g].client
           \/ wrapper[g].init \in {0, c} /\ wrapper[g].client = {}
    PROVE  ClientInv' /\ OneClientPerWrapper
<1>1. /\ wrapper \in [Wrappers -> WrapType] /\ conn \in [Conns -> ConnType]
      /\ vpn' \in [state : Tunnels, events : Nat]
    BY DEF ClientInv
<1>2. wrapper' \in [Wrappers -> WrapType] /\ conn' \in [Conns -> ConnType]
    BY <1>1
<1>3. wrapper'[g] = w /\ \A h \in Wrappers \ {g} : wrapper'[h] = wrapper[h]
    BY <1>1
<1>4. conn'[c] = k /\ \A d \in Conns \ {c} : conn'[d] = conn[d]
    BY <1>1
<1>5. DOMAIN wrapper = Wrappers
    BY <1>1
<1>6. OneClientPerWrapper
    BY <1>3, <1>5 DEF OneClientPerWrapper
<1>7. ConnOK(wrapper', conn'[c], c)
    BY <1>3, <1>4 DEF ConnOK
<1>8. ASSUME NEW d \in Conns \ {c} PROVE ConnOK(wrapper', conn'[d], d)
    <2>1. ConnOK(wrapper, conn[d], d) /\ conn'[d] = conn[d] /\ d \in Nat \ {0}
        BY <1>4, Socks5Assumption DEF ClientInv, Conns
    <2>2. CASE conn[d].of = g
        BY <1>3, <2>1, <2>2 DEF ConnOK
    <2>3. CASE conn[d].of # g
        BY <1>3, <2>1, <2>3 DEF ConnOK
    <2>4. QED
        BY <2>2, <2>3
<1>9. QED
    BY <1>1, <1>2, <1>6, <1>7, <1>8 DEF ClientInv

\* What the conditions on a wrapper leave alone.
LEMMA ShutdownIs ==
    ASSUME NEW w \in WrapType
    PROVE  /\ shutdown_backend(w) \in WrapType /\ shutdown_backend(w).init = w.init
           /\ shutdown_backend(w).client \in {w.client, {}} /\ shutdown_backend(w).run = w.run
BY DEF shutdown_backend, WrapType

\* A wrapper whose timers move on keeps its initialisation, its client and its run.
LEMMA TickedIs ==
    ASSUME NEW w \in WrapType, NEW task
    PROVE  /\ Ticked(w, task) \in WrapType /\ Ticked(w, task).init = w.init
           /\ Ticked(w, task).client = w.client /\ Ticked(w, task).run = w.run
BY DEF Ticked, WrapType

\* The steps of a wrapper's task, of its monitors and timers.
LEMMA WrapperSteps ==
    ASSUME ClientInv, NEW g \in Wrappers, WrapperStep(g) \/ IdleElapses(g) \/ RotationElapses(g)
    PROVE  ClientInv' /\ OneClientPerWrapper /\ UNCHANGED <<service, ops>>
<1> DEFINE w == wrapper[g]
<1>1. wrapper \in [Wrappers -> WrapType] /\ w \in WrapType /\ vpn.state \in Tunnels
    BY DEF ClientInv
<1>2. UNCHANGED <<service, ops, conn, vpn>>
    BY DEF WrapperStep, Bind, BindFails, RunCancelled, RunStops, Decrement, monitor_idle_timeout,
           IdleShutdown, monitor_tunnel_state, monitor_network_requester_rotation,
           rotate_network_requester, IdleElapses, RotationElapses
<1> DEFINE Fine(x) == /\ x \in WrapType /\ x.init = w.init /\ x.client \in {w.client, {}}
                      /\ w.run # "unbuilt" => x.run # "unbuilt"
<1>3. SUFFICES \E x : Fine(x) /\ wrapper' = [wrapper EXCEPT ![g] = x]
    BY <1>2, WrapperMoves
<1>4. CASE Bind(g)
    <2> DEFINE x == [w EXCEPT !.run = "serving", !.alive = {"idle", "state", "rotation"}]
    <2>1. wrapper' = [wrapper EXCEPT ![g] = x]
        BY <1>1, <1>4 DEF Bind
    <2>2. Fine(x)
        BY <1>1 DEF WrapType, Runs
    <2>3. QED
        BY <2>1, <2>2
<1>5. CASE BindFails(g)
    <2> DEFINE x == [w EXCEPT !.run = "failed"]
    <2>1. wrapper' = [wrapper EXCEPT ![g] = x]
        BY <1>1, <1>5 DEF BindFails
    <2>2. Fine(x)
        BY <1>1 DEF WrapType, Runs
    <2>3. QED
        BY <2>1, <2>2
<1>6. CASE RunCancelled(g)
    <2> DEFINE x == [w EXCEPT !.run = "stopping", !.alive = {}]
    <2>1. wrapper' = [wrapper EXCEPT ![g] = x]
        BY <1>1, <1>6 DEF RunCancelled
    <2>2. Fine(x)
        BY <1>1 DEF WrapType, Runs
    <2>3. QED
        BY <2>1, <2>2
<1>7. CASE RunStops(g)
    <2> DEFINE y == shutdown_backend(w)
               x == [y EXCEPT !.run = "stopped"]
    <2>1. wrapper' = [wrapper EXCEPT ![g] = x]
        BY <1>1, <1>7 DEF RunStops
    <2>2. y \in WrapType /\ y.init = w.init /\ y.client \in {w.client, {}}
        BY <1>1, ShutdownIs
    <2> HIDE DEF y
    <2>3. Fine(x)
        BY <2>2 DEF WrapType, Runs
    <2>4. QED
        BY <2>1, <2>3
<1>8. CASE Decrement(g)
    <2> DEFINE ending == w.ending - 1
               count == IF w.count > 0 THEN w.count - 1 ELSE w.count
               x == [w EXCEPT !.ending = ending, !.count = count]
    <2>1. wrapper' = [wrapper EXCEPT ![g] = x] /\ w.ending > 0
        BY <1>1, <1>8 DEF Decrement
    <2>2. w.ending \in Nat /\ w.count \in Nat
        BY <1>1 DEF WrapType
    <2>3. ending \in Nat /\ count \in Nat
        BY <2>1, <2>2
    <2> HIDE DEF ending, count
    <2>4. Fine(x)
        BY <1>1, <2>3 DEF WrapType
    <2>5. QED
        BY <2>1, <2>4
<1>9. CASE monitor_idle_timeout(g)
    <2> DEFINE idle == w.count = 0 /\ w.closed = "elapsed"
               timer == IF w.count > 0 THEN "unset"
                        ELSE IF w.closed = "unset" THEN "running" ELSE w.closed
               after == [w EXCEPT !.closed = timer, !.idle = idle]
               x == IF idle THEN after ELSE Ticked(after, "idle")
    <2>1. wrapper' = [wrapper EXCEPT ![g] = x]
        BY <1>9 DEF monitor_idle_timeout
    <2>2. timer \in Timers /\ idle \in BOOLEAN
        BY <1>1 DEF WrapType, Timers
    <2> HIDE DEF timer, idle
    <2>3. after \in WrapType /\ after.init = w.init /\ after.client = w.client /\ after.run = w.run
        BY <1>1, <2>2 DEF WrapType
    <2> HIDE DEF after
    <2>4. Fine(x)
        BY <2>3, TickedIs
    <2>5. QED
        BY <2>1, <2>4
<1>10. CASE IdleShutdown(g)
    <2> DEFINE y == shutdown_backend(w)
               z == [y EXCEPT !.idle = FALSE, !.closed = "unset"]
               x == Ticked(z, "idle")
    <2>1. wrapper' = [wrapper EXCEPT ![g] = x]
        BY <1>10 DEF IdleShutdown
    <2>2. y \in WrapType /\ y.init = w.init /\ y.client \in {w.client, {}} /\ y.run = w.run
        BY <1>1, ShutdownIs
    <2> HIDE DEF y
    <2>3. z \in WrapType /\ z.init = w.init /\ z.client \in {w.client, {}} /\ z.run = w.run
        BY <2>2 DEF WrapType, Timers
    <2> HIDE DEF z
    <2>4. Fine(x)
        BY <2>3, TickedIs
    <2>5. QED
        BY <2>1, <2>4
<1>11. CASE monitor_tunnel_state(g)
    <2> DEFINE stop == \/ Is(vpn.state, "mixnet") /\ ~Is(w.seen, "mixnet")
                       \/ Is(vpn.state, "wg") /\ ~Is(w.seen, "wg") /\ w.running
               y == IF stop THEN shutdown_backend(w) ELSE w
               z == [y EXCEPT !.seen = vpn.state]
               x == Ticked(z, "state")
    <2>1. wrapper' = [wrapper EXCEPT ![g] = x]
        BY <1>11 DEF monitor_tunnel_state
    <2>2. y \in WrapType /\ y.init = w.init /\ y.client \in {w.client, {}} /\ y.run = w.run
        BY <1>1, ShutdownIs
    <2> HIDE DEF y
    <2>3. z \in WrapType /\ z.init = w.init /\ z.client \in {w.client, {}} /\ z.run = w.run
        BY <1>1, <2>2 DEF WrapType
    <2> HIDE DEF z
    <2>4. Fine(x)
        BY <2>3, TickedIs
    <2>5. QED
        BY <2>1, <2>4
<1>12. CASE monitor_network_requester_rotation(g)
    <2> DEFINE active == w.running /\ Is(vpn.state, "wg")
               due == active /\ w.rotation = "elapsed"
               timer == IF active /\ (due \/ w.rotation = "unset") THEN "running" ELSE w.rotation
               rotate == due /\ w.count = 0
               after == [w EXCEPT !.rotation = timer, !.rotate = rotate]
               x == IF rotate THEN after ELSE Ticked(after, "rotation")
    <2>1. wrapper' = [wrapper EXCEPT ![g] = x]
        BY <1>12 DEF monitor_network_requester_rotation
    <2>2. timer \in Timers /\ rotate \in BOOLEAN
        BY <1>1 DEF WrapType, Timers
    <2> HIDE DEF timer, rotate
    <2>3. after \in WrapType /\ after.init = w.init /\ after.client = w.client /\ after.run = w.run
        BY <1>1, <2>2 DEF WrapType
    <2> HIDE DEF after
    <2>4. Fine(x)
        BY <2>3, TickedIs
    <2>5. QED
        BY <2>1, <2>4
<1>13. CASE rotate_network_requester(g)
    <2> DEFINE y == shutdown_backend(w)
               z == [y EXCEPT !.rotate = FALSE]
               x == Ticked(z, "rotation")
    <2>1. wrapper' = [wrapper EXCEPT ![g] = x]
        BY <1>13 DEF rotate_network_requester
    <2>2. y \in WrapType /\ y.init = w.init /\ y.client \in {w.client, {}} /\ y.run = w.run
        BY <1>1, ShutdownIs
    <2> HIDE DEF y
    <2>3. z \in WrapType /\ z.init = w.init /\ z.client \in {w.client, {}} /\ z.run = w.run
        BY <2>2 DEF WrapType
    <2> HIDE DEF z
    <2>4. Fine(x)
        BY <2>3, TickedIs
    <2>5. QED
        BY <2>1, <2>4
<1>14. CASE IdleElapses(g)
    <2> DEFINE x == [w EXCEPT !.closed = "elapsed"]
    <2>1. wrapper' = [wrapper EXCEPT ![g] = x]
        BY <1>1, <1>14 DEF IdleElapses
    <2>2. Fine(x)
        BY <1>1 DEF WrapType, Timers
    <2>3. QED
        BY <2>1, <2>2
<1>15. CASE RotationElapses(g)
    <2> DEFINE x == [w EXCEPT !.rotation = "elapsed"]
    <2>1. wrapper' = [wrapper EXCEPT ![g] = x]
        BY <1>1, <1>15 DEF RotationElapses
    <2>2. Fine(x)
        BY <1>1 DEF WrapType, Timers
    <2>3. QED
        BY <2>1, <2>2
<1>16. QED
    BY <1>4, <1>5, <1>6, <1>7, <1>8, <1>9, <1>10, <1>11, <1>12, <1>13, <1>14, <1>15 DEF WrapperStep

\* A connection task alone changes.
LEMMA ConnAlone ==
    ASSUME ClientInv, NEW c \in Conns, NEW k \in ConnType, conn' = [conn EXCEPT ![c] = k],
           UNCHANGED <<wrapper, vpn>>, k.of = conn[c].of, conn[c].at # "free",
           k.at \in Initialising => conn[c].at \in Initialising
    PROVE  ClientInv' /\ OneClientPerWrapper
<1> DEFINE g == conn[c].of
<1>1. wrapper \in [Wrappers -> WrapType] /\ ConnOK(wrapper, conn[c], c)
    BY DEF ClientInv
<1>2. g \in Wrappers /\ wrapper[g].run # "unbuilt" /\ wrapper[g] \in WrapType
    BY <1>1 DEF ConnOK
<1>3. wrapper' = [wrapper EXCEPT ![g] = wrapper[g]]
    BY <1>1, <1>2
<1>4. k.at \in Initialising => wrapper[g].init = c /\ wrapper[g].client = {}
    BY <1>1 DEF ConnOK
<1> HIDE DEF g
<1>5. k.of = g
    BY DEF g
<1> DEFINE w == wrapper[g]
<1>6. /\ w \in WrapType /\ wrapper' = [wrapper EXCEPT ![g] = w] /\ w.run = wrapper[g].run
      /\ k.at \in Initialising => w.init = c /\ w.client = {}
      /\ w.init = wrapper[g].init /\ w.client = wrapper[g].client
    BY <1>2, <1>3, <1>4
<1> HIDE DEF w
<1>7. QED
    BY <1>2, <1>5, <1>6, ConnTurn

\* A connection task ends: the guard's decrement is spawned, on a wrapper w
\* that may have got its mutex back.
LEMMA ConnDrops ==
    ASSUME ClientInv, NEW c \in Conns, conn[c].at # "free", NEW w, DropConn(c, w), UNCHANGED vpn,
           NEW n \in Nat, w = [wrapper EXCEPT ![conn[c].of] = [wrapper[conn[c].of] EXCEPT !.init = n]],
           n = wrapper[conn[c].of].init \/ (wrapper[conn[c].of].init = c /\ wrapper[conn[c].of].client = {})
    PROVE  ClientInv' /\ OneClientPerWrapper
<1> DEFINE g == conn[c].of
           k == [conn[c] EXCEPT !.at = "closed"]
           ending == wrapper[g].ending + 1
           x == [wrapper[g] EXCEPT !.init = n, !.ending = ending]
<1>1. /\ wrapper \in [Wrappers -> WrapType] /\ ConnOK(wrapper, conn[c], c)
      /\ conn \in [Conns -> ConnType] /\ conn[c] \in ConnType
    BY DEF ClientInv
<1>2. g \in Wrappers /\ wrapper[g].run # "unbuilt" /\ wrapper[g] \in WrapType
    BY <1>1 DEF ConnOK
<1>3. conn' = [conn EXCEPT ![c] = k]
    BY <1>1 DEF DropConn, ConnMoves
<1>4. wrapper' = [wrapper EXCEPT ![g] = x]
    BY <1>1, <1>2 DEF DropConn, WrapType
<1>5. k \in ConnType /\ k.at = "closed" /\ k.of = g
    BY <1>1 DEF ConnType, Places
<1>6. /\ x \in WrapType /\ x.run = wrapper[g].run /\ x.init = n /\ x.client = wrapper[g].client
    <2>1. ending \in Nat
        BY <1>2 DEF WrapType
    <2> HIDE DEF ending
    <2>2. QED
        BY <1>2, <2>1 DEF WrapType
<1>7. n = wrapper[g].init \/ (wrapper[g].init \in {0, c} /\ wrapper[g].client = {})
    OBVIOUS
<1> HIDE DEF k, x, g
<1>8. QED
    BY <1>2, <1>3, <1>4, <1>5, <1>6, <1>7, ConnTurn DEF Initialising

\* ... and one that never had it.
LEMMA ConnCloses ==
    ASSUME ClientInv, NEW c \in Conns, conn[c].at # "free", DropConn(c, wrapper), UNCHANGED vpn
    PROVE  ClientInv' /\ OneClientPerWrapper
<1> DEFINE g == conn[c].of
           n == wrapper[g].init
<1>1. wrapper \in [Wrappers -> WrapType] /\ ConnOK(wrapper, conn[c], c)
    BY DEF ClientInv
<1>2. g \in Wrappers /\ wrapper[g] \in WrapType
    BY <1>1 DEF ConnOK
<1>3. n \in Nat /\ wrapper[g] = [wrapper[g] EXCEPT !.init = n]
    BY <1>2 DEF WrapType
<1>4. wrapper = [wrapper EXCEPT ![g] = [wrapper[g] EXCEPT !.init = n]]
    BY <1>1, <1>2, <1>3
<1>5. QED
    BY <1>3, <1>4, ConnDrops

\* A connected tunnel has a gateway pair.
LEMMA ConnectedIs ==
    ASSUME NEW s \in Tunnels, IsConnected(s)
    PROVE  s[2] \in S5Pairs
<1>1. <<"down">>[1] = "down" /\ <<"changing">>[1] = "changing"
    OBVIOUS
<1>2. s \in {"wg", "mixnet"} \X S5Pairs
    BY <1>1 DEF IsConnected, Tunnels
<1>3. QED
    BY <1>2

\* The steps of a connection task, which always has a wrapper.
LEMMA ConnSteps ==
    ASSUME ClientInv, NEW c \in Conns, ConnStep(c) \/ route_via_existing_tunnel(c) \/ CloseConn(c)
    PROVE  ClientInv' /\ OneClientPerWrapper /\ UNCHANGED <<service, ops>>
<1> DEFINE g == conn[c].of
           w == wrapper[g]
<1>1. UNCHANGED <<service, ops, vpn>>
    BY DEF ConnStep, Guarded, EnsureQuick, EnsureLocked, select_random_network_requester,
           build_mixnet_client, StoreClient, EnsureFails, ConnectInternal, MarkRunning, InternalFails,
           socks5_handshake, route_via_existing_tunnel, CloseConn
<1>2. conn[c].at # "free"
    BY DEF ConnStep, Guarded, EnsureQuick, EnsureLocked, select_random_network_requester,
           build_mixnet_client, StoreClient, EnsureFails, ConnectInternal, MarkRunning, InternalFails,
           socks5_handshake, route_via_existing_tunnel, CloseConn
<1>3. /\ wrapper \in [Wrappers -> WrapType] /\ conn \in [Conns -> ConnType] /\ conn[c] \in ConnType
      /\ ConnOK(wrapper, conn[c], c) /\ vpn.state \in Tunnels
    BY DEF ClientInv
<1>4. g \in Wrappers /\ w \in WrapType /\ w.run # "unbuilt" /\ c \in Nat
    BY <1>2, <1>3, Socks5Assumption DEF ConnOK, Conns
<1>5. SUFFICES ClientInv' /\ OneClientPerWrapper
    BY <1>1
<1>6. ASSUME NEW at \in Places \ Initialising, ConnMoves(c, at), UNCHANGED wrapper
      PROVE  ClientInv' /\ OneClientPerWrapper
    <2> DEFINE k == [conn[c] EXCEPT !.at = at]
    <2>1. conn' = [conn EXCEPT ![c] = k]
        BY <1>3, <1>6 DEF ConnMoves
    <2>2. k \in ConnType /\ k.of = conn[c].of /\ k.at = at
        BY <1>3 DEF ConnType
    <2> HIDE DEF k
    <2>3. QED
        BY <1>1, <1>2, <1>6, <2>1, <2>2, ConnAlone
<1>7. CASE Guarded(c)
    <2> DEFINE at == IF conn[c].at = "existing" THEN "handshake" ELSE "ensure"
               k == [conn[c] EXCEPT !.at = at]
               x == [w EXCEPT !.count = @ + 1]
    <2>1. conn' = [conn EXCEPT ![c] = k] /\ wrapper' = [wrapper EXCEPT ![g] = x]
        BY <1>3, <1>4, <1>7 DEF Guarded, ConnMoves
    <2>2. k \in ConnType /\ k.of = g /\ k.at \notin Initialising
        BY <1>3 DEF ConnType, Places, Initialising
    <2>3. x \in WrapType /\ x.run = w.run /\ x.init = w.init /\ x.client = w.client
        BY <1>4 DEF WrapType
    <2> HIDE DEF k, x, g
    <2>4. QED
        BY <1>1, <1>4, <2>1, <2>2, <2>3, ConnTurn
<1>8. CASE EnsureQuick(c)
    <2>1. UNCHANGED wrapper /\ (ConnMoves(c, "internal") \/ ConnMoves(c, "mutex"))
        BY <1>8 DEF EnsureQuick
    <2>2. QED
        BY <1>6, <2>1 DEF Places, Initialising
<1>9. CASE EnsureLocked(c)
    <2>1. CASE w.client # {}
        <3>1. UNCHANGED wrapper /\ ConnMoves(c, "internal")
            BY <1>9, <2>1 DEF EnsureLocked
        <3>2. QED
            BY <1>6, <3>1 DEF Places, Initialising
    <2>2. CASE w.client = {}
        <3> DEFINE k == [conn[c] EXCEPT !.at = "select"]
                   x == [w EXCEPT !.init = c]
        <3>1. conn' = [conn EXCEPT ![c] = k] /\ wrapper' = [wrapper EXCEPT ![g] = x] /\ w.init = 0
            BY <1>3, <1>4, <1>9, <2>2 DEF EnsureLocked, ConnMoves
        <3>2. k \in ConnType /\ k.of = g
            BY <1>3 DEF ConnType, Places
        <3>3. x \in WrapType /\ x.run = w.run /\ x.init = c /\ x.client = {}
            BY <1>4, <2>2 DEF WrapType
        <3> HIDE DEF k, x, g
        <3>4. QED
            BY <1>1, <1>4, <2>2, <3>1, <3>2, <3>3, ConnTurn
    <2>3. QED
        BY <2>1, <2>2
<1>10. CASE select_random_network_requester(c)
    <2>1. PICK nr \in S5Pairs : conn' = [conn EXCEPT ![c].at = "build", ![c].nr = nr]
        BY <1>10 DEF select_random_network_requester
    <2> DEFINE k == [conn[c] EXCEPT !.at = "build", !.nr = nr]
    <2>2. conn' = [conn EXCEPT ![c] = k] /\ UNCHANGED wrapper /\ conn[c].at = "select"
        BY <1>3, <1>10, <2>1 DEF select_random_network_requester
    <2>3. k \in ConnType /\ k.of = conn[c].of
        BY <1>3, Socks5Assumption DEF ConnType, Places
    <2> HIDE DEF k
    <2>4. QED
        BY <1>1, <1>2, <2>2, <2>3, ConnAlone DEF Initialising
<1>11. CASE build_mixnet_client(c)
    <2> DEFINE at == IF Is(vpn.state, "mixnet") THEN "connect_any" ELSE "connect"
               entry == IF IsConnected(vpn.state) THEN vpn.state[2] ELSE 0
               k == [conn[c] EXCEPT !.at = at, !.entry = entry]
    <2>1. conn' = [conn EXCEPT ![c] = k] /\ UNCHANGED wrapper /\ conn[c].at = "build"
        BY <1>3, <1>11 DEF build_mixnet_client
    <2>2. entry \in Nat
        BY <1>3, ConnectedIs, Socks5Assumption
    <2> HIDE DEF entry
    <2>3. k \in ConnType /\ k.of = conn[c].of
        BY <1>3, <2>2 DEF ConnType, Places
    <2> HIDE DEF k
    <2>4. QED
        BY <1>1, <1>2, <2>1, <2>3, ConnAlone DEF Initialising
<1>12. CASE StoreClient(c)
    <2>1. PICK entry \in {conn[c].entry} \cup (IF conn[c].at = "connect_any" THEN {0} ELSE {}) :
              wrapper' = [wrapper EXCEPT ![g].init = 0, ![g].client = {[entry |-> entry, nr |-> conn[c].nr]}]
        BY <1>12 DEF StoreClient
    <2> DEFINE k == [conn[c] EXCEPT !.at = "internal", !.nr = 0, !.entry = 0]
               one == {[entry |-> entry, nr |-> conn[c].nr]}
               x == [w EXCEPT !.init = 0, !.client = one]
    <2>2. /\ conn' = [conn EXCEPT ![c] = k] /\ wrapper' = [wrapper EXCEPT ![g] = x]
          /\ conn[c].at \in Initialising
        BY <1>3, <1>4, <1>12, <2>1 DEF StoreClient, Initialising
    <2>3. k \in ConnType /\ k.of = g /\ k.at \notin Initialising
        BY <1>3 DEF ConnType, Places, Initialising
    <2>4. one \in SUBSET [entry : Nat, nr : Nat]
        BY <1>3, <2>1 DEF ConnType
    <2>5. x \in WrapType /\ x.run = w.run
        BY <1>4, <2>4 DEF WrapType
    <2>6. w.init = c /\ w.client = {}
        BY <1>3, <2>2 DEF ConnOK
    <2> HIDE DEF k, x, g
    <2>7. QED
        BY <1>1, <1>4, <2>2, <2>3, <2>5, <2>6, ConnTurn
<1>13. CASE EnsureFails(c)
    <2> DEFINE released == [wrapper EXCEPT ![g].init = 0]
    <2>1. conn[c].at \in Initialising /\ w.init = c /\ w.client = {}
        BY <1>3, <1>13 DEF EnsureFails, Initialising, ConnOK
    <2>2. released = [wrapper EXCEPT ![g] = [w EXCEPT !.init = 0]]
        BY <1>3, <1>4
    <2>3. CASE conn[c].tries < S5Retries
        <3> DEFINE tries == conn[c].tries + 1
                   k == [conn[c] EXCEPT !.at = "ensure", !.nr = 0, !.entry = 0, !.tries = tries]
                   x == [w EXCEPT !.init = 0]
        <3>1. conn' = [conn EXCEPT ![c] = k] /\ wrapper' = [wrapper EXCEPT ![g] = x]
            BY <1>3, <1>13, <2>2, <2>3 DEF EnsureFails
        <3>2. k \in ConnType /\ k.of = g /\ k.at \notin Initialising
            <4>1. tries \in Nat
                BY <1>3 DEF ConnType
            <4> HIDE DEF tries
            <4>2. QED
                BY <1>3, <4>1 DEF ConnType, Places, Initialising
        <3>3. x \in WrapType /\ x.run = w.run
            BY <1>4 DEF WrapType
        <3> HIDE DEF k, x, g
        <3>4. QED
            BY <1>1, <1>4, <2>1, <3>1, <3>2, <3>3, ConnTurn
    <2>4. CASE ~(conn[c].tries < S5Retries)
        <3>1. DropConn(c, released)
            BY <1>13, <2>4 DEF EnsureFails
        <3> HIDE DEF released
        <3>2. QED
            BY <1>1, <1>2, <2>1, <2>2, <3>1, ConnDrops
    <2>5. QED
        BY <2>3, <2>4
<1>14. CASE ConnectInternal(c)
    BY <1>6, <1>14 DEF ConnectInternal, Places, Initialising
<1>15. CASE MarkRunning(c)
    <2> DEFINE k == [conn[c] EXCEPT !.at = "proxy"]
               x == [w EXCEPT !.running = TRUE]
    <2>1. conn' = [conn EXCEPT ![c] = k] /\ wrapper' = [wrapper EXCEPT ![g] = x]
        BY <1>3, <1>4, <1>15 DEF MarkRunning, ConnMoves
    <2>2. k \in ConnType /\ k.of = g /\ k.at \notin Initialising
        BY <1>3 DEF ConnType, Places, Initialising
    <2>3. x \in WrapType /\ x.run = w.run /\ x.init = w.init /\ x.client = w.client
        BY <1>4 DEF WrapType
    <2> HIDE DEF k, x, g
    <2>4. QED
        BY <1>1, <1>4, <2>1, <2>2, <2>3, ConnTurn
<1>16. CASE InternalFails(c)
    BY <1>1, <1>2, <1>16, ConnCloses DEF InternalFails
<1>17. CASE socks5_handshake(c)
    <2>1. (ConnMoves(c, "direct") /\ UNCHANGED wrapper) \/ DropConn(c, wrapper)
        BY <1>17 DEF socks5_handshake
    <2>2. QED
        BY <1>1, <1>2, <1>6, <2>1, ConnCloses DEF Places, Initialising
<1>18. CASE route_via_existing_tunnel(c)
    BY <1>1, <1>2, <1>18, ConnCloses DEF route_via_existing_tunnel
<1>19. CASE CloseConn(c)
    BY <1>1, <1>2, <1>19, ConnCloses DEF CloseConn
<1>20. QED
    BY <1>7, <1>8, <1>9, <1>10, <1>11, <1>12, <1>13, <1>14, <1>15, <1>16, <1>17, <1>18, <1>19 DEF ConnStep

\* A connection is accepted by a wrapper that serves.
LEMMA Accepts ==
    ASSUME ClientInv, NEW g \in Wrappers, NEW c \in Conns, AcceptConn(g, c)
    PROVE  ClientInv' /\ OneClientPerWrapper /\ UNCHANGED <<service, ops>>
<1> DEFINE at == IF Is(vpn.state, "mixnet") THEN "existing" ELSE "new"
           k == [conn[c] EXCEPT !.of = g, !.at = at]
<1>1. /\ wrapper \in [Wrappers -> WrapType] /\ conn \in [Conns -> ConnType] /\ conn[c] \in ConnType
      /\ wrapper[g] \in WrapType
    BY DEF ClientInv
<1>2. /\ conn' = [conn EXCEPT ![c] = k] /\ UNCHANGED <<service, ops, wrapper, vpn>>
      /\ wrapper[g].run = "serving"
    BY <1>1 DEF AcceptConn
<1>3. g \in Nat
    BY Socks5Assumption DEF Wrappers
<1>4. k \in ConnType /\ k.of = g /\ k.at \notin Initialising
    BY <1>1, <1>3 DEF ConnType, Places, Initialising
<1>5. wrapper' = [wrapper EXCEPT ![g] = wrapper[g]]
    BY <1>1, <1>2
<1> HIDE DEF k
<1>6. QED
    BY <1>1, <1>2, <1>4, <1>5, ConnTurn

\* A request or a disconnect queues a task for socks5_ops.
LEMMA OpQueued ==
    ASSUME OpsInv, NEW o \in OpType, o.at = "waiting", ops' = Append(ops, o),
           NEW n \in Nat, n >= service.enables, o.seen <= n,
           service' = [service EXCEPT !.enables = n]
    PROVE  OpsInv'
<1>1. /\ service \in [state : {"disabled", "idle"}, cur : 0..S5Wrappers, enables : Nat, by : Nat]
      /\ ops \in Seq(OpType)
    BY DEF OpsInv
<1>2. /\ service' \in [state : {"disabled", "idle"}, cur : 0..S5Wrappers, enables : Nat, by : Nat]
      /\ service'.by = service.by /\ service'.enables = n
    BY <1>1
<1>3. /\ ops' \in Seq(OpType) /\ DOMAIN ops' = DOMAIN ops \cup {Len(ops) + 1}
      /\ \A i \in DOMAIN ops : ops'[i] = ops[i] /\ ops[i] \in OpType
      /\ ops'[Len(ops) + 1] = o
    BY <1>1
<1>4. ~HoldsOps(o)
    BY DEF HoldsOps
<1>5. service'.by <= service'.enables
    BY <1>1, <1>2 DEF OpsInv
<1>6. ASSUME NEW i \in DOMAIN ops'
      PROVE  /\ ops'[i].seen <= service'.enables
             /\ ops'[i].at = "configured" => ops'[i].kind = "enable"
             /\ ops'[i].kind = "auto" /\ HoldsOps(ops'[i]) => service'.by <= ops'[i].seen
             /\ \A j \in DOMAIN ops' : HoldsOps(ops'[i]) /\ HoldsOps(ops'[j]) => i = j
    <2>1. CASE i \in DOMAIN ops
        <3>1. ops'[i] = ops[i] /\ ops[i].seen \in Nat
            BY <1>3, <2>1 DEF OpType
        <3>2. /\ ops[i].seen <= service.enables
              /\ ops[i].at = "configured" => ops[i].kind = "enable"
              /\ ops[i].kind = "auto" /\ HoldsOps(ops[i]) => service.by <= ops[i].seen
              /\ \A j \in DOMAIN ops : HoldsOps(ops[i]) /\ HoldsOps(ops[j]) => i = j
            BY <2>1 DEF OpsInv
        <3>3. ops'[i].seen <= service'.enables
            BY <1>1, <1>2, <3>1, <3>2
        <3>4. \A j \in DOMAIN ops' : HoldsOps(ops'[i]) /\ HoldsOps(ops'[j]) => i = j
            BY <1>3, <1>4, <3>1, <3>2
        <3>5. QED
            BY <1>2, <3>1, <3>2, <3>3, <3>4
    <2>2. CASE i = Len(ops) + 1
        BY <1>2, <1>3, <1>4, <2>2
    <2>3. QED
        BY <1>3, <2>1, <2>2
<1>7. QED
    BY <1>2, <1>3, <1>5, <1>6 DEF OpsInv

\* A task goes on: it has socks5_ops, or nobody has.
LEMMA OpMoves ==
    ASSUME OpsInv, NEW i \in DOMAIN ops, NEW o \in OpType, ops' = [ops EXCEPT ![i] = o],
           o.seen = ops[i].seen, o.kind = ops[i].kind,
           o.at = "configured" => o.kind = "enable",
           NEW by \in Nat, by <= service.enables,
           NEW state \in {"disabled", "idle"}, NEW cur \in 0..S5Wrappers,
           service' = [service EXCEPT !.by = by, !.state = state, !.cur = cur],
           o.kind = "auto" /\ HoldsOps(o) => by <= o.seen,
           HoldsOps(ops[i]) \/ (by = service.by /\ (HoldsOps(o) => Free5))
    PROVE  OpsInv'
<1>1. /\ service \in [state : {"disabled", "idle"}, cur : 0..S5Wrappers, enables : Nat, by : Nat]
      /\ ops \in Seq(OpType)
    BY DEF OpsInv
<1>2. /\ service' \in [state : {"disabled", "idle"}, cur : 0..S5Wrappers, enables : Nat, by : Nat]
      /\ service'.by = by /\ service'.enables = service.enables
    BY <1>1
<1>3. /\ ops' \in Seq(OpType) /\ DOMAIN ops' = DOMAIN ops /\ ops'[i] = o
      /\ \A j \in DOMAIN ops \ {i} : ops'[j] = ops[j]
    BY <1>1
<1>4. ASSUME NEW j \in DOMAIN ops \ {i} PROVE HoldsOps(ops[j]) => ~HoldsOps(o) /\ by = service.by
    BY DEF OpsInv, HoldsOps, Free5
<1>5. ASSUME NEW j \in DOMAIN ops
      PROVE  /\ ops'[j].seen <= service.enables
             /\ ops'[j].at = "configured" => ops'[j].kind = "enable"
             /\ ops'[j].kind = "auto" /\ HoldsOps(ops'[j]) => by <= ops'[j].seen
             /\ \A l \in DOMAIN ops : HoldsOps(ops'[j]) /\ HoldsOps(ops'[l]) => j = l
    BY <1>3, <1>4 DEF OpsInv
<1>6. QED
    BY <1>2, <1>3, <1>5 DEF OpsInv

\* ... and the service does not change.
LEMMA OpTurn ==
    ASSUME OpsInv, NEW i \in DOMAIN ops, NEW o \in OpType, ops' = [ops EXCEPT ![i] = o],
           o.seen = ops[i].seen, o.kind = ops[i].kind, o.at = "configured" => o.kind = "enable",
           UNCHANGED service, o.kind = "auto" /\ HoldsOps(o) => service.by <= o.seen,
           HoldsOps(ops[i]) \/ (HoldsOps(o) => Free5)
    PROVE  OpsInv'
<1> DEFINE by == service.by
           state == service.state
           cur == service.cur
<1>1. /\ service' = [service EXCEPT !.by = by, !.state = state, !.cur = cur]
      /\ by \in Nat /\ by <= service.enables /\ state \in {"disabled", "idle"} /\ cur \in 0..S5Wrappers
    BY DEF OpsInv
<1>2. by = service.by /\ (o.kind = "auto" /\ HoldsOps(o) => by <= o.seen)
    OBVIOUS
<1> HIDE DEF by, state, cur
<1>3. QED
    BY <1>1, <1>2, OpMoves

\* The two halves of an operation's step.
LEMMA OpSteps ==
    ASSUME ClientInv, OpsInv, NEW i \in DOMAIN ops, OpStep(i)
    PROVE  ClientInv' /\ OpsInv' /\ OneClientPerWrapper
<1>1. /\ service \in [state : {"disabled", "idle"}, cur : 0..S5Wrappers, enables : Nat, by : Nat]
      /\ ops \in Seq(OpType) /\ ops[i] \in OpType /\ wrapper \in [Wrappers -> WrapType]
      /\ vpn \in [state : Tunnels, events : Nat] /\ DOMAIN wrapper = Wrappers
    BY DEF OpsInv, ClientInv
<1>2. UNCHANGED <<conn, vpn>>
    BY DEF OpStep, TakeLock, LookupFails, socks5_enable_config, Enable, CancelWrapper, AbortWrapper
<1>3. ASSUME UNCHANGED wrapper PROVE ClientInv' /\ OneClientPerWrapper
    BY <1>1, <1>2, <1>3, WrappersMove
<1>4. ASSUME NEW at \in Turns, ops' = [ops EXCEPT ![i].at = at], UNCHANGED service,
             at = "configured" => ops[i].kind = "enable",
             ops[i].kind = "auto" /\ at \in {"held", "configured", "cancelled"} => service.by <= ops[i].seen,
             HoldsOps(ops[i]) \/ (at \in {"held", "configured", "cancelled"} => Free5)
      PROVE  OpsInv'
    <2> DEFINE o == [ops[i] EXCEPT !.at = at]
    <2>1. ops' = [ops EXCEPT ![i] = o]
        BY <1>1, <1>4
    <2>2. o \in OpType /\ o.at = at /\ o.kind = ops[i].kind /\ o.seen = ops[i].seen
        BY <1>1, <1>4 DEF OpType
    <2>3. HoldsOps(o) <=> at \in {"held", "configured", "cancelled"}
        BY <2>2 DEF HoldsOps
    <2> HIDE DEF o
    <2>4. /\ o.at = "configured" => o.kind = "enable"
          /\ o.kind = "auto" /\ HoldsOps(o) => service.by <= o.seen
          /\ HoldsOps(ops[i]) \/ (HoldsOps(o) => Free5)
        BY <1>4, <2>2, <2>3
    <2>5. UNCHANGED service
        BY <1>4
    <2>6. QED
        BY <2>1, <2>2, <2>4, <2>5, OpTurn
<1>5. CASE TakeLock(i)
    <2>1. UNCHANGED <<service, wrapper>> /\ Free5
        BY <1>5 DEF TakeLock
    <2>2. CASE ops' = [ops EXCEPT ![i].at = "done"]
        BY <1>3, <1>4, <2>1, <2>2 DEF Turns
    <2>3. CASE ops' = [ops EXCEPT ![i].at = "held"] /\ (ops[i].kind = "enable" \/ StillWanted(ops[i]))
        <3>1. ops[i].kind = "auto" => service.by <= ops[i].seen
            BY <2>3 DEF StillWanted, OpsInv
        <3>2. QED
            BY <1>3, <1>4, <2>1, <2>3, <3>1 DEF Turns
    <2>4. QED
        BY <1>5, <2>2, <2>3 DEF TakeLock, OpEnds
<1>6. CASE LookupFails(i)
    <2>1. ops' = [ops EXCEPT ![i].at = "done"] /\ UNCHANGED <<service, wrapper>> /\ HoldsOps(ops[i])
        BY <1>6 DEF LookupFails, OpEnds, HoldsOps
    <2>2. QED
        BY <1>3, <1>4, <2>1 DEF Turns
<1>7. CASE socks5_enable_config(i)
    <2> DEFINE excluded == IF IsConnected(vpn.state) THEN {vpn.state[2]} ELSE {}
               o == [ops[i] EXCEPT !.at = "configured", !.excluded = excluded]
    <2>1. /\ ops' = [ops EXCEPT ![i] = o] /\ UNCHANGED <<service, wrapper>> /\ HoldsOps(ops[i])
          /\ ops[i].kind = "enable"
        BY <1>1, <1>7 DEF socks5_enable_config, HoldsOps
    <2>2. excluded \in SUBSET S5Pairs
        BY <1>1, ConnectedIs
    <2> HIDE DEF excluded
    <2>3. o \in OpType /\ o.at = "configured" /\ o.kind = ops[i].kind /\ o.seen = ops[i].seen
        BY <1>1, <2>2 DEF OpType, Turns
    <2> HIDE DEF o
    <2>4. OpsInv'
        BY <2>1, <2>3, OpTurn
    <2>5. QED
        BY <1>3, <2>1, <2>4
<1>8. CASE Enable(i)
    <2> DEFINE g == service.cur
               cleaned == IF g = 0 THEN wrapper ELSE [wrapper EXCEPT ![g].cancelled = TRUE]
               o == [ops[i] EXCEPT !.at = "done"]
    <2>1. /\ ops' = [ops EXCEPT ![i] = o] /\ HoldsOps(ops[i]) /\ ops[i].kind = "enable"
          /\ ops[i].seen <= service.enables /\ service.by <= service.enables
        BY <1>1, <1>8 DEF Enable, OpEnds, OpsInv, HoldsOps
    <2>2. o \in OpType /\ o.at = "done" /\ o.kind = ops[i].kind /\ o.seen = ops[i].seen /\ ops[i].seen \in Nat
        BY <1>1 DEF OpType, Turns
    <2>3. /\ service.by \in Nat /\ service.state \in {"disabled", "idle"} /\ service.cur \in 0..S5Wrappers
          /\ 0 \in 0..S5Wrappers
        BY <1>1, Socks5Assumption
    <2> HIDE DEF o
    <2>4. ASSUME NEW by \in {service.by, ops[i].seen}, NEW state \in {"disabled", "idle"},
                 NEW cur \in 0..S5Wrappers,
                 service' = [service EXCEPT !.by = by, !.state = state, !.cur = cur]
          PROVE  OpsInv'
        BY <2>1, <2>2, <2>3, <2>4, OpMoves
    <2>5. /\ cleaned \in [Wrappers -> WrapType]
          /\ \A h \in Wrappers : /\ cleaned[h].init = wrapper[h].init /\ cleaned[h].client = wrapper[h].client
                                 /\ cleaned[h].run = wrapper[h].run
        <3>1. CASE g = 0
            BY <1>1, <3>1
        <3>2. CASE g # 0
            <4>1. g \in Wrappers /\ wrapper[g] \in WrapType
                BY <1>1, <3>2, Socks5Assumption DEF Wrappers
            <4> DEFINE x == [wrapper[g] EXCEPT !.cancelled = TRUE]
            <4>2. /\ x \in WrapType /\ x.init = wrapper[g].init /\ x.client = wrapper[g].client
                  /\ x.run = wrapper[g].run
                BY <4>1 DEF WrapType
            <4>3. cleaned = [wrapper EXCEPT ![g] = x]
                BY <1>1, <3>2
            <4> HIDE DEF x, cleaned
            <4>4. QED
                BY <1>1, <4>1, <4>2, <4>3
        <3>3. QED
            BY <3>1, <3>2
    <2> HIDE DEF cleaned
    <2>6. CASE UNCHANGED <<service, wrapper>>
        <3>1. service' = [service EXCEPT !.by = service.by, !.state = service.state, !.cur = service.cur]
            BY <1>1, <2>6
        <3>2. QED
            BY <1>3, <2>3, <2>4, <2>6, <3>1
    <2>7. CASE wrapper' = cleaned /\ service' = [service EXCEPT !.cur = 0]
        <3>1. service' = [service EXCEPT !.by = service.by, !.state = service.state, !.cur = 0]
            BY <1>1, <2>7
        <3>2. ClientInv' /\ OneClientPerWrapper
            BY <1>1, <1>2, <2>5, <2>7, WrappersMove
        <3>3. QED
            BY <2>3, <2>4, <3>1, <3>2
    <2>8. ASSUME NEW n \in Wrappers, wrapper[n].run = "unbuilt",
                 wrapper' = [cleaned EXCEPT ![n] = NewWrapper(ops[i].excluded)],
                 service' = [service EXCEPT !.state = "idle", !.cur = n, !.by = ops[i].seen]
          PROVE  ClientInv' /\ OpsInv' /\ OneClientPerWrapper
        <3> DEFINE x == NewWrapper(ops[i].excluded)
        <3>1. x \in WrapType /\ x.client = {}
            BY <1>1 DEF NewWrapper, WrapType, OpType, Runs, Timers, Tunnels
        <3> HIDE DEF x
        <3>2. wrapper' = [cleaned EXCEPT ![n] = x]
            BY <2>8 DEF x
        <3>3. wrapper' \in [Wrappers -> WrapType]
            BY <2>5, <3>1, <3>2
        <3>4. wrapper'[n].client = {} /\ \A h \in Wrappers \ {n} : wrapper'[h] = cleaned[h]
            BY <2>5, <3>1, <3>2
        <3>5. ClientInv' /\ OneClientPerWrapper
            BY <1>1, <1>2, <2>5, <2>8, <3>3, <3>4, WrappersMove
        <3>6. n \in 0..S5Wrappers
            BY Socks5Assumption DEF Wrappers
        <3>7. service' = [service EXCEPT !.by = ops[i].seen, !.state = "idle", !.cur = n]
            BY <1>1, <2>8
        <3>8. QED
            BY <2>4, <3>5, <3>6, <3>7
    <2>9. QED
        BY <1>1, <1>8, <2>6, <2>7, <2>8 DEF Enable, cleaned
<1>9. CASE CancelWrapper(i)
    <2>1. /\ ops' = [ops EXCEPT ![i].at = "cancelled"] /\ UNCHANGED service /\ HoldsOps(ops[i])
          /\ wrapper' = [h \in Wrappers |->
                IF h = service.cur THEN [wrapper[h] EXCEPT !.cancelled = TRUE] ELSE wrapper[h]]
        BY <1>1, <1>9 DEF CancelWrapper, HoldsOps
    <2>2. ops[i].kind = "auto" => service.by <= ops[i].seen
        BY <2>1 DEF OpsInv
    <2>3. OpsInv'
        BY <1>4, <2>1, <2>2 DEF Turns
    <2>4. ASSUME NEW h \in Wrappers
          PROVE  /\ wrapper'[h] \in WrapType /\ wrapper'[h].init = wrapper[h].init
                 /\ wrapper'[h].client = wrapper[h].client /\ wrapper'[h].run = wrapper[h].run
        <3> DEFINE x == [wrapper[h] EXCEPT !.cancelled = TRUE]
        <3>1. wrapper[h] \in WrapType /\ wrapper'[h] \in {x, wrapper[h]}
            BY <1>1, <2>1
        <3>2. /\ x \in WrapType /\ x.init = wrapper[h].init /\ x.client = wrapper[h].client
              /\ x.run = wrapper[h].run
            BY <3>1 DEF WrapType
        <3> HIDE DEF x
        <3>3. QED
            BY <3>1, <3>2
    <2>5. wrapper' \in [Wrappers -> WrapType]
        BY <2>1, <2>4
    <2>6. QED
        BY <1>1, <1>2, <2>3, <2>4, <2>5, WrappersMove
<1>10. CASE AbortWrapper(i)
    <2> DEFINE o == [ops[i] EXCEPT !.at = "done"]
    <2>1. /\ ops' = [ops EXCEPT ![i] = o] /\ HoldsOps(ops[i])
          /\ service' = [service EXCEPT !.by = 0, !.state = "disabled", !.cur = 0]
          /\ wrapper' = [h \in Wrappers |->
                IF h = service.cur /\ Unfinished(wrapper[h])
                THEN [wrapper[h] EXCEPT !.run = "aborted"] ELSE wrapper[h]]
        BY <1>1, <1>10 DEF AbortWrapper, OpEnds, HoldsOps
    <2>2. o \in OpType /\ o.at = "done" /\ o.kind = ops[i].kind /\ o.seen = ops[i].seen
        BY <1>1 DEF OpType, Turns
    <2>3. 0 \in 0..S5Wrappers /\ 0 <= service.enables /\ ~HoldsOps(o)
        BY <1>1, <2>2, Socks5Assumption DEF HoldsOps
    <2> HIDE DEF o
    <2>4. OpsInv'
        BY <2>1, <2>2, <2>3, OpMoves
    <2>5. ASSUME NEW h \in Wrappers
          PROVE  /\ wrapper'[h] \in WrapType /\ wrapper'[h].init = wrapper[h].init
                 /\ wrapper'[h].client = wrapper[h].client
                 /\ wrapper[h].run # "unbuilt" => wrapper'[h].run # "unbuilt"
        <3> DEFINE x == [wrapper[h] EXCEPT !.run = "aborted"]
        <3>1. wrapper[h] \in WrapType /\ wrapper'[h] \in {x, wrapper[h]}
            BY <1>1, <2>1
        <3>2. /\ x \in WrapType /\ x.init = wrapper[h].init /\ x.client = wrapper[h].client
              /\ x.run = "aborted"
            BY <3>1 DEF WrapType, Runs
        <3> HIDE DEF x
        <3>3. QED
            BY <3>1, <3>2
    <2>6. wrapper' \in [Wrappers -> WrapType]
        BY <2>1, <2>5
    <2>7. QED
        BY <1>1, <1>2, <2>4, <2>5, <2>6, WrappersMove
<1>11. QED
    BY <1>5, <1>6, <1>7, <1>8, <1>9, <1>10 DEF OpStep

\* The requests and the tunnel's events.
LEMMA Requests ==
    ASSUME ClientInv, OpsInv,
           handle_enable_socks5 \/ handle_disable_socks5 \/ \E s \in Tunnels : handle_tunnel_event(s)
    PROVE  ClientInv' /\ OpsInv' /\ OneClientPerWrapper
<1>1. /\ service \in [state : {"disabled", "idle"}, cur : 0..S5Wrappers, enables : Nat, by : Nat]
      /\ wrapper \in [Wrappers -> WrapType] /\ vpn \in [state : Tunnels, events : Nat]
      /\ UNCHANGED <<wrapper, conn>>
    BY DEF OpsInv, ClientInv, handle_enable_socks5, handle_disable_socks5, handle_tunnel_event
<1>2. vpn' \in [state : Tunnels, events : Nat]
    BY <1>1 DEF handle_enable_socks5, handle_disable_socks5, handle_tunnel_event
<1>3. ClientInv' /\ OneClientPerWrapper
    BY <1>1, <1>2, WrappersMove
<1>4. service = [service EXCEPT !.enables = service.enables] /\ service.enables \in Nat
    BY <1>1
<1>5. CASE handle_enable_socks5
    <2> DEFINE o == [kind |-> "enable", at |-> "waiting", seen |-> service.enables + 1, excluded |-> {}]
               n == service.enables + 1
    <2>1. service' = [service EXCEPT !.enables = n] /\ ops' = Append(ops, o)
        BY <1>1, <1>5 DEF handle_enable_socks5
    <2>2. o \in OpType /\ o.at = "waiting" /\ o.seen <= n /\ n \in Nat /\ n >= service.enables
        BY <1>4 DEF OpType, Kinds, Turns
    <2> HIDE DEF o, n
    <2>3. QED
        BY <1>3, <2>1, <2>2, OpQueued
<1>6. CASE handle_disable_socks5
    <2> DEFINE o == [kind |-> "disable", at |-> "waiting", seen |-> 0, excluded |-> {}]
    <2>1. UNCHANGED service /\ ops' = Append(ops, o)
        BY <1>6 DEF handle_disable_socks5
    <2>2. o \in OpType /\ o.at = "waiting" /\ o.seen <= service.enables
        BY <1>4 DEF OpType, Kinds, Turns
    <2> HIDE DEF o
    <2>3. QED
        BY <1>3, <1>4, <2>1, <2>2, OpQueued
<1>7. ASSUME NEW s \in Tunnels, handle_tunnel_event(s) PROVE OpsInv'
    <2> DEFINE o == [kind |-> "auto", at |-> "waiting", seen |-> service.enables, excluded |-> {}]
    <2>1. UNCHANGED service /\ (ops' = Append(ops, o) \/ ops' = ops)
        BY <1>7 DEF handle_tunnel_event
    <2>2. o \in OpType /\ o.at = "waiting" /\ o.seen <= service.enables
        BY <1>4 DEF OpType, Kinds, Turns
    <2> HIDE DEF o
    <2>3. CASE ops' = ops
        BY <2>1, <2>3 DEF OpsInv
    <2>4. CASE ops' = Append(ops, o)
        BY <1>4, <2>1, <2>2, <2>4, OpQueued
    <2>5. QED
        BY <2>1, <2>3, <2>4
<1>8. QED
    BY <1>3, <1>5, <1>6, <1>7

\* No initialisation overwrites a client another one stored, and no
\* auto-disable ends a proxy asked for later: for every number of wrappers,
\* connections, requests and events (ensure_backend_started in lazy_socks5.rs,
\* handle_tunnel_event in vpn_service.rs).
THEOREM Socks5AlwaysOrdered == Socks5Spec => Socks5Ordered
<1> DEFINE Inv == ClientInv /\ OpsInv
<1>1. Socks5Init => Inv
    <2> SUFFICES ASSUME Socks5Init PROVE Inv
        OBVIOUS
    <2>1. Unbuilt \in WrapType
        BY DEF Unbuilt, NewWrapper, WrapType, Runs, Timers, Tunnels
    <2>2. wrapper \in [Wrappers -> WrapType]
        BY <2>1 DEF Socks5Init, Wrappers
    <2>3. conn \in [Conns -> ConnType] /\ \A c \in Conns : conn[c].at = "free"
        BY DEF Socks5Init, Conns, ConnType, Places
    <2>4. vpn \in [state : Tunnels, events : Nat]
        BY DEF Socks5Init, Tunnels
    <2>5. ClientInv
        BY <2>2, <2>3, <2>4 DEF ClientInv, ConnOK, Initialising
    <2>6. OpsInv
        BY Socks5Assumption DEF Socks5Init, OpsInv
    <2>7. QED
        BY <2>5, <2>6
<1>2. ASSUME Inv, [Socks5Next]_s5vars
      PROVE  Inv' /\ [OneClientPerWrapper /\ LaterEnableStands]_s5vars
    <2>1. CASE UNCHANGED s5vars
        BY <1>2, <2>1 DEF s5vars, ClientInv, OpsInv, Free5
    <2>2. CASE Socks5Next
        <3>1. DOMAIN wrapper = Wrappers /\ DOMAIN conn = Conns
            BY <1>2 DEF ClientInv
        <3>2. LaterEnableStands
            BY <1>2 DEF LaterEnableStands, OpsInv, HoldsOps
        <3>3. ASSUME UNCHANGED <<service, ops>> PROVE OpsInv'
            BY <1>2, <3>3 DEF OpsInv
        <3>4. Inv' /\ OneClientPerWrapper
            BY <1>2, <2>2, <3>1, <3>3, WrapperSteps, Accepts, ConnSteps, OpSteps, Requests DEF Socks5Next
        <3>5. QED
            BY <3>2, <3>4
    <2>3. QED
        BY <1>2, <2>1, <2>2
<1>3. QED
    BY <1>1, <1>2, PTL DEF Socks5Spec, Socks5Ordered
=============================================================================
