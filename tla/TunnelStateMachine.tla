------------------------- MODULE TunnelStateMachine -------------------------
(***************************************************************************)
(* The tunnel state machine of nym-vpn-lib: the states under               *)
(* tunnel_state_machine/states/, the state they share, and the tunnel      *)
(* monitor task that brings one tunnel up and reports to the machine over  *)
(* a channel.                                                              *)
(*                                                                         *)
(* The machine is one task: it waits on select! for a command, a monitor   *)
(* event, a connectivity change, a future of its own or the shutdown       *)
(* token, and runs the handler of whichever branch fired to completion.    *)
(* So a handler is one action, and the monitor's steps, connectivity, the  *)
(* clock, crashes and restarts interleave between handlers.                *)
(*                                                                         *)
(* What the states do to the system is kept as state: the live firewall,   *)
(* the resolver pins of the API clients, dnsmasq's upstreams, the tunnel's *)
(* routing rules, and whether the account controller and the discovery     *)
(* refresher may use the network.                                          *)
(***************************************************************************)
EXTENDS Naturals, Sequences

CONSTANTS
    Gateways,       \* entry gateways
    EntryPoints,    \* values of the settings gateway selection reads
    NoGateway,      \* Option::None for a gateway
    NoPair          \* Option::None for a selected pair

ASSUME NoGatewayAssumption == NoGateway \notin Gateways

(***************************************************************************)
(* The settings that the handlers tell apart.  killswitch stands for the   *)
(* settings whose change needs a reconnect over the same pair, allow_lan   *)
(* for the ones applied in place, entry_point for the ones that            *)
(* select_gateways reads (affects_gateway_selection).                      *)
(***************************************************************************)
AllSettings == [killswitch : BOOLEAN, allow_lan : BOOLEAN, entry_point : EntryPoints]

CONSTANTS
    Settings,       \* the settings a user may choose
    Flapping,       \* connectivity may change again before the last change is noticed
    Faults          \* which of "dns" (a call to dnsmasq fails) and "crash" may happen

ASSUME SettingsAssumption == Settings \subseteq AllSettings

ASSUME EnvironmentAssumption == Flapping \in BOOLEAN /\ Faults \subseteq {"dns", "crash"}

\* A selected pair: its entry gateway, and the selection inputs it was chosen under.
Pairs == [entry : Gateways, under : EntryPoints]

EntryOf(pair) == IF pair = NoPair THEN NoGateway ELSE pair.entry

-----------------------------------------------------------------------------
(***************************************************************************)
(* Firewall policies.  One record shape for all of them: what a policy     *)
(* admits besides the daemon's own hatches.  `entry' is the admitted entry *)
(* gateway, `tun' whether the tunnel interface is admitted, `api' whether  *)
(* the known API endpoints are.                                            *)
(***************************************************************************)
Policy(kind, entry, tun, lan, api) ==
    [kind |-> kind, entry |-> entry, tun |-> tun, lan |-> lan, api |-> api]

Open == Policy("open", NoGateway, FALSE, FALSE, FALSE)

BootBlock == Policy("boot", NoGateway, FALSE, FALSE, FALSE)

\* The strict block an fw3 apply leaves behind when it fails half way.
Emergency == Policy("emergency", NoGateway, FALSE, FALSE, FALSE)

IdlePolicy(s) == Policy("blocked", NoGateway, FALSE, s.allow_lan, TRUE)

OfflinePolicy(s) == Policy("blocked", NoGateway, FALSE, s.allow_lan, FALSE)

ConnectingPolicy(params, s) == Policy("connecting", params.entry, params.tun, s.allow_lan, TRUE)

ConnectedPolicy(pair, s) == Policy("connected", EntryOf(pair), TRUE, s.allow_lan, FALSE)

Policies == [kind : {"open", "boot", "emergency", "blocked", "connecting", "connected"},
             entry : Gateways \cup {NoGateway}, tun : BOOLEAN, lan : BOOLEAN, api : BOOLEAN]

(***************************************************************************)
(* Firewall::set_killswitch followed by apply_policy (or, in the idle      *)
(* states, reset_policy): with the kill-switch off the tables are reset.   *)
(* `known' is the memory of what was applied last.                         *)
(***************************************************************************)
Applied(s, policy) ==
    [live |-> IF s.killswitch THEN policy ELSE Open, killswitch |-> s.killswitch, known |-> TRUE]

(***************************************************************************)
(* The same call failing.  fw4 runs one nft transaction, so the old tables *)
(* stay.  fw3 works in steps: a late failure leaves the new chains in      *)
(* place, an early one the emergency block; a failed reset may have        *)
(* removed everything.                                                     *)
(***************************************************************************)
Refused(f, s, policy) ==
    {[live |-> l, killswitch |-> s.killswitch, known |-> FALSE] :
        l \in {f.live} \cup IF s.killswitch THEN {policy, Emergency} ELSE {Open}}

-----------------------------------------------------------------------------
VARIABLES
    sm,             \* the current state handler and its fields
    settings,       \* SharedState::tunnel_settings
    firewall,       \* the live tables, Firewall's kill-switch flag and memory
    pins,           \* resolver overrides are set on the API clients
    dns,            \* dnsmasq's upstreams; "stuck": the tunnel's, after a failed reset
    routes,         \* the tunnel's routing rules are installed
    networking,     \* allow_networking / disallow_networking
    api,            \* "cached" endpoints only, a "live" resolution, or a "stale" one
    mon,            \* the tunnel monitor task of the current state handler
    queue,          \* its events not yet handled
    detached,       \* a monitor whose handle was dropped may still set routes
    net,            \* connectivity, and what the offline monitor has told the machine
    shutdown        \* the shutdown token is cancelled

shared == <<settings, firewall, pins, dns, routes, networking, api>>
tasks == <<mon, queue, detached>>
vars == <<sm, shared, tasks, net, shutdown>>

States == {"Down", "Disconnected", "Connecting", "Connected", "Disconnecting", "Error",
           "Offline", "Finished"}

(***************************************************************************)
(* The fields of the state handlers, at their unused values outside the    *)
(* states that have them: ConnectingState's futures (step) and policy      *)
(* parameters, PrivateActionAfterDisconnect, ErrorState's reason,          *)
(* OfflineState's reconnect flag and the IdleApiAccess of Disconnected and *)
(* Error.                                                                  *)
(***************************************************************************)
NoParams == [entry |-> NoGateway, tun |-> FALSE]

Blank == [state |-> "Down", gateways |-> NoPair, step |-> "none", params |-> NoParams,
          after |-> "Nothing", reason |-> "none", reconnect |-> FALSE, idle |-> "off"]

MachineStates ==
    [state : States, gateways : Pairs \cup {NoPair},
     step : {"none", "delay", "resolving", "monitor"},
     params : [entry : Gateways \cup {NoGateway}, tun : BOOLEAN],
     after : {"Nothing", "Error", "Reconnect", "Offline"},
     reason : {"none", "SetFirewallPolicy", "Other"},
     reconnect : BOOLEAN,
     idle : {"off", "resolving", "wait", "retry"}]

MonitorPhases == {"none", "starting", "selected", "registering", "routing", "announced",
                  "running", "up", "closing", "failed", "down", "exited"}

NoMonitor == [phase |-> "none", pair |-> NoPair, sel |-> NoPair, cancelled |-> FALSE]

Monitors == [phase : MonitorPhases, pair : Pairs \cup {NoPair},
             sel : EntryPoints \cup {NoPair}, cancelled : BOOLEAN]

Event(type, pair, fatal) == [type |-> type, pair |-> pair, fatal |-> fatal]

Events == [type : {"SelectedGateways", "InterfaceUp", "Up", "Failure", "Down"},
           pair : Pairs \cup {NoPair}, fatal : BOOLEAN]

\* Every variable has its type; what the handlers read is always well formed.
TypeOK ==
    /\ sm \in MachineStates
    /\ settings \in AllSettings
    /\ firewall \in [live : Policies, killswitch : BOOLEAN, known : BOOLEAN]
    /\ pins \in BOOLEAN
    /\ dns \in {"wan", "idle", "tunnel", "stuck"}
    /\ routes \in BOOLEAN
    /\ networking \in BOOLEAN
    /\ api \in {"cached", "live", "stale"}
    /\ mon \in Monitors
    /\ queue \in Seq(Events)
    /\ detached \in BOOLEAN
    /\ net \in [offline : BOOLEAN, event : BOOLEAN, known : BOOLEAN, changed : BOOLEAN]
    /\ shutdown \in BOOLEAN

Init ==
    /\ sm = Blank
    /\ settings \in Settings
    /\ firewall \in [live : {Open, BootBlock}, killswitch : {settings.killswitch}, known : {FALSE}]
    /\ pins = FALSE /\ dns = "wan" /\ routes = FALSE /\ networking = FALSE
    /\ api = "cached"
    /\ mon = NoMonitor /\ queue = <<>> /\ detached = FALSE
    /\ net \in [offline : BOOLEAN, event : {FALSE}, known : {FALSE}, changed : {FALSE}]
    /\ shutdown = FALSE

-----------------------------------------------------------------------------
\* dns_handler.reset and its variants: a failure is only logged.
DnsReset(d, target) ==
    {target} \cup IF "dns" \in Faults THEN {IF d = "tunnel" THEN "stuck" ELSE d} ELSE {}

(***************************************************************************)
(* Entering a state.  The parameters carry what the calling handler has    *)
(* already changed: the firewall f, the settings s, the pins p, the        *)
(* dnsmasq upstreams d and the knowledge a of the API endpoints.  Every    *)
(* operator fixes sm', firewall', pins', dns' and networking'.             *)
(***************************************************************************)

\* The pins follow the idle policy: only a live resolution has host names.
IdlePins(s, a) == s.killswitch /\ a # "cached"

\* api_endpoints_need_refresh
NeedRefresh(s, a) == s.killswitch /\ a # "live"

\* IdleApiAccess::schedule: what upkeep waits for next.
Schedule(s, a) ==
    IF ~s.killswitch THEN "off" ELSE IF NeedRefresh(s, a) THEN "resolving" ELSE "wait"

\* A failed idle apply is only logged, and leaves the pins as they were.
EnterError(f, s, p, d, a, reason) ==
    /\ sm' = [Blank EXCEPT !.state = "Error", !.reason = reason, !.idle = Schedule(s, a)]
    /\ \/ firewall' = Applied(s, IdlePolicy(s)) /\ pins' = IdlePins(s, a)
       \/ firewall' \in Refused(f, s, IdlePolicy(s)) /\ pins' = p
    /\ networking' = TRUE
    /\ dns' = d

EnterDisconnected(f, s, p, d, a) ==
    \/ /\ sm' = [Blank EXCEPT !.state = "Disconnected", !.idle = Schedule(s, a)]
       /\ firewall' = Applied(s, IdlePolicy(s))
       /\ pins' = IdlePins(s, a)
       /\ networking' = TRUE
       /\ dns' \in DnsReset(d, "idle")
    \/ \E f1 \in Refused(f, s, IdlePolicy(s)) : EnterError(f1, s, p, d, a, "SetFirewallPolicy")

\* A failed apply is only logged.
EnterOffline(f, s, p, d, reconnect, pair) ==
    /\ sm' = [Blank EXCEPT !.state = "Offline", !.reconnect = reconnect, !.gateways = pair]
    /\ firewall' \in {Applied(s, OfflinePolicy(s))} \cup Refused(f, s, OfflinePolicy(s))
    /\ networking' = FALSE
    /\ pins' = p
    /\ dns' = d

EnterConnecting(f, s, p, d, a, pair) ==
    LET params == [entry |-> EntryOf(pair), tun |-> FALSE] IN
    \/ net.offline /\ EnterOffline(f, s, p, d, TRUE, pair)
    \/ /\ ~net.offline
       /\ \/ /\ sm' = [Blank EXCEPT !.state = "Connecting", !.gateways = pair, !.step = "delay",
                                    !.params = params]
             /\ firewall' = Applied(s, ConnectingPolicy(params, s))
             /\ networking' = FALSE
             /\ pins' = p
             /\ dns' = d
          \/ \E f1 \in Refused(f, s, ConnectingPolicy(params, s)) :
                EnterError(f1, s, p, d, a, "SetFirewallPolicy")

\* Faulty variant: leaves the account controller and discovery their networking.
EnterDisconnectingAllowed(after, pair, reason, reconnect) ==
    /\ sm' = [Blank EXCEPT !.state = "Disconnecting", !.after = after, !.gateways = pair,
                           !.reason = reason, !.reconnect = reconnect]
    /\ mon' = [mon EXCEPT !.cancelled = TRUE]
    /\ queue' = <<>>
    /\ UNCHANGED networking

\* Cancels the monitor and drops the receiver of its events.
EnterDisconnecting(after, pair, reason, reconnect) ==
    /\ sm' = [Blank EXCEPT !.state = "Disconnecting", !.after = after, !.gateways = pair,
                           !.reason = reason, !.reconnect = reconnect]
    /\ networking' = FALSE
    /\ mon' = [mon EXCEPT !.cancelled = TRUE]
    /\ queue' = <<>>

\* Neither failure resets the routes, nor dnsmasq when it is set half way.
EnterConnected(s, pair) ==
    \/ /\ sm' = [Blank EXCEPT !.state = "Connected", !.gateways = pair]
       /\ firewall' = Applied(s, ConnectedPolicy(pair, s))
       /\ dns' = "tunnel"
       /\ pins' = FALSE
       /\ queue' = Tail(queue)
       /\ UNCHANGED <<networking, mon>>
    \/ /\ firewall' \in Refused(firewall, s, ConnectedPolicy(pair, s))
       /\ EnterDisconnecting("Error", NoPair, "SetFirewallPolicy", FALSE)
       /\ UNCHANGED <<dns, pins>>
    \/ /\ "dns" \in Faults
       /\ firewall' = Applied(s, ConnectedPolicy(pair, s))
       /\ dns' \in {dns, "tunnel"}
       /\ EnterDisconnecting("Error", NoPair, "Other", FALSE)
       /\ UNCHANGED pins

-----------------------------------------------------------------------------
(***************************************************************************)
(* Start, stop, and the environment.                                       *)
(***************************************************************************)
Running == sm.state \notin {"Down", "Finished"}

\* RouteManagerImpl::new clears stale rules and the dnsmasq actor seeds the
\* managed file before the first state is entered.
Spawn ==
    /\ ~Running
    /\ \E s \in Settings, d \in DnsReset(dns, "wan") :
        LET f == [firewall EXCEPT !.killswitch = s.killswitch, !.known = FALSE] IN
        /\ settings' = s
        /\ \/ net.offline /\ EnterOffline(f, s, FALSE, d, FALSE, NoPair)
           \/ ~net.offline /\ EnterDisconnected(f, s, FALSE, d, "cached")
    /\ routes' = FALSE /\ api' = "cached"
    /\ \E known \in BOOLEAN :
        net' = [net EXCEPT !.known = known, !.event = (known # net.offline)]
    /\ UNCHANGED <<tasks, shutdown>>

\* The process ends: what it kept in memory, and its tasks, go with it.
Exit(state) ==
    /\ sm' = [Blank EXCEPT !.state = state]
    /\ pins' = FALSE /\ networking' = FALSE /\ api' = "cached"
    /\ mon' = NoMonitor /\ queue' = <<>> /\ detached' = FALSE
    /\ net' = [net EXCEPT !.event = FALSE, !.known = FALSE, !.changed = FALSE]
    /\ shutdown' = FALSE

\* What it had installed stays.
Crash ==
    /\ "crash" \in Faults /\ Running
    /\ Exit("Down")
    /\ UNCHANGED <<settings, firewall, dns, routes>>

RequestShutdown ==
    /\ Running /\ ~shutdown
    /\ shutdown' = TRUE
    /\ UNCHANGED <<sm, shared, tasks, net>>

(***************************************************************************)
(* Connectivity.  The machine asks for it in two ways: connectivity()      *)
(* queries the routes at once (net.offline), next() waits for the offline  *)
(* monitor to report a change (net.changed) and yields the status it       *)
(* reported last (net.known).  The offline monitor is told of route        *)
(* changes (net.event), looks, and reports if the status differs from the  *)
(* one it remembers.                                                       *)
(***************************************************************************)
ConnectivityChanges ==
    /\ Flapping \/ ~net.event
    /\ net' = [net EXCEPT !.offline = ~@, !.event = Running]
    /\ UNCHANGED <<sm, shared, tasks, shutdown>>

OfflineMonitorChecks ==
    /\ Running /\ net.event
    /\ net' = [net EXCEPT !.event = FALSE, !.known = net.offline,
                          !.changed = @ \/ net.known # net.offline]
    /\ UNCHANGED <<sm, shared, tasks, shutdown>>

\* API_ENDPOINT_REFRESH_INTERVAL passes.
EndpointsAge ==
    /\ Running /\ api = "live"
    /\ api' = "stale"
    /\ UNCHANGED <<sm, settings, firewall, pins, dns, routes, networking, tasks, net, shutdown>>

Seen == net' = [net EXCEPT !.changed = FALSE]

-----------------------------------------------------------------------------
(***************************************************************************)
(* DisconnectedState                                                       *)
(***************************************************************************)
DisconnectedConnect ==
    /\ sm.state = "Disconnected"
    /\ EnterConnecting(firewall, settings, pins, dns, api, NoPair)
    /\ UNCHANGED <<settings, routes, api, tasks, net, shutdown>>

\* Faulty variant: stores the settings and re-applies nothing.
DisconnectedSetSettingsUnapplied ==
    /\ sm.state = "Disconnected"
    /\ settings' \in Settings
    /\ UNCHANGED <<sm, firewall, pins, dns, networking, routes, api, tasks, net, shutdown>>

DisconnectedSetSettings ==
    /\ sm.state = "Disconnected"
    /\ \E s \in Settings :
        /\ settings' = s
        /\ \E d \in IF s.killswitch # settings.killswitch THEN DnsReset(dns, "idle") ELSE {dns} :
            \/ /\ firewall' = Applied(s, IdlePolicy(s))
               /\ pins' = IdlePins(s, api)
               /\ sm' = [sm EXCEPT !.idle = Schedule(s, api)]
               /\ dns' = d
               /\ UNCHANGED networking
            \/ \E f \in Refused(firewall, s, IdlePolicy(s)) :
                 EnterError(f, s, pins, d, api, "SetFirewallPolicy")
    /\ UNCHANGED <<routes, api, tasks, net, shutdown>>

DisconnectedConnectivity ==
    /\ sm.state = "Disconnected" /\ net.changed
    /\ Seen
    /\ \/ net.known /\ EnterOffline(firewall, settings, pins, dns, FALSE, NoPair)
       \/ ~net.known /\ UNCHANGED <<sm, firewall, pins, dns, networking>>
    /\ UNCHANGED <<settings, routes, api, tasks, shutdown>>

\* Finishing the run loop stops the route manager, whose destructor clears the rules.
Finish ==
    /\ Exit("Finished")
    /\ routes' = FALSE

DisconnectedShutdown ==
    /\ sm.state = "Disconnected" /\ shutdown
    /\ Finish
    /\ dns' \in DnsReset(dns, "idle")
    /\ UNCHANGED <<settings, firewall>>

(***************************************************************************)
(* IdleApiAccess, as Disconnected and Error run it.  In Error a refused    *)
(* re-apply is only logged, and the upkeep is left with nothing armed.     *)
(***************************************************************************)
IdleResolved ==
    /\ sm.idle = "resolving"
    /\ api' = "live"
    /\ \/ /\ firewall' = Applied(settings, IdlePolicy(settings))
          /\ pins' = IdlePins(settings, "live")
          /\ sm' = [sm EXCEPT !.idle = "wait"]
          /\ UNCHANGED <<dns, networking>>
       \/ /\ sm.state = "Disconnected"
          /\ \E f \in Refused(firewall, settings, IdlePolicy(settings)) :
                EnterError(f, settings, pins, dns, "live", "SetFirewallPolicy")
       \/ /\ sm.state = "Error"
          /\ firewall' \in Refused(firewall, settings, IdlePolicy(settings))
          /\ sm' = [sm EXCEPT !.idle = "off"]
          /\ UNCHANGED <<pins, dns, networking>>
    /\ UNCHANGED <<settings, routes, tasks, net, shutdown>>

IdleResolveFails ==
    /\ sm.idle = "resolving"
    /\ sm' = [sm EXCEPT !.idle = "retry"]
    /\ UNCHANGED <<shared, tasks, net, shutdown>>

IdleTimer ==
    /\ \/ sm.idle = "retry"
       \/ sm.idle = "wait" /\ api # "live"
    /\ sm' = [sm EXCEPT !.idle = Schedule(settings, api)]
    /\ UNCHANGED <<shared, tasks, net, shutdown>>

(***************************************************************************)
(* ErrorState                                                              *)
(***************************************************************************)
ErrorConnect ==
    /\ sm.state = "Error"
    /\ \E d \in DnsReset(dns, "wan") : EnterConnecting(firewall, settings, pins, d, api, NoPair)
    /\ UNCHANGED <<settings, routes, api, tasks, net, shutdown>>

ErrorDisconnect ==
    /\ sm.state = "Error"
    /\ \E d \in DnsReset(dns, "wan") :
        \/ net.offline /\ EnterOffline(firewall, settings, pins, d, FALSE, NoPair)
        \/ ~net.offline /\ EnterDisconnected(firewall, settings, pins, d, api)
    /\ UNCHANGED <<settings, routes, api, tasks, net, shutdown>>

\* A successful re-apply resolves a SetFirewallPolicy error.
ErrorSetSettings ==
    /\ sm.state = "Error"
    /\ \E s \in Settings \ {settings} :
        /\ settings' = s
        /\ \/ /\ s.allow_lan = settings.allow_lan /\ s.killswitch = settings.killswitch
              /\ UNCHANGED <<sm, firewall, pins, dns, networking>>
           \/ /\ s.allow_lan # settings.allow_lan \/ s.killswitch # settings.killswitch
              /\ \/ /\ firewall' \in Refused(firewall, s, IdlePolicy(s))
                    /\ UNCHANGED <<sm, pins, dns, networking>>
                 \/ /\ sm.reason = "SetFirewallPolicy"
                    /\ EnterDisconnected(Applied(s, IdlePolicy(s)), s, IdlePins(s, api), dns, api)
                 \/ /\ sm.reason # "SetFirewallPolicy"
                    /\ firewall' = Applied(s, IdlePolicy(s))
                    /\ pins' = IdlePins(s, api)
                    /\ sm' = [sm EXCEPT !.idle = Schedule(s, api)]
                    /\ UNCHANGED <<dns, networking>>
    /\ UNCHANGED <<routes, api, tasks, net, shutdown>>

\* Faulty variant: a shutdown always resets the tables.
ReleaseFirewallAlways == firewall' = [firewall EXCEPT !.live = Open]

\* release_firewall_on_shutdown: the policy outlives the daemon when the kill-switch is on.
ReleaseFirewall ==
    IF settings.killswitch
        THEN UNCHANGED firewall
        ELSE firewall' \in {Applied(settings, Open)} \cup Refused(firewall, settings, Open)

ErrorShutdown ==
    /\ sm.state = "Error" /\ shutdown
    /\ Finish
    /\ dns' \in DnsReset(dns, "wan")
    /\ ReleaseFirewall
    /\ UNCHANGED settings

(***************************************************************************)
(* OfflineState                                                            *)
(***************************************************************************)

OfflineConnect ==
    /\ sm.state = "Offline" /\ ~sm.reconnect
    /\ EnterOffline(firewall, settings, pins, dns, TRUE, sm.gateways)
    /\ UNCHANGED <<settings, routes, api, tasks, net, shutdown>>

OfflineDisconnect ==
    /\ sm.state = "Offline" /\ sm.reconnect
    /\ sm' = [sm EXCEPT !.reconnect = FALSE]
    /\ UNCHANGED <<shared, tasks, net, shutdown>>

OfflineSetSettings ==
    /\ sm.state = "Offline"
    /\ \E s \in Settings \ {settings} :
        /\ settings' = s
        /\ sm' = [sm EXCEPT !.gateways = IF s.entry_point # settings.entry_point THEN NoPair ELSE @]
        /\ IF s.allow_lan # settings.allow_lan \/ s.killswitch # settings.killswitch
            THEN firewall' \in {Applied(s, OfflinePolicy(s))} \cup
                               Refused(firewall, s, OfflinePolicy(s))
            ELSE UNCHANGED firewall
    /\ UNCHANGED <<pins, dns, routes, networking, api, tasks, net, shutdown>>

\* Faulty variant: leaves only to reconnect.
OfflineConnectivityStays ==
    /\ sm.state = "Offline" /\ net.changed
    /\ Seen
    /\ \/ (net.known \/ ~sm.reconnect) /\ UNCHANGED <<sm, firewall, pins, dns, networking>>
       \/ /\ ~net.known /\ sm.reconnect
          /\ \E d \in DnsReset(dns, "wan") :
                EnterConnecting(firewall, settings, pins, d, api, sm.gateways)
    /\ UNCHANGED <<settings, routes, api, tasks, shutdown>>

OfflineConnectivity ==
    /\ sm.state = "Offline" /\ net.changed
    /\ Seen
    /\ \/ net.known /\ UNCHANGED <<sm, firewall, pins, dns, networking>>
       \/ /\ ~net.known
          /\ \E d \in DnsReset(dns, "wan") :
                IF sm.reconnect
                    THEN EnterConnecting(firewall, settings, pins, d, api, sm.gateways)
                    ELSE EnterDisconnected(firewall, settings, pins, d, api)
    /\ UNCHANGED <<settings, routes, api, tasks, shutdown>>

OfflineShutdown ==
    /\ sm.state = "Offline" /\ shutdown
    /\ Finish
    /\ dns' \in DnsReset(dns, "wan")
    /\ ReleaseFirewall
    /\ UNCHANGED settings

-----------------------------------------------------------------------------
(***************************************************************************)
(* ConnectingState: wait out the reconnect delay, resolve the API          *)
(* endpoints, start the monitor, follow its events.                        *)
(***************************************************************************)
HasMonitor == mon.phase # "none"

ConnectingDelay ==
    /\ sm.state = "Connecting" /\ sm.step = "delay"
    /\ sm' = [sm EXCEPT !.step = "resolving"]
    /\ UNCHANGED <<shared, tasks, net, shutdown>>

\* reconnect(): keep_gateways decides whether the pair survives.
Reconnect(a) ==
    \E pair \in {sm.gateways, NoPair} : EnterConnecting(firewall, settings, pins, dns, a, pair)

ConnectingResolveFails ==
    /\ sm.state = "Connecting" /\ sm.step = "resolving"
    /\ Reconnect(api)
    /\ UNCHANGED <<settings, routes, api, tasks, net, shutdown>>

(***************************************************************************)
(* Admit the endpoints, pin the clients, allow networking, settle the      *)
(* suspect (which may drop the pair, but not what the policy admits) and   *)
(* start the monitor.  When pinning fails the pins of one client are set.  *)
(* A resolution has host names to pin: it has none only in a network       *)
(* environment without API URLs.                                           *)
(***************************************************************************)
ConnectingResolved ==
    /\ sm.state = "Connecting" /\ sm.step = "resolving"
    /\ api' = "live"
    /\ \/ /\ firewall' = Applied(settings, ConnectingPolicy(sm.params, settings))
          /\ pins' = TRUE
          /\ networking' = TRUE
          /\ \E pair \in {sm.gateways, NoPair} :
                /\ sm' = [sm EXCEPT !.step = "monitor", !.gateways = pair]
                /\ mon' = [phase |-> "starting", pair |-> pair, sel |-> settings.entry_point,
                           cancelled |-> FALSE]
          /\ UNCHANGED dns
       \/ /\ \E f \in Refused(firewall, settings, ConnectingPolicy(sm.params, settings)) :
                EnterError(f, settings, pins, dns, "live", "SetFirewallPolicy")
          /\ UNCHANGED mon
       \/ /\ EnterError(Applied(settings, ConnectingPolicy(sm.params, settings)), settings, TRUE,
                        dns, "live", "Other")
          /\ UNCHANGED mon
    /\ UNCHANGED <<settings, routes, queue, detached, net, shutdown>>

NextEvent(state, type) ==
    /\ sm.state = state
    /\ queue # <<>>
    /\ Head(queue).type = type

\* Faulty variant: remembers the parameters without re-applying them.
AdmitUnapplied(params, pair) ==
    /\ sm' = [sm EXCEPT !.params = params, !.gateways = pair]
    /\ queue' = Tail(queue)
    /\ UNCHANGED <<firewall, mon, networking>>

\* Re-apply the Connecting policy with new parameters; a refusal tears the monitor down.
Admit(params, pair) ==
    \/ /\ firewall' = Applied(settings, ConnectingPolicy(params, settings))
       /\ sm' = [sm EXCEPT !.params = params, !.gateways = pair]
       /\ queue' = Tail(queue)
       /\ UNCHANGED <<mon, networking>>
    \/ /\ firewall' \in Refused(firewall, settings, ConnectingPolicy(params, settings))
       /\ EnterDisconnecting("Error", NoPair, "SetFirewallPolicy", FALSE)

ConnectingSelectedGateways ==
    /\ NextEvent("Connecting", "SelectedGateways")
    /\ LET pair == Head(queue).pair IN Admit([sm.params EXCEPT !.entry = pair.entry], pair)
    /\ UNCHANGED <<settings, pins, dns, routes, api, detached, net, shutdown>>

ConnectingInterfaceUp ==
    /\ NextEvent("Connecting", "InterfaceUp")
    /\ Admit([sm.params EXCEPT !.tun = TRUE], sm.gateways)
    /\ UNCHANGED <<settings, pins, dns, routes, api, detached, net, shutdown>>

ConnectingUp ==
    /\ NextEvent("Connecting", "Up")
    /\ EnterConnected(settings, sm.gateways)
    /\ UNCHANGED <<settings, routes, api, detached, net, shutdown>>

\* handle_gateway_failure: forgiven, or blamed and dropped.
ConnectingFailure ==
    /\ NextEvent("Connecting", "Failure")
    /\ \E pair \in {sm.gateways, NoPair} : sm' = [sm EXCEPT !.gateways = pair]
    /\ queue' = Tail(queue)
    /\ UNCHANGED <<shared, mon, detached, net, shutdown>>

\* Without a fatal reason the handler waits for the monitor to exit.
ConnectingDown ==
    /\ NextEvent("Connecting", "Down")
    /\ \/ /\ Head(queue).fatal
          /\ EnterDisconnecting("Error", NoPair, "Other", FALSE)
          /\ UNCHANGED <<firewall, pins, dns, routes>>
       \/ /\ ~Head(queue).fatal
          /\ routes' = FALSE
          /\ Reconnect(api)
          /\ mon' = NoMonitor /\ queue' = <<>>
    /\ UNCHANGED <<settings, api, detached, net, shutdown>>

\* disconnect(): remove the routes, then tear the monitor down.
ConnectingTearDown(after, pair) ==
    /\ routes' = FALSE
    /\ EnterDisconnecting(after, pair, "none", after = "Offline")
    /\ UNCHANGED <<firewall, pins, dns>>

ConnectingConnect ==
    /\ sm.state = "Connecting"
    /\ \/ HasMonitor /\ ConnectingTearDown("Reconnect", NoPair)
       \/ /\ ~HasMonitor
          /\ EnterConnecting(firewall, settings, pins, dns, api, NoPair)
          /\ UNCHANGED <<routes, mon, queue>>
    /\ UNCHANGED <<settings, api, detached, net, shutdown>>

\* The disconnect command, and the shutdown token: the same handler.
ConnectingStop ==
    /\ \/ HasMonitor /\ ConnectingTearDown("Nothing", NoPair)
       \/ /\ ~HasMonitor
          /\ routes' = FALSE
          /\ EnterDisconnected(firewall, settings, pins, dns, api)
          /\ UNCHANGED <<mon, queue>>
    /\ UNCHANGED <<settings, api, detached, net, shutdown>>

ConnectingDisconnect == sm.state = "Connecting" /\ ConnectingStop

ConnectingShutdown == sm.state = "Connecting" /\ shutdown /\ ConnectingStop

(***************************************************************************)
(* A monitor whose handle is dropped keeps running.  If it was still       *)
(* dialling it has its routes to set yet; one past that has nothing left   *)
(* to do to this state but end.                                            *)
(***************************************************************************)
Detach ==
    /\ detached' = (detached \/ mon.phase \in {"starting", "selected", "registering", "routing"})
    /\ mon' = NoMonitor
    /\ queue' = <<>>

\* Faulty variant: overlooks the selection inputs.
HotOnlyKillswitch(s) == s.killswitch = settings.killswitch

\* Only allow_lan changed: nothing to reconnect for.
HotOnly(s) ==
    s.killswitch = settings.killswitch /\ s.entry_point = settings.entry_point

ConnectingSetSettings ==
    /\ sm.state = "Connecting"
    /\ \E s \in Settings \ {settings} :
        LET policy  == ConnectingPolicy(sm.params, s)
            reapply == s.allow_lan # settings.allow_lan \/ s.killswitch # settings.killswitch
            f       == IF reapply THEN Applied(s, policy) ELSE firewall
            pair    == IF s.entry_point # settings.entry_point THEN NoPair ELSE sm.gateways
        IN  /\ settings' = s
            /\ \/ /\ reapply
                  /\ \E f1 \in Refused(firewall, s, policy) :
                        EnterError(f1, s, pins, dns, api, "SetFirewallPolicy")
                  /\ Detach
                  /\ UNCHANGED routes
               \/ /\ HotOnly(s)
                  /\ firewall' = f
                  /\ UNCHANGED <<sm, pins, dns, routes, networking, tasks>>
               \/ /\ ~HotOnly(s) /\ HasMonitor
                  /\ firewall' = f
                  /\ routes' = FALSE
                  /\ EnterDisconnecting("Reconnect", pair, "none", FALSE)
                  /\ UNCHANGED <<pins, dns, detached>>
               \/ /\ ~HotOnly(s) /\ ~HasMonitor
                  /\ EnterConnecting(f, s, pins, dns, api, pair)
                  /\ UNCHANGED <<routes, tasks>>
    /\ UNCHANGED <<api, net, shutdown>>

ConnectingConnectivity ==
    /\ sm.state = "Connecting" /\ net.changed
    /\ Seen
    /\ \/ ~net.known /\ UNCHANGED <<sm, firewall, pins, dns, routes, networking, mon, queue>>
       \/ net.known /\ HasMonitor /\ ConnectingTearDown("Offline", sm.gateways)
       \/ /\ net.known /\ ~HasMonitor
          /\ EnterOffline(firewall, settings, pins, dns, TRUE, sm.gateways)
          /\ UNCHANGED <<routes, mon, queue>>
    /\ UNCHANGED <<settings, api, detached, shutdown>>

(***************************************************************************)
(* ConnectedState                                                          *)
(***************************************************************************)
ConnectedTearDown(after, pair) ==
    /\ dns' \in DnsReset(dns, "wan")
    /\ routes' = FALSE
    /\ EnterDisconnecting(after, pair, "none", after = "Offline")
    /\ UNCHANGED <<pins, detached>>

ConnectedConnect ==
    /\ sm.state = "Connected"
    /\ ConnectedTearDown("Reconnect", NoPair)
    /\ UNCHANGED <<settings, firewall, api, net, shutdown>>

ConnectedDisconnect ==
    /\ sm.state = "Connected"
    /\ ConnectedTearDown("Nothing", NoPair)
    /\ UNCHANGED <<settings, firewall, api, net, shutdown>>

ConnectedShutdown == shutdown /\ ConnectedDisconnect

\* The LAN flag is applied before the settings are assigned, so under the old
\* kill-switch; when that fails the new settings are dropped.
ConnectedSetSettings ==
    /\ sm.state = "Connected"
    /\ \E s \in Settings \ {settings} :
        LET lan    == [settings EXCEPT !.allow_lan = s.allow_lan]
            policy == ConnectedPolicy(sm.gateways, lan)
            pair   == IF s.entry_point # settings.entry_point THEN NoPair ELSE sm.gateways
        IN  \/ /\ s.allow_lan # settings.allow_lan
               /\ \E f \in Refused(firewall, lan, policy) :
                    EnterError(f, settings, pins, dns, api, "SetFirewallPolicy")
               /\ Detach
               /\ UNCHANGED <<settings, routes>>
            \/ /\ firewall' = IF lan # settings THEN Applied(lan, policy) ELSE firewall
               /\ settings' = s
               /\ \/ HotOnly(s) /\ UNCHANGED <<sm, pins, dns, routes, networking, tasks>>
                  \/ ~HotOnly(s) /\ ConnectedTearDown("Reconnect", pair)
    /\ UNCHANGED <<api, net, shutdown>>

\* The other events are ignored.
ConnectedEvent ==
    /\ NextEvent("Connected", "Failure")
    /\ queue' = Tail(queue)
    /\ UNCHANGED <<sm, shared, mon, detached, net, shutdown>>

\* handle_tunnel_down: the monitor has only to return, and its handle is dropped.
ConnectedDown ==
    /\ NextEvent("Connected", "Down")
    /\ routes' = FALSE
    /\ \E d \in DnsReset(dns, "wan") :
        IF Head(queue).fatal
            THEN EnterError(firewall, settings, pins, d, api, "Other")
            ELSE \E pair \in {sm.gateways, NoPair} :
                    EnterConnecting(firewall, settings, pins, d, api, pair)
    /\ mon' = NoMonitor /\ queue' = <<>>
    /\ UNCHANGED <<settings, api, detached, net, shutdown>>

ConnectedConnectivity ==
    /\ sm.state = "Connected" /\ net.changed
    /\ Seen
    /\ \/ ~net.known /\ UNCHANGED <<sm, pins, dns, routes, networking, tasks>>
       \/ net.known /\ ConnectedTearDown("Offline", sm.gateways)
    /\ UNCHANGED <<settings, firewall, api, shutdown>>

(***************************************************************************)
(* DisconnectingState: wait for the monitor, then do what was asked for    *)
(* last.                                                                   *)
(***************************************************************************)
DisconnectingDone ==
    /\ sm.state = "Disconnecting" /\ mon.phase = "exited"
    /\ mon' = NoMonitor
    /\ CASE sm.after = "Nothing"   -> EnterDisconnected(firewall, settings, pins, dns, api)
         [] sm.after = "Error"     -> EnterError(firewall, settings, pins, dns, api, sm.reason)
         [] sm.after = "Reconnect" -> EnterConnecting(firewall, settings, pins, dns, api, sm.gateways)
         [] sm.after = "Offline"   -> EnterOffline(firewall, settings, pins, dns, sm.reconnect,
                                                   sm.gateways)
    /\ UNCHANGED <<settings, routes, api, queue, detached, net, shutdown>>

DisconnectingConnect ==
    /\ sm.state = "Disconnecting"
    /\ sm' = IF sm.after = "Offline"
                THEN [sm EXCEPT !.reconnect = TRUE]
                ELSE [sm EXCEPT !.after = "Reconnect", !.reason = "none",
                                !.gateways = IF sm.after = "Reconnect" THEN @ ELSE NoPair]
    /\ UNCHANGED <<shared, tasks, net, shutdown>>

DisconnectingDisconnect ==
    /\ sm.state = "Disconnecting"
    /\ sm' = IF sm.after = "Offline"
                THEN [sm EXCEPT !.reconnect = FALSE]
                ELSE [sm EXCEPT !.after = "Nothing", !.reason = "none", !.gateways = NoPair]
    /\ UNCHANGED <<shared, tasks, net, shutdown>>

\* Faulty variant: applies the idle policy while the session is still there.
DisconnectingSetSettingsApplied ==
    /\ sm.state = "Disconnecting"
    /\ settings' \in Settings
    /\ firewall' = Applied(settings', IdlePolicy(settings'))
    /\ UNCHANGED <<sm, pins, dns, routes, networking, api, tasks, net, shutdown>>

DisconnectingSetSettings ==
    /\ sm.state = "Disconnecting"
    /\ settings' \in Settings
    /\ UNCHANGED <<sm, firewall, pins, dns, routes, networking, api, tasks, net, shutdown>>

DisconnectingShutdown ==
    /\ sm.state = "Disconnecting" /\ shutdown /\ mon.phase = "exited"
    /\ mon' = NoMonitor
    /\ EnterDisconnected(firewall, settings, pins, dns, api)
    /\ UNCHANGED <<settings, routes, api, queue, detached, net, shutdown>>

-----------------------------------------------------------------------------
(***************************************************************************)
(* The tunnel monitor task.  It waits up to REPLY_TIMEOUT for the machine  *)
(* to answer an event and then goes on regardless, so a wait is a phase    *)
(* that can always be left.                                                *)
(***************************************************************************)
Others == <<sm, settings, firewall, pins, dns, networking, api, detached, net, shutdown>>

\* send_event: nothing receives once the machine has left for Disconnecting.
Send(event) ==
    queue' = IF sm.state \in {"Connecting", "Connected"} THEN Append(queue, event) ELSE queue

MonitorSelect ==
    /\ mon.phase = "starting"
    /\ \/ /\ mon.pair # NoPair
          /\ mon' = [mon EXCEPT !.phase = "registering"]
          /\ UNCHANGED queue
       \/ /\ mon.pair = NoPair
          /\ \E gateway \in Gateways :
                LET pair == [entry |-> gateway, under |-> mon.sel] IN
                /\ mon' = [mon EXCEPT !.phase = "selected", !.pair = pair]
                /\ Send(Event("SelectedGateways", pair, FALSE))
    /\ UNCHANGED <<Others, routes>>

\* The reply, the timeout, or a dropped reply sender.
MonitorProceed ==
    /\ \/ mon.phase = "selected" /\ mon' = [mon EXCEPT !.phase = "registering"]
       \/ mon.phase = "announced" /\ mon' = [mon EXCEPT !.phase = "running"]
    /\ UNCHANGED <<Others, queue, routes>>

MonitorRegister ==
    /\ mon.phase = "registering"
    /\ \/ mon' = [mon EXCEPT !.phase = "routing"] /\ UNCHANGED queue
       \/ mon' = [mon EXCEPT !.phase = "failed"] /\ Send(Event("Failure", NoPair, FALSE))
    /\ UNCHANGED <<Others, routes>>

\* set_routes and announce_interface_up: no look at the shutdown token before them.
MonitorAnnounce ==
    /\ mon.phase = "routing"
    /\ routes' = TRUE
    /\ mon' = [mon EXCEPT !.phase = "announced"]
    /\ Send(Event("InterfaceUp", mon.pair, FALSE))
    /\ UNCHANGED Others

MonitorUp ==
    /\ mon.phase = "running"
    /\ mon' = [mon EXCEPT !.phase = "up"]
    /\ Send(Event("Up", mon.pair, FALSE))
    /\ UNCHANGED <<Others, routes>>

\* The probes fail, or the tunnel ends some other way, or it is cancelled.
MonitorEnds ==
    /\ mon.phase \in {"running", "up"}
    /\ mon' = [mon EXCEPT !.phase = "closing"]
    /\ \/ Send(Event("Failure", NoPair, FALSE))
       \/ UNCHANGED queue
    /\ UNCHANGED <<Others, routes>>

\* An error return of run_inner before the monitoring loop.
MonitorFails ==
    /\ mon.phase \in {"starting", "registering", "routing", "announced"}
    /\ mon' = [mon EXCEPT !.phase = "failed"]
    /\ UNCHANGED <<Others, queue, routes>>

\* run(): only an error return carries a reason for the error state.
MonitorDown ==
    /\ mon.phase \in {"closing", "failed"}
    /\ mon' = [mon EXCEPT !.phase = "down"]
    /\ \E fatal \in {FALSE} \cup IF mon.phase = "failed" THEN {TRUE} ELSE {} :
        Send(Event("Down", NoPair, fatal))
    /\ UNCHANGED <<Others, routes>>

MonitorExits ==
    /\ mon.phase = "down"
    /\ mon' = [mon EXCEPT !.phase = "exited"]
    /\ UNCHANGED <<Others, queue, routes>>

\* A detached monitor sets its routes, or fails before it comes to that.
DetachedEnds ==
    /\ detached
    /\ detached' = FALSE
    /\ routes' \in {routes, TRUE}
    /\ UNCHANGED <<sm, settings, firewall, pins, dns, networking, api, mon, queue, net, shutdown>>

-----------------------------------------------------------------------------
User ==
    \/ DisconnectedConnect \/ DisconnectedSetSettings
    \/ ConnectingConnect \/ ConnectingDisconnect \/ ConnectingSetSettings
    \/ ConnectedConnect \/ ConnectedDisconnect \/ ConnectedSetSettings
    \/ DisconnectingConnect \/ DisconnectingDisconnect \/ DisconnectingSetSettings
    \/ ErrorConnect \/ ErrorDisconnect \/ ErrorSetSettings
    \/ OfflineConnect \/ OfflineDisconnect \/ OfflineSetSettings

Connectivity ==
    \/ DisconnectedConnectivity \/ ConnectingConnectivity \/ ConnectedConnectivity
    \/ OfflineConnectivity

Shutdown ==
    \/ DisconnectedShutdown \/ ConnectingShutdown \/ ConnectedShutdown
    \/ DisconnectingShutdown \/ ErrorShutdown \/ OfflineShutdown

MonitorEvent ==
    \/ ConnectingSelectedGateways \/ ConnectingInterfaceUp \/ ConnectingUp
    \/ ConnectingFailure \/ ConnectingDown \/ ConnectedEvent \/ ConnectedDown
    \/ DisconnectingDone

Idle == IdleResolved \/ IdleResolveFails \/ IdleTimer

Connecting == ConnectingDelay \/ ConnectingResolved \/ ConnectingResolveFails

Monitor ==
    \/ MonitorSelect \/ MonitorProceed \/ MonitorRegister \/ MonitorAnnounce \/ MonitorUp
    \/ MonitorEnds \/ MonitorFails \/ MonitorDown \/ MonitorExits

Next ==
    \/ Spawn \/ Crash \/ RequestShutdown \/ ConnectivityChanges \/ OfflineMonitorChecks
    \/ EndpointsAge
    \/ User \/ Connectivity \/ Shutdown \/ MonitorEvent \/ Idle \/ Connecting
    \/ Monitor \/ DetachedEnds

Spec == Init /\ [][Next]_vars

-----------------------------------------------------------------------------
(***************************************************************************)
(* Properties                                                              *)
(***************************************************************************)

\* The live tables are those of `policy', or open when the kill-switch is off.
Enforced(policy) == firewall.live = IF settings.killswitch THEN policy ELSE Open

\* The module table of mod.rs: what each state keeps in the firewall, on the API
\* clients and in dnsmasq, whatever path led to it.  Error and Offline log a failed
\* apply, so there the policy is only promised while the last apply succeeded.
StateContract ==
    /\ sm.state = "Disconnected" =>
        Enforced(IdlePolicy(settings)) /\ pins = IdlePins(settings, api) /\ dns # "tunnel"
    /\ sm.state = "Connecting" => Enforced(ConnectingPolicy(sm.params, settings))
    /\ sm.state = "Connected" => Enforced(ConnectedPolicy(sm.gateways, settings))
    /\ sm.state = "Error" /\ firewall.known =>
        Enforced(IdlePolicy(settings)) /\ pins = IdlePins(settings, api)
    /\ sm.state = "Offline" /\ firewall.known => Enforced(OfflinePolicy(settings))

\* No step of the daemon opens a closed router under a kill-switch that is on after the
\* step: not a failed apply, a LAN toggle in Connected, a crash, a restart or a shutdown.
NeverOpens ==
    [][settings'.killswitch /\ firewall.live # Open => firewall'.live # Open]_vars

Queued(type) == \E i \in 1..Len(queue) : queue[i].type = type

\* What the monitor is about to send passes the firewall: once it is past selection and
\* its event is handled the policy admits its entry gateway, and once past the
\* announcement the tunnel interface (tunnel_monitor.rs waits for the replies for this).
MonitorAdmitted ==
    sm.state \in {"Connecting", "Connected"} /\ settings.killswitch =>
        /\ mon.phase \in {"registering", "routing", "announced", "running", "up"}
            /\ ~Queued("SelectedGateways") => firewall.live.entry = mon.pair.entry
        /\ mon.phase \in {"announced", "running", "up"} /\ ~Queued("InterfaceUp") =>
            firewall.live.tun

\* The expect()s of ConnectingState hold: a handle exists whenever an event is read, and
\* Up finds the pair the monitor connected to.
ExpectsHold ==
    /\ queue # <<>> => HasMonitor /\ sm.state \in {"Connecting", "Connected"}
    /\ NextEvent("Connecting", "Up") => sm.gateways = mon.pair /\ mon.pair # NoPair

\* Connected means a whole session: routes, tunnel DNS, unpinned clients that may use the
\* network, and a monitor nobody cancelled that runs the pair the state reports.
ConnectedIsWhole ==
    sm.state = "Connected" =>
        /\ routes /\ dns = "tunnel" /\ ~pins /\ networking
        /\ sm.gateways = mon.pair /\ mon.pair # NoPair /\ ~mon.cancelled

\* While connecting the account controller and discovery may use the network only after
\* the live endpoints are admitted and their clients pinned to them.
NetworkingAdmitted ==
    /\ sm.state \in {"Disconnecting", "Offline"} => ~networking
    /\ sm.state = "Connecting" =>
        /\ networking <=> HasMonitor
        /\ networking => pins /\ api # "cached" /\ (settings.killswitch => firewall.live.api)

\* As long as the offline monitor looks between two changes of connectivity none is lost
\* between the machine's own looks and the reports: a state that disagrees with the
\* network has a report coming.
ConnectivityTracked ==
    /\ sm.state = "Offline" /\ ~net.offline => net.event \/ net.changed
    /\ sm.state \in {"Disconnected", "Connecting", "Connected"} /\ net.offline =>
        net.event \/ net.changed \/ shutdown

\* With the kill-switch on, Disconnected always has a resolution or a timer to look
\* forward to, and it stops upkeep with the kill-switch off.
DisconnectedUpkeep ==
    sm.state = "Disconnected" => (sm.idle = "off" <=> ~settings.killswitch)

\* The phase of the daemon's life, as KillSwitch sees it.
KSPhase ==
    CASE sm.state \in {"Down", "Finished"}         -> "gone"
      [] sm.state = "Disconnected"                 -> "idle"
      [] sm.state \in {"Connecting", "Connected"}  -> "session"
      [] sm.state = "Disconnecting"                -> "leaving"
      [] sm.state \in {"Error", "Offline"}         -> "fallback"

KS == INSTANCE KillSwitch
    WITH phase <- KSPhase, wish <- settings.killswitch, wall <- (firewall.live # Open)

\* The state machine keeps the kill-switch contract: every handler is one of the
\* promised steps of KillSwitch, or does not concern it.
KeepsKillSwitch == KS!KSSpec

\* A monitor that is still wanted was started under the selection inputs in force: every
\* change of them while connecting or connected tears the running attempt down.
SelectionCurrent ==
    sm.state \in {"Connecting", "Connected"} /\ HasMonitor => mon.sel = settings.entry_point

-----------------------------------------------------------------------------
(***************************************************************************)
(* Fairness.  tokio polls a woken task again, and select! picks a ready    *)
(* branch at random: a handler whose branch stays ready runs (WF), and the *)
(* shutdown branch, ready in every state the machine returns to, is not    *)
(* passed over for ever (SF).  The waits of the monitor for replies are    *)
(* bounded by REPLY_TIMEOUT, and a cancelled monitor goes on to its end.   *)
(* Commands, connectivity, a tunnel that works or fails: no fairness.      *)
(***************************************************************************)
Fairness ==
    /\ WF_vars(OfflineMonitorChecks) /\ WF_vars(Connectivity)
    /\ WF_vars(MonitorEvent) /\ WF_vars(Idle) /\ WF_vars(Connecting)
    /\ SF_vars(DisconnectedShutdown) /\ SF_vars(ErrorShutdown) /\ SF_vars(OfflineShutdown)
    /\ SF_vars(DisconnectingShutdown) /\ WF_vars(ConnectingShutdown \/ ConnectedShutdown)
    /\ WF_vars(MonitorProceed) /\ WF_vars(MonitorDown) /\ WF_vars(MonitorExits)
    /\ WF_vars(mon.cancelled /\ Monitor)

FairSpec == Spec /\ Fairness

\* A requested shutdown ends the state machine, from whatever state it finds.
ShutdownCompletes == shutdown ~> ~Running

\* Disconnecting ends, whatever phase the monitor was cancelled in.
DisconnectingEnds == sm.state = "Disconnecting" ~> sm.state # "Disconnecting"

\* Offline, which reconnects "once back online" (mod.rs), is left once the network is
\* back, unless it goes away again.
OfflineRecovers ==
    (sm.state = "Offline" /\ ~net.offline) ~> (sm.state # "Offline" \/ net.offline)

\* A stale allow-list is resolved again while Disconnected stays under the kill-switch.
UpkeepTries ==
    (sm.state = "Disconnected" /\ settings.killswitch /\ api # "live") ~>
        (sm.state # "Disconnected" \/ ~settings.killswitch \/ sm.idle = "resolving" \/ api = "live")

\* The machine agrees with what it drives: types, who may use the network, the reports of
\* connectivity and the upkeep of the allow-list.
MachineConsistent == TypeOK /\ NetworkingAdmitted /\ ConnectivityTracked /\ DisconnectedUpkeep

\* A session is whole: what is dialled is admitted, no expect() of a handler
\* panics, Connected has everything it reports.
SessionWhole == MonitorAdmitted /\ ExpectsHold /\ ConnectedIsWhole

\* The machine gets out of every state it must not stay in.
MachineSettles == ShutdownCompletes /\ DisconnectingEnds /\ OfflineRecovers /\ UpkeepTries
=============================================================================
