----------------------------- MODULE MCProgress ------------------------------
(***************************************************************************)
(* What must happen in the end on the router and before the user, for TLC: *)
(* the liveness of the firewall, dnsmasq, the SOCKS5 proxy, network        *)
(* discovery, the RPC loop and the LuCI status page.  They share no state  *)
(* here.  One of them moves, under its own fairness, and the others stay   *)
(* where they start, in states that promise nothing.                       *)
(***************************************************************************)
EXTENDS FirewallApply, RouterDns, Socks5, NetworkDiscovery, CommandLoop, LuciPage

VARIABLE moves

progressVars == <<fwVars, dnsVars, s5vars, discVars, rpcVars, pageVars, moves>>

McHosts == {[system |-> "fw3", flock |-> TRUE, ipv6 |-> "enabled"],
            [system |-> "fw4", flock |-> FALSE, ipv6 |-> "enabled"]}

\* Where a component that does not move stays.
AtRest ==
    /\ moves # "firewall" => fwconf = [system |-> "fw4", flock |-> FALSE, killswitch |-> FALSE,
                                       service |-> "started", budget |-> FwBudget, failed |-> 0]
    /\ moves # "dns" => dhcp = DhcpAtBoot("off") /\ split = SplitAtBoot(TRUE)
    /\ moves # "discovery" =>
         /\ proc = [name |-> "mainnet", at |-> <<"down">>, booting |-> FALSE]
         /\ world = [version |-> 1, online |-> FALSE, faults |-> 0, commands |-> 0]
    /\ moves # "page" =>
         /\ daemon = [up |-> TRUE, state |-> "disconnected", error |-> "",
                      account |-> "ready", relaxed |-> FALSE]
         /\ page = seed(TRUE)

ProgressInit ==
    /\ moves \in {"firewall", "dns", "socks5", "discovery", "rpc", "page"}
    /\ AtRest
    /\ FwInit /\ RouterDnsInit /\ Socks5Init /\ DiscInit /\ RpcInit /\ PageInit

ProgressNext ==
    /\ UNCHANGED moves
    /\ \/ moves = "firewall" /\ FwNext /\ UNCHANGED <<dnsVars, s5vars, discVars, rpcVars, pageVars>>
       \/ moves = "dns" /\ RouterDnsNext /\ UNCHANGED <<fwVars, s5vars, discVars, rpcVars, pageVars>>
       \/ moves = "socks5" /\ Socks5Next /\ UNCHANGED <<fwVars, dnsVars, discVars, rpcVars, pageVars>>
       \/ moves = "discovery" /\ DiscNext /\ UNCHANGED <<fwVars, dnsVars, s5vars, rpcVars, pageVars>>
       \/ moves = "rpc" /\ RpcNext /\ UNCHANGED <<fwVars, dnsVars, s5vars, discVars, pageVars>>
       \/ moves = "page" /\ PageNext /\ UNCHANGED <<fwVars, dnsVars, s5vars, discVars, rpcVars>>

ProgressSpec ==
    /\ ProgressInit /\ [][ProgressNext]_progressVars
    /\ \A s \in FwFairSteps : WF_fwVars(moves = "firewall" /\ FwFair(s))
    /\ \A p \in Policies : SF_fwVars(moves = "firewall" /\ ApplyPolicy(p))
    /\ \A s \in RouterDnsFairSteps : WF_dnsVars(moves = "dns" /\ RouterDnsFair(s))
    /\ \A s \in Socks5FairSteps, g \in 1..S5Wrappers : WF_s5vars(moves = "socks5" /\ Socks5Fair(s, g))
    /\ \A c \in 1..S5Conns : WF_s5vars(moves = "socks5" /\ ConnStep(c))
    /\ \A i \in 1..(S5Requests + S5Events) : WF_s5vars(moves = "socks5" /\ i \in DOMAIN ops /\ OpStep(i))
    /\ \A s \in DiscFairSteps : WF_discVars(moves = "discovery" /\ DiscFair(s))
    /\ \A s \in RpcFairSteps : WF_rpcVars(moves = "rpc" /\ RpcFair(s))
    /\ \A c \in RpcIds : WF_rpcVars(moves = "rpc" /\ RpcTaskFair(c))
    /\ \A s \in PageFairSteps, t \in PageTasks : WF_pageVars(moves = "page" /\ PageFair(s, t))

\* Nothing on the router stays blocked, open, stale or queued for ever.
RouterSettles == BlockLifted /\ EventuallyClosed /\ MirrorCatchesUp /\ TogglesDrain

\* Neither the proxy nor discovery gets stuck.
ServicesSettle == IdleBackendStops /\ OpsDrain /\ NetworkRefreshed /\ FirstCheckMade
=============================================================================
