------------------------------ MODULE MCRouter -------------------------------
(***************************************************************************)
(* What the daemon and its scripts do to the router, for TLC: the          *)
(* firewall, the rules it compiles, dnsmasq with everything that edits its *)
(* configuration, and the routes.  They share no state here.  One of them  *)
(* moves, the others stay where they start.                                *)
(***************************************************************************)
EXTENDS FirewallApply, FirewallRules, RouterDns, Routing

VARIABLE moves

routerVars == <<fwVars, rulesVars, dnsVars, rtVars, moves>>

\* fw4; fw3 with and without flock(1); and the states IPv6 may be in.
Host(s, l, v) == [system |-> s, flock |-> l, ipv6 |-> v]
McHosts == {Host("fw3", TRUE, "enabled"), Host("fw3", TRUE, "unusable"), Host("fw3", FALSE, "disabled"),
            Host("fw4", FALSE, "enabled")}

\* A tunnel with and without a private resolver, on the way and up, and none.
McRulePolicies ==
    {[kind |-> "connected", tunnel |-> TRUE, lan |-> TRUE, exempt |-> TRUE, dns |-> {"pihole"}],
     [kind |-> "connected", tunnel |-> TRUE, lan |-> FALSE, exempt |-> FALSE, dns |-> {"quad9"}],
     [kind |-> "connecting", tunnel |-> TRUE, lan |-> TRUE, exempt |-> TRUE, dns |-> {"pihole"}],
     [kind |-> "blocked", tunnel |-> FALSE, lan |-> TRUE, exempt |-> FALSE, dns |-> {"quad9"}]}

\* Where a component that does not move stays.
AtRest ==
    /\ moves # "firewall" => fwconf = [system |-> "fw4", flock |-> FALSE, killswitch |-> FALSE,
                                       service |-> "started", budget |-> FwBudget, failed |-> 0]
    /\ moves # "rules" => rules = RulesAtBoot("guest", TRUE)
    /\ moves # "dns" => dhcp = DhcpAtBoot("off") /\ split = SplitAtBoot(TRUE)

RouterInit ==
    /\ moves \in {"firewall", "rules", "dns", "routing"}
    /\ AtRest
    /\ FwInit /\ RulesInit /\ RouterDnsInit /\ RoutingInit

RouterNext ==
    /\ UNCHANGED moves
    /\ \/ moves = "firewall" /\ FwNext /\ UNCHANGED <<rulesVars, dnsVars, rtVars>>
       \/ moves = "rules" /\ RulesNext /\ UNCHANGED <<fwVars, dnsVars, rtVars>>
       \/ moves = "dns" /\ RouterDnsNext /\ UNCHANGED <<fwVars, rulesVars, rtVars>>
       \/ moves = "routing" /\ RoutingNext /\ UNCHANGED <<fwVars, rulesVars, dnsVars>>

RouterSpec == RouterInit /\ [][RouterNext]_routerVars
=============================================================================
