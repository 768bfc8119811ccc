----------------------------- MODULE RouterDns -----------------------------
(***************************************************************************)
(* The three programs that edit the router's dhcp configuration and its    *)
(* dnsmasq together: the daemon's DNS actor, the daemon's ad blocker and   *)
(* the LuCI bridge, with the user's own edits, crashes and reboots.        *)
(***************************************************************************)
EXTENDS AdBlocker, SplitTunnel

\* Set when one program stages the repoint between another's last look at the
\* staged changes and its commit: nothing serialises the bridge and the daemon.
VARIABLE overlapped

dnsVars == <<dhcp, masq, dns, dnsmon, files, ad, split, overlapped>>

RouterDnsInit == DnsInit /\ AdInit /\ SplitInit /\ overlapped = FALSE

\* A step that stages the repoint while the other program is about to commit.
Overlap(at) ==
    overlapped' = (overlapped \/ (at = "commit" /\ staged_repoints(dhcp') /\ ~staged_repoints(dhcp)))

RouterDnsNext ==
    \/ ActorNext /\ Overlap(split.at) /\ UNCHANGED <<ad, split>>
    \/ MonitorNext /\ UNCHANGED <<ad, split, overlapped>>
    \/ AdNext /\ UNCHANGED <<split, overlapped>>
    \/ SplitNext /\ Overlap(dns.at) /\ UNCHANGED <<dns, dnsmon, files, ad>>
    \/ OtherPrograms /\ UNCHANGED <<dns, dnsmon, files, ad, split, overlapped>>
    \/ WanChanges /\ UNCHANGED <<ad, split, overlapped>>
    \/ DaemonDies /\ ad' = RunsLost(ad) /\ UNCHANGED <<split, overlapped>>
    \/ DaemonStarts /\ ad' = restore_if_enabled(ad, masq) /\ UNCHANGED <<split, overlapped>>
    \/ /\ DnsReboot
       /\ ad' = [RunsLost(ad) EXCEPT !.redirect = FALSE]
       /\ split' = [SplitFinish(split, "none") EXCEPT !.rules = split.nft, !.sets = {},
                                               !.clean = split.clean /\ split.at = "idle"]
       /\ UNCHANGED overlapped

RouterDnsFairSteps == {"actor", "adblock", "answer"}

RouterDnsFair(s) ==
    \/ s = "actor" /\ ActorNext /\ Overlap(split.at) /\ UNCHANGED <<ad, split>>
    \/ s = "adblock" /\ AdSteps /\ UNCHANGED <<split, overlapped>>
    \/ s = "answer" /\ MonitorAnswered /\ UNCHANGED <<ad, split, overlapped>>

RouterDnsFairness == \A s \in RouterDnsFairSteps : WF_dnsVars(RouterDnsFair(s))

RouterDnsSpec == RouterDnsInit /\ [][RouterDnsNext]_dnsVars /\ RouterDnsFairness

----------------------------------------------------------------------------
\* Types of the actor, the ad blocker and the bridge over the one dhcp
\* configuration (dnsmasq.rs, adblocker.rs, rpcd.rs).
RouterDnsTypeOK == DnsTypeOK /\ AdTypeOK /\ SplitTypeOK

\* A crash loop is no restart storm: converge restarts dnsmasq once, and once
\* more for each thing that happened to it from outside, a split edit included;
\* a daemon that only dies and starts again finds dnsmasq pointed (converge).
RestartsBounded ==
    dns.restarts <= 1 + (DnsBudget - dhcp.budget) + (DnsWork - dhcp.work)

\* The repoint is never committed, or it would outlive the daemon and leave
\* dnsmasq with a file nothing writes: not by the daemon's commit, not by the
\* bridge's, also when the revert before it failed silently.  Two commits are
\* the exception: the user's own Save & Apply, which commits wholesale, and one
\* that overlapped the other program's staging.
RepointStaysOut ==
    committed_has_managed_path(dhcp') /\ ~committed_has_managed_path(dhcp)
        => UserSavesAndApplies \/ overlapped

\* The edits another program left staged survive the daemon and the bridge:
\* they are committed or kept, never dropped (converge reverts its own options
\* only).
UserEditsSurvive ==
    Effective(dhcp, "edit") = "new" => Effective(dhcp', "edit") = "new" \/ DnsReboot

\* An acknowledged SetTunnel is in force: dnsmasq, if it runs, forwards to the
\* tunnel's resolvers, or the user manages the upstreams (noresolv).  The bridge
\* is not inside its commit, and nothing else happened since the command was
\* taken (handle_set_tunnel).
AcknowledgedIsServed ==
    dns.cmd = "SetTunnel" /\ dnsmon'.answer = "ok" /\ dnsmon.answer = "none"
        /\ dns.since = dhcp.budget /\ split.at \in {"idle", "sync"} /\ ~overlapped /\ masq.running
        => \/ Upstream' = {prefer_ipv4_upstreams(TunnelServers)}
           \/ effective_noresolv(dhcp)

\* No step of the three programs breaks what another relies on: the three
\* facts about steps above.
DnsSteps == [][RepointStaysOut /\ UserEditsSurvive /\ AcknowledgedIsServed]_dnsVars

\* dnsmasq is served right by its three writers: the facts about states above.
DnsConsistent ==
    RouterDnsTypeOK /\ TunnelResolversKept /\ RestartsBounded /\ LastToggleWins /\ SplitInStep
=============================================================================
