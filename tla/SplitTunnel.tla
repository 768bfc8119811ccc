---------------------------- MODULE SplitTunnel ----------------------------
(***************************************************************************)
(* The split-tunnel exclusions of the LuCI bridge (nym-vpnc, rpcd.rs):     *)
(* one bridge process per call, which commits the exclusion to the nym-vpn *)
(* package and then regenerates everything made from it: dnsmasq's ipset   *)
(* section in dhcp, the nftables drop-in, the firewall's rules, the        *)
(* addresses in the kernel's bypass sets.  The split lock admits one edit  *)
(* at a time; rpcd kills a bridge that outlives its timeout.               *)
(***************************************************************************)
EXTENDS DhcpConfig

CONSTANT Clients   \* the LAN clients that may be excluded

VARIABLE split

Targets == Domains \cup Clients

\* The stored exclusions, and the enabled ones (an entry that does not validate
\* is skipped and is none of these).
split_exclusions == {t \in Targets : split.uci[t] # "absent"}
split_targets == {t \in split_exclusions : split.uci[t] = "on"}
domains == split_targets \cap Domains

\* The list in dnsmasq's section, and the staging of another.
split_ipset_domains == Effective(dhcp, "ipset")

\* The ipset section the exclusions ask for: none without a domain, or when
\* dnsmasq was built without nftset support.
Wanted == IF domains # {} /\ split.nftset THEN {domains} ELSE {}

stage_split_ipset == dhcp' = uci_set(dhcp, "ipset", Wanted)

\* The drop-in marks what the exclusions name.
render_split_nft == split_targets

\* One edit at a time: an edit starts once the one before it has ended, also
\* when it was killed.
with_split_lock == split.at = "idle"

BridgeAt(at) == split' = [split EXCEPT !.at = at]

SplitFinish(s, reply) == [s EXCEPT !.at = "idle", !.reply = reply, !.had = FALSE, !.failed = FALSE,
                              !.changed = FALSE, !.removed = FALSE,
                              !.clean = @ /\ reply = "ok"]

Costs == Affordable /\ dhcp' = Paid(dhcp)

----------------------------------------------------------------------------
\* split_add refuses a duplicate, split_del and split_set_enabled an unknown id;
\* commit_split_section commits the package or reverts the section.
Edit(t, value) ==
    /\ with_split_lock
    /\ \/ WorkAsked /\ split' = [split EXCEPT !.uci[t] = value, !.at = "sync", !.reply = "none"]
       \/ Costs /\ split' = [split EXCEPT !.reply = "refused"]
    /\ UNCHANGED masq

split_add(t) == t \notin split_exclusions /\ Edit(t, "on")
split_del(t) == t \in split_exclusions /\ Edit(t, "absent")
split_set_enabled(t) ==
    /\ t \in split_exclusions
    /\ \E value \in {"on", "off"} : Edit(t, value)

\* sync_split_ipset: an unchanged list leaves dhcp alone, a changed one is
\* staged (stage_split_ipset) and committed.
sync_split_ipset ==
    /\ split.at = "sync"
    /\ \/ /\ split_ipset_domains = Wanted
          /\ BridgeAt("nft") /\ UNCHANGED dhcp
       \/ /\ split_ipset_domains # Wanted
          /\ stage_split_ipset
          /\ split' = [split EXCEPT
                !.at = "changes", !.changed = TRUE,
                !.removed = \E ds \in split_ipset_domains : ~(ds \subseteq UNION Wanted)]
       \/ /\ split_ipset_domains # Wanted
          /\ Costs /\ BridgeAt("drop")
    /\ UNCHANGED masq

\* commit_dhcp, the bridge's copy of the daemon's commit_dhcp_keeping_repoint.
BridgeChanges ==
    /\ split.at = "changes"
    /\ \/ /\ split' = [split EXCEPT !.had = staged_repoints(dhcp),
                                    !.at = IF staged_repoints(dhcp) THEN "unstage" ELSE "commit"]
          /\ UNCHANGED dhcp
       \/ Costs /\ BridgeAt("drop")
    /\ UNCHANGED masq

BridgeUnstage ==
    /\ split.at = "unstage"
    /\ \/ dhcp' = uci_revert_option(dhcp, "resolvfile")
       \/ Costs
    /\ BridgeAt("unstaged")
    /\ UNCHANGED masq

BridgeUnstaged ==
    /\ split.at = "unstaged"
    /\ \/ /\ split' = [split EXCEPT !.failed = staged_repoints(dhcp),
                                    !.at = IF staged_repoints(dhcp) THEN "restage" ELSE "commit"]
          /\ UNCHANGED dhcp
       \/ Costs /\ split' = [split EXCEPT !.failed = TRUE, !.at = "restage"]
    /\ UNCHANGED masq

BridgeCommits ==
    /\ split.at = "commit"
    /\ \/ dhcp' = uci_commit(dhcp) /\ BridgeAt("restage")
       \/ Costs /\ split' = [split EXCEPT !.failed = TRUE, !.at = "restage"]
    /\ UNCHANGED masq

BridgeRestages ==
    /\ split.at = "restage"
    /\ \/ /\ dhcp' = IF split.had THEN uci_set(dhcp, "resolvfile", "managed") ELSE dhcp
          /\ BridgeAt(IF split.failed THEN "drop" ELSE "nft")
       \/ split.had /\ Costs /\ BridgeAt("drop")
    /\ UNCHANGED masq

\* The half-staged section is dropped, and the edit is saved but not applied.
DropStaged ==
    /\ split.at = "drop"
    /\ dhcp' = uci_revert_option(dhcp, "ipset")
    /\ split' = SplitFinish(split, "saved")
    /\ UNCHANGED masq

\* regen_split writes or removes the drop-in (write_split_nft: temporary file
\* and rename), then apply_split runs every step even after a failed one.
WriteNft ==
    /\ split.at = "nft"
    /\ \/ split' = [split EXCEPT !.nft = render_split_nft, !.at = "firewall"] /\ UNCHANGED dhcp
       \/ Costs /\ split' = [split EXCEPT !.failed = TRUE, !.at = "firewall"]
    /\ UNCHANGED masq

ReloadFirewall ==
    /\ split.at = "firewall"
    /\ \/ split' = [split EXCEPT !.rules = split.nft, !.at = "flush"] /\ UNCHANGED dhcp
       \/ Costs /\ split' = [split EXCEPT !.failed = TRUE, !.at = "flush"]
    /\ UNCHANGED masq

flush_bypass_sets ==
    /\ split.at = "flush"
    /\ \/ /\ split' = [split EXCEPT !.sets = IF split.removed THEN {} ELSE @, !.at = "dnsmasq"]
          /\ UNCHANGED dhcp
       \/ split.removed /\ Costs /\ split' = [split EXCEPT !.failed = TRUE, !.at = "dnsmasq"]
    /\ UNCHANGED masq

ReloadDnsmasq ==
    /\ split.at = "dnsmasq"
    /\ \/ /\ masq' = IF split.changed THEN reload_dnsmasq(masq, dhcp) ELSE masq
          /\ split' = SplitFinish(split, IF split.failed THEN "saved" ELSE "ok")
          /\ UNCHANGED dhcp
       \/ split.changed /\ Costs /\ split' = SplitFinish(split, "saved") /\ UNCHANGED masq

\* rpcd kills the bridge at its timeout, wherever it is.
BridgeKilled ==
    /\ split.at # "idle"
    /\ Costs
    /\ split' = SplitFinish(split, "killed")
    /\ UNCHANGED masq

\* dnsmasq adds the address of a domain of its ipset when a client resolves it.
ClientResolves(d) ==
    /\ masq.running
    /\ d \in UNION masq.conf.ipset \ split.sets
    /\ split.rules \cap Domains # {}
    /\ split' = [split EXCEPT !.sets = @ \cup {d}]
    /\ UNCHANGED <<dhcp, masq>>

BridgeSteps ==
    \/ sync_split_ipset \/ BridgeChanges \/ BridgeUnstage \/ BridgeUnstaged \/ BridgeCommits
    \/ BridgeRestages \/ DropStaged \/ WriteNft \/ ReloadFirewall \/ flush_bypass_sets
    \/ ReloadDnsmasq

SplitNext ==
    \/ \E t \in Targets : split_add(t) \/ split_del(t) \/ split_set_enabled(t)
    \/ BridgeSteps \/ BridgeKilled
    \/ \E d \in Domains : ClientResolves(d)

SplitAtBoot(supported) == [uci |-> [t \in Targets |-> "absent"], nftset |-> supported, at |-> "idle",
                           nft |-> {}, rules |-> {}, sets |-> {}, had |-> FALSE, failed |-> FALSE,
                           changed |-> FALSE, removed |-> FALSE, reply |-> "none",
                           clean |-> TRUE]

SplitInit == \E supported \in BOOLEAN : split = SplitAtBoot(supported)

SplitTypeOK ==
    /\ split.uci \in [Targets -> {"absent", "on", "off"}]
    /\ split.nft \subseteq Targets /\ split.rules \subseteq Targets
    /\ split.sets \subseteq Domains

\* An edit that reports success has reached every place made from it: the
\* drop-in and the loaded rules are the enabled exclusions, dnsmasq's section is
\* committed and dnsmasq runs with it, whatever the daemon and the user did to dhcp
\* meanwhile.  No earlier edit was cut short: the later one compares with the
\* committed section and would not reload dnsmasq again (regen_split).
SplitInStep ==
    split.reply = "ok" /\ split.clean =>
        /\ split.nft = split_targets /\ split.rules = split_targets
        /\ dhcp.committed["ipset"] = Wanted
        /\ masq.running => masq.conf.ipset = Wanted
=============================================================================
