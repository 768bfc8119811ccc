----------------------------- MODULE DhcpConfig -----------------------------
(***************************************************************************)
(* The router's `dhcp` configuration and its dnsmasq service, as the DNS   *)
(* backend (nym-dns, linux/dnsmasq.rs), the ad blocker (adblocker.rs) and  *)
(* the LuCI bridge (rpcd.rs) see them through `uci` and the init script.   *)
(*                                                                         *)
(* uci keeps the committed file, which survives a reboot, and a list of    *)
(* staged deltas in /tmp, which does not.  Every reader sees the committed *)
(* value overlaid with the staged one; `uci commit dhcp` writes every      *)
(* staged delta of the package, whoever staged it.                         *)
(***************************************************************************)
EXTENDS Naturals, Sequences, FiniteSets, SequencesExt

CONSTANTS
    Domains,    \* the domains that may be excluded from the tunnel
    DnsWork,    \* DNS changes, toggles and split edits asked for, all together
    DnsBudget   \* failing commands, crashes, reboots and edits of other
                \* programs in one behaviour, all together

VARIABLES
    dhcp,   \* committed and staged options, and what is left of the budget
    masq    \* the dnsmasq process, the configuration it was started with, and
            \* whether the blocklist file is in its confdir

\* The options of the first dnsmasq section the daemon and the bridge touch,
\* the bridge's ipset section, and "edit": any other option, the user's own.
Options == {"resolvfile", "noresolv", "confdir", "ipset", "edit"}

\* The values an option may hold.  The ipset is {} without the section, and
\* {ds} when the section lists the domains ds.
Values == [resolvfile |-> {"stock", "managed"},
           noresolv   |-> {"off", "on"},
           confdir    |-> {"stock", "nym"},
           ipset      |-> {{}} \cup {{ds} : ds \in SUBSET Domains},
           edit       |-> {"old", "new"}]

Stock == [resolvfile |-> "stock", noresolv |-> "off", confdir |-> "stock",
          ipset |-> {}, edit |-> "old"]

NothingStaged == [o \in {} |-> 0]

IsStaged(d, o) == o \in DOMAIN d.staged

Effective(d, o) == IF IsStaged(d, o) THEN d.staged[o] ELSE d.committed[o]

uci_set(d, o, v) ==
    [d EXCEPT !.staged = [p \in DOMAIN @ \cup {o} |-> IF p = o THEN v ELSE @[p]]]

uci_revert_option(d, o) == [d EXCEPT !.staged = Restrict(@, DOMAIN @ \ {o})]

uci_commit(d) ==
    [d EXCEPT !.committed = [o \in Options |-> Effective(d, o)],
              !.staged = NothingStaged]

\* `uci changes dhcp` lists a staged resolvfile that is the daemon's repoint.
staged_repoints(d) == IsStaged(d, "resolvfile") /\ d.staged["resolvfile"] = "managed"

committed_has_managed_path(d) == d.committed["resolvfile"] = "managed"

effective_noresolv(d) == Effective(d, "noresolv") = "on"

(***************************************************************************)
(* The init script generates the configuration from the effective options: *)
(* `resolv-file=` only when noresolv is off.  dnsmasq reads the files of   *)
(* its confdir, the blocklist among them, when it starts.                  *)
(***************************************************************************)
Generated(d, list) ==
    [resolv   |-> IF effective_noresolv(d) THEN "omitted" ELSE Effective(d, "resolvfile"),
     blocking |-> Effective(d, "confdir") = "nym" /\ list,
     ipset    |-> Effective(d, "ipset")]

generated_conf_points_at(m) == m.conf.resolv = "managed"

restart_dnsmasq(m, d) == [m EXCEPT !.conf = Generated(d, m.list), !.running = TRUE]

\* `reload` regenerates the configuration of a running dnsmasq; a stopped one
\* is started by procd just the same.
reload_dnsmasq(m, d) == restart_dnsmasq(m, d)

Affordable == dhcp.budget > 0
Paid(d) == [d EXCEPT !.budget = @ - 1]

WorkAsked == dhcp.work > 0 /\ dhcp' = [dhcp EXCEPT !.work = @ - 1]

(***************************************************************************)
(* What other programs do: the user sets or clears noresolv (a DoH proxy   *)
(* is installed or removed), leaves an edit staged, presses Save & Apply,  *)
(* which commits everything and restarts dnsmasq; a package restarts,      *)
(* stops or starts dnsmasq.                                                *)
(***************************************************************************)
UserCommitsNoresolv ==
    /\ Affordable
    /\ \E v \in Values.noresolv :
          /\ v # dhcp.committed["noresolv"]
          /\ dhcp' = Paid(uci_revert_option([dhcp EXCEPT !.committed["noresolv"] = v], "noresolv"))
          /\ masq' = restart_dnsmasq(masq, dhcp')

UserStagesEdit ==
    /\ Affordable
    /\ Effective(dhcp, "edit") = "old"
    /\ dhcp' = Paid(uci_set(dhcp, "edit", "new"))
    /\ UNCHANGED masq

UserSavesAndApplies ==
    /\ Affordable
    /\ DOMAIN dhcp.staged # {}
    /\ dhcp' = Paid(uci_commit(dhcp))
    /\ masq' = restart_dnsmasq(masq, dhcp')

OtherRestartsDnsmasq ==
    /\ Affordable
    /\ dhcp' = Paid(dhcp)
    /\ masq' = restart_dnsmasq(masq, dhcp)

DnsmasqStops ==
    /\ Affordable
    /\ masq.running
    /\ dhcp' = Paid(dhcp)
    /\ masq' = [masq EXCEPT !.running = FALSE]

\* Starting it again costs nothing: whatever stops can start.
DnsmasqStarts ==
    /\ ~masq.running
    /\ masq' = restart_dnsmasq(masq, dhcp)
    /\ UNCHANGED dhcp

OtherPrograms ==
    \/ UserCommitsNoresolv \/ UserStagesEdit \/ UserSavesAndApplies
    \/ OtherRestartsDnsmasq \/ DnsmasqStops \/ DnsmasqStarts

\* The boot: everything in /tmp is gone, the staged deltas and the blocklist
\* included, and dnsmasq runs from the committed file.
AfterBoot(d) == [d EXCEPT !.staged = NothingStaged]
DhcpBooted(m, d) == restart_dnsmasq([m EXCEPT !.list = FALSE], d)

DhcpAtBoot(noresolv) == [committed |-> [Stock EXCEPT !.noresolv = noresolv],
                         staged |-> NothingStaged, budget |-> DnsBudget, work |-> DnsWork]

DhcpInit ==
    /\ \E v \in Values.noresolv : dhcp = DhcpAtBoot(v)
    /\ masq = [running |-> TRUE, list |-> FALSE, conf |-> Generated(dhcp, FALSE)]

DhcpTypeOK ==
    /\ dhcp.budget \in 0..DnsBudget /\ dhcp.work \in 0..DnsWork
    /\ \A o \in Options : dhcp.committed[o] \in Values[o]
    /\ \A o \in DOMAIN dhcp.staged : dhcp.staged[o] \in Values[o]
    /\ masq.running \in BOOLEAN /\ masq.list \in BOOLEAN
    /\ masq.conf.resolv \in Values.resolvfile \cup {"omitted"}
    /\ masq.conf.ipset \in Values.ipset
=============================================================================
