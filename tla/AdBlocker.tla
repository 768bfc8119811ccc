----------------------------- MODULE AdBlocker -----------------------------
(***************************************************************************)
(* Ad blocking through dnsmasq (nym-vpnd, adblocker.rs): each explicit     *)
(* toggle bumps a generation on the service loop and spawns a run; the     *)
(* start-up restore is one more run.  Runs take one lock in turn, skip if  *)
(* a newer toggle was made, and abandon a download one supersedes; an      *)
(* install or a removal that has started always completes.                 *)
(***************************************************************************)
EXTENDS Dnsmasq

VARIABLE ad          \* the setting, the generation, the runs, the redirect

\* The first run holds the lock; the others wait for it, in no order anyone can
\* rely on: each is a task of its own.
Holder == Head(ad.runs)
Holding(at) == ad.at = at /\ ad.runs # <<>> /\ dns.at # "down"
RunReleases(a) == [a EXCEPT !.runs = Tail(@), !.at = "lock"]

\* Toggles::toggle and apply_toggle: the setting is saved, older runs are
\* superseded, the new run queues for the lock.
SetEnableAdBlocking(enable) ==
    /\ dns.at # "down"
    /\ WorkAsked
    /\ ad' = [ad EXCEPT !.enabled = enable, !.generation = @ + 1,
                        !.since = dhcp.budget,
                        !.runs = Append(@, [generation |-> ad.generation + 1,
                                            enable |-> enable, restore |-> FALSE])]
    /\ UNCHANGED <<masq, dns, dnsmon, files>>

\* The first step of an install or of a removal.
Begun(run) == IF run.enable THEN "download" ELSE "unredirect"

\* Faulty variant: a run that gets the lock late carries out an older click.
RunStartsStale ==
    /\ Holding("lock")
    /\ \E i \in DOMAIN ad.runs :
          ad' = [ad EXCEPT !.runs = <<@[i]>> \o RemoveAt(@, i), !.at = Begun(ad.runs[i])]
    /\ UNCHANGED <<dhcp, masq, dns, dnsmon, files>>

\* Toggles::run, once it has the lock.
RunStarts ==
    /\ Holding("lock")
    /\ \E i \in DOMAIN ad.runs :
          ad' = IF ad.runs[i].generation # ad.generation
                THEN [ad EXCEPT !.runs = RemoveAt(@, i)]
                ELSE [ad EXCEPT !.runs = <<@[i]>> \o RemoveAt(@, i), !.at = Begun(ad.runs[i])]
    /\ UNCHANGED <<dhcp, masq, dns, dnsmon, files>>

Superseded ==
    /\ Holding("download")
    /\ Holder.generation # ad.generation
    /\ ad' = RunReleases(ad)
    /\ UNCHANGED <<dhcp, masq, dns, dnsmon, files>>

Downloaded ==
    /\ Holding("download")
    /\ ad' = [ad EXCEPT !.at = "write"]
    /\ UNCHANGED <<dhcp, masq, dns, dnsmon, files>>

\* An error ends a toggle's run; the restore releases the lock, sleeps and
\* queues again.
RunFails(a) ==
    IF Holder.restore THEN [a EXCEPT !.runs = Append(Tail(@), Holder), !.at = "lock"]
                      ELSE RunReleases(a)

DownloadFails ==
    /\ Holding("download")
    /\ Affordable /\ dhcp' = Paid(dhcp)
    /\ ad' = RunFails(ad)
    /\ UNCHANGED <<masq, dns, dnsmon, files>>

\* install_blocklist: the file, the confdir, the redirect, the restart.
WriteBlocklist ==
    /\ Holding("write")
    /\ \/ masq' = [masq EXCEPT !.list = TRUE] /\ UNCHANGED dhcp
          /\ ad' = [ad EXCEPT !.at = "confdir"]
       \/ Affordable /\ dhcp' = Paid(dhcp) /\ UNCHANGED masq
          /\ ad' = RunFails(ad)
    /\ UNCHANGED <<dns, dnsmon, files>>

\* ensure_dnsmasq_confdir stages the option and has the actor commit it; the
\* failure of either is only logged.
ensure_dnsmasq_confdir ==
    /\ Holding("confdir")
    /\ IF Effective(dhcp, "confdir") = "nym"
       THEN ad' = [ad EXCEPT !.at = "redirect"] /\ UNCHANGED <<dhcp, dnsmon>>
       ELSE /\ dhcp' = uci_set(dhcp, "confdir", "nym") \/ (Affordable /\ dhcp' = Paid(dhcp))
            /\ dnsmon' = [dnsmon EXCEPT !.commit = "asked"]
            /\ ad' = [ad EXCEPT !.at = "committing"]
    /\ UNCHANGED <<masq, dns, files>>

ConfdirCommitted ==
    /\ Holding("committing")
    /\ dnsmon.commit = "answered"
    /\ dnsmon' = [dnsmon EXCEPT !.commit = "none"]
    /\ ad' = [ad EXCEPT !.at = "redirect"]
    /\ UNCHANGED <<dhcp, masq, dns, files>>

\* A refused rule is only logged, a command that cannot be run ends the run.
install_dns_redirect ==
    /\ Holding("redirect")
    /\ \/ ad' = [ad EXCEPT !.redirect = TRUE, !.at = "restart"] /\ UNCHANGED dhcp
       \/ /\ Affordable /\ dhcp' = Paid(dhcp)
          /\ ad' \in {RunFails(ad), [ad EXCEPT !.at = "restart"]}
    /\ UNCHANGED <<masq, dns, dnsmon, files>>

\* remove_adblock: the redirect first, best effort, then the file; without a
\* file dnsmasq is not restarted.
remove_dns_redirect ==
    /\ Holding("unredirect")
    /\ \/ ad' = [ad EXCEPT !.redirect = FALSE, !.at = "remove"] /\ UNCHANGED dhcp
       \/ Affordable /\ dhcp' = Paid(dhcp) /\ ad' = [ad EXCEPT !.at = "remove"]
    /\ UNCHANGED <<masq, dns, dnsmon, files>>

RemoveBlocklist ==
    /\ Holding("remove")
    /\ \/ /\ masq' = [masq EXCEPT !.list = FALSE]
          /\ ad' = IF masq.list THEN [ad EXCEPT !.at = "restart"] ELSE RunReleases(ad)
          /\ UNCHANGED dhcp
       \/ masq.list /\ Affordable /\ dhcp' = Paid(dhcp) /\ ad' = RunFails(ad) /\ UNCHANGED masq
    /\ UNCHANGED <<dns, dnsmon, files>>

\* restart_dnsmasq, the end of an install and of a removal; a script that fails
\* is only logged, one that cannot be run ends the run with an error.
RestartForList ==
    /\ Holding("restart")
    /\ \/ masq' = restart_dnsmasq(masq, dhcp) /\ ad' = RunReleases(ad) /\ UNCHANGED dhcp
       \/ /\ Affordable /\ dhcp' = Paid(dhcp) /\ UNCHANGED masq
          /\ ad' \in {RunReleases(ad), RunFails(ad)}
    /\ UNCHANGED <<dns, dnsmon, files>>

(***************************************************************************)
(* restore_if_enabled when the daemon starts: with the list still in /tmp  *)
(* only the redirect is asserted again, otherwise a restore run is spawned.*)
(***************************************************************************)
restore_if_enabled(a, m) ==
    CASE ~a.enabled -> a
      [] a.enabled /\ m.list  -> [a EXCEPT !.redirect = TRUE]
      [] a.enabled /\ ~m.list ->
            [a EXCEPT !.runs = <<[generation |-> a.generation, enable |-> TRUE,
                                  restore |-> TRUE]>>]

\* A death of the daemon drops its runs and its generation counter.
RunsLost(a) == [a EXCEPT !.runs = <<>>, !.at = "lock", !.generation = 0]

AdSteps ==
    \/ RunStarts \/ Superseded \/ Downloaded \/ DownloadFails \/ WriteBlocklist
    \/ ensure_dnsmasq_confdir \/ ConfdirCommitted \/ install_dns_redirect
    \/ remove_dns_redirect \/ RemoveBlocklist \/ RestartForList

AdNext == AdSteps \/ \E enable \in BOOLEAN : SetEnableAdBlocking(enable)

AdInit ==
    ad = [enabled |-> FALSE, generation |-> 0, runs |-> <<>>, at |-> "lock",
          redirect |-> FALSE, since |-> DnsBudget]

AdTypeOK ==
    /\ ad.generation \in 0..DnsWork /\ Len(ad.runs) <= DnsWork + 1 /\ ad.redirect \in BOOLEAN

\* The last click wins: once the runs have drained, the blocklist, the redirect
\* and what dnsmasq was started with agree with the setting, whatever earlier
\* toggles were queued or downloading when it was made (Toggles::run).  No
\* command failed and nothing else happened to dnsmasq since that click.
LastToggleWins ==
    ad.generation > 0 /\ ad.runs = <<>> /\ ad.since = dhcp.budget =>
        /\ ad.redirect = ad.enabled /\ masq.list = ad.enabled
        /\ masq.running => masq.conf.blocking = ad.enabled

\* A toggle is carried out or superseded in the end: its run never waits for
\* the lock, the download or the actor's commit for ever.
TogglesDrain == ad.runs # <<>> /\ dns.at # "down" ~> ad.runs = <<>> \/ dns.at = "down"
=============================================================================
