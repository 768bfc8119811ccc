------------------------------ MODULE Dnsmasq ------------------------------
(***************************************************************************)
(* The OpenWrt dnsmasq DNS backend (nym-dns, linux/dnsmasq.rs): one actor  *)
(* of the daemon's lifetime owns the managed resolv file and the staged    *)
(* repoint of dnsmasq's `resolvfile` at it.  In front of it, DnsMonitor    *)
(* (linux/mod.rs), which the DNS handler of the tunnel state machine calls *)
(* one request at a time.                                                  *)
(*                                                                         *)
(* An action of the actor is one command of its handler (a uci call, a     *)
(* file rename, an init script call); other programs act in between.       *)
(***************************************************************************)
EXTENDS DhcpConfig

VARIABLES
    dns,      \* the actor
    dnsmon,  \* DnsMonitor and its caller
    files     \* the managed resolv file and netifd's

TunnelServers == <<"tunnel4", "tunnel6">>
LocalResolver == "lan4"
is_ipv4(s) == s \in {"tunnel4", "lan4", "wan4", "other4"}

\* What netifd writes to resolv.conf.auto; the empty list is also the file
\* that is not there yet (wan_snapshot).
WanFiles == {<<>>, <<"wan4">>, <<"lan4", "other4">>}

\* What the system resolver uses while the tunnel is down.
IdleDns == [local_resolvers : {<<>>, <<LocalResolver>>}, killswitch : BOOLEAN]
wan_only == [local_resolvers |-> <<>>, killswitch |-> FALSE]
includes_wan(idle) == ~idle.killswitch \/ idle.local_resolvers = <<>>

prefer_ipv4_upstreams(servers) ==
    LET v4 == SelectSeq(servers, is_ipv4)
    IN  IF v4 = <<>> THEN servers ELSE v4

\* Local resolvers first, then the WAN ones when they can be reached.
idle_snapshot(wan, idle) ==
    LET local == idle.local_resolvers
        Unlisted(s) == s \notin {local[i] : i \in DOMAIN local}
    IN  IF local = <<>> THEN wan
        ELSE local \o (IF includes_wan(idle) THEN SelectSeq(wan, Unlisted) ELSE <<>>)

\* The resolvers dnsmasq forwards to: it follows the file by inotify.
Upstream ==
    CASE masq.conf.resolv = "managed" -> files.managed
      [] masq.conf.resolv = "stock"   -> {files.wan}
      [] OTHER                        -> {<<"user">>}

----------------------------------------------------------------------------
(***************************************************************************)
(* The actor.  `at` is the next command, `then` where a converge returns   *)
(* to, `tries` the restarts this converge has behind it.                   *)
(***************************************************************************)
ActorDown == [at |-> "down", then |-> "none", tries |-> 0, cmd |-> "none", idle |-> wan_only,
         had |-> FALSE, refused |-> FALSE, scheme |-> "none",
         tunnel |-> FALSE, mirrored |-> wan_only, restarts |-> 0, since |-> 0]

NoActor == [ActorDown EXCEPT !.restarts = dns.restarts]

Goto(d, at) == [d EXCEPT !.at = at]

\* write_managed: a temporary file renamed over the managed one.
write_managed(content) == files' = [files EXCEPT !.managed = {content}]

\* ensure_converged: the cached scheme, or a converge that returns to `then`.
ensure_converged(d, then) ==
    IF d.scheme # "none" THEN Goto(d, then)
    ELSE [d EXCEPT !.at = "revert", !.then = then, !.tries = 0]

Converged(scheme) == [dns EXCEPT !.scheme = scheme, !.at = dns.then]

(***************************************************************************)
(* The end of a command: the answer goes back to the caller, and only a    *)
(* success changes the mode.                                               *)
(***************************************************************************)
Answer(ok) ==
    /\ dns' = [dns EXCEPT
          !.at = "idle", !.cmd = "none", !.idle = wan_only, !.had = FALSE,
          !.refused = FALSE, !.then = "none", !.tries = 0, !.since = 0,
          !.tunnel = IF ok /\ dns.cmd = "SetTunnel" THEN TRUE
                     ELSE IF ok /\ dns.cmd = "SetWanMirror" THEN FALSE ELSE @,
          !.mirrored = IF ok /\ dns.cmd = "SetWanMirror" THEN dns.idle ELSE @]
    /\ dnsmon' = IF dns.cmd = "CommitDhcp"
                  THEN [dnsmon EXCEPT !.commit = "answered"]
                  ELSE [dnsmon EXCEPT !.answer = IF ok THEN "ok" ELSE "err"]

\* A converge that fails: logged at start-up, the command's result otherwise.
ConvergeFails ==
    IF dns.cmd = "none"
    THEN dns' = [Goto(dns, "idle") EXCEPT !.then = "none", !.tries = 0] /\ UNCHANGED dnsmon
    ELSE Answer(FALSE)

DnsCommandFails == Affordable /\ dhcp' = Paid(dhcp) /\ UNCHANGED masq

\* run_actor before its loop: the file is seeded, then the first converge.
Boot ==
    /\ dns.at = "boot"
    /\ \/ write_managed(files.wan) /\ UNCHANGED dhcp
       \/ Affordable /\ dhcp' = Paid(dhcp) /\ UNCHANGED files
    /\ dns' = ensure_converged(dns, "idle")
    /\ UNCHANGED <<masq, dnsmon>>

\* converge: the targeted reverts; a revert can fail without saying so.
Revert ==
    /\ dns.at = "revert"
    /\ \/ dhcp' = uci_revert_option(uci_revert_option(dhcp, "noresolv"), "resolvfile")
       \/ Affordable /\ dhcp' = Paid(dhcp)
    /\ dns' = Goto(dns, "repair")
    /\ UNCHANGED <<masq, dnsmon, files>>

\* repair_committed_resolvfile: delete, then commit.
Repair ==
    /\ dns.at = "repair"
    /\ IF committed_has_managed_path(dhcp)
       THEN \/ dhcp' = uci_set(dhcp, "resolvfile", "stock") /\ dns' = Goto(dns, "repaired")
               /\ UNCHANGED <<masq, dnsmon>>
            \/ DnsCommandFails /\ ConvergeFails
       ELSE dns' = Goto(dns, "noresolv") /\ UNCHANGED <<dhcp, masq, dnsmon>>
    /\ UNCHANGED files

RepairCommit ==
    /\ dns.at = "repaired"
    /\ \/ dhcp' = uci_commit(dhcp) /\ dns' = Goto(dns, "noresolv") /\ UNCHANGED <<masq, dnsmon>>
       \/ DnsCommandFails /\ ConvergeFails
    /\ UNCHANGED files

Noresolv ==
    /\ dns.at = "noresolv"
    /\ dns' = IF effective_noresolv(dhcp) THEN Converged("user") ELSE Goto(dns, "stage")
    /\ UNCHANGED <<dhcp, masq, dnsmon, files>>

Stage ==
    /\ dns.at = "stage"
    /\ \/ dhcp' = uci_set(dhcp, "resolvfile", "managed") /\ dns' = Goto(dns, "pointed")
          /\ UNCHANGED <<masq, dnsmon>>
       \/ DnsCommandFails /\ ConvergeFails
    /\ UNCHANGED files

\* A stopped dnsmasq is left stopped; one that points at the file is left alone.
Pointed ==
    /\ dns.at = "pointed"
    /\ dns' = IF ~masq.running \/ generated_conf_points_at(masq)
              THEN Converged("managed") ELSE Goto(dns, "restart")
    /\ UNCHANGED <<dhcp, masq, dnsmon, files>>

ConvergeRestart ==
    /\ dns.at = "restart"
    /\ \/ /\ masq' = restart_dnsmasq(masq, dhcp)
          /\ dns' = [Goto(dns, "recheck") EXCEPT !.restarts = @ + 1, !.tries = @ + 1]
          /\ UNCHANGED <<dhcp, dnsmon>>
       \/ DnsCommandFails /\ ConvergeFails
    /\ UNCHANGED files

Recheck ==
    /\ dns.at = "recheck"
    /\ \/ /\ generated_conf_points_at(masq)
          /\ dns' = Converged("managed") /\ UNCHANGED dnsmon
       \/ /\ ~generated_conf_points_at(masq) /\ dns.tries < 2
          /\ dns' = Goto(dns, "stage") /\ UNCHANGED dnsmon
       \/ /\ ~generated_conf_points_at(masq) /\ dns.tries = 2
          /\ ConvergeFails
    /\ UNCHANGED <<dhcp, masq, files>>

converge_dnsmasq ==
    Revert \/ Repair \/ RepairCommit \/ Noresolv \/ Stage \/ Pointed \/ ConvergeRestart \/ Recheck

----------------------------------------------------------------------------
\* The loop takes the next command.  DnsMonitor's caller and the ad blocker
\* each wait for their answer, so at most one command of each is queued.
Receive ==
    /\ dns.at = "idle"
    /\ \/ /\ dnsmon.request \in {"SetTunnel", "SetWanMirror"} /\ dnsmon.answer = "none"
          /\ LET d == [dns EXCEPT !.cmd = dnsmon.request, !.idle = dnsmon.idle,
                                  !.since = dhcp.budget]
             IN  dns' = IF d.cmd = "SetTunnel" THEN ensure_converged(d, "write")
                        ELSE Goto(d, "write")
          /\ UNCHANGED dnsmon
       \/ /\ dnsmon.commit = "asked"
          /\ dns' = [dns EXCEPT !.cmd = "CommitDhcp", !.at = "changes"]
          /\ UNCHANGED dnsmon
    /\ UNCHANGED <<dhcp, masq, files>>

\* handle_set_tunnel and handle_set_wan write the file.
WriteServers ==
    /\ dns.at = "write"
    /\ \/ /\ write_managed(IF dns.cmd = "SetTunnel" THEN prefer_ipv4_upstreams(TunnelServers)
                           ELSE idle_snapshot(files.wan, dns.idle))
          /\ dns' = Goto(dns, IF dns.cmd = "SetTunnel" THEN "verify" ELSE "flush")
          /\ UNCHANGED <<dhcp, masq, dnsmon>>
       \/ DnsCommandFails /\ Answer(FALSE) /\ UNCHANGED files

\* Faulty variant: the cached scheme is trusted.
VerifyCached ==
    /\ dns.at = "verify"
    /\ dns' = Goto(dns, "flush")
    /\ UNCHANGED <<dhcp, masq, dnsmon, files>>

\* handle_set_tunnel: another program may have regenerated the configuration
\* or cleared noresolv since the converge.
Verify ==
    /\ dns.at = "verify"
    /\ LET current == IF dns.scheme = "managed" THEN generated_conf_points_at(masq)
                      ELSE effective_noresolv(dhcp)
       IN  dns' = IF current THEN Goto(dns, "flush")
                  ELSE ensure_converged([dns EXCEPT !.scheme = "none"], "flush")
    /\ UNCHANGED <<dhcp, masq, dnsmon, files>>

\* flush_cache: SIGHUP to the instance, best effort; then the acknowledgement.
Flush ==
    /\ dns.at = "flush"
    /\ Answer(TRUE)
    /\ UNCHANGED <<dhcp, masq, files>>

\* commit_dhcp_keeping_repoint.
Changes ==
    /\ dns.at = "changes"
    /\ \/ /\ dns' = [dns EXCEPT !.had = staged_repoints(dhcp),
                                !.at = IF staged_repoints(dhcp) THEN "unstage" ELSE "commit"]
          /\ UNCHANGED <<dhcp, masq, dnsmon>>
       \/ DnsCommandFails /\ Answer(FALSE)
    /\ UNCHANGED files

Unstage ==
    /\ dns.at = "unstage"
    /\ \/ dhcp' = uci_revert_option(dhcp, "resolvfile")
       \/ Affordable /\ dhcp' = Paid(dhcp)
    /\ dns' = Goto(dns, "unstaged")
    /\ UNCHANGED <<masq, dnsmon, files>>

\* Commit only once the repoint is really gone from the staged changes.
Unstaged ==
    /\ dns.at = "unstaged"
    /\ \/ /\ dns' = IF staged_repoints(dhcp) THEN [Goto(dns, "restage") EXCEPT !.refused = TRUE]
                    ELSE Goto(dns, "commit")
          /\ UNCHANGED dhcp
       \/ /\ Affordable /\ dhcp' = Paid(dhcp)
          /\ dns' = [Goto(dns, "restage") EXCEPT !.refused = TRUE]
    /\ UNCHANGED <<masq, dnsmon, files>>

CommitDhcp ==
    /\ dns.at = "commit"
    /\ \/ dhcp' = uci_commit(dhcp) /\ dns' = Goto(dns, "restage")
       \/ /\ Affordable /\ dhcp' = Paid(dhcp)
          /\ dns' = [Goto(dns, "restage") EXCEPT !.refused = TRUE]
    /\ UNCHANGED <<masq, dnsmon, files>>

\* Staged again even when the commit failed; a repoint that cannot be staged
\* again is converged back at once (handle_commit_dhcp).
Restage ==
    /\ dns.at = "restage"
    /\ \/ /\ ~dns.had
          /\ Answer(~dns.refused) /\ UNCHANGED <<dhcp, masq>>
       \/ /\ dns.had
          /\ dhcp' = uci_set(dhcp, "resolvfile", "managed")
          /\ Answer(~dns.refused) /\ UNCHANGED masq
       \/ /\ dns.had
          /\ DnsCommandFails
          /\ dns' = ensure_converged([dns EXCEPT !.scheme = "none", !.had = FALSE], "restage")
          /\ UNCHANGED dnsmon
    /\ UNCHANGED files

commit_dhcp == Changes \/ Unstage \/ Unstaged \/ CommitDhcp \/ Restage

\* The 5 s mirror: dropped in tunnel mode, write-if-changed, no flush.
mirror_tick ==
    /\ dns.at = "idle" /\ ~dns.tunnel
    /\ files.managed # {idle_snapshot(files.wan, dns.mirrored)}
    /\ write_managed(idle_snapshot(files.wan, dns.mirrored))
    /\ UNCHANGED <<dhcp, masq, dns, dnsmon>>

----------------------------------------------------------------------------
(***************************************************************************)
(* DnsMonitor, driven by the tunnel state machine's DNS handler: `set` on  *)
(* connecting, `reset` before the interface goes, `reset_idle` on entering *)
(* the disconnected state.  `request` is what the actor is asked, `next`   *)
(* what set() still has to do after its own reset.                         *)
(***************************************************************************)
MonitorFree == dnsmon.request = "none" /\ dns.at # "down"

Ask(request, idle, next) ==
    /\ WorkAsked
    /\ dnsmon' = [dnsmon EXCEPT !.request = request, !.idle = idle, !.next = next,
                                  !.inner = FALSE]

MonitorSet ==
    /\ MonitorFree
    /\ IF dnsmon.inner THEN Ask("SetWanMirror", wan_only, "set")
                        ELSE Ask("SetTunnel", wan_only, "none")
    /\ UNCHANGED <<masq, dns, files>>

MonitorReset ==
    /\ MonitorFree /\ dnsmon.inner
    /\ Ask("SetWanMirror", wan_only, "none")
    /\ UNCHANGED <<masq, dns, files>>

MonitorResetIdle ==
    /\ MonitorFree
    /\ \E idle \in IdleDns : Ask("SetWanMirror", idle, "none")
    /\ UNCHANGED <<masq, dns, files>>

MonitorAnswered ==
    /\ dnsmon.answer # "none"
    /\ dnsmon' =
          IF dnsmon.answer = "ok" /\ dnsmon.next = "set"
          THEN [dnsmon EXCEPT !.request = "SetTunnel", !.next = "none", !.answer = "none"]
          ELSE [dnsmon EXCEPT !.request = "none", !.next = "none", !.answer = "none",
                               !.idle = wan_only,
                               !.inner = dnsmon.request = "SetTunnel" /\ dnsmon.answer = "ok"]
    /\ UNCHANGED <<dhcp, masq, dns, files>>

----------------------------------------------------------------------------
WanChanges ==
    /\ Affordable /\ dhcp' = Paid(dhcp)
    /\ \E w \in WanFiles : w # files.wan /\ files' = [files EXCEPT !.wan = w]
    /\ UNCHANGED <<masq, dns, dnsmon>>

NoMonitor == [dnsmon EXCEPT !.inner = FALSE, !.request = "none", !.idle = wan_only,
                             !.next = "none", !.answer = "none", !.commit = "none"]

DaemonDies ==
    /\ Affordable /\ dhcp' = Paid(dhcp)
    /\ dns.at # "down"
    /\ dns' = NoActor /\ dnsmon' = NoMonitor
    /\ UNCHANGED <<masq, files>>

\* DnsMonitor::new warms the actor up.
DaemonStarts ==
    /\ dns.at = "down"
    /\ dns' = Goto(dns, "boot")
    /\ UNCHANGED <<dhcp, masq, dnsmon, files>>

\* A reboot empties /tmp: the staged deltas and both resolv files.
DnsReboot ==
    /\ Affordable
    /\ dhcp' = Paid(AfterBoot(dhcp)) /\ masq' = DhcpBooted(masq, dhcp')
    /\ dns' = NoActor /\ dnsmon' = NoMonitor
    /\ files' = [managed |-> {}, wan |-> <<>>]

DnsInit ==
    /\ DhcpInit
    /\ dns = ActorDown
    /\ dnsmon = [inner |-> FALSE, request |-> "none", idle |-> wan_only, next |-> "none",
                  answer |-> "none", commit |-> "none"]
    /\ files = [managed |-> {}, wan |-> <<"wan4">>]

ActorNext ==
    \/ Boot \/ converge_dnsmasq \/ Receive \/ WriteServers \/ Verify \/ Flush \/ commit_dhcp
    \/ mirror_tick

MonitorNext == MonitorSet \/ MonitorReset \/ MonitorResetIdle \/ MonitorAnswered

----------------------------------------------------------------------------
DnsTypeOK ==
    /\ DhcpTypeOK
    /\ dns.scheme \in {"none", "managed", "user"}
    /\ dns.tries \in 0..2 /\ dns.tunnel \in BOOLEAN /\ dns.mirrored \in IdleDns
    /\ dnsmon.idle \in IdleDns
    /\ files.wan \in WanFiles

\* Single writer: once a SetTunnel is acknowledged the managed file holds the
\* tunnel's resolvers until a later command replaces them; no tick of the WAN
\* mirror, no failed command and no commit writes over them (run_actor).
TunnelResolversKept ==
    dns.tunnel /\ dns.at = "idle" => files.managed = {prefer_ipv4_upstreams(TunnelServers)}

\* While the tunnel is down the file returns to what the idle setting asks for,
\* local resolvers first and with the kill switch on no WAN resolver, also after
\* a failed SetTunnel that had already written the tunnel's (mirror_tick).
MirrorCatchesUp ==
    dns.at = "idle" /\ ~dns.tunnel ~>
        \/ files.managed = {idle_snapshot(files.wan, dns.mirrored)}
        \/ dns.tunnel \/ dns.at = "down"
=============================================================================
