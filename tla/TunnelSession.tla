--------------------------- MODULE TunnelSession ---------------------------
(***************************************************************************)
(* A WireGuard session once its tunnel is started: the select loop and the *)
(* teardown of the tunnel monitor (tunnel_monitor.rs), the connection      *)
(* monitor that probes the tunnel (nym-connection-monitor), the bandwidth  *)
(* controller that queries and tops up both gateways                       *)
(* (bandwidth_controller.rs), and the streak that decides, from one        *)
(* session to the next, whether a failed bandwidth check may end a         *)
(* session (BandwidthFailureStreak, tunnel_state_machine/mod.rs).          *)
(*                                                                         *)
(* Three tasks and one cancellation token.  The token ends all three; the  *)
(* monitor joins the other two before it reports the tunnel down.          *)
(***************************************************************************)
EXTENDS Naturals, Sequences

CONSTANTS
    ProbeRetries,               \* initial_ and monitoring_probe_retry_count
    QUERY_FAILURES_TO_ESCALATE,
    BANDWIDTH_FAILURE_SESSIONS,
    Outdated,                   \* gateways that do not answer about upgrade mode
    SessionEvents,              \* bound: faults, upgrade-mode changes
    MaxTunnels                  \* bound: sessions

ASSUME SessionAssumption ==
    /\ {ProbeRetries, QUERY_FAILURES_TO_ESCALATE, SessionEvents} \subseteq Nat
    /\ {BANDWIDTH_FAILURE_SESSIONS, MaxTunnels} \subseteq Nat \ {0}

VARIABLES
    prober,   \* the connection monitor and its channel to the tunnel monitor
    bw,       \* the bandwidth controller
    mon,      \* the tunnel monitor
    streak,   \* the state machine's memory across sessions, and history
    around    \* link, gateways, account: what the tasks talk to

sessionVars == <<prober, bw, mon, streak, around>>

Gateways == {"entry", "exit"}
CanHappen == around.events < SessionEvents
Happens == [around EXCEPT !.events = @ + 1]

(***************************************************************************)
(* The connection monitor.                                                 *)
(***************************************************************************)
Viable == <<"viable", 0>>
Failing(n) == <<"failing", n>>
ProbesFailed == <<"failed", 0>>

NewConn == [alive |-> TRUE, phase |-> "initial", retry |-> 0, sent |-> TRUE, events |-> <<>>]

\* IcmpProbe::send (or TcpProbe::send where no ICMP socket can be had): an
\* answer in time, or a failure whatever the error.
ProbeReaches == around.link

\* A success resets the retries, switches to the monitoring phase and
\* reports; the next probe waits for the period.
ProbeSucceeds ==
    /\ prober.alive /\ prober.sent /\ ProbeReaches
    /\ prober' = [prober EXCEPT !.phase = "monitoring", !.retry = 0, !.sent = FALSE,
                  !.events = Append(@, Viable)]
    /\ UNCHANGED <<bw, mon, streak, around>>

\* Faulty variant: the retries are counted from the last failure reported.
ProbeFailsAfresh ==
    /\ prober.alive /\ prober.sent /\ ~ProbeReaches
    /\ prober' = [prober EXCEPT !.retry = 0, !.sent = FALSE, !.events = Append(@, Failing(1))]
    /\ UNCHANGED <<bw, mon, streak, around>>

\* A timeout or a socket error.  The counter saturates; past the retries of
\* the phase every further failure is reported as the end.
ProbeFails ==
    /\ prober.alive /\ prober.sent /\ ~ProbeReaches
    /\ LET retry == IF prober.retry > ProbeRetries THEN prober.retry ELSE prober.retry + 1 IN
       prober' = [prober EXCEPT !.retry = retry, !.sent = FALSE,
                  !.events = Append(@, IF retry > ProbeRetries THEN ProbesFailed ELSE Failing(retry))]
    /\ UNCHANGED <<bw, mon, streak, around>>

NextProbe ==
    /\ prober.alive /\ ~prober.sent /\ Len(prober.events) < 2
    /\ prober' = [prober EXCEPT !.sent = TRUE]
    /\ UNCHANGED <<bw, mon, streak, around>>

ConnCancelled ==
    /\ prober.alive /\ mon.cancelled
    /\ prober' = [prober EXCEPT !.alive = FALSE]
    /\ UNCHANGED <<bw, mon, streak, around>>

(***************************************************************************)
(* The bandwidth controller.                                               *)
(***************************************************************************)
NotChecking == <<"idle", "none">>
ChecksOver == <<"done", "none">>

NewHealth == [answered |-> FALSE, toppedUp |-> FALSE, fails |-> 0, grace |-> TRUE]

NewBw(ends) ==
    [at |-> NotChecking, health |-> [g \in Gateways |-> NewHealth], stopped |-> FALSE,
     endSession |-> ends, failure |-> {}, hadWorked |-> {}, reply |-> "off", um |-> FALSE]

Running == ~bw.stopped /\ ~mon.cancelled

\* fail: keep the first reason; end the session, or only the checks.
fail(b, blame, had) ==
    [b EXCEPT !.hadWorked = IF @ = {} THEN {had} ELSE @,
              !.failure = IF b.endSession /\ @ = {} THEN {blame} ELSE @,
              !.stopped = TRUE]

Cancelling(b) == mon' = [mon EXCEPT !.cancelled = @ \/ (b.stopped /\ b.endSession)]

\* check_both: the entry, then the exit.
After(g) == IF g = "entry" THEN <<"query", "exit">> ELSE NotChecking

check_both ==
    /\ bw.at = NotChecking /\ Running
    /\ bw' = [bw EXCEPT !.at = <<"query", "entry">>]
    /\ UNCHANGED <<prober, mon, streak, around>>

\* handle_bandwidth_query_error: two failures in a row end it for a side that
\* has answered before; a side that never has must fail for the grace too.
handle_bandwidth_query_error(g) ==
    /\ bw.at = <<"query", g>> /\ Running /\ (CanHappen \/ around.silent[g])
    /\ LET n == IF bw.health[g].fails < QUERY_FAILURES_TO_ESCALATE
                THEN bw.health[g].fails + 1 ELSE bw.health[g].fails
           h == [bw.health[g] EXCEPT !.fails = n]
           b == [bw EXCEPT !.health[g] = h, !.at = After(g)]
           over == n >= QUERY_FAILURES_TO_ESCALATE /\ (h.answered \/ ~h.grace)
       IN /\ bw' = IF over THEN fail(b, g, h.answered) ELSE b
          /\ Cancelling(bw')
    /\ around' = IF around.silent[g] THEN around ELSE Happens
    /\ UNCHANGED <<prober, streak>>

\* FIRST_ANSWER_GRACE has passed since the first of the current failures.
GraceEnds(g) ==
    /\ bw.health[g].grace /\ bw.health[g].fails > 0
    /\ bw' = [bw EXCEPT !.health[g].grace = FALSE]
    /\ UNCHANGED <<prober, mon, streak, around>>

\* handle_bandwidth_query, up to the first await: the answer is recorded, and
\* with enough bandwidth left that is all.
QueryAnswered(g) ==
    /\ bw.at = <<"query", g>> /\ Running /\ ~around.silent[g]
    /\ \E enough \in BOOLEAN :
         bw' = [bw EXCEPT !.health[g] = [@ EXCEPT !.answered = TRUE, !.fails = 0, !.grace = TRUE],
                  !.at = IF enough THEN After(g) ELSE <<"mode", g>>,
                  !.reply = IF enough THEN "off" ELSE around.mode[g]]
    /\ UNCHANGED <<prober, mon, streak, around>>

\* ... then the upgrade mode: what the gateway answered against what the
\* account controller says now.  A gateway that has not heard of it is asked
\* to look again, and may fail to; one that has left it ends it for the
\* account.  A gateway in upgrade mode needs no top-up.
recheck(g, heard) ==
    [around EXCEPT !.mode[g] = IF heard /\ around.upgrading /\ @ = "off" THEN "on" ELSE @]

UpgradeMode(g) ==
    /\ bw.at = <<"mode", g>> /\ Running
    /\ bw' = [bw EXCEPT !.um = @ \/ bw.reply = "on", !.reply = "off",
                !.at = IF bw.reply = "on" THEN After(g) ELSE <<"top_up", g>>]
    /\ \E heard \in BOOLEAN :
         around' = IF bw.reply # "off" \/ ~around.attested THEN around
                   ELSE IF bw.um THEN [around EXCEPT !.attested = FALSE]
                   ELSE recheck(g, heard)
    /\ UNCHANGED <<prober, mon, streak>>

\* send_disable_upgrade_mode fails: the session must not go on.
DisableFails(g) ==
    /\ bw.at = <<"mode", g>> /\ Running /\ bw.reply = "off" /\ around.attested /\ bw.um /\ CanHappen
    /\ bw' = fail([bw EXCEPT !.at = After(g), !.reply = "off"], "none", FALSE)
    /\ Cancelling(bw')
    /\ around' = Happens
    /\ UNCHANGED <<prober, streak>>

\* top_up_bandwidth: accepted; no ticket to spend; or refused by the gateway,
\* unanswered included.
top_up_bandwidth == {"accepted"} \cup (IF CanHappen THEN {"no_ticket", "refused"} ELSE {})

\* Without a ticket the next check tries again; a refusal ends it.
TopUp(g) ==
    /\ bw.at = <<"top_up", g>> /\ Running
    /\ \E outcome \in top_up_bandwidth :
         LET b == [bw EXCEPT !.at = After(g)] IN
         /\ bw' = CASE outcome = "accepted"  -> [b EXCEPT !.health[g].toppedUp = TRUE]
                    [] outcome = "no_ticket" -> b
                    [] outcome = "refused"   -> fail(b, g, bw.health[g].toppedUp)
         /\ around' = IF outcome = "accepted" THEN around ELSE Happens
         /\ Cancelling(bw')
    /\ UNCHANGED <<prober, streak>>

\* run: the token, or the failure's own stop, ends the loop; a check that is
\* waiting for an answer is dropped where it stands.
BwEnds ==
    /\ bw.at # ChecksOver /\ ~Running
    /\ bw' = [bw EXCEPT !.at = ChecksOver]
    /\ UNCHANGED <<prober, mon, streak, around>>

checks_worked ==
    IF bw.hadWorked # {} THEN TRUE \in bw.hadWorked
    ELSE \A g \in Gateways : bw.health[g].answered

(***************************************************************************)
(* The tunnel monitor.                                                     *)
(***************************************************************************)
NewMon == [at |-> "loop", last |-> <<"none", 0>>, up |-> FALSE, cancelled |-> FALSE,
           sent |-> <<>>, report |-> {}, user |-> FALSE]

\* A repeated status is ignored; the first viable one announces the tunnel, a
\* failed one ends the loop.
ReadStatus ==
    /\ mon.at = "loop" /\ prober.events # <<>>
    /\ LET e == Head(prober.events) IN
       mon' = IF e = mon.last THEN mon
              ELSE [mon EXCEPT !.last = e,
                      !.up = @ \/ e = Viable,
                      !.sent = CASE e = Viable /\ ~mon.up -> Append(@, "Up")
                                 [] e = ProbesFailed -> Append(@, "ConnectionFailed")
                                 [] OTHER -> @,
                      !.at = IF e = ProbesFailed THEN "teardown" ELSE @]
    /\ prober' = [prober EXCEPT !.events = Tail(@)]
    /\ UNCHANGED <<bw, streak, around>>

\* The other branches: the bridge or the mixnet client is gone, or the token.
LoopEnds ==
    /\ mon.at = "loop"
    /\ \/ /\ mon.cancelled /\ UNCHANGED around
       \/ /\ CanHappen /\ around' = Happens
    /\ mon' = [mon EXCEPT !.at = "teardown"]
    /\ UNCHANGED <<prober, bw, streak>>

DropGuard ==
    /\ mon.at = "teardown"
    /\ mon' = [mon EXCEPT !.at = "await_bandwidth", !.cancelled = TRUE]
    /\ UNCHANGED <<prober, bw, streak, around>>

\* report_bandwidth_checks: no blame while the probes are failing.
tunnel_failing == mon.last[1] \in {"failing", "failed"}

report_bandwidth_checks ==
    /\ mon.at = "await_bandwidth" /\ bw.at = ChecksOver
    /\ mon' = [mon EXCEPT !.at = "await_probe",
         !.report = {[failure |-> IF tunnel_failing THEN {} ELSE bw.failure, worked |-> checks_worked]}]
    /\ UNCHANGED <<prober, bw, streak, around>>

AwaitProbe ==
    /\ mon.at = "await_probe" /\ ~prober.alive
    /\ mon' = [mon EXCEPT !.at = "down"]
    /\ UNCHANGED <<prober, bw, streak, around>>

(***************************************************************************)
(* The state machine's side: the streak, and the next session.             *)
(***************************************************************************)
ends_sessions(n) == n < BANDWIDTH_FAILURE_SESSIONS

\* Faulty variant: only failures of checks that worked are counted.
record_failureWorked(n, worked) == IF worked THEN n + 1 ELSE n

record_failure(n, worked) == (IF worked THEN 0 ELSE n) + 1
record_other_end(n, worked) == IF worked THEN 0 ELSE n

Report == CHOOSE r \in mon.report : TRUE

\* History: the checks themselves ended this session, over a tunnel that
\* passed its probes; and they had worked.
Ended == bw.failure # {} /\ ~tunnel_failing /\ ~mon.user
Worked == IF bw.hadWorked = {} THEN \A g \in Gateways : bw.health[g].answered ELSE TRUE \in bw.hadWorked

\* Down: handle_tunnel_down (or Connecting's own handler) counts the session
\* and starts the next, which may be ended by its checks only while the
\* streak is short.
TunnelDown ==
    /\ mon.at = "down" /\ streak.tunnels < MaxTunnels
    /\ LET n == IF mon.user THEN 0
                ELSE IF Report.failure # {} THEN record_failure(streak.count, Report.worked)
                ELSE record_other_end(streak.count, Report.worked)
       IN /\ streak' = [count |-> n, tunnels |-> streak.tunnels + 1,
                        ended |-> (IF mon.user \/ Worked THEN 0 ELSE streak.ended)
                                    + (IF Ended THEN 1 ELSE 0)]
          /\ bw' = NewBw(ends_sessions(n))
    /\ prober' = NewConn /\ mon' = NewMon
    /\ UNCHANGED around

\* Disconnect: the session's token; the Disconnected state forgets the streak.
UserDisconnects ==
    /\ mon.at = "loop" /\ ~mon.user /\ CanHappen
    /\ mon' = [mon EXCEPT !.cancelled = TRUE, !.user = TRUE]
    /\ around' = Happens
    /\ UNCHANGED <<prober, bw, streak>>

(***************************************************************************)
(* The outside: the link, a gateway that stops answering, upgrade mode.    *)
(***************************************************************************)
LinkFlips == /\ CanHappen /\ around' = [Happens EXCEPT !.link = ~@]
             /\ UNCHANGED <<prober, bw, mon, streak>>

GatewaySilent(g) ==
    /\ CanHappen /\ ~around.silent[g]
    /\ around' = [Happens EXCEPT !.silent[g] = TRUE]
    /\ UNCHANGED <<prober, bw, mon, streak>>

\* Upgrade mode is declared; each gateway, and the account, learns of it in
\* its own time.  It ends for the gateways that knew of it.
UpgradeStarts ==
    /\ CanHappen /\ ~around.upgrading
    /\ around' = [Happens EXCEPT !.upgrading = TRUE]
    /\ UNCHANGED <<prober, bw, mon, streak>>

UpgradeLearned ==
    /\ around.upgrading
    /\ \/ \E g \in Gateways : around.mode[g] = "off" /\ around' = [around EXCEPT !.mode[g] = "on"]
       \/ ~around.attested /\ around' = [around EXCEPT !.attested = TRUE]
    /\ UNCHANGED <<prober, bw, mon, streak>>

UpgradeEnds ==
    /\ CanHappen /\ around.upgrading
    /\ around' = [Happens EXCEPT !.upgrading = FALSE,
                   !.mode = [g \in Gateways |-> IF @[g] = "on" THEN "off" ELSE @[g]]]
    /\ UNCHANGED <<prober, bw, mon, streak>>

(***************************************************************************)
(* Specification.                                                          *)
(***************************************************************************)
SessionInit ==
    /\ prober = NewConn /\ bw = NewBw(TRUE) /\ mon = NewMon
    /\ streak = [count |-> 0, tunnels |-> 1, ended |-> 0]
    /\ around = [link |-> TRUE, silent |-> [g \in Gateways |-> FALSE], events |-> 0,
                upgrading |-> FALSE, attested |-> FALSE,
                mode |-> [g \in Gateways |-> IF g \in Outdated THEN "unsupported" ELSE "off"]]

ConnNext == ProbeSucceeds \/ ProbeFails \/ NextProbe \/ ConnCancelled

BwNext ==
    \/ check_both \/ BwEnds
    \/ \E g \in Gateways : \/ handle_bandwidth_query_error(g) \/ GraceEnds(g) \/ QueryAnswered(g)
                           \/ UpgradeMode(g) \/ DisableFails(g) \/ TopUp(g)

MonNext == ReadStatus \/ LoopEnds \/ DropGuard \/ report_bandwidth_checks \/ AwaitProbe \/ TunnelDown

WorldNext == \/ UserDisconnects \/ LinkFlips \/ UpgradeStarts \/ UpgradeLearned \/ UpgradeEnds
             \/ \E g \in Gateways : GatewaySilent(g)

SessionNext == ConnNext \/ BwNext \/ MonNext \/ WorldNext

\* The three tasks are scheduled; timers fire; the grace is a clock.
SessionFairSteps == {"connection", "monitor", "cancelled", "status", "bandwidth", "ends"} \cup Gateways

SessionFair(s) ==
    \/ s = "connection" /\ ConnNext
    \/ s = "monitor" /\ MonNext
    \/ s = "cancelled" /\ ConnCancelled
    \/ s = "status" /\ ReadStatus
    \/ s = "bandwidth" /\ BwNext
    \/ s = "ends" /\ BwEnds
    \/ s \in Gateways /\ GraceEnds(s)

SessionFairness == \A s \in SessionFairSteps : WF_sessionVars(SessionFair(s))

SessionSpec == SessionInit /\ [][SessionNext]_sessionVars /\ SessionFairness

(***************************************************************************)
(* Properties.                                                             *)
(***************************************************************************)
\* Types: counters stay within their limits, and the tunnel is up only once the
\* connection monitor is past its first probe (connection_monitor.rs).
SessionTypeOK ==
    /\ prober.phase \in {"initial", "monitoring"} /\ prober.retry \in 0..(ProbeRetries + 1)
    /\ Len(prober.events) <= 2
    /\ bw.failure \in SUBSET (Gateways \cup {"none"}) /\ bw.hadWorked \in SUBSET BOOLEAN
    /\ \A g \in Gateways : bw.health[g].fails \in 0..QUERY_FAILURES_TO_ESCALATE
    /\ mon.at \in {"loop", "teardown", "await_bandwidth", "await_probe", "down"}
    /\ streak.tunnels \in 1..MaxTunnels
    /\ mon.up => prober.phase = "monitoring"

\* "after BANDWIDTH_FAILURE_SESSIONS later sessions are no longer ended by a
\* failed check": the checks never end more sessions than that in a row unless
\* one in between had working checks or the user disconnected.
ChurnBounded == streak.ended <= BANDWIDTH_FAILURE_SESSIONS

\* One side's answers never cost the other its grace: a gateway blamed for not
\* answering had answered before, or had been given FIRST_ANSWER_GRACE.
SilentSideHasGrace ==
    \A g \in bw.failure \cap Gateways :
        \/ bw.health[g].answered
        \/ bw.health[g].fails >= QUERY_FAILURES_TO_ESCALATE /\ ~bw.health[g].grace

\* What the state machine is told is final: a tunnel that went up and failed
\* is reported in that order and once, and the outcome of the checks is
\* reported when no task can change it any more.
ReportsFinal ==
    /\ mon.sent \in {<<>>, <<"Up">>, <<"ConnectionFailed">>, <<"Up", "ConnectionFailed">>}
    /\ mon.report # {} => bw.at = ChecksOver /\ Report.worked = checks_worked
    /\ mon.at = "down" => mon.report # {} /\ ~prober.alive /\ mon.cancelled

\* A tunnel that stops passing traffic does not stay up.
DeadLinkEnds == []<>(around.link \/ mon.at # "loop")

\* A gateway that stops answering ends the session, while sessions may be
\* ended.
SilentGatewayEnds ==
    []<>((\A g \in Gateways : ~around.silent[g]) \/ ~bw.endSession \/ mon.at # "loop")

\* A cancelled session is torn down: no task waits for another for ever.
CancelJoins == mon.cancelled ~> mon.at = "down"

\* What the checks may do to sessions, and what the state machine is told.
SessionCorrect == SessionTypeOK /\ ChurnBounded /\ SilentSideHasGrace /\ ReportsFinal

\* A dead or cancelled session ends: the three facts above.
SessionProgress == DeadLinkEnds /\ SilentGatewayEnds /\ CancelJoins
=============================================================================
