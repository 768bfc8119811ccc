---------------------------- MODULE SessionProofs ----------------------------
(***************************************************************************)
(* Proofs about a session: its bandwidth meter (DepletionRate) and its     *)
(* three tasks with the streak across sessions (TunnelSession).            *)
(***************************************************************************)
EXTENDS DepletionRate, TunnelSession, TLAPS

(***************************************************************************)
(* The meter.                                                              *)
(***************************************************************************)
Periods == {DEFAULT_CHECK, UPPER_BOUND_CHECK}
Sides == [available : 0..(Word - 1), rate : Nat \ {0}]

\* The inductive invariant: the meter as a record, with a rate that can be
\* divided by, and what the property says.
MeterInv ==
    /\ meter \in [side : [Peers -> Sides], left : [Peers -> Int], checks : Int,
                  short : SUBSET Peers, period : Periods]
    /\ LastsUntilNextCheck

\* Division rounds down.
LEMMA DivisionBounds ==
    ASSUME NEW n \in Nat, NEW d \in Nat \ {0}
    PROVE  n \div d \in Nat /\ d * (n \div d) <= n
BY SMT

\* The cast of what is left gives a word, and no more than is left.
LEMMA CastBounds ==
    ASSUME NEW n \in Int
    PROVE  as_u64(n) \in 0..(Word - 1) /\ (n >= 0 => as_u64(n) <= n)
BY DepletionAssumption DEF as_u64

\* The least of some periods is one of them.
LEMMA MinIs ==
    ASSUME NEW S \in SUBSET Periods, S # {}
    PROVE  Min(S) \in S /\ \A y \in S : Min(S) <= y
<1>1. \E x \in S : \A y \in S : x <= y
    <2>1. \A y \in S : y = DEFAULT_CHECK \/ y = UPPER_BOUND_CHECK
        BY DEF Periods
    <2>2. /\ DEFAULT_CHECK <= UPPER_BOUND_CHECK /\ DEFAULT_CHECK <= DEFAULT_CHECK
          /\ UPPER_BOUND_CHECK <= UPPER_BOUND_CHECK
        BY DEF DEFAULT_CHECK, UPPER_BOUND_CHECK
    <2>3. CASE DEFAULT_CHECK \in S
        BY <2>1, <2>2, <2>3
    <2>4. CASE DEFAULT_CHECK \notin S
        BY <2>1, <2>2, <2>4
    <2>5. QED
        BY <2>3, <2>4
<1>2. QED
    BY <1>1 DEF Min

\* One side of a check: the next period is one of two, or it is time to buy;
\* and a side told to wait for the longer one can last it.
LEMMA UpdateIs ==
    ASSUME NEW m \in Sides, NEW period \in Periods, NEW remaining \in 0..(Word - 1)
    PROVE  LET u == update_dynamic_check_interval(m, period, remaining) IN
           /\ u.meter \in Sides /\ u.meter.available = remaining
           /\ u.next \in {{}, {DEFAULT_CHECK}, {UPPER_BOUND_CHECK}}
           /\ u.next = {UPPER_BOUND_CHECK} => u.meter.rate * UPPER_BOUND_CHECK <= remaining
<1> DEFINE used == IF m.available > remaining THEN (m.available - remaining) \div period ELSE 0
           rate == IF used = 0 THEN m.rate ELSE used
           left == remaining \div rate
           checks == left \div period
           next == IF used = 0 THEN {DEFAULT_CHECK}
                   ELSE IF checks < ChecksBeforeDepletion \/ remaining < MINIMUM_REMAINING THEN {}
                   ELSE IF left > UPPER_BOUND_CHECK THEN {UPPER_BOUND_CHECK}
                   ELSE IF left < DEFAULT_CHECK THEN {DEFAULT_CHECK}
                   ELSE {checks}
           side == [m EXCEPT !.available = remaining, !.rate = rate]
<1>1. update_dynamic_check_interval(m, period, remaining) = [meter |-> side, next |-> next]
    BY DEF update_dynamic_check_interval
<1>2. /\ m.available \in Nat /\ m.rate \in Nat \ {0} /\ remaining \in Nat /\ period \in Nat \ {0}
      /\ period \in {5, 30}
    BY DepletionAssumption DEF Sides, Periods, DEFAULT_CHECK, UPPER_BOUND_CHECK
<1>3. used \in Nat
    <2>1. CASE m.available > remaining
        <3>1. m.available - remaining \in Nat
            BY <1>2, <2>1
        <3>2. QED
            BY <1>2, <2>1, <3>1, DivisionBounds
    <2>2. QED
        BY <2>1
<1>4. rate \in Nat \ {0}
    BY <1>2, <1>3
<1>5. side \in Sides /\ side.available = remaining /\ side.rate = rate
    BY <1>4 DEF Sides
<1>6. left \in Nat /\ rate * left <= remaining
    BY <1>2, <1>4, DivisionBounds
<1>7. checks \in Nat /\ period * checks <= left
    BY <1>2, <1>6, DivisionBounds
<1> HIDE DEF used, rate, left, checks, side
<1>8. left > 30 => rate * 30 <= remaining
    <2>1. SUFFICES ASSUME left > 30 PROVE rate * 30 <= remaining
        OBVIOUS
    <2>2. rate * 30 <= rate * left
        BY <1>4, <1>6, <2>1
    <2>3. QED
        BY <1>2, <1>4, <1>6, <2>2
<1>9. checks >= 10 => left > 30
    BY <1>2, <1>6, <1>7
<1>10. /\ next \in {{}, {DEFAULT_CHECK}, {UPPER_BOUND_CHECK}}
       /\ next = {UPPER_BOUND_CHECK} => rate * UPPER_BOUND_CHECK <= remaining
    BY <1>3, <1>6, <1>7, <1>8, <1>9
    DEF DEFAULT_CHECK, UPPER_BOUND_CHECK, ChecksBeforeDepletion, MINIMUM_REMAINING
<1> HIDE DEF next
<1>11. QED
    BY <1>1, <1>5, <1>10

\* The period is never zero, and a side told to wait lasts until the next
\* check, for every size of a ticket, every consumption and every word
\* (DepletionRate and check_both of bandwidth_controller.rs).
THEOREM MeterAlwaysCorrect == MeterSpec => []MeterCorrect
<1>1. MeterInit => MeterInv
    BY DepletionAssumption
    DEF MeterInit, MeterInv, Sides, Periods, LastsUntilNextCheck, DEFAULT_CHECK,
        UPPER_BOUND_CHECK, DEFAULT_DEPLETION_RATE
<1>2. ASSUME MeterInv, MeterNext PROVE MeterInv'
    <2>1. PICK used \in [Peers -> Consumptions], bought \in SUBSET Peers :
              check_both_sides(used, bought)
        BY <1>2 DEF MeterNext, CheckBoth
    <2> DEFINE left == [p \in Peers |-> meter.left[p] - used[p]]
               result == [p \in Peers |->
                   update_dynamic_check_interval(meter.side[p], meter.period, as_u64(left[p]))]
               short == {p \in Peers : result[p].next = {}}
               next == UNION {result[p].next : p \in Peers}
    <2>2. /\ bought \subseteq short
          /\ meter' = [meter EXCEPT
                !.side = [p \in Peers |-> result[p].meter],
                !.left = [p \in Peers |-> left[p] + (IF p \in bought THEN Ticket ELSE 0)],
                !.checks = @ + 1,
                !.short = short,
                !.period = IF next = {} THEN @ ELSE Min(next)]
        BY <2>1 DEF check_both_sides
    <2>3. ASSUME NEW p \in Peers
          PROVE  /\ left[p] \in Int
                 /\ result[p].meter \in Sides /\ result[p].meter.available = as_u64(left[p])
                 /\ result[p].next \in {{}, {DEFAULT_CHECK}, {UPPER_BOUND_CHECK}}
                 /\ result[p].next = {UPPER_BOUND_CHECK}
                      => result[p].meter.rate * UPPER_BOUND_CHECK <= as_u64(left[p])
                 /\ as_u64(left[p]) \in Nat /\ (left[p] >= 0 => as_u64(left[p]) <= left[p])
        <3>1. meter.left[p] \in Int /\ meter.side[p] \in Sides /\ meter.period \in Periods
            BY <1>2 DEF MeterInv
        <3>2. used[p] \in Nat
            BY DepletionAssumption
        <3>3. left[p] \in Int
            BY <3>1, <3>2
        <3> HIDE DEF left
        <3>4. as_u64(left[p]) \in 0..(Word - 1) /\ (left[p] >= 0 => as_u64(left[p]) <= left[p])
            BY <3>3, CastBounds
        <3>5. result[p] = update_dynamic_check_interval(meter.side[p], meter.period, as_u64(left[p]))
            OBVIOUS
        <3> HIDE DEF result
        <3>6. as_u64(left[p]) \in Nat
            BY <3>4, DepletionAssumption
        <3>7. QED
            BY <3>1, <3>3, <3>4, <3>5, <3>6, UpdateIs
    <2> HIDE DEF left, result
    <2>4. /\ next \in SUBSET Periods
          /\ \A p \in Peers : result[p].next \subseteq next
        BY <2>3 DEF Periods
    <2> HIDE DEF next
    <2>5. (IF next = {} THEN meter.period ELSE Min(next)) \in Periods
        BY <1>2, <2>4, MinIs DEF MeterInv
    <2>6. [p \in Peers |-> left[p] + (IF p \in bought THEN Ticket ELSE 0)] \in [Peers -> Int]
        BY <2>3, DepletionAssumption
    <2>7. [p \in Peers |-> result[p].meter] \in [Peers -> Sides]
        BY <2>3
    <2>8. meter' \in [side : [Peers -> Sides], left : [Peers -> Int], checks : Int,
                      short : SUBSET Peers, period : Periods]
        <3> DEFINE sides == [p \in Peers |-> result[p].meter]
                   lefts == [p \in Peers |-> left[p] + (IF p \in bought THEN Ticket ELSE 0)]
                   checks == meter.checks + 1
                   period == IF next = {} THEN meter.period ELSE Min(next)
        <3>1. /\ meter \in [side : [Peers -> Sides], left : [Peers -> Int], checks : Int,
                            short : SUBSET Peers, period : Periods]
              /\ meter' = [meter EXCEPT !.side = sides, !.left = lefts, !.checks = checks, !.short = short,
                                        !.period = period]
            BY <1>2, <2>2 DEF MeterInv
        <3>2. /\ sides \in [Peers -> Sides] /\ lefts \in [Peers -> Int] /\ short \in SUBSET Peers
              /\ period \in Periods
            BY <2>5, <2>6, <2>7
        <3>3. checks \in Int
            BY <3>1
        <3> HIDE DEF sides, lefts, checks, short, period
        <3>4. QED
            BY <3>1, <3>2, <3>3
    <2>9. LastsUntilNextCheck'
        <3>1. SUFFICES ASSUME NEW p \in Peers, p \notin meter'.short, meter'.left[p] >= 0,
                              meter'.period = UPPER_BOUND_CHECK
                       PROVE  meter'.left[p] >= meter'.side[p].rate * meter'.period
            BY DEF LastsUntilNextCheck
        <3>2. /\ meter'.short = short /\ meter'.side[p] = result[p].meter
              /\ meter'.left[p] = left[p] + (IF p \in bought THEN Ticket ELSE 0)
              /\ meter'.period = IF next = {} THEN meter.period ELSE Min(next)
            BY <1>2, <2>2 DEF MeterInv
        <3>3. p \notin bought /\ result[p].next # {} /\ meter'.left[p] = left[p]
            BY <2>2, <2>3, <3>1, <3>2
        <3>4. next # {} /\ Min(next) = UPPER_BOUND_CHECK
            BY <2>4, <3>1, <3>2, <3>3
        <3>5. DEFAULT_CHECK \notin next
            BY <2>4, <3>4, MinIs DEF DEFAULT_CHECK, UPPER_BOUND_CHECK
        <3>6. result[p].next = {UPPER_BOUND_CHECK}
            BY <2>3, <2>4, <3>3, <3>5
        <3>7. /\ result[p].meter.rate * UPPER_BOUND_CHECK <= as_u64(left[p])
              /\ as_u64(left[p]) <= left[p] /\ left[p] \in Int /\ as_u64(left[p]) \in Nat
              /\ result[p].meter.rate \in Nat
            BY <2>3, <3>1, <3>3, <3>6 DEF Sides
        <3>8. QED
            BY <3>1, <3>2, <3>3, <3>7 DEF UPPER_BOUND_CHECK
    <2>10. QED
        BY <2>8, <2>9 DEF MeterInv
<1>3. MeterInv => MeterCorrect
    BY DEF MeterInv, MeterCorrect, MeterTypeOK, PeriodNeverZero, Periods, Sides, DEFAULT_CHECK,
           UPPER_BOUND_CHECK
<1>4. MeterInv /\ UNCHANGED meter => MeterInv'
    BY DEF MeterInv, LastsUntilNextCheck
<1>5. QED
    BY <1>1, <1>2, <1>3, <1>4, PTL DEF MeterSpec

(***************************************************************************)
(* The session's tasks.                                                    *)
(***************************************************************************)
Statuses == {"none", "viable", "failing", "failed"} \X Nat
BwSteps == {NotChecking, ChecksOver} \cup ({"query", "mode", "top_up"} \X Gateways)
Healths == [answered : BOOLEAN, toppedUp : BOOLEAN, fails : Nat, grace : BOOLEAN]
Blames == Gateways \cup {"none"}
Modes == {"on", "off", "unsupported"}
Sents == {<<>>, <<"Up">>, <<"ConnectionFailed">>, <<"Up", "ConnectionFailed">>}

ProberType == [alive : BOOLEAN, phase : {"initial", "monitoring"}, retry : Nat, sent : BOOLEAN,
               events : Seq(Statuses)]
BwType == [at : BwSteps, health : [Gateways -> Healths], stopped : BOOLEAN, endSession : BOOLEAN,
           failure : SUBSET Blames, hadWorked : SUBSET BOOLEAN, reply : Modes, um : BOOLEAN]
MonType == [at : {"loop", "teardown", "await_bandwidth", "await_probe", "down"}, last : Statuses,
            up : BOOLEAN, cancelled : BOOLEAN, sent : Sents,
            report : SUBSET [failure : SUBSET Blames, worked : BOOLEAN], user : BOOLEAN]
AroundType == [link : BOOLEAN, silent : [Gateways -> BOOLEAN], events : Nat, upgrading : BOOLEAN,
               attested : BOOLEAN, mode : [Gateways -> Modes]]

\* The connection monitor: a probe is sent only with room for its outcome, and
\* it has left the first phase once it said that the tunnel is viable.
ProberOK(p, up) ==
    /\ p \in ProberType /\ p.retry <= ProbeRetries + 1
    /\ Len(p.events) <= (IF p.sent THEN 1 ELSE 2)
    /\ (up \/ \E i \in 1..Len(p.events) : p.events[i] = Viable) => p.phase = "monitoring"

\* A gateway is blamed for a query with its grace over or answered before, or
\* for a top-up, which follows an answer.
Blamable(h) == h.answered \/ (h.fails >= QUERY_FAILURES_TO_ESCALATE /\ ~h.grace)

\* The bandwidth controller, in a session with n failures before it.
BwOK(b, n) ==
    /\ b \in BwType
    /\ b.endSession = (n < BANDWIDTH_FAILURE_SESSIONS)
    /\ b.failure # {} => b.endSession /\ b.stopped
    /\ \A g \in Gateways :
         /\ b.health[g].fails <= QUERY_FAILURES_TO_ESCALATE
         /\ b.at \in {<<"mode", g>>, <<"top_up", g>>} => b.health[g].answered
         /\ g \in b.failure => Blamable(b.health[g])

WorkedOf(b) ==
    IF b.hadWorked # {} THEN TRUE \in b.hadWorked ELSE \A g \in Gateways : b.health[g].answered
ReportOf(m, b) ==
    [failure |-> IF m.last[1] \in {"failing", "failed"} THEN {} ELSE b.failure,
     worked |-> WorkedOf(b)]

\* The tunnel monitor: it reports on checks that are over.
MonOK(m, b, p) ==
    /\ m \in MonType
    /\ m.at = "loop" => m.sent = IF m.up THEN <<"Up">> ELSE <<>>
    /\ m.at \in {"await_bandwidth", "await_probe", "down"} => m.cancelled
    /\ m.at \in {"await_probe", "down"} => b.at = ChecksOver /\ m.report = {ReportOf(m, b)}
    /\ m.at \notin {"await_probe", "down"} => m.report = {}
    /\ m.at = "down" => ~p.alive

\* The streak counts exactly the sessions the checks have ended.
StreakOK(s) ==
    /\ s \in [count : Nat, tunnels : 1..MaxTunnels, ended : Nat]
    /\ s.ended = s.count /\ s.count <= BANDWIDTH_FAILURE_SESSIONS

\* The inductive invariant.
SessionInv ==
    /\ ProberOK(prober, mon.up) /\ BwOK(bw, streak.count) /\ MonOK(mon, bw, prober)
    /\ StreakOK(streak) /\ around \in AroundType

\* A new session satisfies it.
LEMMA NewSession ==
    ASSUME NEW n \in Nat
    PROVE  /\ ProberOK(NewConn, FALSE) /\ NewMon.up = FALSE
           /\ BwOK(NewBw(ends_sessions(n)), n)
           /\ \A b, p : MonOK(NewMon, b, p)
<1>1. NewConn \in ProberType /\ NewConn.events = <<>> /\ NewConn.retry = 0 /\ NewConn.sent
    BY DEF NewConn, ProberType, Statuses
<1>2. ProberOK(NewConn, FALSE)
    BY <1>1, SessionAssumption DEF ProberOK
<1>3. NewBw(ends_sessions(n)) \in BwType
    BY DEF NewBw, NewHealth, BwType, BwSteps, Healths, Modes, ends_sessions
<1>4. BwOK(NewBw(ends_sessions(n)), n)
    BY <1>3, SessionAssumption DEF BwOK, NewBw, NewHealth, ends_sessions, NotChecking
<1>5. NewMon \in MonType
    BY DEF NewMon, MonType, Statuses, Sents
<1>6. ASSUME NEW b, NEW p PROVE MonOK(NewMon, b, p)
    BY <1>5 DEF MonOK, NewMon
<1>7. QED
    BY <1>2, <1>4, <1>6 DEF NewMon

\* The invariant holds when a session starts.
LEMMA SessionInvInit == SessionInit => SessionInv
<1> SUFFICES ASSUME SessionInit PROVE SessionInv
    OBVIOUS
<1>1. TRUE = ends_sessions(0)
    BY SessionAssumption DEF ends_sessions
<1>2. around \in AroundType
    BY DEF SessionInit, AroundType, Modes
<1>3. StreakOK(streak) /\ streak.count = 0
    BY SessionAssumption DEF SessionInit, StreakOK
<1>4. QED
    BY <1>1, <1>2, <1>3, NewSession DEF SessionInit, SessionInv

\* The connection monitor's steps.
LEMMA ConnStep ==
    ASSUME SessionInv, ConnNext
    PROVE  SessionInv'
<1>1. /\ prober \in ProberType /\ ProberOK(prober, mon.up)
      /\ UNCHANGED <<bw, mon, streak, around>> /\ mon.up \in BOOLEAN
    BY DEF SessionInv, ProberOK, MonOK, MonType, ConnNext, ProbeSucceeds, ProbeFails, NextProbe, ConnCancelled
<1>2. prober.alive /\ (mon.at = "down" => ~prober.alive)
    BY DEF SessionInv, MonOK, ConnNext, ProbeSucceeds, ProbeFails, NextProbe, ConnCancelled
<1>3. SUFFICES ProberOK(prober', mon.up)
    BY <1>1, <1>2 DEF SessionInv, MonOK
<1>4. ASSUME NEW e \in Statuses, NEW phase \in {"initial", "monitoring"}, NEW retry \in Nat,
             retry <= ProbeRetries + 1, prober.sent,
             e = Viable => phase = "monitoring",
             prober.phase = "monitoring" => phase = "monitoring",
             prober' = [prober EXCEPT !.phase = phase, !.retry = retry, !.sent = FALSE,
                                      !.events = Append(@, e)]
      PROVE  ProberOK(prober', mon.up)
    <2>1. Len(prober.events) \in Nat /\ Len(prober.events) <= 1 /\ prober.events \in Seq(Statuses)
        BY <1>1, <1>4 DEF ProberOK, ProberType
    <2>2. /\ prober' \in ProberType /\ prober'.phase = phase /\ prober'.retry = retry
          /\ prober'.sent = FALSE /\ prober'.events = Append(prober.events, e)
        <3> DEFINE events == Append(prober.events, e)
        <3>1. events \in Seq(Statuses)
            BY <1>4, <2>1
        <3>2. prober' = [prober EXCEPT !.phase = phase, !.retry = retry, !.sent = FALSE, !.events = events]
            BY <1>1, <1>4 DEF ProberType
        <3> HIDE DEF events
        <3>3. prober' \in ProberType
            BY <1>1, <1>4, <3>1, <3>2 DEF ProberType
        <3>4. /\ prober'.phase = phase /\ prober'.retry = retry /\ prober'.sent = FALSE
              /\ prober'.events = events
            BY <1>1, <3>2 DEF ProberType
        <3>5. QED
            BY <3>3, <3>4 DEF events
    <2>3. Len(prober'.events) <= 2
        BY <1>4, <2>1, <2>2
    <2>4. (mon.up \/ \E i \in 1..Len(prober'.events) : prober'.events[i] = Viable)
            => phase = "monitoring"
        BY <1>1, <1>4, <2>1, <2>2 DEF ProberOK
    <2>5. QED
        BY <1>4, <2>2, <2>3, <2>4 DEF ProberOK
<1>5. CASE ProbeSucceeds
    <2>1. /\ prober.sent
          /\ prober' = [prober EXCEPT !.phase = "monitoring", !.retry = 0, !.sent = FALSE,
                                      !.events = Append(@, Viable)]
        BY <1>5 DEF ProbeSucceeds
    <2>2. Viable \in Statuses
        BY DEF Viable, Statuses
    <2>3. 0 \in Nat /\ 0 <= ProbeRetries + 1
        BY SessionAssumption
    <2>4. QED
        BY <1>4, <2>1, <2>2, <2>3
<1>6. CASE ProbeFails
    <2> DEFINE retry == IF prober.retry > ProbeRetries THEN prober.retry ELSE prober.retry + 1
               e == IF retry > ProbeRetries THEN ProbesFailed ELSE Failing(retry)
    <2>1. retry \in Nat /\ retry <= ProbeRetries + 1
        BY <1>1, SessionAssumption DEF ProberOK, ProberType
    <2>2. e \in Statuses /\ e # Viable
        BY <2>1 DEF ProbesFailed, Failing, Viable, Statuses
    <2>3. /\ prober.sent
          /\ prober' = [prober EXCEPT !.phase = prober.phase, !.retry = retry, !.sent = FALSE,
                                      !.events = Append(@, e)]
        BY <1>1, <1>6 DEF ProbeFails, ProberType
    <2>4. prober.phase \in {"initial", "monitoring"}
        BY <1>1 DEF ProberType
    <2> HIDE DEF retry, e
    <2>5. QED
        BY <1>4, <2>1, <2>2, <2>3, <2>4
<1>7. CASE NextProbe
    <2>1. prober' = [prober EXCEPT !.sent = TRUE] /\ Len(prober.events) < 2
        BY <1>7 DEF NextProbe
    <2>2. prober' \in ProberType
        BY <1>1, <2>1 DEF ProberType
    <2>3. /\ prober'.sent /\ prober'.events = prober.events /\ prober'.retry = prober.retry
          /\ prober'.phase = prober.phase
        BY <1>1, <2>1 DEF ProberType
    <2>4. Len(prober.events) \in Nat
        BY <1>1 DEF ProberType
    <2>5. QED
        BY <1>1, <2>1, <2>2, <2>3, <2>4 DEF ProberOK
<1>8. CASE ConnCancelled
    BY <1>1, <1>8 DEF ConnCancelled, ProberOK, ProberType
<1>9. QED
    BY <1>5, <1>6, <1>7, <1>8 DEF ConnNext

\* A step of the bandwidth controller, while neither it nor the session is
\* over: it may cancel the session.
LEMMA BwMoves ==
    ASSUME SessionInv, Running, BwOK(bw', streak.count), NEW c \in BOOLEAN,
           mon' = [mon EXCEPT !.cancelled = c] \/ mon' = mon,
           around' \in AroundType, UNCHANGED <<prober, streak>>
    PROVE  SessionInv'
<1>1. mon \in MonType /\ MonOK(mon, bw, prober) /\ ~mon.cancelled
    BY DEF SessionInv, MonOK, Running
<1>2. mon.at \in {"loop", "teardown"}
    BY <1>1 DEF MonOK, MonType
<1>3. /\ mon' \in MonType /\ mon'.at = mon.at /\ mon'.sent = mon.sent /\ mon'.up = mon.up
      /\ mon'.report = mon.report
    BY <1>1 DEF MonType
<1>4. MonOK(mon', bw', prober)
    BY <1>1, <1>2, <1>3 DEF MonOK
<1>5. QED
    BY <1>3, <1>4 DEF SessionInv

\* fail keeps what the controller's part says.
LEMMA FailIs ==
    ASSUME NEW n \in Nat, NEW b, BwOK(b, n), b.failure = {}, NEW blame \in Blames, NEW had \in BOOLEAN,
           blame \in Gateways => Blamable(b.health[blame])
    PROVE  BwOK(fail(b, blame, had), n)
<1> DEFINE x == fail(b, blame, had)
<1>1. b \in BwType
    BY DEF BwOK
<1>2. x \in BwType
    BY <1>1 DEF fail, BwType
<1>3. /\ x.at = b.at /\ x.health = b.health /\ x.endSession = b.endSession /\ x.stopped
      /\ x.failure = IF b.endSession THEN {blame} ELSE {}
    BY <1>1 DEF fail, BwType
<1> HIDE DEF x
<1>4. BwOK(x, n)
    BY <1>2, <1>3 DEF BwOK
<1>5. QED
    BY <1>4 DEF x

Turned(b, g, h, at, reply, um) ==
    [b EXCEPT !.health = [b.health EXCEPT ![g] = h], !.at = at, !.reply = reply, !.um = um]

\* A turn of the controller's check of g that keeps its health within what
\* BwOK says of it.
LEMMA TurnIs ==
    ASSUME NEW n \in Nat, NEW b, BwOK(b, n), b.failure = {}, NEW g \in Gateways, NEW at \in BwSteps,
           NEW h \in Healths, h.fails <= QUERY_FAILURES_TO_ESCALATE,
           at \in {<<"mode", g>>, <<"top_up", g>>} => h.answered,
           \A o \in Gateways \ {g} : at \notin {<<"mode", o>>, <<"top_up", o>>},
           NEW reply \in Modes, NEW um \in BOOLEAN, NEW x,
           x = Turned(b, g, h, at, reply, um)
    PROVE  BwOK(x, n) /\ x.failure = {} /\ x.health[g] = h /\ x.endSession = b.endSession /\ x.stopped = b.stopped
<1>1. b \in BwType /\ b.health \in [Gateways -> Healths]
    BY DEF BwOK, BwType
<1>2. [b.health EXCEPT ![g] = h] \in [Gateways -> Healths]
    BY <1>1
<1>3. x \in BwType
    BY <1>1, <1>2 DEF BwType, Turned
<1>4. /\ x.at = at /\ x.health = [b.health EXCEPT ![g] = h] /\ x.failure = {}
      /\ x.endSession = b.endSession /\ x.stopped = b.stopped
    BY <1>1 DEF BwType, Turned
<1>5. /\ x.health[g] = h
      /\ \A o \in Gateways \ {g} : x.health[o] = b.health[o]
    BY <1>1, <1>4
<1>6. BwOK(x, n)
    BY <1>3, <1>4, <1>5 DEF BwOK
<1>7. QED
    BY <1>4, <1>5, <1>6

\* Where a check goes on after g.
LEMMA AfterIs ==
    ASSUME NEW g \in Gateways
    PROVE  /\ After(g) \in BwSteps /\ <<"mode", g>> \in BwSteps /\ <<"top_up", g>> \in BwSteps
           /\ \A o \in Gateways : /\ After(g) \notin {<<"mode", o>>, <<"top_up", o>>}
                                  /\ o # g => /\ <<"mode", g>> \notin {<<"mode", o>>, <<"top_up", o>>}
                                              /\ <<"top_up", g>> \notin {<<"mode", o>>, <<"top_up", o>>}
BY DEF After, BwSteps, NotChecking, Gateways

\* The bandwidth controller's steps.
LEMMA BwStep ==
    ASSUME SessionInv, BwNext
    PROVE  SessionInv'
<1>1. /\ bw \in BwType /\ BwOK(bw, streak.count) /\ MonOK(mon, bw, prober) /\ mon \in MonType
      /\ streak.count \in Nat /\ around \in AroundType
    BY DEF SessionInv, BwOK, MonOK, StreakOK
<1>2. /\ bw.health \in [Gateways -> Healths] /\ bw.reply \in Modes /\ bw.um \in BOOLEAN /\ bw.at \in BwSteps
      /\ bw.stopped \in BOOLEAN /\ bw.endSession \in BOOLEAN
    BY <1>1 DEF BwType
<1>3. Happens \in AroundType
    BY <1>1 DEF Happens, AroundType
<1>4. ASSUME Running PROVE bw.failure = {} /\ ~bw.stopped
    BY <1>1, <1>4 DEF Running, BwOK
<1>5. ASSUME Cancelling(bw'), BwOK(bw', streak.count)
      PROVE  \E c \in BOOLEAN : mon' = [mon EXCEPT !.cancelled = c]
    <2> DEFINE c == mon.cancelled \/ (bw'.stopped /\ bw'.endSession)
    <2>1. c \in BOOLEAN
        OBVIOUS
    <2>2. mon' = [mon EXCEPT !.cancelled = c]
        BY <1>5 DEF Cancelling
    <2>3. QED
        BY <2>1, <2>2
<1>6. CASE check_both
    <2>1. bw' \in BwType
        BY <1>1, <1>6 DEF check_both, BwType, BwSteps, Gateways
    <2>2. bw' = [bw EXCEPT !.at = <<"query", "entry">>] /\ Running /\ UNCHANGED <<prober, mon, streak, around>>
        BY <1>6 DEF check_both
    <2>3. BwOK(bw', streak.count)
        BY <1>1, <2>1, <2>2 DEF BwOK, BwType
    <2>4. QED
        BY <1>1, <2>2, <2>3, BwMoves
<1>7. CASE BwEnds
    <2>1. bw' = [bw EXCEPT !.at = ChecksOver] /\ bw.at # ChecksOver /\ UNCHANGED <<prober, mon, streak, around>>
        BY <1>7 DEF BwEnds
    <2>2. bw' \in BwType
        BY <1>1, <2>1 DEF BwType, BwSteps
    <2>3. BwOK(bw', streak.count)
        BY <1>1, <2>1, <2>2 DEF BwOK, BwType, ChecksOver
    <2>4. MonOK(mon, bw', prober)
        BY <1>1, <2>1 DEF MonOK
    <2>5. QED
        BY <2>1, <2>3, <2>4 DEF SessionInv
<1>8. ASSUME NEW g \in Gateways, handle_bandwidth_query_error(g) PROVE SessionInv'
    <2> DEFINE n == IF bw.health[g].fails < QUERY_FAILURES_TO_ESCALATE
                    THEN bw.health[g].fails + 1 ELSE bw.health[g].fails
               h == [bw.health[g] EXCEPT !.fails = n]
               b == [bw EXCEPT !.health[g] = h, !.at = After(g)]
               over == n >= QUERY_FAILURES_TO_ESCALATE /\ (h.answered \/ ~h.grace)
    <2>1. /\ Running /\ bw' = (IF over THEN fail(b, g, h.answered) ELSE b) /\ Cancelling(bw')
          /\ around' \in AroundType /\ UNCHANGED <<prober, streak>>
        BY <1>1, <1>3, <1>8 DEF handle_bandwidth_query_error
    <2>2. bw.health[g] \in Healths /\ bw.health[g].fails <= QUERY_FAILURES_TO_ESCALATE
        BY <1>1, <1>2 DEF BwOK
    <2>3. /\ h \in Healths /\ h.fails = n /\ n <= QUERY_FAILURES_TO_ESCALATE
        BY <2>2, SessionAssumption DEF Healths
    <2>4. b = Turned(bw, g, h, After(g), bw.reply, bw.um)
        BY <1>1, <1>2 DEF BwType, Turned
    <2> DEFINE at == After(g)
    <2>a. at \in BwSteps /\ \A o \in Gateways : at \notin {<<"mode", o>>, <<"top_up", o>>}
        BY AfterIs
    <2>b. b = Turned(bw, g, h, at, bw.reply, bw.um) /\ h.fails <= QUERY_FAILURES_TO_ESCALATE
        BY <2>3, <2>4
    <2> HIDE DEF n, h, b, at
    <2>5. BwOK(b, streak.count) /\ b.failure = {} /\ b.health[g] = h
        BY <1>1, <1>2, <1>4, <2>1, <2>3, <2>a, <2>b, TurnIs
    <2>6. over => Blamable(b.health[g]) /\ h.answered \in BOOLEAN
        BY <2>3, <2>5 DEF Blamable, Healths
    <2>7. BwOK(bw', streak.count)
        BY <1>1, <2>1, <2>5, <2>6, FailIs DEF Blames
    <2>8. QED
        BY <1>5, <2>1, <2>7, BwMoves
<1>9. ASSUME NEW g \in Gateways, GraceEnds(g) PROVE SessionInv'
    <2> DEFINE h == [bw.health[g] EXCEPT !.grace = FALSE]
    <2>1. bw' = [bw EXCEPT !.health[g].grace = FALSE] /\ UNCHANGED <<prober, mon, streak, around>>
        BY <1>9 DEF GraceEnds
    <2>2. bw' = [bw EXCEPT !.health = [bw.health EXCEPT ![g] = h]]
        BY <2>1
    <2>3. bw.health[g] \in Healths
        BY <1>2
    <2>4. /\ h \in Healths /\ h.answered = bw.health[g].answered /\ h.fails = bw.health[g].fails /\ ~h.grace
        BY <2>3 DEF Healths
    <2> HIDE DEF h
    <2>5. [bw.health EXCEPT ![g] = h] \in [Gateways -> Healths]
        BY <1>2, <2>4
    <2>6. bw' \in BwType
        BY <1>1, <2>2, <2>5 DEF BwType
    <2>7. /\ bw'.health = [bw.health EXCEPT ![g] = h] /\ bw'.at = bw.at /\ bw'.failure = bw.failure
          /\ bw'.endSession = bw.endSession /\ bw'.stopped = bw.stopped /\ bw'.hadWorked = bw.hadWorked
        BY <1>1, <2>2 DEF BwType
    <2>8. \A o \in Gateways : /\ bw'.health[o].answered = bw.health[o].answered
                              /\ bw'.health[o].fails = bw.health[o].fails
                              /\ bw'.health[o].grace => bw.health[o].grace
        BY <1>2, <2>4, <2>7
    <2>9. \A o \in Gateways : Blamable(bw.health[o]) => Blamable(bw'.health[o])
        BY <2>8 DEF Blamable
    <2>10. BwOK(bw', streak.count)
        BY <1>1, <2>6, <2>7, <2>8, <2>9 DEF BwOK
    <2>11. ReportOf(mon, bw') = ReportOf(mon, bw)
        BY <2>7, <2>8 DEF ReportOf, WorkedOf
    <2>12. MonOK(mon, bw', prober)
        BY <1>1, <2>7, <2>11 DEF MonOK
    <2>13. QED
        BY <2>1, <2>10, <2>12 DEF SessionInv
<1>10. ASSUME NEW g \in Gateways, QueryAnswered(g) PROVE SessionInv'
    <2> DEFINE h == [bw.health[g] EXCEPT !.answered = TRUE, !.fails = 0, !.grace = TRUE]
    <2>1. PICK enough \in BOOLEAN :
              bw' = [bw EXCEPT !.health[g] = [@ EXCEPT !.answered = TRUE, !.fails = 0, !.grace = TRUE],
                       !.at = IF enough THEN After(g) ELSE <<"mode", g>>,
                       !.reply = IF enough THEN "off" ELSE around.mode[g]]
        BY <1>10 DEF QueryAnswered
    <2> DEFINE at == IF enough THEN After(g) ELSE <<"mode", g>>
               reply == IF enough THEN "off" ELSE around.mode[g]
    <2>2. Running /\ UNCHANGED <<prober, mon, streak, around>>
        BY <1>10 DEF QueryAnswered
    <2>3. bw' = Turned(bw, g, h, at, reply, bw.um)
        BY <1>1, <1>2, <2>1 DEF BwType, Turned
    <2>4. bw.health[g] \in Healths
        BY <1>2
    <2>5. h \in Healths /\ h.answered /\ h.fails = 0
        BY <2>4 DEF Healths
    <2>6. reply \in Modes
        BY <1>1 DEF AroundType, Modes
    <2>7. at \in BwSteps /\ \A o \in Gateways \ {g} : at \notin {<<"mode", o>>, <<"top_up", o>>}
        BY AfterIs
    <2> HIDE DEF h, at, reply
    <2>8. BwOK(bw', streak.count)
        BY <1>1, <1>2, <1>4, <2>2, <2>3, <2>5, <2>6, <2>7, SessionAssumption, TurnIs
    <2>9. QED
        BY <1>1, <2>2, <2>8, BwMoves
<1>11. ASSUME NEW g \in Gateways, UpgradeMode(g) PROVE SessionInv'
    <2> DEFINE at == IF bw.reply = "on" THEN After(g) ELSE <<"top_up", g>>
               um == bw.um \/ bw.reply = "on"
    <2>1. /\ Running /\ bw.at = <<"mode", g>> /\ UNCHANGED <<prober, mon, streak>>
          /\ bw' = [bw EXCEPT !.um = um, !.reply = "off", !.at = at]
        BY <1>11 DEF UpgradeMode
    <2>2. PICK heard \in BOOLEAN :
              around' = IF bw.reply # "off" \/ ~around.attested THEN around
                        ELSE IF bw.um THEN [around EXCEPT !.attested = FALSE]
                        ELSE recheck(g, heard)
        BY <1>11 DEF UpgradeMode
    <2>3. recheck(g, heard) \in AroundType /\ [around EXCEPT !.attested = FALSE] \in AroundType
        BY <1>1 DEF recheck, AroundType, Modes
    <2>4. around' \in AroundType
        BY <1>1, <2>2, <2>3
    <2>5. bw.health[g] \in Healths /\ bw.health[g].fails <= QUERY_FAILURES_TO_ESCALATE /\ bw.health[g].answered
        BY <1>1, <1>2, <2>1 DEF BwOK
    <2>6. bw' = Turned(bw, g, bw.health[g], at, "off", um)
        <3>1. bw.health = [bw.health EXCEPT ![g] = bw.health[g]]
            BY <1>2
        <3>2. QED
            BY <1>1, <2>1, <3>1 DEF BwType, Turned
    <2>7. at \in BwSteps /\ \A o \in Gateways \ {g} : at \notin {<<"mode", o>>, <<"top_up", o>>}
        BY AfterIs
    <2>8. um \in BOOLEAN /\ "off" \in Modes
        BY DEF Modes
    <2> HIDE DEF at, um
    <2>9. BwOK(bw', streak.count)
        BY <1>1, <1>4, <2>1, <2>5, <2>6, <2>7, <2>8, TurnIs
    <2>10. QED
        BY <2>1, <2>4, <2>9, BwMoves
<1>12. ASSUME NEW g \in Gateways, DisableFails(g) PROVE SessionInv'
    <2> DEFINE b == [bw EXCEPT !.at = After(g), !.reply = "off"]
    <2>1. /\ Running /\ bw' = fail(b, "none", FALSE) /\ Cancelling(bw') /\ around' = Happens
          /\ UNCHANGED <<prober, streak>>
        BY <1>12 DEF DisableFails
    <2>2. b \in BwType
        BY <1>1, AfterIs DEF BwType, Modes
    <2>3. BwOK(b, streak.count) /\ b.failure = {}
        <3>1. /\ b.at = After(g) /\ b.health = bw.health /\ b.failure = bw.failure /\ b.stopped = bw.stopped
              /\ b.endSession = bw.endSession
            BY <1>1 DEF BwType
        <3> HIDE DEF b
        <3>2. QED
            BY <1>1, <1>4, <2>1, <2>2, <3>1, AfterIs DEF BwOK
    <2> HIDE DEF b
    <2>4. BwOK(bw', streak.count)
        BY <1>1, <2>1, <2>3, FailIs DEF Blames, Gateways
    <2>5. QED
        BY <1>3, <1>5, <2>1, <2>4, BwMoves
<1>13. ASSUME NEW g \in Gateways, TopUp(g) PROVE SessionInv'
    <2> DEFINE b == [bw EXCEPT !.at = After(g)]
    <2>1. PICK outcome \in top_up_bandwidth :
              /\ bw' = CASE outcome = "accepted"  -> [b EXCEPT !.health[g].toppedUp = TRUE]
                         [] outcome = "no_ticket" -> b
                         [] outcome = "refused"   -> fail(b, g, bw.health[g].toppedUp)
              /\ around' = IF outcome = "accepted" THEN around ELSE Happens
              /\ Cancelling(bw')
        BY <1>13 DEF TopUp
    <2>2. outcome \in {"accepted", "no_ticket", "refused"}
        BY DEF top_up_bandwidth
    <2>3. Running /\ bw.at = <<"top_up", g>> /\ UNCHANGED <<prober, streak>> /\ around' \in AroundType
        BY <1>1, <1>3, <1>13, <2>1 DEF TopUp
    <2>4. bw.health[g] \in Healths /\ bw.health[g].fails <= QUERY_FAILURES_TO_ESCALATE /\ bw.health[g].answered
        BY <1>1, <1>2, <2>3 DEF BwOK
    <2> DEFINE h == [bw.health[g] EXCEPT !.toppedUp = TRUE]
    <2>5. h \in Healths /\ h.fails = bw.health[g].fails
        BY <2>4 DEF Healths
    <2>6. /\ b = Turned(bw, g, bw.health[g], After(g), bw.reply, bw.um)
          /\ [b EXCEPT !.health[g].toppedUp = TRUE]
               = Turned(bw, g, h, After(g), bw.reply, bw.um)
        <3>1. bw.health = [bw.health EXCEPT ![g] = bw.health[g]]
            BY <1>2
        <3>2. QED
            BY <1>1, <3>1 DEF BwType, Turned
    <2>7. BwOK(b, streak.count) /\ b.failure = {} /\ b.health[g] = bw.health[g]
        <3> DEFINE at == After(g)
        <3>1. at \in BwSteps /\ \A o \in Gateways : at \notin {<<"mode", o>>, <<"top_up", o>>}
            BY AfterIs
        <3>2. b = Turned(bw, g, bw.health[g], at, bw.reply, bw.um)
            BY <2>6
        <3> HIDE DEF b, at
        <3>3. QED
            BY <1>1, <1>2, <1>4, <2>3, <2>4, <3>1, <3>2, TurnIs
    <2>8. BwOK([b EXCEPT !.health[g].toppedUp = TRUE], streak.count)
        <3> DEFINE x == [b EXCEPT !.health[g].toppedUp = TRUE]
        <3>1. x = Turned(bw, g, h, After(g), bw.reply, bw.um)
            BY <2>6
        <3> HIDE DEF x, h, b
        <3>2. BwOK(x, streak.count)
            BY <1>1, <1>2, <1>4, <2>3, <2>4, <2>5, <3>1, AfterIs, TurnIs
        <3>3. QED
            BY <3>2 DEF x
    <2> HIDE DEF b, h
    <2>9. BwOK(fail(b, g, bw.health[g].toppedUp), streak.count)
        <3>1. Blamable(b.health[g]) /\ bw.health[g].toppedUp \in BOOLEAN
            BY <2>4, <2>7 DEF Blamable, Healths
        <3>2. QED
            BY <1>1, <2>7, <3>1, FailIs DEF Blames
    <2>10. BwOK(bw', streak.count)
        BY <2>1, <2>2, <2>7, <2>8, <2>9
    <2>11. QED
        BY <1>5, <2>1, <2>3, <2>10, BwMoves
<1>14. QED
    BY <1>6, <1>7, <1>8, <1>9, <1>10, <1>11, <1>12, <1>13 DEF BwNext

\* Short sequences.
LEMMA AppendOne == \A x : Append(<<>>, x) = <<x>>
OBVIOUS

\* And the second element.
LEMMA AppendTwo ==
    ASSUME NEW x, NEW y
    PROVE  Append(<<x>>, y) = <<x, y>>
<1> DEFINE s == Append(<<x>>, y)
           t == <<x, y>>
<1>1. <<x>> \in Seq({x, y}) /\ Len(<<x>>) = 1 /\ <<x>>[1] = x
    OBVIOUS
<1>2. s \in Seq({x, y}) /\ Len(s) = 2 /\ s[1] = x /\ s[2] = y
    BY <1>1
<1>3. t \in Seq({x, y}) /\ Len(t) = 2 /\ t[1] = x /\ t[2] = y
    OBVIOUS
<1> HIDE DEF s, t
<1>4. s = t
    BY <1>2, <1>3
<1>5. QED
    BY <1>4 DEF s, t

\* Whether the checks worked is a Boolean.
LEMMA WorkedIs == ASSUME NEW b PROVE WorkedOf(b) \in BOOLEAN
<1>1. CASE b.hadWorked # {}
    <2>1. WorkedOf(b) = (TRUE \in b.hadWorked)
        BY <1>1 DEF WorkedOf
    <2>2. QED
        BY <2>1
<1>2. CASE b.hadWorked = {}
    <2>1. WorkedOf(b) = (\A g \in Gateways : b.health[g].answered)
        BY <1>2 DEF WorkedOf
    <2>2. QED
        BY <2>1
<1>3. QED
    BY <1>1, <1>2

\* The tunnel monitor's steps.
LEMMA MonStep ==
    ASSUME SessionInv, MonNext
    PROVE  SessionInv'
<1>1. /\ mon \in MonType /\ MonOK(mon, bw, prober) /\ ProberOK(prober, mon.up) /\ BwOK(bw, streak.count)
      /\ prober \in ProberType /\ StreakOK(streak) /\ around \in AroundType
    BY DEF SessionInv, MonOK, ProberOK
<1>2. CASE ReadStatus
    <2> DEFINE e == Head(prober.events)
               up == mon.up \/ e = Viable
               sent == CASE e = Viable /\ ~mon.up -> Append(mon.sent, "Up")
                         [] e = ProbesFailed -> Append(mon.sent, "ConnectionFailed")
                         [] OTHER -> mon.sent
               at == IF e = ProbesFailed THEN "teardown" ELSE mon.at
               next == [mon EXCEPT !.last = e, !.up = up, !.sent = sent, !.at = at]
    <2>1. /\ mon.at = "loop" /\ prober.events # <<>> /\ UNCHANGED <<bw, streak, around>>
          /\ mon' = IF e = mon.last THEN mon ELSE next
          /\ prober' = [prober EXCEPT !.events = Tail(@)]
        BY <1>2 DEF ReadStatus
    <2>2. /\ prober.events \in Seq(Statuses) /\ Len(prober.events) > 0 /\ e \in Statuses
          /\ e = prober.events[1]
        BY <1>1, <2>1 DEF ProberType
    <2>3. /\ prober' \in ProberType /\ prober'.events = Tail(prober.events) /\ prober'.alive = prober.alive
          /\ prober'.phase = prober.phase /\ prober'.retry = prober.retry /\ prober'.sent = prober.sent
        <3> DEFINE events == Tail(prober.events)
        <3>1. events \in Seq(Statuses)
            BY <2>1, <2>2
        <3>2. prober' = [prober EXCEPT !.events = events]
            BY <1>1, <2>1 DEF ProberType
        <3> HIDE DEF events
        <3>3. prober' \in ProberType
            BY <1>1, <3>1, <3>2 DEF ProberType
        <3>4. /\ prober'.events = events /\ prober'.alive = prober.alive /\ prober'.phase = prober.phase
              /\ prober'.retry = prober.retry /\ prober'.sent = prober.sent
            BY <1>1, <3>2 DEF ProberType
        <3>5. QED
            BY <3>3, <3>4 DEF events
    <2>4. mon'.up => (mon.up \/ e = Viable)
        BY <1>1, <2>1 DEF MonType
    <2>5. e = Viable => prober.phase = "monitoring"
        BY <1>1, <2>2 DEF ProberOK
    <2>6. /\ Len(prober'.events) = Len(prober.events) - 1
          /\ \A i \in 1..Len(prober'.events) : prober'.events[i] = prober.events[i + 1]
        BY <2>2, <2>3
    <2>7. ProberOK(prober', mon'.up)
        <3> HIDE DEF e, next
        <3>1. (\E i \in 1..Len(prober'.events) : prober'.events[i] = Viable) => prober.phase = "monitoring"
            BY <1>1, <2>2, <2>6 DEF ProberOK
        <3>2. QED
            BY <1>1, <2>2, <2>3, <2>4, <2>5, <2>6, <3>1 DEF ProberOK
    <2>8. mon.sent = IF mon.up THEN <<"Up">> ELSE <<>>
        BY <1>1, <2>1 DEF MonOK
    <2>9. /\ sent \in Sents
          /\ e # ProbesFailed => sent = IF up THEN <<"Up">> ELSE <<>>
        <3>1. /\ Append(<<>>, "Up") = <<"Up">> /\ Append(<<>>, "ConnectionFailed") = <<"ConnectionFailed">>
              /\ Append(<<"Up">>, "ConnectionFailed") = <<"Up", "ConnectionFailed">>
            BY AppendOne, AppendTwo
        <3>2. Viable # ProbesFailed
            BY DEF Viable, ProbesFailed
        <3> HIDE DEF e
        <3>3. QED
            BY <1>1, <2>8, <3>1, <3>2 DEF Sents, MonType
    <2>10. up \in BOOLEAN /\ at \in {"loop", "teardown"} /\ (at = "loop" => e # ProbesFailed)
        BY <1>1, <2>1 DEF MonType
    <2> HIDE DEF e, up, sent, at
    <2>11. /\ next \in MonType /\ next.at = at /\ next.up = up /\ next.sent = sent
           /\ next.report = mon.report /\ next.cancelled = mon.cancelled
        BY <1>1, <2>2, <2>9, <2>10 DEF MonType
    <2> HIDE DEF next
    <2>12. MonOK(next, bw, prober')
        BY <1>1, <2>1, <2>9, <2>10, <2>11 DEF MonOK
    <2>13. MonOK(mon, bw, prober')
        BY <1>1, <2>1 DEF MonOK
    <2>14. QED
        BY <1>1, <2>1, <2>7, <2>12, <2>13 DEF SessionInv
<1>3. CASE LoopEnds
    <2>1. /\ mon.at = "loop" /\ mon' = [mon EXCEPT !.at = "teardown"] /\ UNCHANGED <<prober, bw, streak>>
          /\ around' \in {around, Happens}
        BY <1>3 DEF LoopEnds
    <2>2. around' \in AroundType
        BY <1>1, <2>1 DEF Happens, AroundType
    <2>3. /\ mon' \in MonType /\ mon'.at = "teardown" /\ mon'.up = mon.up /\ mon'.report = mon.report
        BY <1>1, <2>1 DEF MonType
    <2>4. MonOK(mon', bw, prober)
        BY <1>1, <2>1, <2>3 DEF MonOK
    <2>5. QED
        BY <1>1, <2>1, <2>2, <2>3, <2>4 DEF SessionInv
<1>4. CASE DropGuard
    <2>1. /\ mon.at = "teardown" /\ mon' = [mon EXCEPT !.at = "await_bandwidth", !.cancelled = TRUE]
          /\ UNCHANGED <<prober, bw, streak, around>>
        BY <1>4 DEF DropGuard
    <2>2. /\ mon' \in MonType /\ mon'.at = "await_bandwidth" /\ mon'.up = mon.up /\ mon'.report = mon.report
          /\ mon'.cancelled
        BY <1>1, <2>1 DEF MonType
    <2>3. MonOK(mon', bw, prober)
        BY <1>1, <2>1, <2>2 DEF MonOK
    <2>4. QED
        BY <1>1, <2>1, <2>2, <2>3 DEF SessionInv
<1>5. CASE report_bandwidth_checks
    <2> DEFINE r == [failure |-> IF tunnel_failing THEN {} ELSE bw.failure, worked |-> checks_worked]
    <2>1. /\ mon.at = "await_bandwidth" /\ bw.at = ChecksOver /\ UNCHANGED <<prober, bw, streak, around>>
          /\ mon' = [mon EXCEPT !.at = "await_probe", !.report = {r}]
        BY <1>5 DEF report_bandwidth_checks
    <2>2. r = ReportOf(mon, bw)
        BY DEF ReportOf, WorkedOf, tunnel_failing, checks_worked
    <2>3. r \in [failure : SUBSET Blames, worked : BOOLEAN]
        <3>1. checks_worked \in BOOLEAN
            BY WorkedIs DEF checks_worked, WorkedOf
        <3>2. bw.failure \in SUBSET Blames
            BY <1>1 DEF BwOK, BwType
        <3> DEFINE f == IF tunnel_failing THEN {} ELSE bw.failure
                   w == checks_worked
        <3>3. f \in SUBSET Blames /\ w \in BOOLEAN
            BY <3>1, <3>2
        <3> HIDE DEF f, w
        <3>4. [failure |-> f, worked |-> w] \in [failure : SUBSET Blames, worked : BOOLEAN]
            BY <3>3
        <3>5. QED
            BY <3>4 DEF f, w
    <2> HIDE DEF r
    <2>4. /\ mon' \in MonType /\ mon'.at = "await_probe" /\ mon'.up = mon.up /\ mon'.report = {r}
          /\ mon'.cancelled = mon.cancelled /\ mon'.last = mon.last
        BY <1>1, <2>1, <2>3 DEF MonType
    <2>5. ReportOf(mon', bw) = r
        BY <2>2, <2>4 DEF ReportOf
    <2>6. MonOK(mon', bw, prober)
        BY <1>1, <2>1, <2>4, <2>5 DEF MonOK
    <2>7. QED
        BY <1>1, <2>1, <2>4, <2>6 DEF SessionInv
<1>6. CASE AwaitProbe
    <2>1. /\ mon.at = "await_probe" /\ ~prober.alive /\ UNCHANGED <<prober, bw, streak, around>>
          /\ mon' = [mon EXCEPT !.at = "down"]
        BY <1>6 DEF AwaitProbe
    <2>2. /\ mon' \in MonType /\ mon'.at = "down" /\ mon'.up = mon.up /\ mon'.report = mon.report
          /\ mon'.cancelled = mon.cancelled /\ mon'.last = mon.last
        BY <1>1, <2>1 DEF MonType
    <2>3. ReportOf(mon', bw) = ReportOf(mon, bw)
        BY <2>2 DEF ReportOf
    <2>4. MonOK(mon', bw, prober)
        BY <1>1, <2>1, <2>2, <2>3 DEF MonOK
    <2>5. QED
        BY <1>1, <2>1, <2>2, <2>4 DEF SessionInv
<1>7. CASE TunnelDown
    <2> DEFINE n == IF mon.user THEN 0
                    ELSE IF Report.failure # {} THEN record_failure(streak.count, Report.worked)
                    ELSE record_other_end(streak.count, Report.worked)
               ended == (IF mon.user \/ Worked THEN 0 ELSE streak.ended) + (IF Ended THEN 1 ELSE 0)
    <2>1. /\ mon.at = "down" /\ streak.tunnels < MaxTunnels /\ UNCHANGED around
          /\ streak' = [count |-> n, tunnels |-> streak.tunnels + 1, ended |-> ended]
          /\ bw' = NewBw(ends_sessions(n)) /\ prober' = NewConn /\ mon' = NewMon
        BY <1>7 DEF TunnelDown
    <2>2. /\ streak.count \in Nat /\ streak.ended = streak.count /\ streak.tunnels \in 1..MaxTunnels
          /\ streak.count <= BANDWIDTH_FAILURE_SESSIONS
        BY <1>1 DEF StreakOK
    <2>3. Report = ReportOf(mon, bw)
        BY <1>1, <2>1 DEF MonOK, Report
    <2>4. /\ Report.worked = WorkedOf(bw) /\ WorkedOf(bw) \in BOOLEAN /\ (Worked <=> WorkedOf(bw))
          /\ Report.failure = IF tunnel_failing THEN {} ELSE bw.failure
        <3>1. Report.worked = WorkedOf(bw) /\ Report.failure = IF tunnel_failing THEN {} ELSE bw.failure
            BY <2>3 DEF ReportOf, tunnel_failing
        <3>2. WorkedOf(bw) \in BOOLEAN
            BY WorkedIs
        <3>3. Worked <=> WorkedOf(bw)
            BY DEF WorkedOf, Worked
        <3>4. QED
            BY <3>1, <3>2, <3>3
    <2>5. mon.user \in BOOLEAN /\ (Ended <=> (~mon.user /\ Report.failure # {}))
        BY <1>1, <2>4 DEF Ended, MonType
    <2>6. Report.failure # {} => streak.count < BANDWIDTH_FAILURE_SESSIONS
        BY <1>1, <2>4 DEF BwOK
    <2>7. n \in Nat /\ n = ended /\ n <= BANDWIDTH_FAILURE_SESSIONS
        <3>1. CASE mon.user
            <4>1. n = 0 /\ ended = 0
                BY <2>5, <3>1
            <4>2. QED
                BY <4>1, SessionAssumption
        <3>2. CASE ~mon.user /\ Report.failure # {} /\ WorkedOf(bw)
            <4>1. n = 0 + 1 /\ ended = 0 + 1
                BY <2>4, <2>5, <3>2 DEF record_failure
            <4>2. QED
                BY <4>1, SessionAssumption
        <3>3. CASE ~mon.user /\ Report.failure # {} /\ ~WorkedOf(bw)
            <4>1. n = streak.count + 1 /\ ended = streak.ended + 1
                BY <2>4, <2>5, <3>3 DEF record_failure
            <4>2. QED
                BY <2>2, <2>6, <3>3, <4>1, SessionAssumption
        <3>4. CASE ~mon.user /\ Report.failure = {} /\ WorkedOf(bw)
            <4>1. n = 0 /\ ended = 0 + 0
                BY <2>4, <2>5, <3>4 DEF record_other_end
            <4>2. QED
                BY <4>1, SessionAssumption
        <3>5. CASE ~mon.user /\ Report.failure = {} /\ ~WorkedOf(bw)
            <4>1. n = streak.count /\ ended = streak.ended + 0
                BY <2>4, <2>5, <3>5 DEF record_other_end
            <4>2. QED
                BY <2>2, <4>1
        <3>6. QED
            BY <3>1, <3>2, <3>3, <3>4, <3>5
    <2> HIDE DEF n, ended
    <2>8. StreakOK(streak') /\ streak'.count = n
        BY <2>1, <2>2, <2>7, SessionAssumption DEF StreakOK
    <2>9. QED
        BY <1>1, <2>1, <2>7, <2>8, NewSession DEF SessionInv
<1>8. QED
    BY <1>2, <1>3, <1>4, <1>5, <1>6, <1>7 DEF MonNext

\* The steps of the user, the network and the gateways.
LEMMA WorldStep ==
    ASSUME SessionInv, WorldNext
    PROVE  SessionInv'
<1>1. around \in AroundType /\ MonOK(mon, bw, prober) /\ mon \in MonType
    BY DEF SessionInv, MonOK
<1>2. Happens \in AroundType /\ Happens.silent = around.silent /\ Happens.mode = around.mode
    BY <1>1 DEF Happens, AroundType
<1>3. CASE UserDisconnects
    <2>1. /\ mon.at = "loop" /\ around' = Happens /\ UNCHANGED <<prober, bw, streak>>
          /\ mon' = [mon EXCEPT !.cancelled = TRUE, !.user = TRUE]
        BY <1>3 DEF UserDisconnects
    <2>2. /\ mon' \in MonType /\ mon'.at = "loop" /\ mon'.up = mon.up /\ mon'.report = mon.report
          /\ mon'.sent = mon.sent
        BY <1>1, <2>1 DEF MonType
    <2>3. MonOK(mon', bw, prober)
        BY <1>1, <2>1, <2>2 DEF MonOK
    <2>4. QED
        BY <1>2, <2>1, <2>2, <2>3 DEF SessionInv
<1>4. ASSUME around' \in AroundType, UNCHANGED <<prober, bw, mon, streak>> PROVE SessionInv'
    BY <1>4 DEF SessionInv
<1>5. CASE LinkFlips
    BY <1>2, <1>4, <1>5 DEF LinkFlips, AroundType
<1>6. CASE UpgradeStarts
    BY <1>2, <1>4, <1>6 DEF UpgradeStarts, AroundType
<1>7. CASE UpgradeLearned
    <2>1. UNCHANGED <<prober, bw, mon, streak>>
        BY <1>7 DEF UpgradeLearned
    <2>2. ASSUME NEW g \in Gateways, around' = [around EXCEPT !.mode[g] = "on"] PROVE around' \in AroundType
        BY <1>1, <2>2 DEF AroundType, Modes
    <2>3. CASE around' = [around EXCEPT !.attested = TRUE]
        BY <1>1, <1>4, <2>1, <2>3 DEF AroundType
    <2>4. QED
        BY <1>4, <1>7, <2>1, <2>2, <2>3 DEF UpgradeLearned
<1>8. CASE UpgradeEnds
    <2>1. [g \in Gateways |-> IF Happens.mode[g] = "on" THEN "off" ELSE Happens.mode[g]] \in [Gateways -> Modes]
        BY <1>2 DEF AroundType, Modes
    <2>2. around' \in AroundType
        BY <1>2, <1>8, <2>1 DEF UpgradeEnds, AroundType
    <2>3. QED
        BY <1>4, <1>8, <2>2 DEF UpgradeEnds
<1>9. ASSUME NEW g \in Gateways, GatewaySilent(g) PROVE SessionInv'
    <2>1. around' \in AroundType
        BY <1>2, <1>9 DEF GatewaySilent, AroundType
    <2>2. QED
        BY <1>4, <1>9, <2>1 DEF GatewaySilent
<1>10. QED
    BY <1>3, <1>5, <1>6, <1>7, <1>8, <1>9 DEF WorldNext

\* The checks never end more sessions in a row than allowed, blame only a
\* gateway that answered before or had its grace, and the state machine is
\* told the final outcome: for every number of retries, failures and sessions
\* (bandwidth_controller.rs, tunnel_monitor.rs, BandwidthFailureStreak).
THEOREM SessionAlwaysCorrect == SessionSpec => []SessionCorrect
<1>1. SessionInv /\ [SessionNext]_sessionVars => SessionInv'
    <2> SUFFICES ASSUME SessionInv, [SessionNext]_sessionVars PROVE SessionInv'
        OBVIOUS
    <2>1. CASE UNCHANGED sessionVars
        BY <2>1 DEF sessionVars, SessionInv
    <2>2. QED
        BY <2>1, ConnStep, BwStep, MonStep, WorldStep DEF SessionNext
<1>2. SessionInv => SessionCorrect
    <2> SUFFICES ASSUME SessionInv PROVE SessionCorrect
        OBVIOUS
    <2>1. SessionTypeOK
        <3>1. /\ prober.phase \in {"initial", "monitoring"} /\ prober.retry \in 0..(ProbeRetries + 1)
              /\ Len(prober.events) <= 2 /\ (mon.up => prober.phase = "monitoring")
            BY SessionAssumption DEF SessionInv, ProberOK, ProberType
        <3>2. /\ bw.failure \in SUBSET (Gateways \cup {"none"}) /\ bw.hadWorked \in SUBSET BOOLEAN
            BY DEF SessionInv, BwOK, BwType, Blames
        <3>3. \A g \in Gateways : bw.health[g].fails \in 0..QUERY_FAILURES_TO_ESCALATE
            BY SessionAssumption DEF SessionInv, BwOK, BwType, Healths
        <3>4. mon.at \in {"loop", "teardown", "await_bandwidth", "await_probe", "down"}
            BY DEF SessionInv, MonOK, MonType
        <3>5. streak.tunnels \in 1..MaxTunnels
            BY DEF SessionInv, StreakOK
        <3>6. QED
            BY <3>1, <3>2, <3>3, <3>4, <3>5 DEF SessionTypeOK
    <2>2. ChurnBounded
        BY DEF SessionInv, StreakOK, ChurnBounded
    <2>3. SilentSideHasGrace
        BY DEF SessionInv, BwOK, Blamable, SilentSideHasGrace
    <2>4. ReportsFinal
        <3>1. mon \in MonType /\ MonOK(mon, bw, prober)
            BY DEF SessionInv, MonOK
        <3>2. ASSUME mon.report # {}
              PROVE  bw.at = ChecksOver /\ Report.worked = checks_worked
            <4>1. bw.at = ChecksOver /\ mon.report = {ReportOf(mon, bw)}
                BY <3>1, <3>2 DEF MonOK
            <4>2. Report = ReportOf(mon, bw)
                BY <4>1 DEF Report
            <4>3. QED
                BY <4>1, <4>2 DEF ReportOf, WorkedOf, checks_worked
        <3>3. QED
            BY <3>1, <3>2 DEF ReportsFinal, MonOK, MonType, Sents
    <2>5. QED
        BY <2>1, <2>2, <2>3, <2>4 DEF SessionCorrect
<1>3. QED
    BY SessionInvInit, <1>1, <1>2, PTL DEF SessionSpec
==============================================================================
