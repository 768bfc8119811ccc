--------------------------- MODULE DepletionRate ---------------------------
(***************************************************************************)
(* How often the bandwidth controller asks the gateways how much bandwidth *)
(* is left, and when it buys more: DepletionRate and check_both of         *)
(* bandwidth_controller.rs.  Bandwidth is counted in megabytes, time in    *)
(* seconds; divisions round down as in the code.                           *)
(***************************************************************************)
EXTENDS Integers, FiniteSetsExt

CONSTANTS
    Consumptions,   \* what a side may use up between two checks
    Ticket,         \* what a top-up adds
    Checks,         \* bound: checks
    Word            \* 2^64, scaled: the answer is cast from i64 to u64

ASSUME DepletionAssumption == Ticket \in Nat /\ Word \in Nat \ {0} /\ Consumptions \subseteq Nat

DEFAULT_CHECK == 5      \* DEFAULT_PEER_TIMEOUT_CHECK, the lower bound too
UPPER_BOUND_CHECK == 30
MINIMUM_REMAINING == 500
DEFAULT_DEPLETION_RATE == 1
ChecksBeforeDepletion == 10

VARIABLE meter

Peers == {"entry", "exit"}

as_u64(n) == n % Word

\* Faulty variant: what is left is not compared with what ten checks use.
update_dynamic_check_interval_late(m, period, remaining) ==
    LET used == IF m.available > remaining THEN (m.available - remaining) \div period ELSE 0
        rate == IF used = 0 THEN m.rate ELSE used
    IN [meter |-> [m EXCEPT !.available = remaining, !.rate = rate],
        next |-> IF used = 0 THEN {DEFAULT_CHECK}
                 ELSE IF remaining < MINIMUM_REMAINING THEN {} ELSE {UPPER_BOUND_CHECK}]

\* The rate since the last check, and: nothing, when it is time to buy; or the
\* period to switch to.
update_dynamic_check_interval(m, period, remaining) ==
    LET used == IF m.available > remaining THEN (m.available - remaining) \div period ELSE 0
        rate == IF used = 0 THEN m.rate ELSE used
        left == remaining \div rate
        checks == left \div period
        next == IF used = 0 THEN {DEFAULT_CHECK}
                ELSE IF checks < ChecksBeforeDepletion \/ remaining < MINIMUM_REMAINING THEN {}
                ELSE IF left > UPPER_BOUND_CHECK THEN {UPPER_BOUND_CHECK}
                ELSE IF left < DEFAULT_CHECK THEN {DEFAULT_CHECK}
                ELSE {checks}
    IN [meter |-> [m EXCEPT !.available = remaining, !.rate = rate], next |-> next]

\* check_both: each side in turn; the shorter of the new periods, if any.
check_both_sides(used, bought) ==
    LET left == [p \in Peers |-> meter.left[p] - used[p]]
        result == [p \in Peers |->
                     update_dynamic_check_interval(meter.side[p], meter.period, as_u64(left[p]))]
        short == {p \in Peers : result[p].next = {}}
        next == UNION {result[p].next : p \in Peers}
    IN /\ bought \subseteq short
       /\ meter' = [meter EXCEPT
            !.side = [p \in Peers |-> result[p].meter],
            !.left = [p \in Peers |-> left[p] + (IF p \in bought THEN Ticket ELSE 0)],
            !.checks = @ + 1,
            !.short = short,
            !.period = IF next = {} THEN @ ELSE Min(next)]

CheckBoth ==
    /\ meter.checks < Checks
    /\ \E used \in [Peers -> Consumptions], bought \in SUBSET Peers : check_both_sides(used, bought)

MeterInit ==
    meter = [side |-> [p \in Peers |-> [available |-> 0, rate |-> DEFAULT_DEPLETION_RATE]],
             left |-> [p \in Peers |-> Ticket], checks |-> 0,
             short |-> {}, period |-> DEFAULT_CHECK]

MeterNext == CheckBoth

MeterSpec == MeterInit /\ [][MeterNext]_meter

(***************************************************************************)
(* Properties.                                                             *)
(***************************************************************************)
\* Types: what a side is said to have left is an unsigned word, whatever the
\* gateway answered (bandwidth_controller.rs).
MeterTypeOK ==
    /\ meter.period \in Nat /\ meter.short \subseteq Peers
    /\ \A p \in Peers : meter.left[p] \in Int /\ meter.side[p].available \in 0..(Word - 1)

\* tokio's interval panics on a zero period, which would take the checks with
\* it: the period is always one of two, and never the computed count.
PeriodNeverZero == meter.period \in {DEFAULT_CHECK, UPPER_BOUND_CHECK}

\* A side that was told to wait, and has not overdrawn, still has bandwidth at
\* the next check if it is used up no faster than it was last seen to be.
LastsUntilNextCheck ==
    \A p \in Peers : p \notin meter.short /\ meter.left[p] >= 0 /\ meter.side[p].available > 0
                       /\ meter.period = UPPER_BOUND_CHECK
                     => meter.left[p] >= meter.side[p].rate * meter.period

\* The period is one tokio takes, and short enough for what is left.
MeterCorrect == MeterTypeOK /\ PeriodNeverZero /\ LastsUntilNextCheck
=============================================================================
