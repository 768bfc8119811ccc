---------------------------- MODULE AccountProofs ----------------------------
(* Proofs about the account controller and the connect that waits for it     *)
(* (AccountController), and about the ticketbooks (ZkNymRequests).           *)
EXTENDS AccountController, ZkNymRequests, TLAPS

-----------------------------------------------------------------------------
(* The account controller.                                                   *)

CtlType ==
  [st : States, why : Reasons, att : Nat, task : BOOLEAN, um : BOOLEAN, age : {0, 1, 2},
   armed : {0, 1, 2}, pc : {"idle", "validate", "publish"},
   account : {"none", "api", "decentralised"}, device : Nat, gen : Nat,
   summary : {"none", "left", "depleted"}, firewall : BOOLEAN, mode : {"Active", "Idle"},
   tickets : TicketLevels, jwt : BOOLEAN, online : BOOLEAN, seen : BOOLEAN]

\* Devices are numbered in the order of their creation.
Numbered(r) == r \in CtlType /\ r.device <= r.gen /\ r.gen <= MaxDevice

\* What holds of the controller in every state it can be left in: the task runs where it may,
\* the timers are those of the state, tickets are only requested for an account of the API.
CtlSound(r) ==
  /\ Numbered(r)
  /\ r.task <=> r.st \in Busy /\ ~r.firewall
  /\ r.st = "ReadyToConnect" => r.armed = Interval(r.mode)
  /\ r.armed > 0 => r.st \in {"ReadyToConnect", "Error", "UpgradeMode"}
  /\ r.st = "RequestingZkNyms" => r.account = "api"

\* x was entered from r, with at most n attempts counted.
Entered(x, r, n) ==
  /\ CtlSound(x) /\ x.att <= n
  /\ x.account = r.account /\ x.device = r.device /\ x.pc = r.pc

\* Entering a state without a task keeps account and device, and is sound.
LEMMA EnterPlainIs ==
  ASSUME NEW r, Numbered(r), NEW st \in States \ (Busy \cup {"ReadyToConnect"}), NEW n \in Nat
  PROVE  Entered(EnterPlain(r, st), r, n) /\ EnterPlain(r, st).st = st
<1> DEFINE x == EnterPlain(r, st)
<1>1. "None" \in Reasons /\ Interval("Active") = 1 /\ Interval("Idle") = 2
  BY DEF Reasons, Interval
<1>2. x \in CtlType
  BY <1>1 DEF EnterPlain, Numbered, CtlType
<1>3. /\ x.st = st /\ x.task = FALSE /\ x.att = 0 /\ x.armed = 0
      /\ x.account = r.account /\ x.device = r.device /\ x.gen = r.gen
      /\ x.firewall = r.firewall /\ x.mode = r.mode /\ x.pc = r.pc
  BY DEF EnterPlain, Numbered, CtlType
<1> HIDE DEF x
<1>4. Entered(x, r, n)
  BY <1>1, <1>2, <1>3 DEF Entered, CtlSound, Numbered, Busy
<1>5. QED
  BY <1>3, <1>4 DEF x

\* ErrorState::enter.
LEMMA EnterErrorIs ==
  ASSUME NEW r, Numbered(r), NEW why \in Reasons, NEW n \in Nat
  PROVE  Entered(EnterError(r, why), r, n) /\ EnterError(r, why).st = "Error"
<1> DEFINE x == EnterError(r, why)
<1>1. "None" \in Reasons /\ Interval("Active") = 1 /\ Interval("Idle") = 2
  BY DEF Reasons, Interval
<1>2. x \in CtlType
  BY <1>1 DEF EnterError, EnterPlain, Numbered, CtlType, States
<1>3. /\ x.st = "Error" /\ x.task = FALSE /\ x.att = 0
      /\ x.account = r.account /\ x.device = r.device /\ x.gen = r.gen
      /\ x.firewall = r.firewall /\ x.mode = r.mode /\ x.pc = r.pc
  BY DEF EnterError, EnterPlain, Numbered, CtlType
<1> HIDE DEF x
<1>4. Entered(x, r, n)
  BY <1>1, <1>2, <1>3 DEF Entered, CtlSound, Numbered, Busy
<1>5. QED
  BY <1>3, <1>4 DEF x

\* ReadyState::enter: the timer is that of the mode in force.
LEMMA EnterReadyIs ==
  ASSUME NEW r, Numbered(r), NEW n \in Nat
  PROVE  Entered(EnterReady(r), r, n) /\ EnterReady(r).st = "ReadyToConnect"
<1> DEFINE x == EnterReady(r)
<1>1. "None" \in Reasons /\ Interval("Active") = 1 /\ Interval("Idle") = 2
  BY DEF Reasons, Interval
<1>2. x \in CtlType
  <2> DEFINE q == EnterPlain(r, "ReadyToConnect")
             t == Interval(r.mode)
  <2>1. q \in CtlType /\ t \in {0, 1, 2}
    BY <1>1 DEF EnterPlain, Numbered, CtlType, States, Interval
  <2>2. x = [q EXCEPT !.armed = t]
    BY DEF EnterReady
  <2> HIDE DEF q, t, x
  <2>3. QED
    BY <2>1, <2>2 DEF CtlType
<1>3. /\ x.st = "ReadyToConnect" /\ x.task = FALSE /\ x.att = 0 /\ x.armed = Interval(r.mode)
      /\ x.account = r.account /\ x.device = r.device /\ x.gen = r.gen
      /\ x.firewall = r.firewall /\ x.mode = r.mode /\ x.pc = r.pc
  BY DEF EnterReady, EnterPlain, Numbered, CtlType
<1> HIDE DEF x
<1>4. Entered(x, r, n)
  BY <1>1, <1>2, <1>3 DEF Entered, CtlSound, Numbered, Busy
<1>5. QED
  BY <1>3, <1>4 DEF x

\* SyncingState::enter, which may end in another state, and never in the ready one.
LEMMA EnterSyncingIs ==
  ASSUME NEW r, Numbered(r), NEW n \in Nat
  PROVE  Entered(EnterSyncing(r, n), r, n) /\ EnterSyncing(r, n).st # "ReadyToConnect"
<1>1. CASE r.account = "none"
  BY <1>1, EnterPlainIs DEF EnterSyncing, States, Busy
<1>2. CASE r.account = "decentralised"
  BY <1>2, EnterPlainIs DEF EnterSyncing, States, Busy
<1>3. CASE r.account = "api" /\ r.device = 0
  BY <1>3, EnterErrorIs DEF EnterSyncing, Reasons
<1>4. CASE r.account = "api" /\ r.device # 0
  <2> DEFINE x == EnterSyncing(r, n)
  <2>1. x = [EnterPlain(r, "Syncing") EXCEPT !.att = n, !.task = ~r.firewall]
    BY <1>4 DEF EnterSyncing
  <2>2. "None" \in Reasons /\ "Syncing" \in States
    BY DEF Reasons, States, Busy
  <2> HIDE DEF x
  <2>3. x \in CtlType
    BY <2>1, <2>2 DEF EnterPlain, Numbered, CtlType
  <2>4. /\ x.st = "Syncing" /\ x.task = ~r.firewall /\ x.att = n /\ x.armed = 0
        /\ x.account = r.account /\ x.device = r.device /\ x.gen = r.gen
        /\ x.firewall = r.firewall /\ x.mode = r.mode /\ x.pc = r.pc
    BY <2>1 DEF EnterPlain, Numbered, CtlType
  <2>5. Entered(x, r, n)
    BY <1>4, <2>3, <2>4 DEF Entered, CtlSound, Numbered, Busy, CtlType
  <2>6. QED
    BY <2>4, <2>5 DEF x
<1>5. QED
  BY <1>1, <1>2, <1>3, <1>4 DEF Numbered, CtlType

\* RequestingZkNymsState::enter, likewise.
LEMMA EnterRequestingIs ==
  ASSUME NEW r, Numbered(r), NEW n \in Nat, NEW um \in BOOLEAN
  PROVE  Entered(EnterRequesting(r, n, um), r, n)
         /\ EnterRequesting(r, n, um).st # "ReadyToConnect"
<1>1. CASE r.account # "api"
  BY <1>1, EnterPlainIs DEF EnterRequesting, States, Busy
<1>2. CASE r.account = "api" /\ (r.device = 0 \/ r.summary = "none")
  BY <1>2, EnterErrorIs DEF EnterRequesting, Reasons
<1>3. CASE r.account = "api" /\ ~(r.device = 0 \/ r.summary = "none")
  <2> DEFINE x == EnterRequesting(r, n, um)
  <2>1. x = [EnterPlain(r, "RequestingZkNyms") EXCEPT !.att = n, !.um = um, !.task = ~r.firewall]
    BY <1>3 DEF EnterRequesting
  <2>2. "None" \in Reasons /\ "RequestingZkNyms" \in States
    BY DEF Reasons, States, Busy
  <2> HIDE DEF x
  <2> DEFINE q == EnterPlain(r, "RequestingZkNyms")
             t == ~r.firewall
  <2>a. q \in CtlType /\ t \in BOOLEAN
    BY <2>2 DEF EnterPlain, Numbered, CtlType
  <2>b. x = [q EXCEPT !.att = n, !.um = um, !.task = t]
    BY <2>1
  <2>3. x \in CtlType
    <3> HIDE DEF q, t
    <3>1. QED
      BY <2>a, <2>b DEF CtlType
  <2>4. /\ x.st = "RequestingZkNyms" /\ x.task = ~r.firewall /\ x.att = n /\ x.armed = 0
        /\ x.account = r.account /\ x.device = r.device /\ x.gen = r.gen
        /\ x.firewall = r.firewall /\ x.mode = r.mode /\ x.pc = r.pc
    BY <2>1 DEF EnterPlain, Numbered, CtlType
  <2>5. Entered(x, r, n)
    BY <1>3, <2>3, <2>4 DEF Entered, CtlSound, Numbered, Busy, CtlType
  <2>6. QED
    BY <2>4, <2>5 DEF x
<1>4. QED
  BY <1>1, <1>2, <1>3

\* UpgradeModeState::enter, likewise.
LEMMA EnterUpgradeModeIs ==
  ASSUME NEW r, Numbered(r), NEW n \in Nat, NEW stored \in {"fails", "reads", "expired"}
  PROVE  Entered(EnterUpgradeMode(r, stored), r, n)
         /\ EnterUpgradeMode(r, stored).st # "ReadyToConnect"
<1>1. Entered(EnterSyncing(r, 0), r, n) /\ EnterSyncing(r, 0).st # "ReadyToConnect"
  <2>1. Entered(EnterSyncing(r, 0), r, 0) /\ EnterSyncing(r, 0).st # "ReadyToConnect"
    BY EnterSyncingIs
  <2>2. QED
    BY <2>1 DEF Entered, CtlSound, Numbered, CtlType
<1>2. CASE stored = "fails"
  BY <1>2, EnterErrorIs DEF EnterUpgradeMode, Reasons
<1>3. CASE stored = "reads" /\ ~r.jwt
  BY <1>3, EnterErrorIs DEF EnterUpgradeMode, Reasons
<1>4. CASE stored = "expired"
  BY <1>1, <1>4 DEF EnterUpgradeMode
<1>5. CASE stored = "reads" /\ r.jwt
  <2> DEFINE x == EnterUpgradeMode(r, stored)
  <2>1. x = [EnterPlain(r, "UpgradeMode") EXCEPT !.armed = 1]
    BY <1>5 DEF EnterUpgradeMode, Interval
  <2>2. "None" \in Reasons /\ "UpgradeMode" \in States
    BY DEF Reasons, States, Busy
  <2> HIDE DEF x
  <2>3. x \in CtlType
    BY <2>1, <2>2 DEF EnterPlain, Numbered, CtlType
  <2>4. /\ x.st = "UpgradeMode" /\ x.task = FALSE /\ x.att = 0 /\ x.armed = 1
        /\ x.account = r.account /\ x.device = r.device /\ x.gen = r.gen
        /\ x.firewall = r.firewall /\ x.mode = r.mode /\ x.pc = r.pc
    BY <2>1 DEF EnterPlain, Numbered, CtlType
  <2>5. Entered(x, r, n)
    BY <1>5, <2>3, <2>4 DEF Entered, CtlSound, Numbered, Busy, CtlType
  <2>6. QED
    BY <2>4, <2>5 DEF x
<1>6. QED
  BY <1>2, <1>3, <1>4, <1>5

\* UpgradeModeState::on_exit, likewise.
LEMMA LeaveUpgradeModeIs ==
  ASSUME NEW r, Numbered(r), NEW n \in Nat, NEW purged \in BOOLEAN
  PROVE  Entered(LeaveUpgradeMode(r, purged), r, n)
         /\ LeaveUpgradeMode(r, purged).st # "ReadyToConnect"
<1>1. CASE purged
  <2> DEFINE q == [r EXCEPT !.jwt = FALSE]
  <2>1. Numbered(q) /\ q.account = r.account /\ q.device = r.device /\ q.pc = r.pc
    BY DEF Numbered, CtlType
  <2>2. LeaveUpgradeMode(r, purged) = EnterSyncing(q, 0)
    BY <1>1 DEF LeaveUpgradeMode
  <2>3. Entered(EnterSyncing(q, 0), q, 0) /\ EnterSyncing(q, 0).st # "ReadyToConnect"
    BY <2>1, EnterSyncingIs
  <2>4. QED
    BY <2>1, <2>2, <2>3 DEF Entered, CtlSound, Numbered, CtlType
<1>2. CASE ~purged
  BY <1>2, EnterErrorIs DEF LeaveUpgradeMode, Reasons
<1>3. QED
  BY <1>1, <1>2

-----------------------------------------------------------------------------
\* The validation v may stand while the controller turns into r: it is none, or it is the
\* one in force and the account and the device are still those it is about.
Vouches(v, r) ==
  \/ v = NoValidation
  \/ v = validated /\ (ctl.account # "api" \/ (r.account = ctl.account /\ r.device = ctl.device))

\* Attempts counted at most, with so much of the budget left.
AttLimit(left) == MAX_SYNCING_ATTEMPTS + ZK_NYM_MAX_FAILS + 1 + (AccountBudget - left)

Budgets == 0..AccountBudget

\* The less of the budget is left, the higher the limit.
LEMMA LimitGrows ==
  ASSUME NEW a \in Budgets, NEW b \in Budgets, b <= a
  PROVE  /\ AttLimit(a) \in Nat /\ AttLimit(b) \in Nat /\ AttLimit(a) <= AttLimit(b)
         /\ ZK_NYM_MAX_FAILS + 1 <= AttLimit(b) /\ MAX_SYNCING_ATTEMPTS + 1 <= AttLimit(b)
<1>1. a \in Nat /\ b \in Nat /\ a <= AccountBudget /\ b <= a /\ AccountBudget \in Nat
      /\ MAX_SYNCING_ATTEMPTS \in Nat /\ ZK_NYM_MAX_FAILS \in Nat
  BY AccountAssumption DEF Budgets
<1> DEFINE p == AccountBudget - a
           q == AccountBudget - b
           c == MAX_SYNCING_ATTEMPTS + ZK_NYM_MAX_FAILS + 1
<1>2. p \in Nat /\ q \in Nat /\ p <= q
  BY <1>1
<1>3. c \in Nat /\ ZK_NYM_MAX_FAILS + 1 <= c /\ MAX_SYNCING_ATTEMPTS + 1 <= c
  BY <1>1
<1>4. AttLimit(a) = c + p /\ AttLimit(b) = c + q
  BY DEF AttLimit
<1> HIDE DEF p, q, c
<1>5. QED
  BY <1>1, <1>2, <1>3, <1>4
Validations == [device : 0..MaxDevice, age : {0, 1, 2}]
Published == [st : States, why : Reasons]

\* The inductive invariant of the controller.  A validation is of the account and the
\* device stored now; once it has been published it stands next to a state it may vouch for;
\* and a state ready for the first time is about an account of the API.
CtlInv ==
  /\ CtlSound(ctl) /\ accountEnv \in Budgets /\ ctl.att <= AttLimit(accountEnv)
  /\ validated \in Validations /\ published \in Published
  /\ ValidationCurrent
  /\ RecentlyValidated /\ ctl.pc # "validate" => ctl.st \in Busy \cup {"ReadyToConnect", "Finished"}
  /\ ctl.pc = "idle" => ctl.st = "Finished" \/ published.st = ctl.st
  /\ ctl.pc = "validate" /\ ctl.st = "ReadyToConnect" /\ published.st # "ReadyToConnect"
       => ctl.account = "api"

\* The controller is in a turn of its loop, which no other task takes part in.
InTurn ==
  /\ CtlInv /\ Turn /\ published' = published
  /\ accountEnv' \in Budgets /\ accountEnv' <= accountEnv

\* A turn that enters a state keeps the invariant.
LEMMA TurnNew ==
  ASSUME InTurn, NEW r, NEW n \in Nat, n <= AttLimit(accountEnv'), NEW x, Entered(x, r, n),
         NEW v, Vouches(v, r), NewState(x, v),
         x.st = "ReadyToConnect" => ctl.st = "ReadyToConnect" \/ r.account = "api"
  PROVE  CtlInv'
<1>1. ctl' = [x EXCEPT !.pc = "validate"] /\ validated' = v /\ x \in CtlType
  BY DEF NewState, Entered, CtlSound, Numbered
<1>2. ctl' \in CtlType
  BY <1>1 DEF CtlType
<1>3. /\ ctl'.pc = "validate" /\ ctl'.st = x.st /\ ctl'.att = x.att /\ ctl'.task = x.task
      /\ ctl'.armed = x.armed /\ ctl'.account = x.account /\ ctl'.device = x.device
      /\ ctl'.gen = x.gen /\ ctl'.firewall = x.firewall /\ ctl'.mode = x.mode
  BY <1>1 DEF CtlType
<1>4. CtlSound(ctl)' /\ ctl'.att <= AttLimit(accountEnv')
  <2>1. CtlSound(ctl')
    BY <1>2, <1>3 DEF Entered, CtlSound, Numbered
  <2>2. x.att \in Nat /\ x.att <= n /\ AttLimit(accountEnv') \in Nat
    BY <1>1, AccountAssumption DEF Entered, CtlType, AttLimit, InTurn, Budgets
  <2>3. QED
    BY <1>3, <2>1, <2>2
<1>5. validated' \in Validations
  BY <1>1, AccountAssumption
  DEF Vouches, NoValidation, Validations, InTurn, CtlInv, Freshness, Interval
<1>6. ValidationCurrent'
  BY <1>1, <1>3
  DEF Vouches, NoValidation, ValidationCurrent, RecentlyValidated, InTurn, CtlInv, Freshness,
      Interval, Entered
<1>7. ctl'.st = "ReadyToConnect" /\ published'.st # "ReadyToConnect" => ctl'.account = "api"
  BY <1>3 DEF InTurn, Turn, CtlInv, Entered
<1>8. QED
  BY <1>3, <1>4, <1>5, <1>6, <1>7 DEF CtlInv, InTurn

\* A turn that stays in its state, or ends the loop, keeps it too.
LEMMA TurnSame ==
  ASSUME InTurn, NEW x, CtlSound(x), x.pc = "idle", x.att <= ctl.att,
         x.st = ctl.st \/ x.st = "Finished",
         NEW v, Vouches(v, x), SameState(x, v)
  PROVE  CtlInv'
<1>1. ctl' = x /\ validated' = v
  BY DEF SameState
<1>2. x.att \in Nat /\ ctl.att \in Nat /\ x.att <= AttLimit(accountEnv')
  <2>1. x.att \in Nat /\ ctl.att \in Nat /\ ctl.att <= AttLimit(accountEnv)
    BY DEF InTurn, CtlInv, CtlSound, Numbered, CtlType
  <2>2. AttLimit(accountEnv) <= AttLimit(accountEnv') /\ AttLimit(accountEnv) \in Nat
        /\ AttLimit(accountEnv') \in Nat
    BY LimitGrows DEF InTurn, CtlInv
  <2>3. QED
    BY <2>1, <2>2
<1>5. validated' \in Validations
  BY <1>1, AccountAssumption
  DEF Vouches, NoValidation, Validations, InTurn, CtlInv, Freshness, Interval
<1>6. ValidationCurrent' /\ (RecentlyValidated' => RecentlyValidated)
  BY <1>1
  DEF Vouches, NoValidation, ValidationCurrent, RecentlyValidated, InTurn, CtlInv, Freshness,
      Interval
<1>8. QED
  BY <1>1, <1>2, <1>5, <1>6 DEF CtlInv, InTurn, Turn

-----------------------------------------------------------------------------
\* What the commands do to the shared state keeps the numbering of the devices.
LEMMA ChangedIs ==
  ASSUME InTurn
  PROVE  /\ Numbered(ctl) /\ ctl.pc = "idle" /\ ctl.att \in Nat /\ ctl.um \in BOOLEAN
         /\ \A res \in ForgetResults :
              /\ Numbered(Forgotten(res)) /\ Forgotten(res).pc = "idle"
              /\ Forgotten(res).st = ctl.st /\ Forgotten(res).att = ctl.att
              /\ ctl.st # "RequestingZkNyms" => CtlSound(Forgotten(res))
         /\ Resettable => Numbered(NewDevice) /\ NewDevice.account = ctl.account
         /\ Storable =>
              \A kind \in {"api", "decentralised"} :
                 /\ Numbered(Stored(ctl, kind)) /\ Stored(ctl, kind).pc = "idle"
                 /\ Stored(ctl, kind).st = ctl.st /\ Stored(ctl, kind).att = ctl.att
                 /\ ctl.st = "Offline" => CtlSound(Stored(ctl, kind))
<1>1. CtlSound(ctl) /\ Numbered(ctl) /\ ctl \in CtlType /\ ctl.pc = "idle"
  BY DEF InTurn, CtlInv, CtlSound, Numbered, Turn
<1>2. ctl.att \in Nat /\ ctl.um \in BOOLEAN
  BY <1>1 DEF CtlType
<1>3. ASSUME NEW res \in ForgetResults
      PROVE  /\ Numbered(Forgotten(res)) /\ Forgotten(res).pc = "idle"
             /\ Forgotten(res).st = ctl.st /\ Forgotten(res).att = ctl.att
             /\ ctl.st # "RequestingZkNyms" => CtlSound(Forgotten(res))
  <2> DEFINE x == Forgotten(res)
  <2>1. CASE res = "kept"
    BY <1>1, <2>1 DEF Forgotten
  <2>2. CASE res = "wiped"
    <3>1. x = [ctl EXCEPT !.tickets = "none", !.jwt = FALSE]
      BY <2>2 DEF Forgotten
    <3> HIDE DEF x
    <3>2. x \in CtlType
      BY <1>1, <3>1 DEF CtlType, TicketLevels
    <3>3. /\ x.pc = "idle" /\ x.st = ctl.st /\ x.att = ctl.att /\ x.task = ctl.task
          /\ x.armed = ctl.armed /\ x.account = ctl.account /\ x.device = ctl.device
          /\ x.gen = ctl.gen /\ x.firewall = ctl.firewall /\ x.mode = ctl.mode
      BY <1>1, <3>1 DEF CtlType
    <3>4. Numbered(x) /\ CtlSound(x)
      BY <1>1, <3>2, <3>3 DEF CtlSound, Numbered
    <3>5. QED
      BY <3>3, <3>4 DEF x
  <2>3. CASE res \in {"ok", "gone"}
    <3>1. x = [ctl EXCEPT !.account = "none", !.device = 0, !.summary = "none",
                          !.tickets = "none", !.jwt = FALSE]
      BY <2>3 DEF Forgotten
    <3> HIDE DEF x
    <3>2. x \in CtlType
      BY <1>1, <3>1 DEF CtlType, TicketLevels
    <3>3. /\ x.pc = "idle" /\ x.st = ctl.st /\ x.att = ctl.att /\ x.task = ctl.task
          /\ x.armed = ctl.armed /\ x.device = 0
          /\ x.gen = ctl.gen /\ x.firewall = ctl.firewall /\ x.mode = ctl.mode
      BY <1>1, <3>1 DEF CtlType
    <3>4. Numbered(x)
      BY <1>1, <3>2, <3>3 DEF Numbered, CtlType
    <3>5. ctl.st # "RequestingZkNyms" => CtlSound(x)
      BY <1>1, <3>3, <3>4 DEF CtlSound
    <3>6. QED
      BY <3>3, <3>4, <3>5 DEF x
  <2>4. QED
    BY <2>1, <2>2, <2>3 DEF ForgetResults
<1>4. ASSUME Resettable PROVE Numbered(NewDevice) /\ NewDevice.account = ctl.account
  <2> DEFINE x == NewDevice
  <2>1. x \in CtlType
    <3>1. ctl.gen + 1 \in Nat
      BY <1>1 DEF CtlType
    <3>2. QED
      BY <1>1, <3>1 DEF NewDevice, CtlType
  <2>2. x.device = ctl.gen + 1 /\ x.gen = ctl.gen + 1 /\ x.account = ctl.account
        /\ ctl.gen \in Nat /\ ctl.gen < MaxDevice
    BY <1>1, <1>4 DEF NewDevice, CtlType, Resettable
  <2> HIDE DEF x
  <2>3. Numbered(x)
    BY <2>1, <2>2, AccountAssumption DEF Numbered
  <2>4. QED
    BY <2>2, <2>3 DEF x
<1>5. ASSUME Storable, NEW kind \in {"api", "decentralised"}
      PROVE  /\ Numbered(Stored(ctl, kind)) /\ Stored(ctl, kind).pc = "idle"
             /\ Stored(ctl, kind).st = ctl.st /\ Stored(ctl, kind).att = ctl.att
             /\ ctl.st = "Offline" => CtlSound(Stored(ctl, kind))
  <2> DEFINE x == Stored(ctl, kind)
  <2>1. x \in CtlType
    <3>1. ctl.gen + 1 \in Nat
      BY <1>1 DEF CtlType
    <3>2. QED
      BY <1>1, <3>1 DEF Stored, CtlType
  <2>2. /\ x.device = ctl.gen + 1 /\ x.gen = ctl.gen + 1 /\ ctl.gen \in Nat /\ ctl.gen < MaxDevice
        /\ x.pc = "idle" /\ x.st = ctl.st /\ x.att = ctl.att /\ x.task = ctl.task
        /\ x.armed = ctl.armed /\ x.firewall = ctl.firewall /\ x.mode = ctl.mode
    BY <1>1, <1>5 DEF Stored, CtlType, Storable
  <2> HIDE DEF x
  <2>3. Numbered(x)
    BY <2>1, <2>2, AccountAssumption DEF Numbered
  <2>4. ctl.st = "Offline" => CtlSound(x)
    BY <1>1, <2>2, <2>3 DEF CtlSound
  <2>5. QED
    BY <2>2, <2>3, <2>4 DEF x
<1>6. QED
  BY <1>1, <1>2, <1>3, <1>4, <1>5

\* The bound on attempts allows those counted so far, and the first.
LEMMA AttemptsAllowed ==
  ASSUME InTurn
  PROVE  /\ 0 <= AttLimit(accountEnv') /\ ctl.att <= AttLimit(accountEnv')
         /\ AttLimit(accountEnv') \in Nat
<1>1. ctl.att \in Nat /\ ctl.att <= AttLimit(accountEnv)
  BY DEF InTurn, CtlInv, CtlSound, Numbered, CtlType
<1>2. AttLimit(accountEnv) <= AttLimit(accountEnv') /\ AttLimit(accountEnv) \in Nat
      /\ AttLimit(accountEnv') \in Nat
  BY LimitGrows DEF InTurn, CtlInv
<1>3. QED
  BY <1>1, <1>2

\* A turn that starts a sync for r.
LEMMA TurnSyncs ==
  ASSUME InTurn, NEW r, Numbered(r), NEW n \in Nat, n <= AttLimit(accountEnv'),
         NEW v, Vouches(v, r), NewState(EnterSyncing(r, n), v)
  PROVE  CtlInv'
BY EnterSyncingIs, TurnNew

\* Forgetting the account, resetting the device and refreshing, in the states that take them.
LEMMA TurnForgets ==
  ASSUME InTurn, NEW res \in ForgetResults,
         \/ ForgetOrStay(res) /\ ctl.st # "RequestingZkNyms"
         \/ ForgetOrSync(res)
  PROVE  CtlInv'
<1>1. Vouches(NoValidation, Forgotten(res))
  BY DEF Vouches
<1>2. CASE LogOut(res)
  <2>1. Entered(EnterPlain(Forgotten(res), "LoggedOut"), Forgotten(res), 0)
        /\ EnterPlain(Forgotten(res), "LoggedOut").st = "LoggedOut"
    BY ChangedIs, EnterPlainIs DEF States, Busy
  <2>2. QED
    BY <1>1, <1>2, <2>1, AttemptsAllowed, TurnNew DEF LogOut
<1>3. CASE SameState(Forgotten(res), NoValidation) /\ ctl.st # "RequestingZkNyms"
  BY <1>1, <1>3, ChangedIs, TurnSame
<1>4. CASE NewState(EnterSyncing(Forgotten(res), 0), NoValidation)
  BY <1>1, <1>4, ChangedIs, AttemptsAllowed, TurnSyncs
<1>5. QED
  BY <1>2, <1>3, <1>4 DEF ForgetOrStay, ForgetOrSync

\* A turn that resets the device withdraws the validation with it.
LEMMA TurnResets ==
  ASSUME InTurn, Resettable, NEW ok \in BOOLEAN, ResetOrStay(ok) \/ ResetAndSync(ok)
  PROVE  CtlInv'
<1>1. Vouches(NoValidation, NewDevice) /\ Vouches(validated, ctl)
  BY DEF Vouches
<1>2. CASE NewState(EnterSyncing(NewDevice, 0), NoValidation)
  BY <1>1, <1>2, ChangedIs, AttemptsAllowed, TurnSyncs
<1>3. CASE NewState(EnterSyncing(ctl, 0), validated)
  BY <1>1, <1>3, ChangedIs, AttemptsAllowed, TurnSyncs
<1>4. CASE SameState(ctl, validated)
  BY <1>1, <1>4, TurnSame, ChangedIs DEF InTurn, CtlInv
<1>5. QED
  BY <1>2, <1>3, <1>4 DEF ResetOrStay, ResetAndSync

\* A turn that refreshes, or is told that the API is firewalled, keeps the invariant.
LEMMA TurnRefreshes ==
  ASSUME InTurn, RefreshUnlessFirewalled
  PROVE  CtlInv'
<1>1. Vouches(validated, ctl)
  BY DEF Vouches
<1>2. CASE NewState(EnterSyncing(ctl, 0), validated)
  BY <1>1, <1>2, ChangedIs, AttemptsAllowed, TurnSyncs
<1>3. CASE SameState(ctl, validated)
  BY <1>1, <1>3, TurnSame, ChangedIs DEF InTurn, CtlInv
<1>4. QED
  BY <1>2, <1>3 DEF RefreshUnlessFirewalled

\* What is only recorded.
LEMMA TurnRecords ==
  ASSUME InTurn, NEW cmd, Record(cmd), ctl.st # "ReadyToConnect" \/ cmd \notin {"Active", "Idle"},
         ctl.st \notin Busy \/ cmd \in {"Active", "Idle"}
  PROVE  CtlInv'
<1>1. CtlSound(ctl) /\ ctl \in CtlType /\ ctl.pc = "idle"
  BY DEF InTurn, CtlInv, CtlSound, Numbered, Turn
<1>2. ASSUME NEW b \in BOOLEAN, SameState([ctl EXCEPT !.firewall = b], validated), ctl.st \notin Busy
      PROVE  CtlInv'
  <2> DEFINE x == [ctl EXCEPT !.firewall = b]
  <2>1. x \in CtlType
    BY <1>1 DEF CtlType
  <2>2. /\ x.pc = "idle" /\ x.st = ctl.st /\ x.att = ctl.att /\ x.task = ctl.task
        /\ x.armed = ctl.armed /\ x.account = ctl.account /\ x.device = ctl.device
        /\ x.gen = ctl.gen /\ x.mode = ctl.mode
    BY <1>1 DEF CtlType
  <2>3. SameState(x, validated)
    BY <1>2
  <2> HIDE DEF x
  <2>4. CtlSound(x) /\ Vouches(validated, x) /\ x.att <= ctl.att
    BY <1>1, <1>2, <2>1, <2>2 DEF CtlSound, Numbered, Vouches, CtlType
  <2>5. QED
    BY <2>2, <2>3, <2>4, TurnSame
<1>3. ASSUME SameState([ctl EXCEPT !.mode = cmd], validated), ctl.st # "ReadyToConnect",
             cmd \in {"Active", "Idle"}
      PROVE  CtlInv'
  <2> DEFINE x == [ctl EXCEPT !.mode = cmd]
  <2>1. x \in CtlType
    BY <1>1, <1>3 DEF CtlType
  <2>2. /\ x.pc = "idle" /\ x.st = ctl.st /\ x.att = ctl.att /\ x.task = ctl.task
        /\ x.armed = ctl.armed /\ x.account = ctl.account /\ x.device = ctl.device
        /\ x.gen = ctl.gen /\ x.firewall = ctl.firewall
    BY <1>1 DEF CtlType
  <2>3. SameState(x, validated)
    BY <1>3
  <2> HIDE DEF x
  <2>4. CtlSound(x) /\ Vouches(validated, x) /\ x.att <= ctl.att
    BY <1>1, <1>3, <2>1, <2>2 DEF CtlSound, Numbered, Vouches, CtlType
  <2>5. QED
    BY <2>2, <2>3, <2>4, TurnSame
<1>4. QED
  BY <1>2, <1>3 DEF Record

\* The API's firewall going up ends the task, going down starts it again.
LEMMA TurnPauses ==
  ASSUME InTurn, ctl.st \in Busy,
         SameState([ctl EXCEPT !.firewall = TRUE, !.task = FALSE], validated)
  PROVE  CtlInv'
<1> DEFINE x == [ctl EXCEPT !.firewall = TRUE, !.task = FALSE]
<1>1. CtlSound(ctl) /\ ctl \in CtlType /\ ctl.pc = "idle"
  BY DEF InTurn, CtlInv, CtlSound, Numbered, Turn
<1>2. x \in CtlType
  BY <1>1 DEF CtlType
<1>3. /\ x.pc = "idle" /\ x.st = ctl.st /\ x.att = ctl.att /\ x.task = FALSE
      /\ x.armed = ctl.armed /\ x.account = ctl.account /\ x.device = ctl.device
      /\ x.gen = ctl.gen /\ x.mode = ctl.mode /\ x.firewall = TRUE
  BY <1>1 DEF CtlType
<1>4. SameState(x, validated)
  OBVIOUS
<1> HIDE DEF x
<1>5. CtlSound(x) /\ Vouches(validated, x) /\ x.att <= ctl.att
  BY <1>1, <1>2, <1>3 DEF CtlSound, Numbered, Vouches, CtlType
<1>6. QED
  BY <1>3, <1>4, <1>5, TurnSame

\* Lifting the firewall in the shared state changes nothing else.
LEMMA Unfirewalled ==
  ASSUME InTurn
  PROVE  LET r == [ctl EXCEPT !.firewall = FALSE] IN Numbered(r) /\ Vouches(validated, r)
<1> DEFINE x == [ctl EXCEPT !.firewall = FALSE]
<1>1. ctl \in CtlType /\ Numbered(ctl)
  BY DEF InTurn, CtlInv, CtlSound, Numbered
<1>2. x \in CtlType
  BY <1>1 DEF CtlType
<1>3. x.account = ctl.account /\ x.device = ctl.device /\ x.gen = ctl.gen
  BY <1>1 DEF CtlType
<1> HIDE DEF x
<1>4. Numbered(x) /\ Vouches(validated, x)
  BY <1>1, <1>2, <1>3 DEF Numbered, Vouches
<1>5. QED
  BY <1>4 DEF x

\* The command arm of LoggedOut keeps the invariant.
LEMMA LoggedOutInv ==
  ASSUME InTurn, NEW cmd \in Commands, ctl.st = "LoggedOut", LoggedOutCommand(cmd)
  PROVE  CtlInv'
<1>1. ASSUME NEW kind \in {"api", "decentralised"}, Storable,
             NewState(EnterSyncing(Stored(ctl, kind), 0), validated)
      PROVE  CtlInv'
  <2>1. Vouches(validated, Stored(ctl, kind))
    BY <1>1 DEF Vouches, Storable
  <2>2. QED
    BY <1>1, <2>1, ChangedIs, AttemptsAllowed, TurnSyncs
<1>2. CASE NewState(EnterSyncing(ctl, 0), validated)
  BY <1>2, ChangedIs, AttemptsAllowed, TurnSyncs DEF Vouches
<1>3. CASE Record(cmd)
  BY <1>3, TurnRecords DEF Busy
<1>4. QED
  BY <1>1, <1>2, <1>3 DEF LoggedOutCommand

\* The command arm of Offline.
LEMMA OfflineInv ==
  ASSUME InTurn, NEW cmd \in Commands, ctl.st = "Offline", OfflineCommand(cmd)
  PROVE  CtlInv'
<1>1. ASSUME NEW kind \in {"api", "decentralised"}, Storable,
             SameState(Stored(ctl, kind), validated)
      PROVE  CtlInv'
  <2>1. Vouches(validated, Stored(ctl, kind))
    BY <1>1 DEF Vouches, Storable
  <2>2. QED
    BY <1>1, <2>1, ChangedIs, TurnSame
<1>2. CASE Record(cmd)
  BY <1>2, TurnRecords DEF Busy
<1>3. QED
  BY <1>1, <1>2 DEF OfflineCommand

\* The command arm of Syncing.
LEMMA SyncingInv ==
  ASSUME InTurn, NEW cmd \in Commands, ctl.st = "Syncing", SyncingCommand(cmd)
  PROVE  CtlInv'
<1>1. ASSUME NEW res \in ForgetResults, ForgetOrStay(res) PROVE CtlInv'
  BY <1>1, TurnForgets
<1>2. ASSUME Resettable, NEW ok \in BOOLEAN, ResetAndSync(ok) PROVE CtlInv'
  BY <1>2, TurnResets
<1>3. CASE RefreshUnlessFirewalled
  BY <1>3, TurnRefreshes
<1>4. CASE NewState(EnterSyncing([ctl EXCEPT !.firewall = FALSE], ctl.att), validated)
  BY <1>4, Unfirewalled, ChangedIs, AttemptsAllowed, TurnSyncs
<1>5. CASE SameState([ctl EXCEPT !.firewall = TRUE, !.task = FALSE], validated)
  BY <1>5, TurnPauses DEF Busy
<1>6. CASE cmd \in {"Active", "Idle"} /\ Record(cmd)
  BY <1>6, TurnRecords
<1>7. CASE NewState(EnterSyncing(ctl, ctl.att), validated)
  BY <1>7, ChangedIs, AttemptsAllowed, TurnSyncs DEF Vouches
<1>8. QED
  BY <1>1, <1>2, <1>3, <1>4, <1>5, <1>6, <1>7 DEF SyncingCommand

\* The command arm of RequestingZkNyms.
LEMMA RequestingInv ==
  ASSUME InTurn, NEW cmd \in Commands, ctl.st = "RequestingZkNyms", RequestingCommand(cmd)
  PROVE  CtlInv'
<1>1. ASSUME NEW res \in ForgetResults, ForgetOrSync(res) PROVE CtlInv'
  BY <1>1, TurnForgets
<1>2. ASSUME Resettable, NEW ok \in BOOLEAN, ResetAndSync(ok) PROVE CtlInv'
  BY <1>2, TurnResets
<1>3. CASE RefreshUnlessFirewalled
  BY <1>3, TurnRefreshes
<1>4. CASE NewState(EnterRequesting([ctl EXCEPT !.firewall = FALSE], ctl.att, ctl.um), validated)
  BY <1>4, Unfirewalled, ChangedIs, AttemptsAllowed, EnterRequestingIs, TurnNew
<1>5. CASE SameState([ctl EXCEPT !.firewall = TRUE, !.task = FALSE], validated)
  BY <1>5, TurnPauses DEF Busy
<1>6. CASE cmd \in {"Active", "Idle"} /\ Record(cmd)
  BY <1>6, TurnRecords
<1>7. CASE NewState(EnterRequesting(ctl, ctl.att, ctl.um), validated)
  <2>1. Vouches(validated, ctl)
    BY DEF Vouches
  <2>2. QED
    BY <1>7, <2>1, ChangedIs, AttemptsAllowed, EnterRequestingIs, TurnNew
<1>8. QED
  BY <1>1, <1>2, <1>3, <1>4, <1>5, <1>6, <1>7 DEF RequestingCommand

\* The command arm of ReadyToConnect.
LEMMA ReadyInv ==
  ASSUME InTurn, NEW cmd \in Commands, ctl.st = "ReadyToConnect", ReadyCommand(cmd)
  PROVE  CtlInv'
<1>1. ASSUME NEW res \in ForgetResults, ForgetOrStay(res) PROVE CtlInv'
  BY <1>1, TurnForgets
<1>2. ASSUME Resettable, NEW ok \in BOOLEAN, ResetOrStay(ok) PROVE CtlInv'
  BY <1>2, TurnResets
<1>3. CASE RefreshUnlessFirewalled
  BY <1>3, TurnRefreshes
<1>4. CASE cmd \in {"FirewallUp", "FirewallDown"} /\ Record(cmd)
  BY <1>4, TurnRecords DEF Busy
<1>5. CASE cmd \in {"Active", "Idle"} /\ ApplyMode(cmd)
  <2> DEFINE x == [ctl EXCEPT !.mode = cmd, !.armed = Interval(cmd)]
  <2>1. CtlSound(ctl) /\ ctl \in CtlType /\ ctl.pc = "idle"
    BY DEF InTurn, CtlInv, CtlSound, Numbered, Turn
  <2>2. Interval(cmd) \in {0, 1, 2}
    BY DEF Interval
  <2>3. x \in CtlType
    BY <1>5, <2>1, <2>2 DEF CtlType
  <2>4. /\ x.pc = "idle" /\ x.st = ctl.st /\ x.att = ctl.att /\ x.task = ctl.task
        /\ x.armed = Interval(x.mode) /\ x.account = ctl.account /\ x.device = ctl.device
        /\ x.gen = ctl.gen /\ x.firewall = ctl.firewall
    BY <1>5, <2>1 DEF CtlType
  <2>5. NewState(EnterSyncing(x, 0), validated) \/ SameState(x, validated)
    BY <1>5 DEF ApplyMode
  <2> HIDE DEF x
  <2>6. CtlSound(x) /\ Numbered(x) /\ Vouches(validated, x) /\ x.att <= ctl.att
    BY <2>1, <2>3, <2>4 DEF CtlSound, Numbered, Vouches, CtlType
  <2>7. CASE NewState(EnterSyncing(x, 0), validated)
    BY <2>6, <2>7, AttemptsAllowed, TurnSyncs
  <2>8. CASE SameState(x, validated)
    BY <2>4, <2>6, <2>8, TurnSame
  <2>9. QED
    BY <2>5, <2>7, <2>8
<1>6. QED
  BY <1>1, <1>2, <1>3, <1>4, <1>5 DEF ReadyCommand

\* The command arm of Error.
LEMMA ErrorInv ==
  ASSUME InTurn, NEW cmd \in Commands, ctl.st = "Error", ErrorCommand(cmd)
  PROVE  CtlInv'
<1>1. ASSUME NEW res \in ForgetResults, ForgetOrSync(res) PROVE CtlInv'
  BY <1>1, TurnForgets
<1>2. ASSUME Resettable, NEW ok \in BOOLEAN, ResetOrStay(ok) PROVE CtlInv'
  BY <1>2, TurnResets
<1>3. CASE RefreshUnlessFirewalled
  BY <1>3, TurnRefreshes
<1>4. CASE Record(cmd)
  BY <1>4, TurnRecords DEF Busy
<1>5. QED
  BY <1>1, <1>2, <1>3, <1>4 DEF ErrorCommand

\* The command arm of UpgradeMode.
LEMMA UpgradeModeInv ==
  ASSUME InTurn, NEW cmd \in Commands, ctl.st = "UpgradeMode", UpgradeModeCommand(cmd)
  PROVE  CtlInv'
<1>0. Vouches(validated, ctl) /\ Vouches(NoValidation, NewDevice)
  BY DEF Vouches
<1>1. ASSUME NEW res \in ForgetResults, ForgetOrStay(res) PROVE CtlInv'
  BY <1>1, TurnForgets
<1>2. CASE SameState(ctl, validated)
  BY <1>0, <1>2, TurnSame, ChangedIs DEF InTurn, CtlInv
<1>3. ASSUME Resettable, NEW purged \in BOOLEAN,
             NewState(LeaveUpgradeMode(NewDevice, purged), NoValidation)
      PROVE  CtlInv'
  BY <1>0, <1>3, ChangedIs, AttemptsAllowed, LeaveUpgradeModeIs, TurnNew
<1>4. ASSUME NEW purged \in BOOLEAN, NewState(LeaveUpgradeMode(ctl, purged), validated)
      PROVE  CtlInv'
  BY <1>0, <1>4, ChangedIs, AttemptsAllowed, LeaveUpgradeModeIs, TurnNew
<1>5. CASE Record(cmd)
  BY <1>5, TurnRecords DEF Busy
<1>6. QED
  BY <1>1, <1>2, <1>3, <1>4, <1>5 DEF UpgradeModeCommand

\* Every command keeps the invariant, whatever state takes it.
LEMMA HandleInv ==
  ASSUME InTurn, NEW cmd \in Commands, Handle(cmd)
  PROVE  CtlInv'
<1>1. CASE ctl.st = "LoggedOut"
  BY <1>1, LoggedOutInv DEF Handle
<1>2. CASE ctl.st = "Offline"
  BY <1>2, OfflineInv DEF Handle
<1>3. CASE ctl.st = "Syncing"
  BY <1>3, SyncingInv DEF Handle
<1>4. CASE ctl.st = "RequestingZkNyms"
  BY <1>4, RequestingInv DEF Handle
<1>5. CASE ctl.st = "ReadyToConnect"
  BY <1>5, ReadyInv DEF Handle
<1>6. CASE ctl.st = "Error"
  BY <1>6, ErrorInv DEF Handle
<1>7. CASE ctl.st = "UpgradeMode"
  BY <1>7, UpgradeModeInv DEF Handle
<1>8. CASE ctl.st = "Decentralised"
  <2>1. ASSUME NEW res \in ForgetResults, ForgetOrStay(res) PROVE CtlInv'
    BY <1>8, <2>1, TurnForgets
  <2>2. CASE cmd \in {"Active", "Idle"} /\ Record(cmd)
    BY <1>8, <2>2, TurnRecords
  <2>3. QED
    BY <1>8, <2>1, <2>2 DEF Handle, DecentralisedCommand
<1>9. ctl.st \in States /\ ctl.st # "Finished"
  BY DEF InTurn, Turn, CtlInv, CtlSound, Numbered, CtlType
<1>10. QED
  BY <1>1, <1>2, <1>3, <1>4, <1>5, <1>6, <1>7, <1>8, <1>9 DEF States, Busy

-----------------------------------------------------------------------------
\* The ends of the background tasks and the other turns of the loop.
LEMMA TurnConnectivity ==
  ASSUME InTurn, Connectivity
  PROVE  CtlInv'
<1> DEFINE r == [ctl EXCEPT !.seen = ctl.online]
<1>1. CtlSound(ctl) /\ ctl \in CtlType /\ ctl.pc = "idle"
  BY DEF InTurn, CtlInv, CtlSound, Numbered, Turn
<1>2. r \in CtlType
  BY <1>1 DEF CtlType
<1>3. /\ r.pc = "idle" /\ r.st = ctl.st /\ r.att = ctl.att /\ r.task = ctl.task
      /\ r.armed = ctl.armed /\ r.account = ctl.account /\ r.device = ctl.device
      /\ r.gen = ctl.gen /\ r.mode = ctl.mode /\ r.firewall = ctl.firewall
  BY <1>1 DEF CtlType
<1>4. \/ NewState(EnterSyncing(r, 0), validated)
      \/ NewState(EnterPlain(r, "Offline"), validated)
      \/ SameState(r, validated)
  BY DEF Connectivity
<1> HIDE DEF r
<1>5. CtlSound(r) /\ Numbered(r) /\ Vouches(validated, r) /\ r.att <= ctl.att
  BY <1>1, <1>2, <1>3 DEF CtlSound, Numbered, Vouches, CtlType
<1>6. CASE NewState(EnterSyncing(r, 0), validated)
  BY <1>5, <1>6, AttemptsAllowed, TurnSyncs
<1>7. CASE NewState(EnterPlain(r, "Offline"), validated)
  <2>1. Entered(EnterPlain(r, "Offline"), r, 0) /\ EnterPlain(r, "Offline").st = "Offline"
    BY <1>5, EnterPlainIs DEF States, Busy
  <2>2. QED
    BY <1>5, <1>7, <2>1, AttemptsAllowed, TurnNew
<1>8. CASE SameState(r, validated)
  BY <1>3, <1>5, <1>8, TurnSame
<1>9. QED
  BY <1>4, <1>6, <1>7, <1>8

\* The shutdown arm.
LEMMA TurnShutdown ==
  ASSUME InTurn, SameState(EnterPlain(ctl, "Finished"), validated)
  PROVE  CtlInv'
<1>1. Entered(EnterPlain(ctl, "Finished"), ctl, 0) /\ EnterPlain(ctl, "Finished").st = "Finished"
  BY ChangedIs, EnterPlainIs DEF States, Busy
<1>2. Vouches(validated, EnterPlain(ctl, "Finished"))
  BY <1>1 DEF Vouches, Entered
<1>3. EnterPlain(ctl, "Finished").att <= ctl.att
  <2>1. EnterPlain(ctl, "Finished").att \in Nat /\ EnterPlain(ctl, "Finished").att <= 0
    BY <1>1 DEF Entered, CtlSound, Numbered, CtlType
  <2>2. QED
    BY <2>1, ChangedIs
<1>4. QED
  BY <1>1, <1>2, <1>3, ChangedIs, TurnSame DEF Entered

\* A sync that ends, in each of its ways.
LEMMA TurnSyncEnds ==
  ASSUME InTurn, NEW out \in SyncOutcomes, SyncEnds(out)
  PROVE  CtlInv'
<1> DEFINE r == IF out.summary = "none" THEN ctl ELSE [ctl EXCEPT !.summary = out.summary]
<1>1. ctl \in CtlType /\ Numbered(ctl) /\ ctl.att \in Nat
  BY DEF InTurn, CtlInv, CtlSound, Numbered, CtlType
<1>2. out.summary \in {"none", "left", "depleted"}
  BY DEF SyncOutcomes
<1>3. r \in CtlType
  BY <1>1, <1>2 DEF CtlType
<1>4. r.account = ctl.account /\ r.device = ctl.device /\ r.gen = ctl.gen
  BY <1>1 DEF CtlType
<1>5. \/ NewState(EnterRequesting(r, ctl.att, FALSE), validated)
      \/ ~SyncExhausted /\ NewState(EnterSyncing(r, ctl.att + 1), NoValidation)
      \/ NewState(EnterError(r, SyncReason(out.error)), NoValidation)
  BY DEF SyncEnds
<1> HIDE DEF r
<1>6. Numbered(r) /\ Vouches(validated, r) /\ Vouches(NoValidation, r)
  BY <1>1, <1>3, <1>4 DEF Numbered, Vouches
<1>7. CASE NewState(EnterRequesting(r, ctl.att, FALSE), validated)
  BY <1>1, <1>6, <1>7, AttemptsAllowed, EnterRequestingIs, TurnNew
<1>8. CASE ~SyncExhausted /\ NewState(EnterSyncing(r, ctl.att + 1), NoValidation)
  <2>1. ctl.att + 1 \in Nat /\ ctl.att + 1 <= AttLimit(accountEnv')
    BY <1>1, <1>8, AccountAssumption DEF SyncExhausted, AttLimit, InTurn, Budgets
  <2>2. QED
    BY <1>6, <1>8, <2>1, TurnSyncs
<1>9. CASE NewState(EnterError(r, SyncReason(out.error)), NoValidation)
  <2>1. SyncReason(out.error) \in Reasons
    BY DEF SyncReason, Reasons
  <2>2. Entered(EnterError(r, SyncReason(out.error)), r, 0)
        /\ EnterError(r, SyncReason(out.error)).st = "Error"
    BY <1>6, <2>1, EnterErrorIs
  <2>3. QED
    BY <1>6, <1>9, <2>2, AttemptsAllowed, TurnNew
<1>10. QED
  BY <1>5, <1>7, <1>8, <1>9

\* A sync whose task dies: the attempt it counts is paid for by the budget.
LEMMA TurnSyncPanics ==
  ASSUME InTurn, SyncPanics
  PROVE  CtlInv'
<1>1. ctl.att \in Nat /\ Numbered(ctl) /\ Vouches(NoValidation, ctl)
  BY ChangedIs DEF Vouches
<1>2. CASE NewState(EnterError(ctl, "Internal"), NoValidation)
  <2>1. Entered(EnterError(ctl, "Internal"), ctl, 0) /\ EnterError(ctl, "Internal").st = "Error"
    BY <1>1, EnterErrorIs DEF Reasons
  <2>2. QED
    BY <1>1, <1>2, <2>1, AttemptsAllowed, TurnNew
<1>3. CASE ~SyncExhausted /\ NewState(EnterSyncing(ctl, ctl.att + 1), NoValidation)
  <2>1. ctl.att + 1 \in Nat /\ ctl.att + 1 <= AttLimit(accountEnv')
    BY <1>1, <1>3, AccountAssumption DEF SyncExhausted, AttLimit, InTurn, Budgets
  <2>2. QED
    BY <1>1, <1>3, <2>1, TurnSyncs
<1>4. QED
  BY <1>2, <1>3 DEF SyncPanics

\* A ticket request that ends, in each of its ways.
LEMMA TurnFetchEnds ==
  ASSUME InTurn, NEW out \in FetchOutcomes(ctl), FetchEnds(out)
  PROVE  CtlInv'
<1>1. /\ ctl \in CtlType /\ ctl.att \in Nat /\ Numbered(ctl) /\ Vouches(NoValidation, ctl)
      /\ ctl.account = "api"
  BY ChangedIs DEF Vouches, FetchEnds, InTurn, CtlInv, CtlSound, Numbered
<1>2. ASSUME NEW t \in {ctl.tickets, "enough"},
             NewState(EnterReady([ctl EXCEPT !.tickets = t]), validated)
      PROVE  CtlInv'
  <2> DEFINE r == [ctl EXCEPT !.tickets = t]
  <2>1. r \in CtlType
    BY <1>1 DEF CtlType, TicketLevels
  <2>2. r.account = ctl.account /\ r.device = ctl.device /\ r.gen = ctl.gen
    BY <1>1 DEF CtlType
  <2>3. NewState(EnterReady(r), validated)
    BY <1>2
  <2> HIDE DEF r
  <2>4. Numbered(r) /\ Vouches(validated, r)
    BY <1>1, <2>1, <2>2 DEF Numbered, Vouches
  <2>5. QED
    BY <1>1, <2>2, <2>3, <2>4, AttemptsAllowed, EnterReadyIs, TurnNew
<1>3. ASSUME NEW stored \in {"fails", "reads"},
             NewState(EnterUpgradeMode([ctl EXCEPT !.jwt = TRUE], stored), NoValidation)
      PROVE  CtlInv'
  <2> DEFINE r == [ctl EXCEPT !.jwt = TRUE]
  <2>1. r \in CtlType
    BY <1>1 DEF CtlType
  <2>2. r.account = ctl.account /\ r.device = ctl.device /\ r.gen = ctl.gen
    BY <1>1 DEF CtlType
  <2>3. NewState(EnterUpgradeMode(r, stored), NoValidation)
    BY <1>3
  <2> HIDE DEF r
  <2>4. Numbered(r) /\ Vouches(NoValidation, r)
    BY <1>1, <2>1, <2>2 DEF Numbered, Vouches
  <2>5. QED
    BY <2>3, <2>4, AttemptsAllowed, EnterUpgradeModeIs, TurnNew
<1>4. ASSUME out \notin {"Sufficient", "Fetched", "UpgradeMode"},
             NewState(EnterError(ctl, out), NoValidation)
      PROVE  CtlInv'
  <2>1. out \in Reasons
    BY <1>4 DEF FetchOutcomes, Reasons
  <2>2. Entered(EnterError(ctl, out), ctl, 0) /\ EnterError(ctl, out).st = "Error"
    BY <1>1, <2>1, EnterErrorIs
  <2>3. QED
    BY <1>1, <1>4, <2>2, AttemptsAllowed, TurnNew
<1>5. CASE NewState(EnterReady(ctl), NoValidation)
  BY <1>1, <1>5, AttemptsAllowed, EnterReadyIs, TurnNew
<1>6. ASSUME NEW n \in Nat, n <= ZK_NYM_MAX_FAILS + 1,
             NewState(EnterRequesting(ctl, n, FALSE), NoValidation)
      PROVE  CtlInv'
  <2>1. n <= AttLimit(accountEnv')
    <3>1. ZK_NYM_MAX_FAILS + 1 <= AttLimit(accountEnv') /\ AttLimit(accountEnv') \in Nat
      BY LimitGrows DEF InTurn, CtlInv
    <3>2. QED
      BY <1>6, <3>1, AccountAssumption
  <2>2. Entered(EnterRequesting(ctl, n, FALSE), ctl, n)
        /\ EnterRequesting(ctl, n, FALSE).st # "ReadyToConnect"
    BY <1>1, EnterRequestingIs
  <2>3. QED
    BY <1>1, <1>6, <2>1, <2>2, TurnNew
<1>7. CASE out \in {"Sufficient", "Fetched"}
  BY <1>2, <1>7 DEF FetchEnds
<1>8. CASE out = "UpgradeMode"
  BY <1>3, <1>8 DEF FetchEnds
<1>9. CASE out \notin {"Sufficient", "Fetched", "UpgradeMode"}
  <2>1. CASE ctl.att > ZK_NYM_MAX_FAILS
    BY <1>4, <1>9, <2>1 DEF FetchEnds
  <2>2. CASE ~(ctl.att > ZK_NYM_MAX_FAILS) /\ ctl.tickets \in {"minimal", "enough"}
    BY <1>5, <1>9, <2>2 DEF FetchEnds
  <2>3. CASE ~(ctl.att > ZK_NYM_MAX_FAILS) /\ ctl.tickets \notin {"minimal", "enough"}
    <3>1. /\ ZK_NYM_MAX_FAILS + 1 \in Nat /\ ctl.att + 1 \in Nat
          /\ ctl.att + 1 <= ZK_NYM_MAX_FAILS + 1
      BY <1>1, <2>3, AccountAssumption
    <3>2. CASE out \in {"Storage", "Internal"}
      <4> DEFINE n == ZK_NYM_MAX_FAILS + 1
      <4>1. NewState(EnterRequesting(ctl, n, FALSE), NoValidation)
        BY <1>9, <2>3, <3>2 DEF FetchEnds
      <4>2. n \in Nat /\ n <= ZK_NYM_MAX_FAILS + 1
        BY <3>1
      <4> HIDE DEF n
      <4>3. QED
        BY <1>6, <4>1, <4>2
    <3>3. CASE out = "ApiFailure"
      BY <1>6, <1>9, <2>3, <3>1, <3>3 DEF FetchEnds
    <3>4. CASE out = "BandwidthExceeded"
      BY <1>4, <1>5, <1>9, <2>3, <3>4 DEF FetchEnds
    <3>5. QED
      BY <1>9, <3>2, <3>3, <3>4 DEF FetchOutcomes
  <2>4. QED
    BY <2>1, <2>2, <2>3
<1>10. QED
  BY <1>7, <1>8, <1>9

\* A credential that expired, and a ticket request whose task dies.
LEMMA TurnFetchStops ==
  ASSUME InTurn, UpgradeModeExpires \/ FetchPanics
  PROVE  CtlInv'
<1>1. ctl \in CtlType /\ ctl.att \in Nat /\ Numbered(ctl) /\ Vouches(NoValidation, ctl)
  BY ChangedIs DEF Vouches, Numbered
<1>2. CASE UpgradeModeExpires
  <2> DEFINE r == [ctl EXCEPT !.jwt = TRUE]
  <2>1. r \in CtlType
    BY <1>1 DEF CtlType
  <2>2. r.account = ctl.account /\ r.device = ctl.device /\ r.gen = ctl.gen
    BY <1>1 DEF CtlType
  <2>3. NewState(EnterUpgradeMode(r, "expired"), NoValidation)
    BY <1>2 DEF UpgradeModeExpires
  <2> HIDE DEF r
  <2>4. Numbered(r) /\ Vouches(NoValidation, r)
    BY <1>1, <2>1, <2>2 DEF Numbered, Vouches
  <2>5. QED
    BY <2>3, <2>4, AttemptsAllowed, EnterUpgradeModeIs, TurnNew
<1>3. CASE FetchPanics
  <2>1. ctl.att <= AttLimit(accountEnv) /\ accountEnv' = accountEnv - 1
    BY <1>3 DEF FetchPanics, Spend, InTurn, CtlInv
  <2>2. ctl.att + 1 \in Nat /\ ctl.att + 1 <= AttLimit(accountEnv')
    BY <1>1, <2>1, AccountAssumption DEF AttLimit, InTurn, CtlInv, Budgets
  <2>3. QED
    BY <1>1, <1>3, <2>2, TurnSyncs DEF FetchPanics
<1>4. QED
  BY <1>2, <1>3

\* The refresh timers.
LEMMA TurnRefreshTick ==
  ASSUME InTurn, RefreshTick
  PROVE  CtlInv'
<1>1. /\ CtlSound(ctl) /\ Numbered(ctl) /\ Vouches(validated, ctl) /\ ctl.why \in Reasons
      /\ ctl.armed \in {0, 1, 2}
  BY DEF Vouches, InTurn, CtlInv, CtlSound, Numbered, CtlType
<1>2. ctl.st \in {"ReadyToConnect", "Error", "UpgradeMode"}
  BY <1>1 DEF RefreshTick, CtlSound
<1>3. CASE ctl.st = "UpgradeMode"
  <2>1. NewState(EnterRequesting(ctl, 0, TRUE), validated)
    BY <1>3 DEF RefreshTick
  <2>2. QED
    BY <1>1, <2>1, AttemptsAllowed, EnterRequestingIs, TurnNew
<1>4. CASE ctl.st # "UpgradeMode" /\ ~ctl.firewall
  <2>1. NewState(EnterSyncing(ctl, 0), validated)
    BY <1>4 DEF RefreshTick
  <2>2. QED
    BY <1>1, <2>1, AttemptsAllowed, TurnSyncs
<1>5. CASE ctl.st = "Error" /\ ctl.firewall
  <2>1. NewState(EnterError(ctl, ctl.why), validated)
    BY <1>5 DEF RefreshTick
  <2>2. Entered(EnterError(ctl, ctl.why), ctl, 0) /\ EnterError(ctl, ctl.why).st = "Error"
    BY <1>1, EnterErrorIs
  <2>3. QED
    BY <1>1, <2>1, <2>2, AttemptsAllowed, TurnNew
<1>6. CASE ctl.st = "ReadyToConnect" /\ ctl.firewall
  <2>1. NewState(EnterReady(ctl), validated)
    BY <1>6 DEF RefreshTick
  <2>2. QED
    BY <1>1, <1>6, <2>1, AttemptsAllowed, EnterReadyIs, TurnNew
<1>7. QED
  BY <1>2, <1>3, <1>4, <1>5, <1>6

-----------------------------------------------------------------------------
\* The controller's part of the invariant, when no turn is taken.
LEMMA PublishesInv ==
  ASSUME CtlInv, PublishValidation \/ PublishState
  PROVE  CtlInv'
<1>1. /\ CtlSound(ctl) /\ ctl \in CtlType /\ Numbered(ctl) /\ ctl.st \in States
      /\ ctl.why \in Reasons /\ accountEnv' = accountEnv
  BY DEF CtlInv, CtlSound, Numbered, CtlType, PublishValidation, PublishState
<1>2. ASSUME NEW p \in {"idle", "publish"}, ctl' = [ctl EXCEPT !.pc = p]
      PROVE  /\ CtlSound(ctl') /\ ctl'.att = ctl.att /\ ctl'.st = ctl.st /\ ctl'.pc = p
             /\ ctl'.account = ctl.account /\ ctl'.device = ctl.device
  <2>1. ctl' \in CtlType
    BY <1>1, <1>2 DEF CtlType
  <2>2. /\ ctl'.pc = p /\ ctl'.st = ctl.st /\ ctl'.att = ctl.att /\ ctl'.task = ctl.task
        /\ ctl'.armed = ctl.armed /\ ctl'.account = ctl.account /\ ctl'.device = ctl.device
        /\ ctl'.gen = ctl.gen /\ ctl'.mode = ctl.mode /\ ctl'.firewall = ctl.firewall
    BY <1>1, <1>2 DEF CtlType
  <2>3. QED
    BY <1>1, <2>1, <2>2 DEF CtlSound, Numbered
<1>3. CASE PublishValidation
  <2>1. /\ CtlSound(ctl') /\ ctl'.att = ctl.att /\ ctl'.st = ctl.st /\ ctl'.pc = "publish"
        /\ ctl'.account = ctl.account /\ ctl'.device = ctl.device
    BY <1>2, <1>3 DEF PublishValidation
  <2>2. ctl.device \in 0..MaxDevice
    BY <1>1, AccountAssumption DEF Numbered, CtlType
  <2>3. /\ published' = published /\ ctl.pc = "validate"
        /\ validated' = NextValidation(ctl.st, published.st = "ReadyToConnect", validated)
    BY <1>3 DEF PublishValidation
  <2>4. CASE ctl.st = "ReadyToConnect" /\ published.st # "ReadyToConnect"
    <3>1. validated' = [device |-> ctl.device, age |-> 0]
      BY <2>3, <2>4 DEF NextValidation, Busy
    <3>2. ctl.account = "api"
      BY <2>3, <2>4 DEF CtlInv
    <3>3. QED
      <4>1. validated' \in Validations /\ validated'.device = ctl.device
        BY <2>2, <3>1 DEF Validations
      <4>2. ValidationCurrent'
        BY <2>1, <3>2, <4>1 DEF ValidationCurrent
      <4>3. QED
        BY <1>1, <2>1, <2>3, <2>4, <4>1, <4>2 DEF CtlInv
  <2>5. CASE ctl.st \in Busy \/ (ctl.st = "ReadyToConnect" /\ published.st = "ReadyToConnect")
    <3>1. validated' = validated
      BY <2>3, <2>5 DEF NextValidation, Busy
    <3>2. QED
      BY <1>1, <2>1, <2>3, <2>5, <3>1 DEF CtlInv, ValidationCurrent, RecentlyValidated
  <2>6. CASE ctl.st \notin Busy \cup {"ReadyToConnect"}
    <3>1. validated' = NoValidation
      BY <2>3, <2>6 DEF NextValidation
    <3>2. ~RecentlyValidated' /\ validated' \in Validations
      BY <3>1, AccountAssumption
      DEF RecentlyValidated, NoValidation, Freshness, Interval, Validations
    <3>3. QED
      BY <1>1, <2>1, <2>3, <3>2 DEF CtlInv, ValidationCurrent
  <2>7. QED
    BY <2>4, <2>5, <2>6
<1>4. CASE PublishState
  <2>1. /\ CtlSound(ctl') /\ ctl'.att = ctl.att /\ ctl'.st = ctl.st /\ ctl'.pc = "idle"
        /\ ctl'.account = ctl.account /\ ctl'.device = ctl.device
    BY <1>2, <1>4 DEF PublishState
  <2>2. /\ ctl.pc = "publish" /\ validated' = validated /\ published' \in Published
        /\ published'.st = ctl.st
    BY <1>1, <1>4 DEF PublishState, Published
  <2>3. QED
    BY <1>1, <2>1, <2>2 DEF CtlInv, ValidationCurrent, RecentlyValidated
<1>5. QED
  BY <1>3, <1>4

\* The world around it: the link, the sessions that spend tickets, time.
LEMMA WorldInv ==
  ASSUME CtlInv, AccountLinkChanges \/ SpendTickets \/ TimePasses
  PROVE  CtlInv'
<1>1. CtlSound(ctl) /\ ctl \in CtlType /\ published' = published
  BY DEF CtlInv, CtlSound, Numbered, AccountLinkChanges, SpendTickets, TimePasses
<1>2. /\ ctl' \in CtlType
      /\ ctl'.pc = ctl.pc /\ ctl'.st = ctl.st /\ ctl'.att = ctl.att /\ ctl'.task = ctl.task
      /\ ctl'.armed = ctl.armed /\ ctl'.account = ctl.account /\ ctl'.device = ctl.device
      /\ ctl'.gen = ctl.gen /\ ctl'.mode = ctl.mode /\ ctl'.firewall = ctl.firewall
  <2>1. CASE AccountLinkChanges
    <3>1. ctl' = [ctl EXCEPT !.online = ~@]
      BY <2>1 DEF AccountLinkChanges
    <3>2. ctl' \in CtlType
      BY <1>1, <3>1 DEF CtlType
    <3>3. QED
      BY <1>1, <3>1, <3>2 DEF CtlType
  <2>2. CASE SpendTickets
    <3>1. PICK t \in TicketLevels : ctl' = [ctl EXCEPT !.tickets = t]
      BY <2>2 DEF SpendTickets
    <3>2. ctl' \in CtlType
      BY <1>1, <3>1 DEF CtlType
    <3>3. QED
      BY <1>1, <3>1, <3>2 DEF CtlType
  <2>3. CASE TimePasses
    <3>1. ctl' = [ctl EXCEPT !.age = IF ctl.armed > 0 THEN CapAge(@) ELSE @]
      BY <2>3 DEF TimePasses
    <3>2. \A n \in {0, 1, 2} : CapAge(n) \in {0, 1, 2}
      BY DEF CapAge, Freshness, Interval
    <3>3. ctl' \in CtlType
      BY <1>1, <3>1, <3>2 DEF CtlType
    <3>4. QED
      BY <1>1, <3>1, <3>3 DEF CtlType
  <2>4. QED
    BY <2>1, <2>2, <2>3
<1>3. CtlSound(ctl')
  BY <1>1, <1>2 DEF CtlSound, Numbered
<1>4. accountEnv' \in Budgets /\ ctl'.att <= AttLimit(accountEnv')
  <2>1. accountEnv' \in Budgets /\ accountEnv' <= accountEnv
    <3>1. accountEnv \in Budgets /\ (accountEnv' = accountEnv \/ Spend)
      BY DEF CtlInv, AccountLinkChanges, SpendTickets, TimePasses
    <3>2. QED
      BY <3>1, AccountAssumption DEF Budgets, Spend
  <2>2. ctl.att \in Nat /\ ctl.att <= AttLimit(accountEnv)
    BY <1>1 DEF CtlInv, CtlType
  <2>3. AttLimit(accountEnv) <= AttLimit(accountEnv') /\ AttLimit(accountEnv) \in Nat
        /\ AttLimit(accountEnv') \in Nat
    BY <2>1, LimitGrows DEF CtlInv
  <2>4. QED
    BY <1>2, <2>1, <2>2, <2>3
<1>5. /\ validated' \in Validations /\ validated'.device = validated.device
      /\ RecentlyValidated' => RecentlyValidated
  <2>1. CASE validated' = validated
    BY <2>1 DEF CtlInv, RecentlyValidated
  <2>2. CASE validated' = [validated EXCEPT !.age = CapAge(@)]
    <3>1. validated \in Validations
      BY DEF CtlInv
    <3>2. \A n \in {0, 1, 2} : CapAge(n) \in {0, 1, 2} /\ (CapAge(n) < 2 => n < 2)
      BY DEF CapAge, Freshness, Interval
    <3>3. validated' \in Validations
      BY <2>2, <3>1, <3>2 DEF Validations
    <3>4. validated'.device = validated.device /\ validated'.age = CapAge(validated.age)
          /\ validated.age \in {0, 1, 2}
      BY <2>2, <3>1 DEF Validations
    <3>5. QED
      BY <3>2, <3>3, <3>4 DEF RecentlyValidated, Freshness, Interval
  <2>3. QED
    BY <2>1, <2>2 DEF AccountLinkChanges, SpendTickets, TimePasses
<1>6. QED
  BY <1>1, <1>2, <1>3, <1>4, <1>5 DEF CtlInv, ValidationCurrent

ReaderType ==
  [pc : {"idle", "judge", "wait", "again", "refresh", "ok", "err"}, seen : Published,
   changed : BOOLEAN, asked : BOOLEAN]

\* The inductive invariant of the controller with the connect that waits for it.
AccountInv == CtlInv /\ reader \in ReaderType

\* It holds of a controller that starts, online or not, with or without an account.
LEMMA AccountInvInit == AccountInit => AccountInv
<1>1. SUFFICES ASSUME NEW account \in {"none", "api", "decentralised"}, NEW online \in BOOLEAN,
                      ctl = AccountInitial(account, online),
                      validated = NoValidation,
                      published = [st |-> ctl.st, why |-> ctl.why],
                      reader = [pc |-> "idle", seen |-> published, changed |-> FALSE,
                                asked |-> FALSE],
                      accountEnv = AccountBudget
               PROVE  AccountInv
  BY DEF AccountInit
<1> DEFINE r == Fresh(account, online)
<1>2. "LoggedOut" \in States /\ "None" \in Reasons /\ "none" \in TicketLevels
  BY DEF States, Reasons, TicketLevels
<1>3. r \in CtlType
  BY <1>2 DEF Fresh, CtlType
<1>4. r.device <= 1 /\ r.device \in Nat /\ r.gen = r.device /\ r.pc = "idle"
  BY DEF Fresh
<1>5. ctl = IF online THEN EnterSyncing(r, 0) ELSE EnterPlain(r, "Offline")
  BY <1>1 DEF AccountInitial
<1> HIDE DEF r
<1>6. Numbered(r)
  BY <1>3, <1>4, AccountAssumption DEF Numbered
<1>7. Entered(ctl, r, 0)
  <2>1. "Offline" \in States \ (Busy \cup {"ReadyToConnect"})
    BY DEF States, Busy
  <2>2. QED
    BY <1>5, <1>6, <2>1, EnterSyncingIs, EnterPlainIs
<1>8. ctl.st \in States /\ ctl.why \in Reasons /\ ctl.att \in Nat
  BY <1>7 DEF Entered, CtlSound, Numbered, CtlType
<1>9. published \in Published /\ published.st = ctl.st /\ reader \in ReaderType
  BY <1>1, <1>8 DEF Published, ReaderType
<1>10. ~RecentlyValidated /\ validated \in Validations
  BY <1>1, AccountAssumption DEF RecentlyValidated, NoValidation, Freshness, Interval, Validations
<1>11. accountEnv \in Budgets /\ ctl.att <= AttLimit(accountEnv)
  BY <1>1, <1>7, <1>8, AccountAssumption DEF Entered, AttLimit, Budgets
<1>12. QED
  BY <1>4, <1>7, <1>9, <1>10, <1>11 DEF AccountInv, CtlInv, Entered, ValidationCurrent

\* Every step of the controller and of the connect keeps it.
LEMMA AccountInvNext ==
  ASSUME AccountInv, [AccountNext]_accountVars
  PROVE  AccountInv'
<1>1. CASE UNCHANGED accountVars
  BY <1>1 DEF accountVars, AccountInv, CtlInv, ValidationCurrent, RecentlyValidated
<1>2. CASE PublishValidation \/ PublishState
  BY <1>2, PublishesInv DEF AccountInv, PublishValidation, PublishState, ReaderType
<1>3. CASE AccountLinkChanges \/ SpendTickets \/ TimePasses
  BY <1>3, WorldInv DEF AccountInv, AccountLinkChanges, SpendTickets, TimePasses
<1>4. ASSUME Turn, published' = published, Spend \/ accountEnv' = accountEnv
      PROVE  InTurn
  BY <1>4, AccountAssumption DEF InTurn, AccountInv, CtlInv, Spend, Budgets
<1>5. ASSUME NEW cmd \in Commands, AccountCommand(cmd) PROVE AccountInv'
  <2>1. InTurn /\ Handle(cmd) /\ reader' = reader
    BY <1>4, <1>5 DEF AccountCommand
  <2>2. QED
    BY <2>1, HandleInv DEF AccountInv
<1>6. CASE Connectivity
  BY <1>4, <1>6, TurnConnectivity DEF Connectivity, AccountInv
<1>7. CASE AccountShutdown
  BY <1>4, <1>7, TurnShutdown DEF AccountShutdown, AccountInv
<1>8. ASSUME NEW out \in SyncOutcomes, SyncEnds(out) PROVE AccountInv'
  <2>1. InTurn /\ reader' = reader
    BY <1>4, <1>8 DEF SyncEnds
  <2>2. QED
    BY <1>8, <2>1, TurnSyncEnds DEF AccountInv
<1>9. CASE SyncPanics
  BY <1>4, <1>9, TurnSyncPanics DEF SyncPanics, AccountInv
<1>10. ASSUME NEW out \in FetchOutcomes(ctl), FetchEnds(out) PROVE AccountInv'
  <2>1. InTurn /\ reader' = reader
    BY <1>4, <1>10 DEF FetchEnds
  <2>2. QED
    BY <1>10, <2>1, TurnFetchEnds DEF AccountInv
<1>11. CASE UpgradeModeExpires \/ FetchPanics
  <2>1. InTurn /\ reader' = reader
    BY <1>4, <1>11 DEF UpgradeModeExpires, FetchPanics
  <2>2. QED
    BY <1>11, <2>1, TurnFetchStops DEF AccountInv
<1>12. CASE RefreshTick
  BY <1>4, <1>12, TurnRefreshTick DEF RefreshTick, AccountInv
<1>13. ASSUME UNCHANGED <<ctl, validated, published>>, Spend \/ accountEnv' = accountEnv
       PROVE  CtlInv'
  <2>1. accountEnv' \in Budgets /\ accountEnv' <= accountEnv /\ accountEnv \in Budgets
    BY <1>13, AccountAssumption DEF AccountInv, CtlInv, Spend, Budgets
  <2>2. ctl.att \in Nat /\ ctl.att <= AttLimit(accountEnv)
    BY DEF AccountInv, CtlInv, CtlSound, Numbered, CtlType
  <2>3. ctl.att <= AttLimit(accountEnv')
    BY <2>1, <2>2, AccountAssumption DEF AttLimit, Budgets
  <2>4. QED
    BY <1>13, <2>1, <2>3 DEF AccountInv, CtlInv, ValidationCurrent, RecentlyValidated
<1>14. CASE ReadState
  BY <1>13, <1>14 DEF ReadState, AccountInv, ReaderType, CtlInv
<1>15. CASE Judge
  BY <1>13, <1>15 DEF Judge, AccountInv, ReaderType
<1>16. CASE Changed
  BY <1>13, <1>16 DEF Changed, AccountInv, ReaderType
<1>17. CASE AskRefresh
  <2>1. reader' \in ReaderType
    BY <1>17 DEF AskRefresh, AccountInv, ReaderType
  <2>2. CASE Turn /\ Handle("Refresh")
    BY <1>4, <1>17, <2>1, <2>2, HandleInv DEF AskRefresh, AccountInv, Commands
  <2>3. CASE UNCHANGED <<ctl, validated>>
    BY <1>13, <1>17, <2>1, <2>3 DEF AskRefresh, AccountInv
  <2>4. QED
    BY <1>17, <2>2, <2>3 DEF AskRefresh
<1>18. CASE ConnectAgain
  BY <1>13, <1>18 DEF ConnectAgain, AccountInv, ReaderType
<1>19. QED
  BY <1>1, <1>2, <1>3, <1>5, <1>6, <1>7, <1>8, <1>9, <1>10, <1>11, <1>12, <1>14, <1>15, <1>16,
     <1>17, <1>18
  DEF AccountNext

\* The account controller is consistent in every state: its task runs exactly where the API is
\* reachable, its timer is that of the mode in force, its retries are bounded, and the validation
\* it publishes is of the account and the device stored now (controller.rs, state_receiver.rs).
THEOREM AccountAlwaysConsistent == AccountSpec => []AccountConsistent
<1>1. AccountInv => AccountConsistent
  <2> SUFFICES ASSUME AccountInv PROVE AccountConsistent
    OBVIOUS
  <2>1. /\ ctl \in CtlType /\ CtlSound(ctl) /\ Numbered(ctl) /\ ValidationCurrent
        /\ accountEnv \in Budgets /\ ctl.att <= AttLimit(accountEnv)
    BY DEF AccountInv, CtlInv, CtlSound, Numbered
  <2>2. ctl.device \in 0..MaxDevice
    BY <2>1, AccountAssumption DEF Numbered, CtlType
  <2>3. ctl.att \in 0..(MAX_SYNCING_ATTEMPTS + ZK_NYM_MAX_FAILS + 1 + AccountBudget)
    BY <2>1, AccountAssumption DEF CtlType, AttLimit, Budgets
  <2>4. validated \in [device : 0..MaxDevice, age : 0..Freshness]
    BY DEF AccountInv, CtlInv, Validations, Freshness, Interval
  <2>5. AccountTypeOK
    BY <2>1, <2>2, <2>3, <2>4 DEF AccountTypeOK, CtlType, AccountInv, ReaderType
  <2>6. TaskIffReachable /\ TimerFollowsMode
    BY <2>1 DEF CtlSound, TaskIffReachable, TimerFollowsMode
  <2>7. QED
    BY <2>1, <2>5, <2>6 DEF AccountConsistent
<1>2. QED
  BY AccountInvInit, AccountInvNext, <1>1, PTL DEF AccountSpec

\* No connect is let through on an account that failed its re-check, was forgotten or replaced,
\* although it reads the state and the validation one after the other
\* (wait_for_account_ready_to_connect, recently_validated).
THEOREM ConnectAlwaysVouched == AccountSpec => ConnectVouched
<1> DEFINE Vouched ==
      (reader.pc = "judge" /\ reader'.pc = "ok" /\ reader.seen.st \in Busy)
        => \/ ctl.account = "api" /\ ctl.st \in Busy \cup {"ReadyToConnect", "Finished"}
           \/ ctl.pc = "validate"
<1>1. ASSUME AccountInv, AccountNext PROVE Vouched
  <2>1. SUFFICES ASSUME reader.pc = "judge", reader'.pc = "ok", reader.seen.st \in Busy
                 PROVE  \/ ctl.account = "api" /\ ctl.st \in Busy \cup {"ReadyToConnect", "Finished"}
                        \/ ctl.pc = "validate"
    OBVIOUS
  <2>2. reader \in ReaderType
    BY <1>1 DEF AccountInv
  <2>3. Judge
    <3>1. reader'.pc # reader.pc
      BY <2>1
    <3>2. ~PublishState
      BY <2>2, <3>1 DEF PublishState, ReaderType
    <3>3. reader' # reader
      BY <3>1
    <3>4. QED
      BY <1>1, <2>1, <3>2, <3>3
      DEF AccountNext, PublishValidation, AccountCommand, AccountLinkChanges, Connectivity,
          AccountShutdown, SyncEnds, SyncPanics, FetchEnds, UpgradeModeExpires, FetchPanics,
          RefreshTick, SpendTickets, TimePasses, ReadState, Changed, AskRefresh, ConnectAgain
  <2>4. RecentlyValidated
    BY <2>1, <2>2, <2>3 DEF Judge, ReaderType, Busy
  <2>5. QED
    BY <1>1, <2>4 DEF AccountInv, CtlInv, ValidationCurrent
<1>2. ASSUME AccountInv, [AccountNext]_accountVars PROVE [Vouched]_accountVars
  BY <1>1, <1>2
<1>3. AccountSpec => [][Vouched]_accountVars
  BY AccountInvInit, AccountInvNext, <1>2, PTL DEF AccountSpec
<1>4. QED
  BY <1>3 DEF ConnectVouched

-----------------------------------------------------------------------------
(* The ticketbooks.                                                          *)

ZkPhases == {"idle", "resume", "request"}
ZkSteps == {"off", "send", "insert", "poll", "import", "confirm", "remove", "done", "failed"}
ZkAnswers == {"none", "pending", "ready", "upgrade", "error", "confirmed"}
ZkHeld == 0..1
ZkBudget == 0..ZkFaults

\* The state as a record: what ZkTypeOK says, with the fields it leaves out.
ZkRecord ==
  zk \in [phase : ZkPhases, work : [ZkIds -> ZkSteps], api : [ZkIds -> ZkAnswers],
          book : [ZkIds -> BOOLEAN], pending : SUBSET ZkIds, stale : SUBSET ZkIds,
          books : [ZkIds -> ZkHeld], jwt : BOOLEAN, faults : ZkBudget]

\* What a worker at step pc may rely on: where its request is with the API, that its
\* secrets are stored, and that a ticketbook is held before the API is told.
ZkKnows(pc, api, book, books, stored) ==
  /\ pc = "send" => api = "none"
  /\ pc = "insert" => api \notin {"none", "confirmed"}
  /\ pc = "poll" => api \notin {"none", "confirmed"}
  /\ pc = "import" => api \in {"ready", "upgrade"}
  /\ pc = "confirm" => api = "upgrade" \/ (api = "ready" /\ books = 1)
  /\ pc = "remove" => api = "confirmed"
  /\ pc \in {"poll", "import", "confirm"} => stored
  /\ book => api \in {"ready", "confirmed"}
  /\ api = "confirmed" /\ book => books = 1

\* The inductive invariant.
ZkInv ==
  /\ ZkRecord
  /\ \A id \in ZkIds :
       ZkKnows(zk.work[id], zk.api[id], zk.book[id], zk.books[id], id \in zk.pending)

\* A step of one worker: only what concerns its own request changes.
ZkMoved(id, pc, api, stored, books) ==
  /\ ZkRecord'
  /\ zk'.work = [zk.work EXCEPT ![id] = pc]
  /\ zk'.api = [zk.api EXCEPT ![id] = api]
  /\ zk'.book = zk.book
  /\ zk'.pending = stored
  /\ zk'.books = [zk.books EXCEPT ![id] = books]

\* The ranges as facts about their members.
LEMMA ZkRanges ==
  /\ 0 \in ZkHeld /\ 1 \in ZkHeld
  /\ \A f \in ZkBudget : f > 0 => f - 1 \in ZkBudget
BY ZkAssumption DEF ZkHeld, ZkBudget

\* Such a step keeps the invariant if the worker knows enough afterwards.
LEMMA ZkMovedInv ==
  ASSUME ZkInv, NEW id \in ZkIds, NEW pc, NEW api, NEW stored, NEW books,
         ZkMoved(id, pc, api, stored, books),
         \A other \in ZkIds \ {id} : other \in stored <=> other \in zk.pending,
         ZkKnows(pc, api, zk.book[id], books, id \in stored)
  PROVE  ZkInv'
<1>1. ASSUME NEW other \in ZkIds
      PROVE  ZkKnows(zk'.work[other], zk'.api[other], zk'.book[other], zk'.books[other],
                     other \in zk'.pending)
  <2>1. CASE other = id
    BY <2>1 DEF ZkMoved, ZkInv, ZkRecord
  <2>2. CASE other # id
    <3>1. /\ zk'.work[other] = zk.work[other] /\ zk'.api[other] = zk.api[other]
          /\ zk'.book[other] = zk.book[other] /\ zk'.books[other] = zk.books[other]
          /\ other \in zk'.pending <=> other \in zk.pending
      BY <2>2 DEF ZkMoved, ZkInv, ZkRecord
    <3>2. ZkKnows(zk.work[other], zk.api[other], zk.book[other], zk.books[other],
                  other \in zk.pending)
      BY DEF ZkInv
    <3>3. QED
      BY <3>1, <3>2 DEF ZkKnows
  <2>3. QED
    BY <2>1, <2>2
<1>2. QED
  BY <1>1 DEF ZkInv, ZkMoved

\* No request is under way at first.
LEMMA ZkInvInit == ZkInit => ZkInv
<1> SUFFICES ASSUME ZkInit PROVE ZkInv
  OBVIOUS
<1>1. ZkFaults \in ZkBudget /\ 0 \in ZkHeld
  BY ZkAssumption DEF ZkHeld, ZkBudget
<1>2. ZkRecord
  BY <1>1 DEF ZkInit, ZkRecord, ZkPhases, ZkSteps, ZkAnswers
<1>3. \A id \in ZkIds : zk.work[id] = "off" /\ zk.api[id] = "none" /\ zk.book[id] = FALSE
  BY DEF ZkInit
<1>4. QED
  BY <1>2, <1>3 DEF ZkInv, ZkKnows

\* A step of one worker keeps the invariant.
LEMMA ZkWorkInv ==
  ASSUME ZkDbErrors = {}, ZkInv, NEW id \in ZkIds, ZkWork(id)
  PROVE  ZkInv'
<1>T. ZkRecord
  BY DEF ZkInv
<1>K. ZkKnows(zk.work[id], zk.api[id], zk.book[id], zk.books[id], id \in zk.pending)
  BY DEF ZkInv
<1>F. ZkFault(Step(id, "failed")) => ZkInv'
  <2>1. SUFFICES ASSUME ZkFault(Step(id, "failed")) PROVE ZkInv'
    OBVIOUS
  <2>2. ZkMoved(id, "failed", zk.api[id], zk.pending, zk.books[id])
    BY <1>T, <2>1, ZkRanges DEF Step, ZkFault, ZkMoved, ZkRecord, ZkSteps
  <2>3. QED
    <3>1. ZkKnows("failed", zk.api[id], zk.book[id], zk.books[id], id \in zk.pending)
      BY <1>K DEF ZkKnows
    <3>2. QED
      BY <2>2, <3>1, ZkMovedInv
<1>1. CASE SendRequest(id)
  <2>1. CASE zk' = [Step(id, "insert") EXCEPT !.api[id] = "pending"]
    <3>1. ZkMoved(id, "insert", "pending", zk.pending, zk.books[id])
      BY <1>T, <2>1, ZkRanges DEF Step, ZkFault, ZkMoved, ZkRecord, ZkSteps, ZkAnswers
    <3>2. QED
      BY <1>K, <1>1, <3>1, ZkMovedInv DEF SendRequest, At, ZkKnows
  <2>2. CASE ZkFault([Step(id, "failed") EXCEPT !.api[id] = "pending"])
    <3>1. ZkMoved(id, "failed", "pending", zk.pending, zk.books[id])
      BY <1>T, <2>2, ZkRanges DEF Step, ZkFault, ZkMoved, ZkRecord, ZkSteps, ZkAnswers
    <3>2. QED
      BY <1>K, <1>1, <3>1, ZkMovedInv DEF SendRequest, At, ZkKnows
  <2>3. QED
    BY <1>1, <1>F, <2>1, <2>2 DEF SendRequest
<1>2. CASE InsertPending(id)
  <2>1. CASE zk' = [Step(id, "poll") EXCEPT !.pending = @ \cup {id}]
    <3>1. ZkMoved(id, "poll", zk.api[id], zk.pending \cup {id}, zk.books[id])
      BY <1>T, <2>1, ZkRanges DEF Step, ZkFault, ZkMoved, ZkRecord, ZkSteps, ZkAnswers
    <3>2. QED
      BY <1>K, <1>2, <3>1, ZkMovedInv DEF InsertPending, At, ZkKnows
  <2>2. QED
    BY <1>2, <1>F, <2>1 DEF InsertPending
<1>3. CASE Poll(id)
  <2>1. CASE zk.api[id] \in {"ready", "upgrade"} /\ zk' = Step(id, "import")
    <3>1. ZkMoved(id, "import", zk.api[id], zk.pending, zk.books[id])
      BY <1>T, <2>1, ZkRanges DEF Step, ZkFault, ZkMoved, ZkRecord, ZkSteps, ZkAnswers
    <3>2. QED
      <4>1. zk.work[id] = "poll"
        BY <1>3 DEF Poll, At
      <4>2. ZkKnows("import", zk.api[id], zk.book[id], zk.books[id], id \in zk.pending)
        BY <1>K, <2>1, <4>1 DEF ZkKnows
      <4>3. QED
        BY <3>1, <4>2, ZkMovedInv
  <2>2. CASE zk' = Step(id, "failed")
    <3>1. ZkMoved(id, "failed", zk.api[id], zk.pending, zk.books[id])
      BY <1>T, <2>2, ZkRanges DEF Step, ZkFault, ZkMoved, ZkRecord, ZkSteps, ZkAnswers
    <3>2. QED
      <4>1. ZkKnows("failed", zk.api[id], zk.book[id], zk.books[id], id \in zk.pending)
        BY <1>K DEF ZkKnows
      <4>2. QED
        BY <3>1, <4>1, ZkMovedInv
  <2>3. QED
    BY <1>3, <1>F, <2>1, <2>2 DEF Poll
<1>4. CASE Import(id)
  <2>1. CASE zk' = [Step(id, "confirm") EXCEPT !.books[id] = IF @ = 0 THEN 1 ELSE @]
    <3>1. ZkMoved(id, "confirm", zk.api[id], zk.pending, IF zk.books[id] = 0 THEN 1 ELSE zk.books[id])
      BY <1>T, <2>1, ZkRanges DEF Step, ZkFault, ZkMoved, ZkRecord, ZkSteps, ZkAnswers
    <3>2. zk.books[id] \in {0, 1}
      BY <1>T DEF ZkRecord, ZkHeld
    <3>3. QED
      BY <1>K, <1>4, <3>1, <3>2, ZkMovedInv DEF Import, At, ZkKnows
  <2>2. QED
    BY <1>4, <1>F, <2>1, ZkDbErrors = {} DEF Import
<1>5. CASE ImportUpgradeToken(id)
  <2>1. CASE zk' = [Step(id, "confirm") EXCEPT !.jwt = TRUE]
    <3>1. ZkMoved(id, "confirm", zk.api[id], zk.pending, zk.books[id])
      BY <1>T, <2>1, ZkRanges DEF Step, ZkFault, ZkMoved, ZkRecord, ZkSteps, ZkAnswers
    <3>2. QED
      BY <1>K, <1>5, <3>1, ZkMovedInv DEF ImportUpgradeToken, At, ZkKnows
  <2>2. QED
    BY <1>5, <1>F, <2>1 DEF ImportUpgradeToken
<1>6. CASE ConfirmDownload(id)
  <2>1. CASE zk' = [Step(id, "remove") EXCEPT !.api[id] = "confirmed"]
    <3>1. ZkMoved(id, "remove", "confirmed", zk.pending, zk.books[id])
      BY <1>T, <2>1, ZkRanges DEF Step, ZkFault, ZkMoved, ZkRecord, ZkSteps, ZkAnswers
    <3>2. QED
      BY <1>K, <1>6, <3>1, ZkMovedInv DEF ConfirmDownload, At, ZkKnows
  <2>2. CASE ZkFault([Step(id, "failed") EXCEPT !.api[id] = "confirmed"])
    <3>1. ZkMoved(id, "failed", "confirmed", zk.pending, zk.books[id])
      BY <1>T, <2>2, ZkRanges DEF Step, ZkFault, ZkMoved, ZkRecord, ZkSteps, ZkAnswers
    <3>2. QED
      BY <1>K, <1>6, <3>1, ZkMovedInv DEF ConfirmDownload, At, ZkKnows
  <2>3. QED
    BY <1>6, <1>F, <2>1, <2>2 DEF ConfirmDownload
<1>7. CASE RemovePending(id)
  <2>1. CASE zk' = [Step(id, "done") EXCEPT !.pending = @ \ {id}]
    <3>1. ZkMoved(id, "done", zk.api[id], zk.pending \ {id}, zk.books[id])
      BY <1>T, <2>1, ZkRanges DEF Step, ZkFault, ZkMoved, ZkRecord, ZkSteps, ZkAnswers
    <3>2. QED
      BY <1>K, <1>7, <3>1, ZkMovedInv DEF RemovePending, At, ZkKnows
  <2>2. QED
    BY <1>7, <1>F, <2>1 DEF RemovePending
<1>9. QED
  BY <1>1, <1>2, <1>3, <1>4, <1>5, <1>6, <1>7 DEF ZkWork

\* Every step keeps the invariant.
LEMMA ZkInvNext ==
  ASSUME ZkDbErrors = {}, ZkInv, [ZkNext]_zkVars
  PROVE  ZkInv'
<1> USE ZkRanges DEF ZkInv, ZkRecord, ZkPhases, ZkSteps, ZkAnswers
<1>1. CASE UNCHANGED zkVars
  BY <1>1 DEF zkVars
<1>2. ASSUME NEW stale \in SUBSET zk.pending, StartFetch(stale)
      PROVE  ZkInv'
  <2>1. ASSUME NEW ids \in SUBSET (zk.pending \ stale), NEW f \in ZkBudget,
               \A id \in ids : zk.api[id] \in {"ready", "upgrade"},
               zk' = [Begun(stale, ids) EXCEPT !.faults = f]
        PROVE  ZkInv'
    BY <2>1 DEF Begun, ZkKnows
  <2>2. zk' = Begun(stale, (zk.pending \ stale) \cap Available) => ZkInv'
    <3>1. Begun(stale, (zk.pending \ stale) \cap Available)
            = [Begun(stale, (zk.pending \ stale) \cap Available) EXCEPT !.faults = zk.faults]
      BY DEF Begun
    <3>2. QED
      BY <2>1, <3>1 DEF Available
  <2>3. ZkFault(Begun(stale, {})) => ZkInv'
    <3> DEFINE b == Begun(stale, {})
               f == zk.faults - 1
    <3>1. b.faults = zk.faults
      BY DEF Begun
    <3>2. SUFFICES ASSUME ZkFault(b) PROVE ZkInv'
      OBVIOUS
    <3>3. zk' = [b EXCEPT !.faults = f]
      BY <3>1, <3>2 DEF ZkFault
    <3>4. f \in ZkBudget
      BY <3>2, ZkRanges DEF ZkFault, ZkRecord
    <3> HIDE DEF f
    <3>5. QED
      BY <2>1, <3>3, <3>4
  <2>4. QED
    BY <1>2, <2>2, <2>3 DEF StartFetch
<1>3. ASSUME NEW ids \in SUBSET ZkIds, StartRequests(ids)
      PROVE  ZkInv'
  BY <1>3 DEF StartRequests, ZkKnows
<1>4. CASE EndFetch
  BY <1>4 DEF EndFetch, ZkKnows
<1>5. CASE WaitTimesOut
  BY <1>5 DEF WaitTimesOut, ZkFault, ZkKnows
<1>6. CASE AbortFetch
  BY <1>6 DEF AbortFetch, ZkFault, ZkKnows
<1>7. ASSUME NEW id \in ZkIds, ZkWork(id)
      PROVE  ZkInv'
  BY <1>7, ZkWorkInv, ZkDbErrors = {}
<1>8. ASSUME NEW id \in ZkIds, NEW answer \in {"ready", "upgrade", "error"},
             ApiAnswers(id, answer)
      PROVE  ZkInv'
  <2>1. /\ ZkRecord' /\ zk.api[id] = "pending"
        /\ zk'.work = zk.work /\ zk'.pending = zk.pending /\ zk'.books = zk.books
        /\ zk'.api = [zk.api EXCEPT ![id] = answer]
        /\ zk'.book = [zk.book EXCEPT ![id] = (answer = "ready")]
    BY <1>8 DEF ApiAnswers
  <2>2. ASSUME NEW x \in ZkIds
        PROVE  ZkKnows(zk'.work[x], zk'.api[x], zk'.book[x], zk'.books[x], x \in zk'.pending)
    <3>1. ZkKnows(zk.work[x], zk.api[x], zk.book[x], zk.books[x], x \in zk.pending)
      OBVIOUS
    <3>2. CASE x = id
      <4>1. zk'.api[id] = answer /\ zk'.book[id] = (answer = "ready") /\ zk.api[id] = "pending"
        BY <2>1 DEF ZkRecord, ZkInv
      <4>2. /\ zk.work[id] \notin {"send", "import", "confirm", "remove"}
            /\ zk.work[id] = "poll" => id \in zk.pending
        BY <3>1, <3>2, <4>1 DEF ZkKnows
      <4>3. QED
        BY <1>8, <2>1, <3>2, <4>1, <4>2 DEF ZkKnows
    <3>3. CASE x # id
      <4>1. zk'.api[x] = zk.api[x] /\ zk'.book[x] = zk.book[x]
        BY <2>1, <3>3 DEF ZkRecord, ZkInv
      <4>2. QED
        BY <2>1, <3>1, <4>1
    <3>4. QED
      BY <3>2, <3>3
  <2>3. QED
    BY <2>1, <2>2
<1>9. QED
  BY <1>1, <1>2, <1>3, <1>4, <1>5, <1>6, <1>7, <1>8 DEF ZkNext

\* No ticketbook the API has issued is lost, wherever a fetch fails, times out or is aborted,
\* for any number of requests and faults, as long as a duplicate is the only database error
\* an import can meet (import_zk_nym; what happens otherwise is the run unheld).
THEOREM TicketsNeverLost ==
  ASSUME ZkDbErrors = {}
  PROVE  ZkSpec => []TicketsSafe
<1>1. ZkInv => TicketsSafe
  BY DEF ZkInv, ZkRecord, ZkKnows, ZkPhases, ZkSteps, ZkAnswers, ZkHeld, ZkBudget, TicketsSafe,
         ZkTypeOK, ConfirmedIsHeld, ResumableUntilConfirmed
<1>2. QED
  BY ZkInvInit, ZkInvNext, <1>1, PTL DEF ZkSpec
=============================================================================
