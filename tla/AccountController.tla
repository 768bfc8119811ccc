-------------------------- MODULE AccountController --------------------------
(* The account controller (crate nym-vpn-account-controller): one task that  *)
(* runs a state machine over the stored account, and the connect that waits  *)
(* for it.  `ctl` is the controller: the handler it is in, its background    *)
(* task, the shared state and what the credential storage holds.  The task's *)
(* answers are nondeterministic, one per way syncing_account and             *)
(* fetch_zk_nyms can end.  The two watch channels a connect reads are        *)
(* `validated` and `published`; the controller writes them one after the     *)
(* other, and a connect reads them one after the other too.                  *)
EXTENDS Naturals, FiniteSets

CONSTANTS
  MaxDevice,               \* device identities the model ever creates
  MAX_SYNCING_ATTEMPTS,    \* syncs retried while attempts <= this
  ZK_NYM_MAX_FAILS,        \* ticket requests retried while attempts <= this
  AccountBudget            \* commands and connectivity changes that arrive, tasks that
                           \* die and credentials that expire while read, together

ASSUME AccountAssumption ==
  /\ MaxDevice \in Nat \ {0}
  /\ MAX_SYNCING_ATTEMPTS \in Nat /\ ZK_NYM_MAX_FAILS \in Nat
  /\ AccountBudget \in Nat

VARIABLES ctl, validated, published, reader, accountEnv
accountVars == <<ctl, validated, published, reader, accountEnv>>

(* AccountRefreshMode::interval, in units of the active interval: idle is    *)
(* the longer one, and a validation stays fresh for an idle interval.        *)
Interval(mode) == IF mode = "Active" THEN 1 ELSE 2
Freshness == Interval("Idle")

NoValidation == [device |-> 0, age |-> Freshness]
Busy == {"Syncing", "RequestingZkNyms"}
States == Busy \cup {"Offline", "LoggedOut", "ReadyToConnect", "Error",
                     "UpgradeMode", "Decentralised", "Finished"}
Reasons == {"None", "ApiFailure", "Internal", "Storage", "BandwidthExceeded", "Refused"}

-----------------------------------------------------------------------------
(* Entering a state.                                                         *)

EnterPlain(r, st) ==
  [r EXCEPT !.st = st, !.why = "None", !.task = FALSE, !.att = 0, !.um = FALSE,
            !.age = 0, !.armed = 0]
\* Faulty variant: the error state has no timer.
EnterErrorUntimed(r, why) == [EnterPlain(r, "Error") EXCEPT !.why = why]

EnterError(r, why) ==
  [EnterPlain(r, "Error") EXCEPT !.why = why, !.armed = Interval("Active")]
EnterReady(r) == [EnterPlain(r, "ReadyToConnect") EXCEPT !.armed = Interval(r.mode)]

(* SyncingState::enter: paused, with no task, while the API is firewalled.   *)
EnterSyncing(r, attempts) ==
  CASE r.account = "none" -> EnterPlain(r, "LoggedOut")
    [] r.account = "decentralised" -> EnterPlain(r, "Decentralised")
    [] r.account = "api" /\ r.device = 0 -> EnterError(r, "Internal")
    [] OTHER -> [EnterPlain(r, "Syncing") EXCEPT !.att = attempts, !.task = ~r.firewall]

(* RequestingZkNymsState::enter.                                             *)
EnterRequesting(r, attempts, throughUm) ==
  CASE r.account # "api" -> EnterPlain(r, "LoggedOut")
    [] r.account = "api" /\ (r.device = 0 \/ r.summary = "none") -> EnterError(r, "Internal")
    [] OTHER -> [EnterPlain(r, "RequestingZkNyms") EXCEPT
                   !.att = attempts, !.um = throughUm, !.task = ~r.firewall]

(* UpgradeModeState::enter: without a credential, or with one that expired,  *)
(* the state is not entered.                                                 *)
EnterUpgradeMode(r, stored) ==
  CASE stored = "fails" -> EnterError(r, "Storage")
    [] stored = "reads" /\ ~r.jwt -> EnterError(r, "Internal")
    [] stored = "expired" -> EnterSyncing(r, 0)
    [] OTHER -> [EnterPlain(r, "UpgradeMode") EXCEPT !.armed = Interval("Active")]

(* UpgradeModeState::on_exit and what follows it.                            *)
LeaveUpgradeMode(r, purged) ==
  IF purged THEN EnterSyncing([r EXCEPT !.jwt = FALSE], 0) ELSE EnterError(r, "Storage")

-----------------------------------------------------------------------------
(* One turn of AccountController::run: a handler returns NewState, and the   *)
(* validation is published ahead of the state; or it returns SameState.      *)

NewState(r, v) == ctl' = [r EXCEPT !.pc = "validate"] /\ validated' = v
SameState(r, v) == ctl' = r /\ validated' = v
Turn == ctl.pc = "idle" /\ ctl.st # "Finished"

\* Faulty variant: going offline keeps the validation.
NextValidationOffline(st, wasReady, last) ==
  CASE st = "ReadyToConnect" /\ ~wasReady -> [device |-> ctl.device, age |-> 0]
    [] st \in Busy \cup {"Offline"} \/ (st = "ReadyToConnect" /\ wasReady) -> last
    [] OTHER -> NoValidation

NextValidation(st, wasReady, last) ==
  CASE st = "ReadyToConnect" /\ ~wasReady -> [device |-> ctl.device, age |-> 0]
    [] st \in Busy \/ (st = "ReadyToConnect" /\ wasReady) -> last
    [] OTHER -> NoValidation

PublishValidation ==
  /\ ctl.pc = "validate"
  /\ ctl' = [ctl EXCEPT !.pc = "publish"]
  /\ validated' = NextValidation(ctl.st, published.st = "ReadyToConnect", validated)
  /\ UNCHANGED <<published, reader, accountEnv>>

PublishState ==
  /\ ctl.pc = "publish"
  /\ ctl' = [ctl EXCEPT !.pc = "idle"]
  /\ published' = [st |-> ctl.st, why |-> ctl.why]
  /\ reader' = [reader EXCEPT !.changed = TRUE]
  /\ UNCHANGED <<validated, accountEnv>>

Spend == accountEnv > 0 /\ accountEnv' = accountEnv - 1

-----------------------------------------------------------------------------
(* What the commands do to the shared state.  Those that only read it, or    *)
(* are answered with an error, change nothing and are left out.              *)
Commands == {"StoreApi", "StoreDecentralised", "CreateFails", "Forget", "Reset", "Refresh",
             "FirewallUp", "FirewallDown", "Active", "Idle", "Overrides", "DisableUpgradeMode"}

(* handle_store_account and handle_create_account: keys first, then the      *)
(* account, which the storage refuses to overwrite.                          *)
Storable == ctl.account = "none" /\ ctl.gen < MaxDevice
Stored(r, kind) == [r EXCEPT !.account = kind, !.device = r.gen + 1, !.gen = @ + 1]

(* handle_forget_account.  "kept": the credential storage refused.  "wiped": *)
(* the gateway keys or the account store refused, after the tickets were     *)
(* removed.  "gone": the account is forgotten but a file could not be        *)
(* removed, which is still reported as an error.                             *)
ForgetResults == {"ok", "gone", "wiped", "kept"}
Forgotten(res) ==
  CASE res = "kept" -> ctl
    [] res = "wiped" -> [ctl EXCEPT !.tickets = "none", !.jwt = FALSE]
    [] OTHER -> [ctl EXCEPT !.account = "none", !.device = 0, !.summary = "none",
                 !.tickets = "none", !.jwt = FALSE]

(* handle_reset_device_identity, when the storage agrees.                    *)
NewDevice == [ctl EXCEPT !.device = ctl.gen + 1, !.gen = @ + 1]
Resettable == ctl.account = "api" /\ ctl.gen < MaxDevice

LogOut(res) == NewState(EnterPlain(Forgotten(res), "LoggedOut"), NoValidation)

(* ForgetAccount and ResetDeviceIdentity where an error leaves the state.    *)
ForgetOrStay(res) == IF res = "ok" THEN LogOut(res) ELSE SameState(Forgotten(res), NoValidation)
ForgetOrSync(res) ==
  IF res = "ok" THEN LogOut(res) ELSE NewState(EnterSyncing(Forgotten(res), 0), NoValidation)

\* Faulty variant: a new device keeps the validation of the old one.
ResetOrStayVouched(ok) ==
  IF ok THEN NewState(EnterSyncing(NewDevice, 0), validated) ELSE SameState(ctl, validated)

ResetOrStay(ok) ==
  IF ok THEN NewState(EnterSyncing(NewDevice, 0), NoValidation) ELSE SameState(ctl, validated)
ResetAndSync(ok) ==
  IF ok THEN NewState(EnterSyncing(NewDevice, 0), NoValidation)
        ELSE NewState(EnterSyncing(ctl, 0), validated)

RefreshUnlessFirewalled ==
  IF ctl.firewall THEN SameState(ctl, validated) ELSE NewState(EnterSyncing(ctl, 0), validated)

(* VpnApiFirewallUp, VpnApiFirewallDown and SetRefreshMode where they are    *)
(* only recorded.                                                            *)
Record(cmd) ==
  \/ cmd = "FirewallUp" /\ SameState([ctl EXCEPT !.firewall = TRUE], validated)
  \/ cmd = "FirewallDown" /\ SameState([ctl EXCEPT !.firewall = FALSE], validated)
  \/ cmd \in {"Active", "Idle"} /\ SameState([ctl EXCEPT !.mode = cmd], validated)

(* changes_api_path: new resolver overrides swap the API client, and a task  *)
(* in flight is started again on the new one.  Overrides that are kept       *)
(* change nothing and are left out.                                          *)
changes_api_path(cmd) == cmd = "Overrides"

-----------------------------------------------------------------------------
(* The command arm of each state.                                            *)

LoggedOutCommand(cmd) ==
  \/ cmd = "StoreApi" /\ Storable /\ NewState(EnterSyncing(Stored(ctl, "api"), 0), validated)
  \/ /\ cmd = "StoreDecentralised" /\ Storable
     /\ NewState(EnterSyncing(Stored(ctl, "decentralised"), 0), validated)
  \/ cmd = "CreateFails" /\ NewState(EnterSyncing(ctl, 0), validated)
  \/ Record(cmd)

OfflineCommand(cmd) ==
  \/ cmd = "StoreApi" /\ Storable /\ SameState(Stored(ctl, "api"), validated)
  \/ cmd = "StoreDecentralised" /\ Storable /\ SameState(Stored(ctl, "decentralised"), validated)
  \/ Record(cmd)

(* A task is running exactly while the state is not paused; the sync goes on *)
(* while the account is being forgotten and is ended when it has been.       *)
SyncingCommand(cmd) ==
  \/ cmd = "Forget" /\ \E res \in ForgetResults : ForgetOrStay(res)
  \/ cmd = "Reset" /\ Resettable /\ \E ok \in BOOLEAN : ResetAndSync(ok)
  \/ cmd = "Refresh" /\ RefreshUnlessFirewalled
  \/ /\ cmd = "FirewallDown" /\ ctl.firewall
     /\ NewState(EnterSyncing([ctl EXCEPT !.firewall = FALSE], ctl.att), validated)
  \/ /\ cmd = "FirewallUp"
     /\ SameState([ctl EXCEPT !.firewall = TRUE, !.task = FALSE], validated)
  \/ cmd \in {"Active", "Idle"} /\ Record(cmd)
  \/ changes_api_path(cmd) /\ ctl.task /\ NewState(EnterSyncing(ctl, ctl.att), validated)

RequestingCommand(cmd) ==
  \/ cmd = "Forget" /\ \E res \in ForgetResults : ForgetOrSync(res)
  \/ cmd = "Reset" /\ Resettable /\ \E ok \in BOOLEAN : ResetAndSync(ok)
  \/ cmd = "Refresh" /\ RefreshUnlessFirewalled
  \/ /\ cmd = "FirewallDown" /\ ctl.firewall
     /\ NewState(EnterRequesting([ctl EXCEPT !.firewall = FALSE], ctl.att, ctl.um), validated)
  \/ /\ cmd = "FirewallUp"
     /\ SameState([ctl EXCEPT !.firewall = TRUE, !.task = FALSE], validated)
  \/ cmd \in {"Active", "Idle"} /\ Record(cmd)
  \/ changes_api_path(cmd) /\ ctl.task /\ NewState(EnterRequesting(ctl, ctl.att, ctl.um), validated)

(* RefreshTimer::apply_mode: a mode that changes re-targets the timer,       *)
(* counted from the entry of the state, and one already due syncs at once.   *)
ApplyMode(mode) ==
  LET r == [ctl EXCEPT !.mode = mode, !.armed = Interval(mode)]
  IN  /\ mode # ctl.mode
      /\ IF ctl.age >= Interval(mode) /\ ~ctl.firewall
         THEN NewState(EnterSyncing(r, 0), validated)
         ELSE SameState(r, validated)

ReadyCommand(cmd) ==
  \/ cmd = "Forget" /\ \E res \in ForgetResults : ForgetOrStay(res)
  \/ cmd = "Reset" /\ Resettable /\ \E ok \in BOOLEAN : ResetOrStay(ok)
  \/ cmd = "Refresh" /\ RefreshUnlessFirewalled
  \/ cmd \in {"FirewallUp", "FirewallDown"} /\ Record(cmd)
  \/ cmd \in {"Active", "Idle"} /\ ApplyMode(cmd)

ErrorCommand(cmd) ==
  \/ cmd = "Forget" /\ \E res \in ForgetResults : ForgetOrSync(res)
  \/ cmd = "Reset" /\ Resettable /\ \E ok \in BOOLEAN : ResetOrStay(ok)
  \/ cmd = "Refresh" /\ RefreshUnlessFirewalled
  \/ Record(cmd)

UpgradeModeCommand(cmd) ==
  \/ cmd = "Forget" /\ \E res \in ForgetResults : ForgetOrStay(res)
  \/ /\ cmd = "Reset" /\ Resettable
     /\ \/ SameState(ctl, validated)
        \/ \E purged \in BOOLEAN : NewState(LeaveUpgradeMode(NewDevice, purged), NoValidation)
  \/ /\ cmd = "Refresh" \/ cmd = "DisableUpgradeMode"
     /\ IF cmd = "Refresh" /\ ctl.firewall THEN SameState(ctl, validated)
        ELSE \E purged \in BOOLEAN : NewState(LeaveUpgradeMode(ctl, purged), validated)
  \/ Record(cmd)

(* The firewall commands fall through to an error here: the flag keeps the   *)
(* value it had when the state was entered.                                  *)
DecentralisedCommand(cmd) ==
  \/ cmd = "Forget" /\ \E res \in ForgetResults : ForgetOrStay(res)
  \/ cmd \in {"Active", "Idle"} /\ Record(cmd)

Handle(cmd) ==
  CASE ctl.st = "LoggedOut" -> LoggedOutCommand(cmd)
    [] ctl.st = "Offline" -> OfflineCommand(cmd)
    [] ctl.st = "Syncing" -> SyncingCommand(cmd)
    [] ctl.st = "RequestingZkNyms" -> RequestingCommand(cmd)
    [] ctl.st = "ReadyToConnect" -> ReadyCommand(cmd)
    [] ctl.st = "Error" -> ErrorCommand(cmd)
    [] ctl.st = "UpgradeMode" -> UpgradeModeCommand(cmd)
    [] ctl.st = "Decentralised" -> DecentralisedCommand(cmd)

AccountCommand(cmd) == Turn /\ Spend /\ Handle(cmd) /\ UNCHANGED <<published, reader>>

(* The connectivity arm.  UpgradeMode has none: it sees the change once it   *)
(* has left.  `seen` is the last value the controller took from the stream.  *)
(* The bound counts the losses of the network, not its return.               *)
AccountLinkChanges ==
  /\ IF ctl.online THEN Spend ELSE UNCHANGED accountEnv
  /\ ctl' = [ctl EXCEPT !.online = ~@]
  /\ UNCHANGED <<validated, published, reader>>

Connectivity ==
  /\ Turn /\ ctl.online # ctl.seen /\ ctl.st # "UpgradeMode"
  /\ LET r == [ctl EXCEPT !.seen = ctl.online] IN
     CASE ctl.st = "Offline" /\ ctl.online -> NewState(EnterSyncing(r, 0), validated)
       [] ctl.st # "Offline" /\ ~ctl.online -> NewState(EnterPlain(r, "Offline"), validated)
       [] OTHER -> SameState(r, validated)
  /\ UNCHANGED <<published, reader, accountEnv>>

AccountShutdown ==
  /\ Turn /\ Spend
  /\ SameState(EnterPlain(ctl, "Finished"), validated)
  /\ UNCHANGED <<published, reader>>

-----------------------------------------------------------------------------
(* The background tasks.                                                     *)

(* syncing_account: how it can end.  A summary is stored whatever the checks *)
(* after it say; "left" and "depleted" is the fair usage it reports.         *)
SyncOutcomes ==
  [summary : {"left", "depleted"}, error : {"none", "InactiveSubscription", "Refused"}]
    \cup [summary : {"none"}, error : {"ApiRequest", "Desynced", "ApiResponse"}]
SyncRetryable(error) == error \in {"ApiRequest", "Desynced", "InactiveSubscription"}
SyncReason(error) == IF error \in {"ApiRequest", "ApiResponse"} THEN "ApiFailure" ELSE "Refused"

SyncExhausted == ctl.att > MAX_SYNCING_ATTEMPTS

SyncEnds(out) ==
  /\ Turn /\ ctl.st = "Syncing" /\ ctl.task
  /\ LET r == IF out.summary = "none" THEN ctl ELSE [ctl EXCEPT !.summary = out.summary] IN
     CASE out.error = "none" -> NewState(EnterRequesting(r, ctl.att, FALSE), validated)
       [] out.error # "none" /\ SyncRetryable(out.error) /\ ~SyncExhausted ->
            NewState(EnterSyncing(r, ctl.att + 1), NoValidation)
       [] OTHER -> NewState(EnterError(r, SyncReason(out.error)), NoValidation)
  /\ UNCHANGED <<published, reader, accountEnv>>

SyncPanics ==
  /\ Turn /\ ctl.st = "Syncing" /\ ctl.task
  /\ NewState(IF SyncExhausted THEN EnterError(ctl, "Internal")
                                   ELSE EnterSyncing(ctl, ctl.att + 1), NoValidation)
  /\ Spend
  /\ UNCHANGED <<published, reader>>

(* The tickets held, as the thresholds tell them apart.  "some": every type  *)
(* above zero; "minimal": above the minimum; "enough": above the soft        *)
(* threshold, so that no type runs low.                                      *)
TicketLevels == {"none", "some", "minimal", "enough"}

(* fetch_zk_nyms: what it can answer with the fair usage and the tickets     *)
(* there are.                                                                *)
FetchOutcomes(r) ==
  IF r.summary = "depleted" THEN {"BandwidthExceeded"}
  ELSE IF r.tickets = "enough" THEN {"Sufficient", "Storage"}
  ELSE {"Fetched", "UpgradeMode", "Storage", "Internal", "ApiFailure", "BandwidthExceeded"}

(* handle_retrieved_zk_nym.                                                  *)
FetchEnds(out) ==
  /\ Turn /\ ctl.st = "RequestingZkNyms" /\ ctl.task
  /\ CASE out \in {"Sufficient", "Fetched"} ->
            \E t \in {ctl.tickets, "enough"} :
              NewState(EnterReady([ctl EXCEPT !.tickets = t]), validated)
       [] out = "UpgradeMode" ->
            \E stored \in {"fails", "reads"} :
              NewState(EnterUpgradeMode([ctl EXCEPT !.jwt = TRUE], stored), NoValidation)
       [] out \notin {"Sufficient", "Fetched", "UpgradeMode"} ->
            IF ctl.att > ZK_NYM_MAX_FAILS THEN NewState(EnterError(ctl, out), NoValidation)
            ELSE IF ctl.tickets \in {"minimal", "enough"} THEN NewState(EnterReady(ctl), NoValidation)
            ELSE CASE out \in {"Storage", "Internal"} ->
                        NewState(EnterRequesting(ctl, ZK_NYM_MAX_FAILS + 1, FALSE), NoValidation)
                   [] out = "ApiFailure" ->
                        NewState(EnterRequesting(ctl, ctl.att + 1, FALSE), NoValidation)
                   [] out = "BandwidthExceeded" ->
                        NewState(IF ctl.tickets = "some" THEN EnterReady(ctl)
                                                         ELSE EnterError(ctl, out), NoValidation)
  /\ UNCHANGED <<published, reader, accountEnv>>

(* The query asks for credentials that have not expired, so one can only     *)
(* expire between the query and its use.                                     *)
UpgradeModeExpires ==
  /\ Turn /\ ctl.st = "RequestingZkNyms" /\ ctl.task
  /\ "UpgradeMode" \in FetchOutcomes(ctl)
  /\ NewState(EnterUpgradeMode([ctl EXCEPT !.jwt = TRUE], "expired"), NoValidation)
  /\ Spend
  /\ UNCHANGED <<published, reader>>

FetchPanics ==
  /\ Turn /\ ctl.st = "RequestingZkNyms" /\ ctl.task
  /\ NewState(EnterSyncing(ctl, ctl.att + 1), NoValidation)
  /\ Spend
  /\ UNCHANGED <<published, reader>>

(* The refresh timers of ReadyState and ErrorState, and UpgradeMode's, which *)
(* leaves by way of RequestingZkNyms and keeps the credential.               *)
RefreshTick ==
  /\ Turn /\ ctl.armed > 0 /\ ctl.age >= ctl.armed
  /\ NewState(CASE ctl.st = "UpgradeMode" -> EnterRequesting(ctl, 0, TRUE)
                [] ctl.st # "UpgradeMode" /\ ~ctl.firewall -> EnterSyncing(ctl, 0)
                [] ctl.st = "Error" /\ ctl.firewall -> EnterError(ctl, ctl.why)
                [] OTHER -> EnterReady(ctl), validated)
  /\ UNCHANGED <<published, reader, accountEnv>>

(* Sessions spend tickets; time passes, in intervals long enough for a       *)
(* connect that can run to have run and for the controller to publish.       *)
SpendTickets ==
  /\ Spend
  /\ ctl.tickets = "enough"
  /\ \E t \in TicketLevels \ {"enough"} : ctl' = [ctl EXCEPT !.tickets = t]
  /\ UNCHANGED <<validated, published, reader>>

CapAge(n) == IF n < Freshness THEN n + 1 ELSE n
TimePasses ==
  /\ ctl.pc = "idle" /\ reader.pc \notin {"judge", "again", "refresh"} /\ ~(reader.pc = "wait" /\ reader.changed)
  /\ (ctl.armed > 0 /\ CapAge(ctl.age) # ctl.age) \/ CapAge(validated.age) # validated.age
  /\ ctl' = [ctl EXCEPT !.age = IF ctl.armed > 0 THEN CapAge(@) ELSE @]
  /\ validated' = [validated EXCEPT !.age = CapAge(@)]
  /\ UNCHANGED <<published, reader, accountEnv>>

-----------------------------------------------------------------------------
(* A connect: await_account_readiness_with_retry around                      *)
(* wait_for_account_ready_to_connect.  It reads the state, then the          *)
(* validation, and the controller may run in between.                        *)

RecentlyValidated == validated.device # 0 /\ validated.age < Freshness
ErrorRetryable(why) == why \in {"ApiFailure", "Internal"}

ReadState ==
  /\ reader.pc \in {"idle", "again"}
  /\ reader' = [reader EXCEPT !.pc = "judge", !.seen = published]
  /\ UNCHANGED <<ctl, validated, published, accountEnv>>

Judge ==
  /\ reader.pc = "judge"
  /\ LET st == reader.seen.st
         to == CASE st \in {"ReadyToConnect", "Decentralised", "UpgradeMode"} -> "ok"
                 [] st \in Busy -> IF RecentlyValidated THEN "ok" ELSE "wait"
                 [] st = "Error" /\ ErrorRetryable(reader.seen.why) /\ ~reader.asked -> "refresh"
                 [] OTHER -> "err"
     IN  reader' = [reader EXCEPT !.pc = to]
  /\ UNCHANGED <<ctl, validated, published, accountEnv>>

(* watch::Receiver::changed: an error once the controller is gone.           *)
Changed ==
  /\ reader.pc = "wait"
  /\ \/ /\ reader.changed
        /\ reader' = [reader EXCEPT !.pc = "again", !.changed = FALSE]
     \/ /\ ~reader.changed /\ ctl.st = "Finished"
        /\ reader' = [reader EXCEPT !.pc = "err"]
  /\ UNCHANGED <<ctl, validated, published, accountEnv>>

(* background_refresh_account_state, then a second wait.  The states that    *)
(* answer it with an error, and a controller that is gone, end the connect.  *)
AskRefresh ==
  /\ reader.pc = "refresh"
  /\ \/ /\ Turn /\ ctl.st \notin {"LoggedOut", "Offline", "Decentralised"}
        /\ Handle("Refresh")
        /\ reader' = [reader EXCEPT !.pc = "again", !.asked = TRUE]
     \/ /\ ctl.pc = "idle" /\ ctl.st \in {"LoggedOut", "Offline", "Decentralised", "Finished"}
        /\ reader' = [reader EXCEPT !.pc = "err"]
        /\ UNCHANGED <<ctl, validated>>
  /\ UNCHANGED <<published, accountEnv>>

ConnectAgain ==
  /\ Spend /\ reader.pc \in {"ok", "err"}
  /\ reader' = [reader EXCEPT !.pc = "idle", !.asked = FALSE]
  /\ UNCHANGED <<ctl, validated, published>>

-----------------------------------------------------------------------------
(* AccountController::new: the stored account and device are loaded, and the *)
(* machine starts in Offline or Syncing.                                     *)
Fresh(account, online) ==
  [st |-> "LoggedOut", why |-> "None", att |-> 0, task |-> FALSE, um |-> FALSE,
   age |-> 0, armed |-> 0, pc |-> "idle",
   account |-> account, device |-> IF account = "none" THEN 0 ELSE 1,
   gen |-> IF account = "none" THEN 0 ELSE 1, summary |-> "none",
   firewall |-> FALSE, mode |-> "Active", tickets |-> "none", jwt |-> FALSE,
   online |-> online, seen |-> online]

AccountInitial(account, online) ==
  IF online THEN EnterSyncing(Fresh(account, online), 0)
            ELSE EnterPlain(Fresh(account, online), "Offline")

AccountInit ==
  /\ \E account \in {"none", "api", "decentralised"}, online \in BOOLEAN :
       ctl = AccountInitial(account, online)
  /\ validated = NoValidation
  /\ published = [st |-> ctl.st, why |-> ctl.why]
  /\ reader = [pc |-> "idle", seen |-> published, changed |-> FALSE, asked |-> FALSE]
  /\ accountEnv = AccountBudget

AccountNext ==
  \/ PublishValidation \/ PublishState
  \/ \E cmd \in Commands : AccountCommand(cmd)
  \/ AccountLinkChanges \/ Connectivity \/ AccountShutdown
  \/ \E out \in SyncOutcomes : SyncEnds(out)
  \/ SyncPanics
  \/ \E out \in FetchOutcomes(ctl) : FetchEnds(out)
  \/ UpgradeModeExpires \/ FetchPanics \/ RefreshTick \/ SpendTickets \/ TimePasses
  \/ ReadState \/ Judge \/ Changed \/ AskRefresh \/ ConnectAgain

(* The runtime runs the controller and the connect, timers fire, and an API  *)
(* request ends by its timeout at the latest.                                *)
AccountFairSteps == {"validation", "state", "sync", "fetch", "network", "refresh", "time",
                     "read", "judge", "changed", "ask"}

AccountFair(s) ==
  \/ s = "validation" /\ PublishValidation
  \/ s = "state" /\ PublishState
  \/ s = "sync" /\ \E out \in SyncOutcomes : SyncEnds(out)
  \/ s = "fetch" /\ \E out \in FetchOutcomes(ctl) : FetchEnds(out)
  \/ s = "network" /\ Connectivity
  \/ s = "refresh" /\ RefreshTick
  \/ s = "time" /\ TimePasses
  \/ s = "read" /\ ReadState
  \/ s = "judge" /\ Judge
  \/ s = "changed" /\ Changed
  \/ s = "ask" /\ AskRefresh

AccountFairness == \A s \in AccountFairSteps : WF_accountVars(AccountFair(s))

AccountSpec == AccountInit /\ [][AccountNext]_accountVars /\ AccountFairness

-----------------------------------------------------------------------------
(* Types and bounds.  A sync starts again at most once after its last        *)
(* allowed attempt; each task that dies adds one.                            *)
AccountTypeOK ==
  /\ ctl.st \in States /\ ctl.why \in Reasons /\ ctl.pc \in {"idle", "validate", "publish"}
  /\ ctl.account \in {"none", "api", "decentralised"}
  /\ ctl.device \in 0..MaxDevice /\ ctl.summary \in {"none", "left", "depleted"}
  /\ ctl.tickets \in TicketLevels
  /\ ctl.att \in 0..(MAX_SYNCING_ATTEMPTS + ZK_NYM_MAX_FAILS + 1 + AccountBudget)
  /\ validated \in [device : 0..MaxDevice, age : 0..Freshness]
  /\ reader.pc \in {"idle", "judge", "wait", "again", "refresh", "ok", "err"}

(* What lets a connect skip a re-check in progress (recently_validated) is a *)
(* validation of the account and the device stored now: forgetting the       *)
(* account, resetting the device and a failed re-check all withdraw it       *)
(* before a connect can read it next to the new state.                       *)
ValidationCurrent ==
  RecentlyValidated => validated.device = ctl.device /\ ctl.account = "api"

(* A connect that is let through on a state it read as being re-checked has  *)
(* a validation that the controller itself has not withdrawn: the state and  *)
(* the validation it pairs were read apart, and still no connect passes on   *)
(* an account that failed its re-check or was replaced.                      *)
ConnectVouched ==
  [][(reader.pc = "judge" /\ reader'.pc = "ok" /\ reader.seen.st \in Busy)
       => \/ ctl.account = "api" /\ ctl.st \in Busy \cup {"ReadyToConnect", "Finished"}
          \/ ctl.pc = "validate"]_accountVars

(* A task talks to the API in Syncing and RequestingZkNyms exactly while the *)
(* API is not firewalled: going up ends it, going down or re-entering the    *)
(* state starts it, and nobody else leaves it running (join_task: an aborted *)
(* task is never mistaken for a failed one).                                 *)
TaskIffReachable ==
  /\ ctl.task => ctl.st \in Busy /\ ~ctl.firewall
  /\ ctl.st \in Busy /\ ~ctl.firewall => ctl.task

(* ReadyState's timer runs for the interval of the mode in force, counted    *)
(* from its entry (RefreshTimer): a mode set anywhere reaches it.            *)
TimerFollowsMode == ctl.st = "ReadyToConnect" => ctl.armed = Interval(ctl.mode)

(* A sync or a ticket request that the API is reachable for ends: the        *)
(* retries are bounded.                                                      *)
SyncSettles == ctl.task ~> (ctl.st \notin Busy \/ ctl.firewall)

(* A connect that waits for the account is answered, unless the API is       *)
(* firewalled, which pauses the sync it waits for.                           *)
ConnectAnswered ==
  (reader.pc \in {"judge", "wait", "again", "refresh"})
    ~> (reader.pc \in {"ok", "err"} \/ ctl.firewall)

(* The error state is left by itself once the API is reachable: its timer    *)
(* ignores the idle mode.                                                    *)
ErrorRetries == ctl.st = "Error" ~> (ctl.st # "Error" \/ ctl.firewall)

(* A controller in Offline leaves it when connectivity is back.              *)
OfflineLeft == (ctl.st = "Offline" /\ ctl.online) ~> (ctl.st # "Offline" \/ ~ctl.online)

(* The controller is consistent in itself: the four facts above.             *)
AccountConsistent == AccountTypeOK /\ ValidationCurrent /\ TaskIffReachable /\ TimerFollowsMode

(* Nobody waits for the account for ever: the four facts above.              *)
AccountProgress == SyncSettles /\ ConnectAnswered /\ ErrorRetries /\ OfflineLeft
=============================================================================
