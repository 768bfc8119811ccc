----------------------------- MODULE VpnService -----------------------------
(***************************************************************************)
(* The daemon's service loop (nym-vpnd/src/service/vpn_service.rs), its    *)
(* Always On supervisor (always_on.rs) and the two channels that join it   *)
(* to the tunnel state machine.                                            *)
(*                                                                         *)
(* One turn of the select! loop in VpnService::run is one action.  The     *)
(* state machine runs in a task of its own: its commands wait in `cmds`,   *)
(* its NewState events in `events`, so the service acts on a view of the   *)
(* tunnel that may be several states old.  TunnelStateMachine.tla has the  *)
(* machine in full; here it is cut down to what the service can tell       *)
(* apart: which states follow which, and which steps emit an event.        *)
(*                                                                         *)
(* Time is left out: an armed timer may fire at any moment, so the lengths *)
(* of the backoffs, and the environmental streak that picks one, are not   *)
(* state.  The task in which handle_tunnel_event switches the SOCKS5 proxy *)
(* off and the events broadcast to clients touch nothing modelled here and *)
(* are left out.                                                           *)
(***************************************************************************)
EXTENDS Naturals, Sequences

CONSTANTS
    MaxInfrastructureErrors,  \* always_on::MAX_INFRASTRUCTURE_ERRORS, 6 in the code
    MaxConfig,                \* bound: configuration changes made by the user
    MaxCommands,              \* bound: clients and timers wait while this many commands are queued
    MaxEvents,                \* bound: the machine waits while this many events are queued
    Saves                     \* what writing the config file may do: TRUE, it works

ASSUME BoundsAssumption ==
    /\ MaxInfrastructureErrors \in Nat \ {0}
    /\ MaxConfig \in Nat
    /\ MaxCommands \in Nat \ {0}
    /\ MaxEvents \in Nat \ {0}
    /\ Saves \subseteq BOOLEAN /\ Saves # {}

VARIABLES
    svc,      \* VpnService and its AlwaysOn
    cmds,     \* TunnelCommands on their way to the machine
    events,   \* TunnelEvent::NewState on their way to the service
    tun       \* the tunnel state machine

vars == <<svc, cmds, events, tun>>

-----------------------------------------------------------------------------
(* What travels, and what the two sides remember.                          *)

Reasons == {"SetFirewallPolicy", "BandwidthExceeded", "InactiveAccount"}

classify(reason) ==
    CASE reason = "SetFirewallPolicy" -> "Infrastructure"
      [] reason = "BandwidthExceeded" -> "Environmental"
      [] reason = "InactiveAccount"   -> "Terminal"

Versions == 0..MaxConfig

\* TunnelState.
State(name) == [name |-> name, reconnect |-> FALSE, reason |-> "none"]
Offline(reconnect) == [State("Offline") EXCEPT !.reconnect = reconnect]
Error(reason) == [State("Error") EXCEPT !.reason = reason]

\* Connect carries, as history, the configuration its sender flushed before
\* it (0 when the sender flushes nothing).
Connect(relax, ver) == [cmd |-> "Connect", relax |-> relax, ver |-> ver]
Disconnect == [cmd |-> "Disconnect", relax |-> FALSE, ver |-> 0]
SetTunnelSettings(ver) == [cmd |-> "SetTunnelSettings", relax |-> FALSE, ver |-> ver]

Commands == [cmd : {"Connect", "Disconnect", "SetTunnelSettings"}, relax : BOOLEAN, ver : Versions]

Names == {"Disconnected", "Connecting", "Connected", "Disconnecting", "Error", "Offline", "Finished"}

TunnelStates == [name : Names, reconnect : BOOLEAN, reason : Reasons \cup {"none"}]

AfterDisconnect == {"Nothing", "Reconnect", "Offline", "OfflineReconnect"} \cup Reasons

-----------------------------------------------------------------------------
(* AlwaysOn, a pure decision procedure: each operation gives the new       *)
(* record, and the ones that return an Action have a twin that names it.   *)

NewAlwaysOn(enabled) ==
    [enabled |-> enabled, target |-> "Unsecured", seen |-> "Disconnected",
     streak |-> 0, retry |-> FALSE, since |-> FALSE, latched |-> FALSE]

supervising(ao) == ao.enabled /\ ao.target = "Secured"

reset_series(ao) == [ao EXCEPT !.streak = 0, !.retry = FALSE]

set_enabled(ao, enabled) ==
    IF ao.enabled = enabled THEN ao
    ELSE [reset_series(ao) EXCEPT !.enabled = enabled, !.latched = FALSE, !.since = FALSE]

on_target_state(ao, target) ==
    [reset_series(ao) EXCEPT !.target = target, !.latched = FALSE, !.since = FALSE]

\* on_tunnel_state, one operator per arm of its match.
OnConnected(ao) ==
    [reset_series(ao) EXCEPT !.seen = "Connected", !.since = FALSE, !.latched = FALSE]

OnConnecting(ao) ==
    [(IF ao.seen = "Offline" THEN reset_series(ao) ELSE ao)
        EXCEPT !.seen = "Connecting", !.retry = FALSE, !.since = TRUE]

OnOffline(ao) ==
    [ao EXCEPT !.seen = "Offline", !.retry = FALSE, !.since = FALSE]

OnError(ao, reason) ==
    LET entered == [ao EXCEPT !.seen = "Error", !.since = FALSE]
        class   == classify(reason)
    IN IF ~supervising(ao) THEN [entered EXCEPT !.retry = FALSE]
       ELSE CASE class = "Infrastructure" -> [entered EXCEPT !.streak = @ + 1, !.retry = TRUE]
              [] class = "Environmental"  -> [entered EXCEPT !.streak = 0, !.retry = TRUE]
              [] class = "Terminal"       -> [reset_series(entered) EXCEPT !.latched = TRUE]

\* As if the supervisor ignored Disconnected.
OnDisconnectedUnscheduled(ao) ==
    [ao EXCEPT !.seen = "Disconnected", !.since = FALSE]

OnDisconnected(ao) ==
    [ao EXCEPT !.seen = "Disconnected", !.since = FALSE,
               !.retry = @ \/ (supervising(ao) /\ ~ao.latched)]

on_tunnel_state(ao, state) ==
    CASE state.name = "Connected"     -> OnConnected(ao)
      [] state.name = "Connecting"    -> OnConnecting(ao)
      [] state.name = "Disconnecting" -> [ao EXCEPT !.seen = "Disconnecting"]
      [] state.name = "Offline"       -> OnOffline(ao)
      [] state.name = "Error"         -> OnError(ao, state.reason)
      [] state.name = "Disconnected"  -> OnDisconnected(ao)

StateAction(ao, state) ==
    CASE /\ state.name = "Offline"
         /\ supervising(ao) /\ ~state.reconnect /\ ~ao.latched -> "Connect"
      [] /\ state.name = "Error" /\ supervising(ao)
         /\ classify(state.reason) = "Infrastructure"
         /\ ao.streak + 1 >= MaxInfrastructureErrors -> "Exit"
      [] OTHER -> "Nothing"

ChangeRetries(ao) ==
    /\ supervising(ao)
    /\ ao.seen \in {"Error", "Disconnected"}
    /\ ao.latched \/ ao.retry

on_config_or_account_changed(ao) ==
    IF ChangeRetries(ao) THEN [reset_series(ao) EXCEPT !.latched = FALSE] ELSE ao

ChangeAction(ao) == IF ChangeRetries(ao) THEN "Connect" ELSE "Nothing"

next_deadline(ao) ==
    supervising(ao) /\ (ao.retry \/ (ao.since /\ ao.seen = "Connecting"))

\* A due retry is taken first; otherwise the timer was LONG_CONNECTING's.
poll(ao) == [ao EXCEPT !.retry = FALSE]

PollAction(ao) ==
    IF ~supervising(ao) \/ (ao.retry /\ ao.seen \notin {"Error", "Disconnected"})
    THEN "Nothing" ELSE "Connect"

-----------------------------------------------------------------------------
(* The service loop's helpers.                                             *)

rearm_always_on_timer(s) == [s EXCEPT !.timer = next_deadline(s.ao)]

Down(name) == name \in {"Disconnected", "Error", "Offline"}

update_idle_hint(s) == [s EXCEPT !.idle = Down(s.view.name) /\ s.target = "Unsecured"]

\* As if a reconnect did not wait for the throttled settings.
UnflushedConnect(s) == <<Connect(s.relax, s.config)>>

\* Connect, after the settings a pending throttle still holds back.
FlushedConnect(s) ==
    (IF s.throttle THEN <<SetTunnelSettings(s.config)>> ELSE <<>>)
        \o <<Connect(s.relax, s.config)>>

\* As if apply_always_on did not re-arm the timer.
ApplyUnarmed(s, action) ==
    [s EXCEPT !.throttle = @ /\ action # "Connect",
              !.up = IF action = "Exit" THEN "exited" ELSE @]

\* apply_always_on: the service after it, and what it sends.
Apply(s, action) ==
    rearm_always_on_timer(
        [s EXCEPT !.throttle = @ /\ action # "Connect",
                  !.up = IF action = "Exit" THEN "exited" ELSE @])

\* As if a retry forgot the session's relaxation.
ApplySendsStrict(s, action) ==
    IF action = "Connect"
    THEN (IF s.throttle THEN <<SetTunnelSettings(s.config)>> ELSE <<>>) \o <<Connect(FALSE, s.config)>>
    ELSE <<>>

ApplySends(s, action) == IF action = "Connect" THEN FlushedConnect(s) ELSE <<>>

Accepts(s, target) == s.target # target \/ s.view.name = "Error"

\* As if set_target_state did not re-arm the timer.
TargetUnarmed(s, target, relax) ==
    update_idle_hint(
        [s EXCEPT !.target = target, !.relax = relax /\ target = "Secured",
                  !.ao = on_target_state(s.ao, target)])

\* set_target_state when it accepts the change.
Target(s, target, relax) ==
    rearm_always_on_timer(update_idle_hint(
        [s EXCEPT !.target = target, !.relax = relax /\ target = "Secured",
                  !.ao = on_target_state(s.ao, target)]))

TargetSends(target, relax) ==
    IF target = "Secured" THEN <<Connect(relax, 0)>> ELSE <<Disconnect>>

-----------------------------------------------------------------------------
(* Starting: VpnService::new, TunnelStateMachine::spawn and the head of    *)
(* run.  The machine enters its first state before its loop starts, so no  *)
(* event reports it: the service takes it for Disconnected.                *)

Loaded(on, config) ==
    update_idle_hint(
        [up |-> "running", target |-> "Unsecured", relax |-> FALSE,
         view |-> State("Disconnected"), config |-> config, throttle |-> FALSE,
         alwaysOn |-> on, diskAlwaysOn |-> on, diskConfig |-> config,
         timer |-> FALSE, idle |-> FALSE, ao |-> NewAlwaysOn(on)])

FirstStates == {State("Disconnected"), Offline(FALSE), Error("SetFirewallPolicy")}

Machine(state, config) ==
    [state |-> state, after |-> "Nothing", settings |-> config,
     relax |-> FALSE, dropped |-> FALSE]

Started(on, config, s, c, e, t) ==
    /\ s = IF on THEN Target(Loaded(on, config), "Secured", FALSE) ELSE Loaded(on, config)
    /\ c = IF on THEN TargetSends("Secured", FALSE) ELSE <<>>
    /\ e = <<>>
    /\ \E first \in FirstStates : t = Machine(first, config)

Init == \E on \in BOOLEAN : Started(on, 0, svc, cmds, events, tun)

\* procd starts the daemon again after the supervisor's exit.
Respawn ==
    /\ svc.up = "exited"
    /\ Started(svc.diskAlwaysOn, svc.diskConfig, svc', cmds', events', tun')

-----------------------------------------------------------------------------
(* The arms of the service's select! loop.                                 *)

Serving == svc.up = "running"

\* Bound: what adds commands does not run ahead of the machine without limit.
Room == Len(cmds) < MaxCommands

ClientTurn == Serving /\ Room

Sends(seq) == cmds' = cmds \o seq

set_target_state(target, relax) ==
    /\ ClientTurn
    /\ Accepts(svc, target)
    /\ svc' = Target(svc, target, relax)
    /\ Sends(TargetSends(target, relax))
    /\ UNCHANGED <<events, tun>>

reconnect_tunnel ==
    /\ ClientTurn
    /\ svc.target = "Secured"
    /\ svc' = [svc EXCEPT !.throttle = FALSE]
    /\ Sends(FlushedConnect(svc))
    /\ UNCHANGED <<events, tun>>

\* A changed value is written with the whole configuration; `saved` tells
\* whether the write worked.
save_config(s, changed, saved) ==
    IF changed /\ saved THEN [s EXCEPT !.diskConfig = s.config, !.diskAlwaysOn = s.alwaysOn] ELSE s

update_tunnel_settings_with_throttle(s) ==
    LET action == ChangeAction(s.ao)
        after  == [s EXCEPT !.throttle = @ \/ s.target = "Secured",
                            !.ao = on_config_or_account_changed(@)]
    IN /\ svc' = Apply(after, action)
       /\ Sends((IF s.target = "Unsecured" THEN <<SetTunnelSettings(s.config)>> ELSE <<>>)
                   \o ApplySends(after, action))

\* The configuration after a setter of the config manager.  The value may be
\* the one already set.
Stored(config, saved) == save_config([svc EXCEPT !.config = config], config # svc.config, saved)

\* handle_set_*
SetConfig(config, saved) ==
    /\ ClientTurn
    /\ config \in {svc.config, svc.config + 1}
    /\ update_tunnel_settings_with_throttle(Stored(config, saved))
    /\ UNCHANGED <<events, tun>>

\* The one setter that gives up when the value cannot be saved.
handle_set_mixnet_traffic_config(config, saved) ==
    /\ ClientTurn
    /\ config \in {svc.config, svc.config + 1}
    /\ IF config # svc.config /\ ~saved
       THEN svc' = Stored(config, saved) /\ Sends(<<>>)
       ELSE update_tunnel_settings_with_throttle(Stored(config, saved))
    /\ UNCHANGED <<events, tun>>

\* handle_set_always_on, which gives up likewise.
handle_set_always_on(on, saved) ==
    /\ ClientTurn
    /\ LET was    == svc.alwaysOn
           stored == save_config([svc EXCEPT !.alwaysOn = on], on # was, saved)
           s      == [stored EXCEPT !.ao = set_enabled(svc.ao, on)]
           action == StateAction(s.ao, s.view)
       IN IF on # was /\ ~saved
          THEN svc' = stored /\ Sends(<<>>)
          ELSE IF on /\ ~was /\ svc.target = "Unsecured"
          THEN svc' = Target(s, "Secured", FALSE) /\ Sends(TargetSends("Secured", FALSE))
          ELSE IF on /\ ~was
          THEN /\ svc' = Apply([s EXCEPT !.ao = on_tunnel_state(s.ao, s.view)], action)
               /\ Sends(ApplySends(s, action))
          ELSE svc' = rearm_always_on_timer(s) /\ Sends(<<>>)
    /\ UNCHANGED <<events, tun>>

\* handle_account_state_change for ReadyToConnect.
handle_account_ready ==
    /\ ClientTurn
    /\ LET s      == [svc EXCEPT !.ao = on_config_or_account_changed(svc.ao)]
           action == ChangeAction(svc.ao)
       IN svc' = Apply(s, action) /\ Sends(ApplySends(s, action))
    /\ UNCHANGED <<events, tun>>

\* tunnel_settings_update_timer
ThrottleFires ==
    /\ Serving /\ svc.throttle
    /\ svc' = [svc EXCEPT !.throttle = FALSE]
    /\ Sends(<<SetTunnelSettings(svc.config)>>)
    /\ UNCHANGED <<events, tun>>

\* always_on_timer
AlwaysOnFires ==
    /\ Serving /\ Room /\ svc.timer
    /\ LET s      == [svc EXCEPT !.ao = poll(svc.ao)]
           action == PollAction(svc.ao)
       IN svc' = Apply(s, action) /\ Sends(ApplySends(s, action))
    /\ UNCHANGED <<events, tun>>

\* handle_tunnel_event, also while run drains the machine's last events.
handle_tunnel_event ==
    /\ svc.up \in {"running", "draining"}
    /\ events # <<>>
    /\ LET state  == Head(events)
           s      == update_idle_hint([svc EXCEPT !.view = state,
                                                  !.ao = on_tunnel_state(svc.ao, state)])
           action == StateAction(svc.ao, state)
       IN svc' = Apply(s, action) /\ Sends(ApplySends(s, action))
    /\ events' = Tail(events)
    /\ UNCHANGED tun

\* The shutdown token ends the loop and cancels the machine's token.
Shutdown ==
    /\ Serving
    /\ svc' = [svc EXCEPT !.up = "draining"]
    /\ UNCHANGED <<cmds, events, tun>>

\* The machine's handle is joined and its channel closed and drained.
Joined ==
    /\ svc.up = "draining"
    /\ tun.state.name = "Finished" /\ events = <<>>
    /\ svc' = [svc EXCEPT !.up = "stopped"]
    /\ UNCHANGED <<cmds, events, tun>>

-----------------------------------------------------------------------------
(* The tunnel state machine, reduced to its outward transitions.           *)

MachineRuns ==
    /\ svc.up \in {"running", "draining"}
    /\ tun.state.name # "Finished"
    /\ Len(events) < MaxEvents

\* NextTunnelState::NewState: the machine moves and tells the service.
NewState(t, state, after) ==
    /\ tun' = [t EXCEPT !.state = state, !.after = after]
    /\ events' = Append(events, state)

SameState(t) == tun' = t /\ UNCHANGED events

FirewallError == Error("SetFirewallPolicy")

\* ConnectingState::enter: offline, a refused policy, or Connecting.
EnterConnecting(t) ==
    \E state \in {State("Connecting"), Offline(TRUE), FirewallError} :
        NewState(t, state, "Nothing")

EnterDisconnected(t) ==
    \E state \in {State("Disconnected"), FirewallError} : NewState(t, state, "Nothing")

Disconnecting(t, after) == NewState(t, State("Disconnecting"), after)

\* What is pending when the monitor exits, after a command changed it.
Redirected(after, up) ==
    CASE after \in {"Offline", "OfflineReconnect"} -> IF up THEN "OfflineReconnect" ELSE "Offline"
      [] OTHER -> IF up THEN "Reconnect" ELSE "Nothing"

\* TunnelCommand::Connect in each state.  With a monitor running Connecting
\* first disconnects.
TakeConnect(t, relax) ==
    LET now == [t EXCEPT !.relax = relax]
        name == t.state.name
    IN \/ name \in {"Disconnected", "Error"} /\ EnterConnecting(now)
       \/ name \in {"Connecting", "Connected"} /\ Disconnecting(now, "Reconnect")
       \/ name = "Connecting" /\ EnterConnecting(now)
       \/ name = "Error" /\ NewState(now, Offline(TRUE), "Nothing")
       \/ name = "Offline" /\ ~t.state.reconnect /\ NewState(now, Offline(TRUE), "Nothing")
       \/ name = "Offline" /\ t.state.reconnect /\ SameState(now)
       \/ name = "Disconnecting" /\ SameState([now EXCEPT !.after = Redirected(@, TRUE)])

TakeDisconnect(t) ==
    LET name == t.state.name
    IN \/ name = "Disconnected" /\ SameState(t)
       \/ name \in {"Connecting", "Connected"} /\ Disconnecting(t, "Nothing")
       \/ name \in {"Connecting", "Error"} /\ EnterDisconnected(t)
       \/ name = "Error" /\ NewState(t, Offline(FALSE), "Nothing")
       \/ name = "Offline" /\ t.state.reconnect /\ NewState(t, Offline(FALSE), "Nothing")
       \/ name = "Offline" /\ ~t.state.reconnect /\ SameState(t)
       \/ name = "Disconnecting" /\ SameState([t EXCEPT !.after = Redirected(@, FALSE)])

\* As if Offline ignored new settings.
TakeSettingsOnline(t, ver) ==
    IF t.state.name = "Offline" THEN SameState(t)
    ELSE SameState([t EXCEPT !.settings = ver, !.dropped = FALSE])

\* TunnelCommand::SetTunnelSettings.  Disconnected applies its policy whether
\* the settings differ or not; Connected applies it before it stores them, so
\* that a refusal loses them.
TakeSettings(t, ver) ==
    LET now  == [t EXCEPT !.settings = ver, !.dropped = FALSE]
        name == t.state.name
    IN \/ name # "Disconnected" /\ ver = t.settings /\ SameState(t)
       \/ name = "Disconnected" /\ (SameState(now) \/ NewState(now, FirewallError, "Nothing"))
       \/ /\ name # "Disconnected" /\ ver # t.settings
          /\ \/ SameState(now)
             \/ name \in {"Connecting", "Connected"} /\ Disconnecting(now, "Reconnect")
             \/ name = "Connecting" /\ EnterConnecting(now)
             \/ /\ name = "Connected"
                /\ NewState([t EXCEPT !.dropped = TRUE], FirewallError, "Nothing")
             \/ /\ name = "Error" /\ t.state.reason = "SetFirewallPolicy"
                /\ EnterDisconnected(now)

TakeCommand ==
    /\ MachineRuns
    /\ cmds # <<>>
    /\ cmds' = Tail(cmds)
    /\ LET c == Head(cmds)
       IN \/ c.cmd = "Connect" /\ TakeConnect(tun, c.relax)
          \/ c.cmd = "Disconnect" /\ TakeDisconnect(tun)
          \/ c.cmd = "SetTunnelSettings" /\ TakeSettings(tun, c.ver)
    /\ UNCHANGED svc

\* The session progresses, fails or is cut off.
SessionMoves ==
    /\ MachineRuns
    /\ \/ /\ tun.state.name = "Connecting"
          /\ \/ NewState(tun, State("Connected"), "Nothing")
             \/ NewState(tun, State("Connecting"), "Nothing")
             \/ NewState(tun, Offline(TRUE), "Nothing")
             \/ \E after \in Reasons \cup {"OfflineReconnect", "Reconnect"} : Disconnecting(tun, after)
             \/ \E reason \in Reasons : NewState(tun, Error(reason), "Nothing")
       \/ /\ tun.state.name = "Connected"
          /\ \/ EnterConnecting(tun)
             \/ Disconnecting(tun, "OfflineReconnect")
             \/ \E reason \in Reasons : NewState(tun, Error(reason), "Nothing")
    /\ UNCHANGED <<svc, cmds>>

\* The monitor has exited: DisconnectingState carries on with its plan.
DisconnectEnds ==
    /\ MachineRuns
    /\ tun.state.name = "Disconnecting"
    /\ \/ tun.after = "Nothing" /\ EnterDisconnected(tun)
       \/ tun.after = "Reconnect" /\ EnterConnecting(tun)
       \/ /\ tun.after \in {"Offline", "OfflineReconnect"}
          /\ NewState(tun, Offline(tun.after = "OfflineReconnect"), "Nothing")
       \/ tun.after \in Reasons /\ NewState(tun, Error(tun.after), "Nothing")
    /\ UNCHANGED <<svc, cmds>>

\* The default route goes or returns.
RouteLost ==
    /\ MachineRuns
    /\ Room
    /\ tun.state.name = "Disconnected"
    /\ NewState(tun, Offline(FALSE), "Nothing")
    /\ UNCHANGED <<svc, cmds>>

\* The allow-list upkeep of Disconnected re-applies the policy in vain.
UpkeepRefused ==
    /\ MachineRuns
    /\ tun.state.name = "Disconnected"
    /\ NewState(tun, FirewallError, "Nothing")
    /\ UNCHANGED <<svc, cmds>>

RouteReturns ==
    /\ MachineRuns
    /\ tun.state.name = "Offline"
    /\ IF tun.state.reconnect THEN EnterConnecting(tun) ELSE EnterDisconnected(tun)
    /\ UNCHANGED <<svc, cmds>>

\* The machine's shutdown token: a session is disconnected, Disconnecting
\* waits for the monitor and then is Disconnected, the idle states finish.
SessionStops ==
    /\ MachineRuns
    /\ svc.up = "draining"
    /\ \/ tun.state.name \in {"Connecting", "Connected"} /\ Disconnecting(tun, "Nothing")
       \/ tun.state.name \in {"Connecting", "Disconnecting"} /\ EnterDisconnected(tun)
    /\ UNCHANGED <<svc, cmds>>

MachineFinishes ==
    /\ MachineRuns
    /\ svc.up = "draining"
    /\ Down(tun.state.name)
    /\ SameState([tun EXCEPT !.state = State("Finished")])
    /\ UNCHANGED <<svc, cmds>>

Stopped == svc.up = "stopped" /\ UNCHANGED vars

Client ==
    \/ \E relax \in BOOLEAN : set_target_state("Secured", relax)
    \/ set_target_state("Unsecured", FALSE)
    \/ reconnect_tunnel
    \/ \E config \in Versions, saved \in Saves : SetConfig(config, saved)
    \/ \E config \in Versions, saved \in Saves : handle_set_mixnet_traffic_config(config, saved)
    \/ \E on \in BOOLEAN, saved \in Saves : handle_set_always_on(on, saved)
    \/ handle_account_ready
    \/ Shutdown

Loop ==
    \/ ThrottleFires
    \/ AlwaysOnFires
    \/ handle_tunnel_event
    \/ Joined
    \/ Respawn

Tunnel ==
    \/ TakeCommand
    \/ SessionMoves
    \/ DisconnectEnds
    \/ RouteLost
    \/ UpkeepRefused
    \/ RouteReturns
    \/ SessionStops
    \/ MachineFinishes

Next == Client \/ Loop \/ Tunnel \/ Stopped

Spec == Init /\ [][Next]_vars

(***************************************************************************)
(* select! picks at random among the arms that are ready, so one that is   *)
(* ready again and again is taken at last, whatever the others do; timers  *)
(* fire and a cancelled monitor exits.  Clients and the network owe        *)
(* nothing.                                                                *)
(***************************************************************************)
FairSpec ==
    /\ Spec
    /\ WF_vars(ThrottleFires)
    /\ WF_vars(AlwaysOnFires)
    /\ WF_vars(handle_tunnel_event)
    /\ WF_vars(Joined)
    /\ SF_vars(TakeCommand)
    /\ WF_vars(DisconnectEnds)
    /\ SF_vars(SessionStops)
    /\ SF_vars(MachineFinishes)

-----------------------------------------------------------------------------
(* Correctness.                                                            *)

Streaks == 0..MaxInfrastructureErrors

AlwaysOnType ==
    [enabled : BOOLEAN, target : {"Secured", "Unsecured"},
     seen : Names \ {"Finished"}, streak : Streaks,
     retry : BOOLEAN, since : BOOLEAN, latched : BOOLEAN]

\* Types; in particular the streak never passes MAX_INFRASTRUCTURE_ERRORS,
\* where on_tunnel_state hands over to procd.
TypeOK ==
    /\ svc \in [up : {"running", "draining", "stopped", "exited"},
                target : {"Secured", "Unsecured"}, relax : BOOLEAN, view : TunnelStates,
                config : Versions, throttle : BOOLEAN, alwaysOn : BOOLEAN,
                diskAlwaysOn : BOOLEAN, diskConfig : Versions, timer : BOOLEAN, idle : BOOLEAN,
                ao : AlwaysOnType]
    /\ cmds \in Seq(Commands)
    /\ events \in Seq(TunnelStates)
    /\ tun \in [state : TunnelStates, after : AfterDisconnect, settings : Versions,
                relax : BOOLEAN, dropped : BOOLEAN]

Pending(cmd) == \E i \in DOMAIN cmds : cmds[i].cmd = cmd

\* While Always On supervises and is not latched, a tunnel that is down is
\* never left to itself: once the service has seen all the machine reported,
\* either the retry timer is armed, or a Connect is on its way, or the
\* machine reconnects on its own (always_on.rs: on_tunnel_state,
\* on_config_or_account_changed and poll, with apply_always_on's timer).
NeverStranded ==
    (Serving /\ supervising(svc.ao) /\ ~svc.ao.latched /\ events = <<>>)
        => \/ svc.timer
           \/ Pending("Connect")
           \/ tun.state.name \in {"Connecting", "Connected", "Disconnecting"}
           \/ tun.state.reconnect

\* Index of the settings in force when the machine reaches command i.
SettingsBefore(i) ==
    LET sets == {j \in 1..(i - 1) : cmds[j].cmd = "SetTunnelSettings"}
    IN IF sets = {} THEN tun.settings
       ELSE cmds[CHOOSE j \in sets : \A k \in sets : k <= j].ver

\* A Connect sent by reconnect_tunnel or apply_always_on finds the machine
\* with the configuration of the moment it was sent, or a later one: the
\* throttled update is flushed first.  (A refused apply in Connected drops
\* settings.)
ConnectFresh ==
    \A i \in DOMAIN cmds :
        (cmds[i].cmd = "Connect" /\ ~tun.dropped) => SettingsBefore(i) >= cmds[i].ver

\* With nothing throttled and nothing queued the machine has the service's
\* configuration, unless Connected dropped it: no update is lost between
\* the throttle, the flush and the queue.
SettingsDelivered ==
    (Serving /\ ~svc.throttle /\ cmds = <<>>) => (tun.settings = svc.config \/ tun.dropped)

Connects == SelectSeq(cmds, LAMBDA c : c.cmd = "Connect")

\* The relaxation of the independence criteria lasts a connect session: while
\* the target is Secured, what the machine has, or is about to get from the
\* last queued Connect, is what the user chose with that connect; automatic
\* reconnects keep it and none brings back an older one.
RelaxScoped ==
    (Serving /\ svc.target = "Secured") =>
        svc.relax = IF Connects = <<>> THEN tun.relax ELSE Connects[Len(Connects)].relax

\* The account controller and the discovery refresher idle only while the
\* tunnel is really down: with every event handled, an idle daemon has no
\* session, and a daemon that is down and not asked to connect is idle.
IdleMatches ==
    (Serving /\ events = <<>> /\ tun.state.name # "Finished") =>
        /\ svc.idle => tun.state.name \notin {"Connecting", "Connected", "Disconnecting"}
        /\ (Down(tun.state.name) /\ svc.target = "Unsecured") => svc.idle

\* The supervisor is in step with the loop: it has the target the loop has, its
\* timer is armed exactly when it has a deadline, it has not overrun the streak
\* that ends the process, and the idle hint is the one last computed.
SupervisorInSync ==
    /\ svc.ao.target = svc.target
    /\ svc.timer <=> next_deadline(svc.ao)
    /\ svc.up # "exited" => svc.ao.streak < MaxInfrastructureErrors
    /\ svc.idle <=> (Down(svc.view.name) /\ svc.target = "Unsecured")

\* Always On does not rest in an error that is not terminal: a Connect is sent,
\* or the daemon exits for procd, unless the user turns it off or disconnects.
AlwaysOnRetries ==
    (Serving /\ supervising(svc.ao) /\ tun.state.name = "Error"
        /\ tun.state.reason # "InactiveAccount")
        ~> (Pending("Connect") \/ tun.state.name # "Error" \/ ~Serving \/ ~supervising(svc.ao))

\* A configuration change reaches the machine, whatever it is doing.
ConfigReaches ==
    (Serving /\ tun.settings # svc.config) ~> (tun.settings = svc.config \/ tun.dropped \/ ~Serving)

\* Shutdown ends: the drain loop joins the machine and stops, or the
\* supervisor's exit cuts it short, whatever commands are still queued.
ShutdownEnds == (svc.up = "draining") ~> (svc.up \in {"stopped", "exited"})

\* Types, the scope of a relaxed connect, and the idle hint.
HintsCurrent == TypeOK /\ RelaxScoped /\ IdleMatches

\* No settings update is lost, and none is overtaken by a Connect.
SettingsOrdered == ConnectFresh /\ SettingsDelivered

\* A changed configuration arrives, and a shutdown ends.
ServiceSettles == ConfigReaches /\ ShutdownEnds
=============================================================================
