--------------------------- MODULE VpnServiceProofs ---------------------------
(***************************************************************************)
(* The service loop keeps its supervisor in step, for every bound on the   *)
(* channels, every number of configurations and every streak that ends the *)
(* process.                                                                *)
(***************************************************************************)
EXTENDS VpnService, TLAPS

Services ==
    [up : {"running", "draining", "stopped", "exited"},
     target : {"Secured", "Unsecured"}, relax : BOOLEAN, view : TunnelStates,
     config : Versions, throttle : BOOLEAN, alwaysOn : BOOLEAN,
     diskAlwaysOn : BOOLEAN, diskConfig : Versions, timer : BOOLEAN, idle : BOOLEAN,
     ao : AlwaysOnType]

Machines ==
    [state : TunnelStates, after : AfterDisconnect, settings : Versions,
     relax : BOOLEAN, dropped : BOOLEAN]

\* What the machine reports: never its end, and an error with its reason.
Reported ==
    {state \in TunnelStates :
        state.name # "Finished" /\ (state.name = "Error" => state.reason \in Reasons)}

\* The types as the proof needs them.
Typed ==
    /\ svc \in Services
    /\ svc.view \in Reported
    /\ cmds \in Seq(Commands)
    /\ events \in Seq(Reported)
    /\ tun \in Machines

\* The supervisor of a service that is about to re-arm its timer and has
\* computed its idle hint.
InStep(s) ==
    /\ s.ao.target = s.target
    /\ s.up # "exited" => s.ao.streak < MaxInfrastructureErrors
    /\ s.idle <=> (Down(s.view.name) /\ s.target = "Unsecured")

\* SupervisorInSync together with the types is inductive.
ServiceInv == Typed /\ SupervisorInSync

Targets == {"Secured", "Unsecured"}

ActionNames == {"Nothing", "Connect", "Exit"}

-----------------------------------------------------------------------------
(***************************************************************************)
(* The supervisor's operations return supervisors.                         *)
(***************************************************************************)
\* Commands sent after typed commands are typed commands.
LEMMA ConcatType ==
    ASSUME NEW S, NEW a \in Seq(S), NEW b \in Seq(S)
    PROVE  a \o b \in Seq(S)
    OBVIOUS

\* No streak is a streak, and is below the limit.
LEMMA StreakFacts == 0 \in Streaks /\ 0 < MaxInfrastructureErrors
    BY BoundsAssumption DEF Streaks

\* Resetting a series clears the streak and the retry and nothing else.
LEMMA ResetType ==
    ASSUME NEW ao \in AlwaysOnType
    PROVE  /\ reset_series(ao) \in AlwaysOnType
           /\ reset_series(ao).target = ao.target
           /\ reset_series(ao).streak = 0
    BY StreakFacts DEF AlwaysOnType, reset_series

\* The setting changes no target and deepens no streak.
LEMMA SetEnabledType ==
    ASSUME NEW ao \in AlwaysOnType, NEW on \in BOOLEAN
    PROVE  /\ set_enabled(ao, on) \in AlwaysOnType
           /\ set_enabled(ao, on).target = ao.target
           /\ set_enabled(ao, on).streak \in {0, ao.streak}
    BY StreakFacts DEF AlwaysOnType, set_enabled, reset_series

\* A new target starts a fresh series.
LEMMA OnTargetType ==
    ASSUME NEW ao \in AlwaysOnType, NEW target \in Targets
    PROVE  /\ on_target_state(ao, target) \in AlwaysOnType
           /\ on_target_state(ao, target).target = target
           /\ on_target_state(ao, target).streak = 0
    BY StreakFacts DEF AlwaysOnType, on_target_state, reset_series, Targets

\* A change of configuration or account deepens no streak.
LEMMA ChangedType ==
    ASSUME NEW ao \in AlwaysOnType
    PROVE  /\ on_config_or_account_changed(ao) \in AlwaysOnType
           /\ on_config_or_account_changed(ao).target = ao.target
           /\ on_config_or_account_changed(ao).streak \in {0, ao.streak}
    BY StreakFacts DEF AlwaysOnType, on_config_or_account_changed, reset_series

\* Neither does its timer.
LEMMA PollType ==
    ASSUME NEW ao \in AlwaysOnType
    PROVE  /\ poll(ao) \in AlwaysOnType
           /\ poll(ao).target = ao.target
           /\ poll(ao).streak = ao.streak
    BY DEF AlwaysOnType, poll

\* An error deepens the streak by one at most, and one that reaches the limit
\* makes the supervisor ask for the exit.
LEMMA OnErrorType ==
    ASSUME NEW ao \in AlwaysOnType, ao.streak < MaxInfrastructureErrors, NEW reason \in Reasons
    PROVE  /\ OnError(ao, reason) \in AlwaysOnType
           /\ OnError(ao, reason).target = ao.target
           /\ \/ OnError(ao, reason).streak < MaxInfrastructureErrors
              \/ /\ supervising(ao)
                 /\ classify(reason) = "Infrastructure"
                 /\ ao.streak + 1 >= MaxInfrastructureErrors
<1> DEFINE entered == [ao EXCEPT !.seen = "Error", !.since = FALSE]
<1>0. entered \in AlwaysOnType /\ entered.target = ao.target /\ entered.streak = ao.streak
    BY DEF AlwaysOnType, Names
<1>1. CASE ~supervising(ao)
    <2>1. OnError(ao, reason) = [entered EXCEPT !.retry = FALSE]
        BY <1>1 DEF OnError
    <2> HIDE DEF entered
    <2> QED
        BY <1>0, <2>1 DEF AlwaysOnType
<1>2. CASE supervising(ao) /\ reason = "SetFirewallPolicy"
    <2> DEFINE n == ao.streak + 1
    <2>1. OnError(ao, reason) = [entered EXCEPT !.streak = @ + 1, !.retry = TRUE]
        BY <1>2 DEF OnError, classify
    <2>2. classify(reason) = "Infrastructure"
        BY <1>2 DEF classify
    <2> HIDE DEF entered
    <2>3. OnError(ao, reason) = [entered EXCEPT !.streak = n, !.retry = TRUE]
        BY <1>0, <2>1
    <2>4. ao.streak \in Streaks
        BY DEF AlwaysOnType
    <2>5. n \in Streaks /\ (n < MaxInfrastructureErrors \/ n >= MaxInfrastructureErrors)
        BY <2>4, BoundsAssumption DEF Streaks
    <2>6. n = ao.streak + 1
        OBVIOUS
    <2> HIDE DEF n
    <2>7. OnError(ao, reason) \in AlwaysOnType /\ OnError(ao, reason).target = ao.target
          /\ OnError(ao, reason).streak = n
        BY <1>0, <2>3, <2>5 DEF AlwaysOnType
    <2> QED
        BY <1>2, <2>2, <2>5, <2>6, <2>7
<1>3. CASE supervising(ao) /\ reason = "BandwidthExceeded"
    <2>1. OnError(ao, reason) = [entered EXCEPT !.streak = 0, !.retry = TRUE]
        BY <1>3 DEF OnError, classify
    <2> HIDE DEF entered
    <2> QED
        BY <1>0, <2>1, StreakFacts DEF AlwaysOnType
<1>4. CASE supervising(ao) /\ reason = "InactiveAccount"
    <2>1. OnError(ao, reason) = [reset_series(entered) EXCEPT !.latched = TRUE]
        BY <1>4 DEF OnError, classify
    <2> HIDE DEF entered
    <2>2. reset_series(entered) \in AlwaysOnType /\ reset_series(entered).target = ao.target
          /\ reset_series(entered).streak = 0
        BY <1>0, ResetType
    <2> QED
        BY <2>1, <2>2, StreakFacts DEF AlwaysOnType
<1> QED
    BY <1>1, <1>2, <1>3, <1>4 DEF Reasons

\* Whatever the machine reports, the supervisor keeps its target, and its streak
\* stays below the limit unless it asks for the exit.
LEMMA OnStateType ==
    ASSUME NEW ao \in AlwaysOnType, ao.streak < MaxInfrastructureErrors, NEW state \in Reported
    PROVE  /\ on_tunnel_state(ao, state) \in AlwaysOnType
           /\ on_tunnel_state(ao, state).target = ao.target
           /\ StateAction(ao, state) # "Exit"
                => on_tunnel_state(ao, state).streak < MaxInfrastructureErrors
<1> DEFINE q == reset_series(ao)
<1>0. q \in AlwaysOnType /\ q.target = ao.target /\ q.streak < MaxInfrastructureErrors
    BY ResetType, StreakFacts
<1>1. CASE state.name = "Connected"
    <2>1. on_tunnel_state(ao, state)
            = [q EXCEPT !.seen = "Connected", !.since = FALSE, !.latched = FALSE]
        BY <1>1 DEF on_tunnel_state, OnConnected
    <2> HIDE DEF q
    <2> QED
        BY <1>0, <2>1 DEF AlwaysOnType, Names
<1>2. CASE state.name = "Connecting"
    <2> DEFINE b == IF ao.seen = "Offline" THEN q ELSE ao
    <2>1. on_tunnel_state(ao, state)
            = [b EXCEPT !.seen = "Connecting", !.retry = FALSE, !.since = TRUE]
        BY <1>2 DEF on_tunnel_state, OnConnecting
    <2> HIDE DEF q
    <2>2. b \in AlwaysOnType /\ b.target = ao.target /\ b.streak < MaxInfrastructureErrors
        BY <1>0
    <2> HIDE DEF b
    <2> QED
        BY <2>1, <2>2 DEF AlwaysOnType, Names
<1>3. CASE state.name = "Disconnecting"
    BY <1>3 DEF on_tunnel_state, AlwaysOnType, Names
<1>4. CASE state.name = "Offline"
    BY <1>4 DEF on_tunnel_state, OnOffline, AlwaysOnType, Names
<1>5. CASE state.name = "Error"
    <2>1. state.reason \in Reasons
        BY <1>5 DEF Reported
    <2>2. on_tunnel_state(ao, state) = OnError(ao, state.reason)
        BY <1>5 DEF on_tunnel_state
    <2>3. (supervising(ao) /\ classify(state.reason) = "Infrastructure"
            /\ ao.streak + 1 >= MaxInfrastructureErrors) => StateAction(ao, state) = "Exit"
        BY <1>5 DEF StateAction
    <2> QED
        BY <2>1, <2>2, <2>3, OnErrorType
<1>6. CASE state.name = "Disconnected"
    <2>1. (ao.retry \/ (supervising(ao) /\ ~ao.latched)) \in BOOLEAN
        OBVIOUS
    <2> QED
        BY <1>6, <2>1 DEF on_tunnel_state, OnDisconnected, AlwaysOnType, Names
<1> QED
    BY <1>1, <1>2, <1>3, <1>4, <1>5, <1>6 DEF Reported, TunnelStates, Names

\* StateAction and its companions are actions.
LEMMA ActionTypes ==
    ASSUME NEW ao, NEW state
    PROVE  /\ StateAction(ao, state) \in ActionNames
           /\ ChangeAction(ao) \in ActionNames \ {"Exit"}
           /\ PollAction(ao) \in ActionNames \ {"Exit"}
    BY DEF StateAction, ChangeAction, PollAction, ActionNames

-----------------------------------------------------------------------------
(***************************************************************************)
(* The loop's helpers.  A handler that ends in rearm_always_on_timer       *)
(* leaves the supervisor in step when everything but the timer was.        *)
(***************************************************************************)
\* Re-arming changes the timer only, and to what the deadline says.
LEMMA RearmType ==
    ASSUME NEW s \in Services
    PROVE  /\ rearm_always_on_timer(s) \in Services
           /\ rearm_always_on_timer(s).timer = next_deadline(s.ao)
           /\ rearm_always_on_timer(s).ao = s.ao
           /\ rearm_always_on_timer(s).up = s.up
           /\ rearm_always_on_timer(s).target = s.target
           /\ rearm_always_on_timer(s).view = s.view
           /\ rearm_always_on_timer(s).idle = s.idle
<1>1. s.ao \in AlwaysOnType
    BY DEF Services
<1>2. next_deadline(s.ao) \in BOOLEAN
    BY <1>1 DEF next_deadline, supervising, AlwaysOnType
<1> QED
    BY <1>2 DEF rearm_always_on_timer, Services

\* Hinting changes the idle hint only.
LEMMA HintType ==
    ASSUME NEW s \in Services
    PROVE  /\ update_idle_hint(s) \in Services
           /\ update_idle_hint(s).idle = (Down(s.view.name) /\ s.target = "Unsecured")
           /\ update_idle_hint(s).ao = s.ao
           /\ update_idle_hint(s).up = s.up
           /\ update_idle_hint(s).target = s.target
           /\ update_idle_hint(s).view = s.view
<1>1. (Down(s.view.name) /\ s.target = "Unsecured") \in BOOLEAN
    BY DEF Down
<1> QED
    BY <1>1 DEF update_idle_hint, Services

\* apply_always_on keeps a service in step, and its own exit excuses a streak.
LEMMA ApplyType ==
    ASSUME NEW s \in Services, NEW action \in ActionNames
    PROVE  /\ Apply(s, action) \in Services
           /\ Apply(s, action).timer = next_deadline(s.ao)
           /\ Apply(s, action).ao = s.ao
           /\ Apply(s, action).up = (IF action = "Exit" THEN "exited" ELSE s.up)
           /\ Apply(s, action).target = s.target
           /\ Apply(s, action).view = s.view
           /\ Apply(s, action).idle = s.idle
<1> DEFINE r == [s EXCEPT !.throttle = @ /\ action # "Connect",
                          !.up = IF action = "Exit" THEN "exited" ELSE @]
<1>1. (s.throttle /\ action # "Connect") \in BOOLEAN
    OBVIOUS
<1>2. (IF action = "Exit" THEN "exited" ELSE s.up) \in {"running", "draining", "stopped", "exited"}
    BY DEF Services
<1>3. r \in Services /\ r.ao = s.ao /\ r.up = (IF action = "Exit" THEN "exited" ELSE s.up)
      /\ r.target = s.target /\ r.view = s.view /\ r.idle = s.idle
    BY <1>1, <1>2 DEF Services
<1>4. Apply(s, action) = rearm_always_on_timer(r)
    BY DEF Apply
<1> HIDE DEF r
<1> QED
    BY <1>3, <1>4, RearmType

\* set_target_state gives loop and supervisor the same target and a new series.
LEMMA TargetType ==
    ASSUME NEW s \in Services, NEW target \in Targets, NEW relax \in BOOLEAN
    PROVE  /\ Target(s, target, relax) \in Services
           /\ Target(s, target, relax).timer = next_deadline(Target(s, target, relax).ao)
           /\ Target(s, target, relax).view = s.view
           /\ InStep(Target(s, target, relax))
<1> DEFINE r == [s EXCEPT !.target = target, !.relax = relax /\ target = "Secured",
                          !.ao = on_target_state(s.ao, target)]
           h == update_idle_hint(r)
<1>1. s.ao \in AlwaysOnType
    BY DEF Services
<1>2. on_target_state(s.ao, target) \in AlwaysOnType
      /\ on_target_state(s.ao, target).target = target
      /\ on_target_state(s.ao, target).streak = 0
    BY <1>1, OnTargetType
<1>3. (relax /\ target = "Secured") \in BOOLEAN
    OBVIOUS
<1>4. r \in Services /\ r.target = target /\ r.ao = on_target_state(s.ao, target)
      /\ r.view = s.view
    BY <1>2, <1>3 DEF Services, Targets
<1>5. Target(s, target, relax) = rearm_always_on_timer(h)
    BY DEF Target
<1> HIDE DEF r
<1>6. h \in Services /\ h.target = target /\ h.ao = r.ao /\ h.view = s.view
      /\ h.idle = (Down(s.view.name) /\ target = "Unsecured")
    BY <1>4, HintType
<1> HIDE DEF h
<1>7. /\ Target(s, target, relax) \in Services
      /\ Target(s, target, relax).timer = next_deadline(h.ao)
      /\ Target(s, target, relax).ao = h.ao
      /\ Target(s, target, relax).target = target
      /\ Target(s, target, relax).view = s.view
      /\ Target(s, target, relax).idle = (Down(s.view.name) /\ target = "Unsecured")
    BY <1>5, <1>6, RearmType
<1> QED
    BY <1>2, <1>4, <1>6, <1>7, StreakFacts DEF InStep

-----------------------------------------------------------------------------
(***************************************************************************)
(* What is sent and reported has its type.                                 *)
(***************************************************************************)
\* The commands the service builds are commands.
LEMMA CommandTypes ==
    ASSUME NEW ver \in Versions, NEW relax \in BOOLEAN
    PROVE  /\ Connect(relax, ver) \in Commands
           /\ Connect(relax, 0) \in Commands
           /\ Disconnect \in Commands
           /\ SetTunnelSettings(ver) \in Commands
<1>1. 0 \in Versions
    BY BoundsAssumption DEF Versions
<1> QED
    BY <1>1 DEF Connect, Disconnect, SetTunnelSettings, Commands

\* So are the sequences the handlers send.
LEMMA SendTypes ==
    ASSUME NEW s \in Services, NEW action, NEW target, NEW relax \in BOOLEAN
    PROVE  /\ FlushedConnect(s) \in Seq(Commands)
           /\ ApplySends(s, action) \in Seq(Commands)
           /\ TargetSends(target, relax) \in Seq(Commands)
<1>1. s.config \in Versions /\ s.relax \in BOOLEAN
    BY DEF Services
<1>2. Connect(s.relax, s.config) \in Commands /\ SetTunnelSettings(s.config) \in Commands
    BY <1>1, CommandTypes
<1>3. Connect(relax, 0) \in Commands /\ Disconnect \in Commands
    BY <1>1, CommandTypes
<1>4. FlushedConnect(s) \in Seq(Commands)
    BY <1>2 DEF FlushedConnect
<1>5. ApplySends(s, action) \in Seq(Commands)
    BY <1>4 DEF ApplySends
<1>6. TargetSends(target, relax) \in Seq(Commands)
    BY <1>3 DEF TargetSends
<1> QED
    BY <1>4, <1>5, <1>6

\* The states the machine enters are ones it reports.
LEMMA StateTypes ==
    /\ \A name \in Names \ {"Error", "Finished"} : State(name) \in Reported
    /\ State("Finished") \in TunnelStates
    /\ \A reconnect \in BOOLEAN : Offline(reconnect) \in Reported
    /\ \A reason \in Reasons : Error(reason) \in Reported
<1>1. ASSUME NEW name \in Names \ {"Error", "Finished"} PROVE State(name) \in Reported
    BY DEF State, Reported, TunnelStates
<1>2. State("Finished") \in TunnelStates
    BY DEF State, TunnelStates, Names
<1>3. ASSUME NEW reconnect \in BOOLEAN PROVE Offline(reconnect) \in Reported
    BY DEF State, Offline, Reported, TunnelStates, Names
<1>4. ASSUME NEW reason \in Reasons PROVE Error(reason) \in Reported
    BY DEF State, Error, Reported, TunnelStates, Names
<1> QED
    BY <1>1, <1>2, <1>3, <1>4

\* The machine's part of the types after a step.
MachineTyped == tun' \in Machines /\ events' \in Seq(Reported)

\* Moving to a reported state keeps machine and channel typed.
LEMMA NewStateType ==
    ASSUME NEW t \in Machines, NEW state \in Reported, NEW after \in AfterDisconnect,
           events \in Seq(Reported), NewState(t, state, after)
    PROVE  MachineTyped
<1>1. state \in TunnelStates
    BY DEF Reported
<1>2. tun' \in Machines
    BY <1>1 DEF NewState, Machines
<1>3. events' \in Seq(Reported)
    BY DEF NewState
<1> QED
    BY <1>2, <1>3 DEF MachineTyped

\* The entry operators of Connecting, Disconnected and Disconnecting.
LEMMA EnterTypes ==
    ASSUME NEW t \in Machines, NEW after \in AfterDisconnect, events \in Seq(Reported),
           EnterConnecting(t) \/ EnterDisconnected(t) \/ Disconnecting(t, after)
    PROVE  MachineTyped
<1>1. FirewallError \in Reported
    BY StateTypes DEF FirewallError, Reasons
<1>2. State("Connecting") \in Reported /\ State("Disconnected") \in Reported
      /\ State("Disconnecting") \in Reported /\ Offline(TRUE) \in Reported
    BY StateTypes DEF Names
<1>3. "Nothing" \in AfterDisconnect
    BY DEF AfterDisconnect
<1>4. CASE EnterConnecting(t)
    BY <1>1, <1>2, <1>3, <1>4, NewStateType DEF EnterConnecting
<1>5. CASE EnterDisconnected(t)
    BY <1>1, <1>2, <1>3, <1>5, NewStateType DEF EnterDisconnected
<1>6. CASE Disconnecting(t, after)
    BY <1>2, <1>6, NewStateType DEF Disconnecting
<1> QED
    BY <1>4, <1>5, <1>6

\* Connect leaves a typed machine, whatever state takes it.
LEMMA TakeConnectType ==
    ASSUME NEW t \in Machines, NEW relax \in BOOLEAN, events \in Seq(Reported),
           TakeConnect(t, relax)
    PROVE  MachineTyped
<1> DEFINE now == [t EXCEPT !.relax = relax]
<1>1. now \in Machines /\ now.after = t.after
    BY DEF Machines
<1>2. Redirected(t.after, TRUE) \in AfterDisconnect
    BY DEF Redirected, AfterDisconnect
<1>3. [now EXCEPT !.after = Redirected(@, TRUE)] \in Machines
    BY <1>1, <1>2 DEF Machines
<1>4. {"Nothing", "Reconnect"} \subseteq AfterDisconnect
    BY DEF AfterDisconnect
<1>5. Offline(TRUE) \in Reported
    BY StateTypes
<1>6. \/ EnterConnecting(now)
      \/ Disconnecting(now, "Reconnect")
      \/ NewState(now, Offline(TRUE), "Nothing")
      \/ SameState(now)
      \/ SameState([now EXCEPT !.after = Redirected(@, TRUE)])
    BY DEF TakeConnect
<1> HIDE DEF now
<1> QED
    BY <1>1, <1>3, <1>4, <1>5, <1>6, EnterTypes, NewStateType DEF SameState, MachineTyped

\* So does Disconnect.
LEMMA TakeDisconnectType ==
    ASSUME NEW t \in Machines, events \in Seq(Reported), TakeDisconnect(t)
    PROVE  MachineTyped
<1>1. Redirected(t.after, FALSE) \in AfterDisconnect
    BY DEF Redirected, AfterDisconnect
<1>2. [t EXCEPT !.after = Redirected(@, FALSE)] \in Machines
    BY <1>1 DEF Machines
<1>3. "Nothing" \in AfterDisconnect
    BY DEF AfterDisconnect
<1>4. Offline(FALSE) \in Reported
    BY StateTypes
<1>5. \/ SameState(t)
      \/ Disconnecting(t, "Nothing")
      \/ EnterDisconnected(t)
      \/ NewState(t, Offline(FALSE), "Nothing")
      \/ SameState([t EXCEPT !.after = Redirected(@, FALSE)])
    BY DEF TakeDisconnect
<1> QED
    BY <1>2, <1>3, <1>4, <1>5, EnterTypes, NewStateType DEF SameState, MachineTyped

\* So do new settings, refused or not.
LEMMA TakeSettingsType ==
    ASSUME NEW t \in Machines, NEW ver \in Versions, events \in Seq(Reported),
           TakeSettings(t, ver)
    PROVE  MachineTyped
<1> DEFINE now   == [t EXCEPT !.settings = ver, !.dropped = FALSE]
           drops == [t EXCEPT !.dropped = TRUE]
<1>1. now \in Machines /\ drops \in Machines
    BY DEF Machines
<1>2. {"Nothing", "Reconnect"} \subseteq AfterDisconnect
    BY DEF AfterDisconnect
<1>3. FirewallError \in Reported
    BY StateTypes DEF FirewallError, Reasons
<1>4. \/ SameState(t)
      \/ SameState(now)
      \/ NewState(now, FirewallError, "Nothing")
      \/ Disconnecting(now, "Reconnect")
      \/ EnterConnecting(now)
      \/ NewState(drops, FirewallError, "Nothing")
      \/ EnterDisconnected(now)
    BY DEF TakeSettings
<1> HIDE DEF now, drops
<1> QED
    BY <1>1, <1>2, <1>3, <1>4, EnterTypes, NewStateType DEF SameState, MachineTyped

\* Every step of the machine keeps the types and leaves the service alone.
LEMMA TunnelStep ==
    ASSUME Typed, Tunnel
    PROVE  Typed' /\ UNCHANGED svc
<1>0. tun \in Machines /\ events \in Seq(Reported) /\ cmds \in Seq(Commands)
    BY DEF Typed
<1>a. {"Nothing", "Reconnect", "OfflineReconnect"} \cup Reasons \subseteq AfterDisconnect
    BY DEF AfterDisconnect
<1>b. tun.after \in AfterDisconnect
    BY <1>0 DEF Machines
<1>c. /\ State("Connected") \in Reported /\ State("Connecting") \in Reported
      /\ Offline(TRUE) \in Reported /\ Offline(FALSE) \in Reported
      /\ Offline(tun.after = "OfflineReconnect") \in Reported
      /\ \A reason \in Reasons : Error(reason) \in Reported
      /\ FirewallError \in Reported
    BY <1>b, StateTypes DEF FirewallError, Reasons, Names
<1>1. CASE TakeCommand
    <2>1. Head(cmds) \in Commands /\ Tail(cmds) \in Seq(Commands)
        BY <1>0, <1>1 DEF TakeCommand
    <2>2. Head(cmds).relax \in BOOLEAN /\ Head(cmds).ver \in Versions
        BY <2>1 DEF Commands
    <2>3. MachineTyped
        BY <1>0, <1>1, <2>2, TakeConnectType, TakeDisconnectType, TakeSettingsType DEF TakeCommand
    <2> QED
        BY <1>1, <2>1, <2>3 DEF TakeCommand, Typed, MachineTyped
<1>2. CASE SessionMoves
    <2>1. MachineTyped
        BY <1>0, <1>2, <1>a, <1>c, EnterTypes, NewStateType DEF SessionMoves
    <2> QED
        BY <1>2, <2>1 DEF SessionMoves, Typed, MachineTyped
<1>3. CASE DisconnectEnds
    <2>1. MachineTyped
        BY <1>0, <1>3, <1>a, <1>c, EnterTypes, NewStateType DEF DisconnectEnds
    <2> QED
        BY <1>3, <2>1 DEF DisconnectEnds, Typed, MachineTyped
<1>4. CASE RouteLost \/ UpkeepRefused
    <2>1. MachineTyped
        BY <1>0, <1>4, <1>a, <1>c, NewStateType DEF RouteLost, UpkeepRefused
    <2> QED
        BY <1>4, <2>1 DEF RouteLost, UpkeepRefused, Typed, MachineTyped
<1>5. CASE RouteReturns
    <2>1. MachineTyped
        BY <1>0, <1>5, <1>a, EnterTypes DEF RouteReturns
    <2> QED
        BY <1>5, <2>1 DEF RouteReturns, Typed, MachineTyped
<1>6. CASE SessionStops
    <2>1. MachineTyped
        BY <1>0, <1>6, <1>a, EnterTypes DEF SessionStops
    <2> QED
        BY <1>6, <2>1 DEF SessionStops, Typed, MachineTyped
<1>7. CASE MachineFinishes
    <2>1. [tun EXCEPT !.state = State("Finished")] \in Machines
        BY <1>0, StateTypes DEF Machines
    <2> QED
        BY <1>0, <1>7, <2>1 DEF MachineFinishes, SameState, Typed
<1> QED
    BY <1>1, <1>2, <1>3, <1>4, <1>5, <1>6, <1>7 DEF Tunnel

-----------------------------------------------------------------------------
(***************************************************************************)
(* The arms of the service loop.                                           *)
(***************************************************************************)
\* A service in order: typed, its supervisor in step, its timer armed as the
\* deadline says.
Ordered(s) ==
    /\ s \in Services
    /\ s.view \in Reported
    /\ s.timer <=> next_deadline(s.ao)
    /\ InStep(s)

\* ServiceInv is an ordered service and typed channels.
LEMMA InvIsOrdered ==
    ServiceInv <=> /\ Ordered(svc)
                   /\ cmds \in Seq(Commands)
                   /\ events \in Seq(Reported)
                   /\ tun \in Machines
    BY DEF ServiceInv, Typed, SupervisorInSync, Ordered, InStep

\* apply_always_on orders a service that is in step but for its timer.
LEMMA ApplyOrders ==
    ASSUME NEW s \in Services, s.view \in Reported, NEW action \in ActionNames,
           s.ao.target = s.target,
           action # "Exit" => (s.up # "exited" => s.ao.streak < MaxInfrastructureErrors),
           s.idle <=> (Down(s.view.name) /\ s.target = "Unsecured")
    PROVE  Ordered(Apply(s, action))
<1>1. CASE action = "Exit"
    BY <1>1, ApplyType DEF Ordered, InStep
<1>2. CASE action # "Exit"
    BY <1>2, ApplyType DEF Ordered, InStep
<1> QED
    BY <1>1, <1>2

\* Loading a configuration and, with Always On, connecting, gives an ordered
\* service.
LEMMA StartedOrders ==
    ASSUME NEW on \in BOOLEAN, NEW config \in Versions,
           NEW s, NEW c, NEW e, NEW t, Started(on, config, s, c, e, t)
    PROVE  Ordered(s) /\ c \in Seq(Commands) /\ e \in Seq(Reported) /\ t \in Machines
<1> DEFINE raw == [up |-> "running", target |-> "Unsecured", relax |-> FALSE,
                   view |-> State("Disconnected"), config |-> config, throttle |-> FALSE,
                   alwaysOn |-> on, diskAlwaysOn |-> on, diskConfig |-> config,
                   timer |-> FALSE, idle |-> FALSE, ao |-> NewAlwaysOn(on)]
<1>1. NewAlwaysOn(on) \in AlwaysOnType /\ NewAlwaysOn(on).target = "Unsecured"
      /\ NewAlwaysOn(on).streak = 0 /\ ~next_deadline(NewAlwaysOn(on))
    BY StreakFacts DEF NewAlwaysOn, AlwaysOnType, Names, next_deadline, supervising
<1>2. State("Disconnected") \in Reported
    BY StateTypes DEF Names
<1>3. State("Disconnected") \in TunnelStates
    BY <1>2 DEF Reported
<1>4. raw \in Services
    BY <1>1, <1>3 DEF Services
<1>5. raw.target = "Unsecured" /\ raw.view = State("Disconnected") /\ raw.ao = NewAlwaysOn(on)
      /\ raw.timer = FALSE
    OBVIOUS
<1>6. Loaded(on, config) = update_idle_hint(raw)
    BY DEF Loaded
<1>7. Loaded(on, config).timer = FALSE
    BY <1>6 DEF update_idle_hint
<1> HIDE DEF raw
<1>8. Ordered(Loaded(on, config))
    <2>1. Loaded(on, config) \in Services
          /\ Loaded(on, config).idle = (Down(Loaded(on, config).view.name)
                                          /\ Loaded(on, config).target = "Unsecured")
          /\ Loaded(on, config).ao = NewAlwaysOn(on)
          /\ Loaded(on, config).target = "Unsecured"
          /\ Loaded(on, config).view = State("Disconnected")
        BY <1>4, <1>5, <1>6, HintType
    <2> QED
        BY <1>1, <1>2, <1>7, <2>1, StreakFacts DEF Ordered, InStep
<1>9. Ordered(Target(Loaded(on, config), "Secured", FALSE))
    BY <1>8, TargetType DEF Ordered, Targets
<1>10. Ordered(s)
    BY <1>8, <1>9 DEF Started
<1>e. <<>> \in Seq(Commands) /\ <<>> \in Seq(Reported)
    OBVIOUS
<1>11. c \in Seq(Commands)
    BY <1>4, <1>e, SendTypes DEF Started
<1>12. FirstStates \subseteq TunnelStates
    <2>1. 0 \in Versions
        BY BoundsAssumption DEF Versions
    <2>2. Offline(FALSE) \in Reported /\ Error("SetFirewallPolicy") \in Reported
        BY <2>1, StateTypes DEF Reasons
    <2> QED
        BY <1>3, <2>2 DEF FirstStates, Reported
<1>13. t \in Machines
    BY <1>12 DEF Started, Machine, Machines, AfterDisconnect
<1> QED
    BY <1>e, <1>10, <1>11, <1>13 DEF Started

\* The first state of the daemon is in order.
LEMMA InitInv == Init => ServiceInv
<1>1. 0 \in Versions
    BY BoundsAssumption DEF Versions
<1> QED
    BY <1>1, StartedOrders, InvIsOrdered DEF Init

\* procd's restart is the first state again, with the saved setting.
LEMMA RespawnStep == ServiceInv /\ Respawn => ServiceInv'
<1> SUFFICES ASSUME ServiceInv, Respawn PROVE ServiceInv'
    OBVIOUS
<1>1. svc.diskAlwaysOn \in BOOLEAN /\ svc.diskConfig \in Versions
    BY DEF ServiceInv, Typed, Services
<1>2. Ordered(svc') /\ cmds' \in Seq(Commands) /\ events' \in Seq(Reported) /\ tun' \in Machines
    BY <1>1, StartedOrders DEF Respawn
<1> QED
    BY <1>2 DEF ServiceInv, Typed, SupervisorInSync, Ordered, InStep

\* Changing nothing but the throttle, or leaving a running or draining loop,
\* keeps the order.
LEMMA MinorOrders ==
    ASSUME NEW s, Ordered(s), NEW throttle \in BOOLEAN, NEW up \in {"draining", "stopped"}
    PROVE  /\ Ordered([s EXCEPT !.throttle = throttle])
           /\ s.up # "exited" => Ordered([s EXCEPT !.up = up])
<1>1. s \in Services
    BY DEF Ordered
<1>2. [s EXCEPT !.throttle = throttle] \in Services /\ [s EXCEPT !.up = up] \in Services
    BY <1>1 DEF Services
<1>3. Ordered([s EXCEPT !.throttle = throttle])
    BY <1>1, <1>2 DEF Ordered, InStep, Services
<1>4. s.up # "exited" => Ordered([s EXCEPT !.up = up])
    BY <1>1, <1>2 DEF Ordered, InStep, Services
<1> QED
    BY <1>3, <1>4

\* A changed supervisor that kept its target and no longer a streak is applied
\* to give an ordered service.
LEMMA SuperviseOrders ==
    ASSUME NEW s, Ordered(s), NEW ao \in AlwaysOnType, ao.target = s.ao.target,
           NEW action \in ActionNames,
           action # "Exit" => (s.up # "exited" => ao.streak < MaxInfrastructureErrors)
    PROVE  Ordered(Apply([s EXCEPT !.ao = ao], action))
<1> DEFINE r == [s EXCEPT !.ao = ao]
<1>1. s \in Services
    BY DEF Ordered
<1>2. r \in Services /\ r.ao = ao /\ r.target = s.target /\ r.view = s.view /\ r.idle = s.idle
      /\ r.up = s.up
    BY <1>1 DEF Services
<1> HIDE DEF r
<1>3. Ordered(Apply(r, action))
    BY <1>2, ApplyOrders DEF Ordered, InStep
<1> QED
    BY <1>3 DEF r

\* handle_tunnel_event: the view, the hint and the supervisor move together.
LEMMA EventOrders ==
    ASSUME NEW s, Ordered(s), s.up # "exited", NEW state \in Reported
    PROVE  Ordered(Apply(update_idle_hint([s EXCEPT !.view = state,
                                                    !.ao = on_tunnel_state(s.ao, state)]),
                         StateAction(s.ao, state)))
<1> DEFINE ao == on_tunnel_state(s.ao, state)
           r  == [s EXCEPT !.view = state, !.ao = ao]
           h  == update_idle_hint(r)
<1>1. s \in Services /\ s.ao \in AlwaysOnType /\ state \in TunnelStates
      /\ s.ao.streak < MaxInfrastructureErrors /\ s.ao.target = s.target
    BY DEF Ordered, InStep, Services, Reported
<1>2. ao \in AlwaysOnType /\ ao.target = s.target
      /\ (StateAction(s.ao, state) # "Exit" => ao.streak < MaxInfrastructureErrors)
    BY <1>1, OnStateType
<1>3. StateAction(s.ao, state) \in ActionNames
    BY ActionTypes
<1> HIDE DEF ao
<1>4. r \in Services /\ r.ao = ao /\ r.target = s.target /\ r.view = state
    BY <1>1, <1>2 DEF Services
<1> HIDE DEF r
<1>5. h \in Services /\ h.ao = ao /\ h.target = s.target /\ h.view = state
      /\ h.idle = (Down(state.name) /\ s.target = "Unsecured")
    BY <1>4, HintType
<1> HIDE DEF h
<1>6. Ordered(Apply(h, StateAction(s.ao, state)))
    BY <1>2, <1>3, <1>5, ApplyOrders
<1> QED
    BY <1>6 DEF h, r, ao

\* Saving touches what is on disk only.
LEMMA SaveOrders ==
    ASSUME NEW s, Ordered(s), NEW changed, NEW saved
    PROVE  /\ Ordered(save_config(s, changed, saved))
           /\ save_config(s, changed, saved).ao = s.ao
           /\ save_config(s, changed, saved).target = s.target
           /\ save_config(s, changed, saved).view = s.view
           /\ save_config(s, changed, saved).up = s.up
           /\ save_config(s, changed, saved).idle = s.idle
           /\ save_config(s, changed, saved).timer = s.timer
<1> DEFINE r == [s EXCEPT !.diskConfig = s.config, !.diskAlwaysOn = s.alwaysOn]
<1>1. s \in Services
    BY DEF Ordered
<1>2. r \in Services /\ r.ao = s.ao /\ r.target = s.target /\ r.view = s.view /\ r.up = s.up
      /\ r.idle = s.idle /\ r.timer = s.timer
    BY <1>1 DEF Services
<1>3. save_config(s, changed, saved) = r \/ save_config(s, changed, saved) = s
    BY DEF save_config
<1> HIDE DEF r
<1>4. Ordered(r)
    BY <1>2 DEF Ordered, InStep
<1> QED
    BY <1>2, <1>3, <1>4

\* A new value of a setting is stored in order.
LEMMA StoredOrders ==
    ASSUME Ordered(svc), NEW config \in Versions, NEW saved
    PROVE  Ordered(Stored(config, saved))
<1> DEFINE r == [svc EXCEPT !.config = config]
<1>1. svc \in Services
    BY DEF Ordered
<1>2. r \in Services /\ r.ao = svc.ao /\ r.target = svc.target /\ r.view = svc.view
      /\ r.up = svc.up /\ r.idle = svc.idle /\ r.timer = svc.timer
    BY <1>1 DEF Services
<1>3. Stored(config, saved) = save_config(r, config # svc.config, saved)
    BY DEF Stored
<1> HIDE DEF r
<1>4. Ordered(r)
    BY <1>2 DEF Ordered, InStep
<1> QED
    BY <1>3, <1>4, SaveOrders

\* The throttled update leaves an ordered service and sends commands.
LEMMA UpdateOrders ==
    ASSUME cmds \in Seq(Commands), NEW s, Ordered(s), update_tunnel_settings_with_throttle(s)
    PROVE  Ordered(svc') /\ cmds' \in Seq(Commands)
<1> DEFINE ao     == on_config_or_account_changed(s.ao)
           mid    == [s EXCEPT !.throttle = @ \/ s.target = "Secured"]
           after  == [mid EXCEPT !.ao = ao]
           action == ChangeAction(s.ao)
           sent   == IF s.target = "Unsecured" THEN <<SetTunnelSettings(s.config)>> ELSE <<>>
<1>1. s \in Services /\ s.ao \in AlwaysOnType /\ s.config \in Versions
    BY DEF Ordered, Services
<1>2. (s.throttle \/ s.target = "Secured") \in BOOLEAN
    OBVIOUS
<1>3. mid \in Services /\ mid.ao = s.ao /\ mid.target = s.target /\ mid.view = s.view
      /\ mid.idle = s.idle /\ mid.timer = s.timer /\ mid.up = s.up
    BY <1>1, <1>2 DEF Services
<1>4. after = [s EXCEPT !.throttle = @ \/ s.target = "Secured",
                        !.ao = on_config_or_account_changed(@)]
    BY <1>1 DEF Services
<1>5. svc' = Apply(after, action) /\ cmds' = cmds \o (sent \o ApplySends(after, action))
    BY <1>4 DEF update_tunnel_settings_with_throttle, Sends
<1>6. SetTunnelSettings(s.config) \in Commands
    BY <1>1, CommandTypes
<1>7. sent \in Seq(Commands)
    BY <1>6
<1> HIDE DEF mid, sent
<1>8. Ordered(mid)
    BY <1>3 DEF Ordered, InStep
<1>9. ao \in AlwaysOnType /\ ao.target = s.ao.target /\ ao.streak \in {0, s.ao.streak}
      /\ action \in ActionNames \ {"Exit"}
    BY <1>1, ChangedType, ActionTypes
<1> HIDE DEF ao, action
<1>10. s.up # "exited" => ao.streak < MaxInfrastructureErrors
    BY <1>9, StreakFacts DEF Ordered, InStep
<1>11. Ordered(svc')
    BY <1>3, <1>5, <1>8, <1>9, <1>10, SuperviseOrders
<1>12. after \in Services
    BY <1>3, <1>9 DEF Services
<1> HIDE DEF after
<1>13. ApplySends(after, action) \in Seq(Commands)
    BY <1>12, SendTypes
<1>14. cmds' \in Seq(Commands)
    BY <1>5, <1>7, <1>13
<1> QED
    BY <1>11, <1>14

\* handle_set_*: the configuration, saved or not, then the supervisor.
LEMMA ConfigStep ==
    ASSUME ServiceInv, NEW config \in Versions, NEW saved,
           SetConfig(config, saved) \/ handle_set_mixnet_traffic_config(config, saved)
    PROVE  Ordered(svc') /\ cmds' \in Seq(Commands)
<1>1. Ordered(svc) /\ cmds \in Seq(Commands)
    BY InvIsOrdered
<1>2. Ordered(Stored(config, saved))
    BY <1>1, StoredOrders
<1>3. CASE update_tunnel_settings_with_throttle(Stored(config, saved))
    BY <1>1, <1>2, <1>3, UpdateOrders
<1>4. CASE svc' = Stored(config, saved) /\ Sends(<<>>)
    BY <1>1, <1>2, <1>4 DEF Sends
<1> QED
    BY <1>3, <1>4 DEF SetConfig, handle_set_mixnet_traffic_config

\* handle_set_always_on: saved or not, adopting a running session or not.
LEMMA AlwaysOnStep ==
    ASSUME ServiceInv, NEW on \in BOOLEAN, NEW saved \in BOOLEAN, Serving,
           handle_set_always_on(on, saved)
    PROVE  Ordered(svc') /\ cmds' \in Seq(Commands)
<1> DEFINE was    == svc.alwaysOn
           set    == [svc EXCEPT !.alwaysOn = on]
           stored == save_config(set, on # was, saved)
           ao     == set_enabled(svc.ao, on)
           s      == [stored EXCEPT !.ao = ao]
           action == StateAction(s.ao, s.view)
<1>1. Ordered(svc) /\ cmds \in Seq(Commands) /\ svc.up # "exited"
    BY InvIsOrdered DEF Serving
<1>2. svc \in Services /\ svc.ao \in AlwaysOnType /\ svc.view \in Reported
    BY <1>1 DEF Ordered, Services
<1>3. set \in Services /\ set.ao = svc.ao /\ set.target = svc.target /\ set.view = svc.view
      /\ set.idle = svc.idle /\ set.timer = svc.timer /\ set.up = svc.up
    BY <1>2 DEF Services
<1>5. \/ svc' = stored /\ Sends(<<>>)
      \/ svc' = Target(s, "Secured", FALSE) /\ Sends(TargetSends("Secured", FALSE))
      \/ /\ svc' = Apply([s EXCEPT !.ao = on_tunnel_state(s.ao, s.view)], action)
         /\ Sends(ApplySends(s, action))
      \/ svc' = rearm_always_on_timer(s) /\ Sends(<<>>)
    BY DEF handle_set_always_on
<1> HIDE DEF was, set
<1>o. Ordered(set)
    BY <1>1, <1>3 DEF Ordered, InStep
<1>4. stored \in Services /\ stored.ao = svc.ao /\ stored.target = svc.target
      /\ stored.view = svc.view /\ stored.idle = svc.idle /\ stored.timer = svc.timer
      /\ stored.up = svc.up
    BY <1>3, <1>o, SaveOrders DEF Ordered
<1> HIDE DEF stored
<1>6. ao \in AlwaysOnType /\ ao.target = svc.ao.target /\ ao.streak \in {0, svc.ao.streak}
    BY <1>2, SetEnabledType
<1> HIDE DEF ao
<1>7. s \in Services /\ s.ao = ao /\ s.target = svc.target /\ s.view = svc.view
      /\ s.idle = svc.idle /\ s.up = svc.up
    BY <1>4, <1>6 DEF Services
<1> HIDE DEF s
<1>8. ao.streak < MaxInfrastructureErrors /\ ao.target = svc.target
    BY <1>1, <1>6, StreakFacts DEF Ordered, InStep
<1>9. CASE svc' = stored /\ Sends(<<>>)
    BY <1>1, <1>4, <1>9 DEF Ordered, InStep, Sends
<1>10. CASE svc' = Target(s, "Secured", FALSE) /\ Sends(TargetSends("Secured", FALSE))
    <2> DEFINE sent == TargetSends("Secured", FALSE)
    <2>1. sent \in Seq(Commands)
        BY <1>7, SendTypes
    <2>2. Ordered(svc')
        BY <1>2, <1>7, <1>10, TargetType DEF Ordered, Targets
    <2>3. cmds' = cmds \o sent
        BY <1>10 DEF Sends
    <2> HIDE DEF sent
    <2>4. cmds' \in Seq(Commands)
        BY <1>1, <2>1, <2>3
    <2> QED
        BY <2>2, <2>4
<1>11. CASE /\ svc' = Apply([s EXCEPT !.ao = on_tunnel_state(s.ao, s.view)], action)
            /\ Sends(ApplySends(s, action))
    <2> DEFINE next == on_tunnel_state(s.ao, s.view)
               r    == [s EXCEPT !.ao = next]
    <2>1. next \in AlwaysOnType /\ next.target = svc.target /\ action \in ActionNames
          /\ (action # "Exit" => next.streak < MaxInfrastructureErrors)
        <3>1. s.ao \in AlwaysOnType /\ s.ao.streak < MaxInfrastructureErrors /\ s.view \in Reported
              /\ s.ao.target = svc.target
            BY <1>2, <1>6, <1>7, <1>8
        <3>2. action \in ActionNames
            BY ActionTypes
        <3> QED
            BY <3>1, <3>2, OnStateType
    <2> HIDE DEF next, action
    <2>2. r \in Services /\ r.ao = next /\ r.target = svc.target /\ r.view = svc.view
          /\ r.idle = svc.idle
        BY <1>7, <2>1 DEF Services
    <2>3. svc' = Apply(r, action)
        BY <1>11 DEF next, action
    <2> HIDE DEF r
    <2>4. Ordered(svc')
        BY <1>1, <1>2, <2>1, <2>2, <2>3, ApplyOrders DEF Ordered, InStep
    <2>5. ApplySends(s, action) \in Seq(Commands)
        BY <1>7, SendTypes
    <2> QED
        BY <1>1, <1>11, <2>4, <2>5 DEF Sends
<1>12. CASE svc' = rearm_always_on_timer(s) /\ Sends(<<>>)
    BY <1>1, <1>2, <1>7, <1>8, <1>12, RearmType DEF Ordered, InStep, Sends
<1> QED
    BY <1>5, <1>9, <1>10, <1>11, <1>12

\* Every other arm of the loop, and the clients' requests.
LEMMA ServiceStep ==
    ASSUME ServiceInv, Client \/ Loop
    PROVE  ServiceInv'
<1>0. Ordered(svc) /\ svc \in Services /\ svc.ao \in AlwaysOnType /\ svc.view \in Reported
      /\ cmds \in Seq(Commands) /\ events \in Seq(Reported) /\ tun \in Machines
    BY InvIsOrdered DEF Ordered, Services
<1> DEFINE Rest == cmds' \in Seq(Commands) /\ events' \in Seq(Reported) /\ tun' \in Machines
<1>a. Ordered(svc') /\ Rest => ServiceInv'
    BY DEF ServiceInv, Typed, SupervisorInSync, Ordered, InStep
<1>b. svc.config \in Versions
    BY <1>0 DEF Services
<1>1. ASSUME NEW target \in Targets, NEW relax \in BOOLEAN, set_target_state(target, relax)
      PROVE  Ordered(svc') /\ Rest
    <2>1. TargetSends(target, relax) \in Seq(Commands)
        BY <1>0, SendTypes
    <2>2. Ordered(svc')
        BY <1>0, <1>1, TargetType DEF set_target_state, Ordered
    <2> QED
        BY <1>0, <1>1, <2>1, <2>2 DEF set_target_state, Sends
<1>2. CASE reconnect_tunnel
    <2>1. FlushedConnect(svc) \in Seq(Commands)
        BY <1>0, SendTypes
    <2>2. Ordered(svc')
        BY <1>0, <1>2, MinorOrders DEF reconnect_tunnel
    <2>3. Rest
        BY <1>0, <1>2, <2>1 DEF reconnect_tunnel, Sends
    <2> QED
        BY <1>a, <2>2, <2>3
<1>3. ASSUME NEW config \in Versions, NEW saved \in Saves,
             SetConfig(config, saved) \/ handle_set_mixnet_traffic_config(config, saved)
      PROVE  Ordered(svc') /\ Rest
    <2>1. Ordered(svc') /\ cmds' \in Seq(Commands)
        BY <1>3, ConfigStep
    <2> QED
        BY <1>0, <1>3, <2>1 DEF SetConfig, handle_set_mixnet_traffic_config
<1>4. ASSUME NEW on \in BOOLEAN, NEW saved \in Saves, handle_set_always_on(on, saved)
      PROVE  Ordered(svc') /\ Rest
    <2>1. saved \in BOOLEAN
        BY BoundsAssumption
    <2>2. Serving
        BY <1>4 DEF handle_set_always_on, ClientTurn
    <2>3. Ordered(svc') /\ cmds' \in Seq(Commands)
        BY <1>4, <2>1, <2>2, AlwaysOnStep
    <2> QED
        BY <1>0, <1>4, <2>3 DEF handle_set_always_on
<1>5. CASE handle_account_ready
    <2> DEFINE ao     == on_config_or_account_changed(svc.ao)
               s      == [svc EXCEPT !.ao = ao]
               action == ChangeAction(svc.ao)
    <2>1. svc' = Apply(s, action) /\ cmds' = cmds \o ApplySends(s, action)
        BY <1>5 DEF handle_account_ready, Sends
    <2>2. ao \in AlwaysOnType /\ ao.target = svc.ao.target /\ ao.streak \in {0, svc.ao.streak}
          /\ action \in ActionNames \ {"Exit"}
        BY <1>0, ChangedType, ActionTypes
    <2> HIDE DEF ao, action
    <2>3. svc.up # "exited" => ao.streak < MaxInfrastructureErrors
        BY <1>0, <2>2, StreakFacts DEF Ordered, InStep
    <2>4. Ordered(svc')
        BY <1>0, <2>1, <2>2, <2>3, SuperviseOrders
    <2>5. s \in Services
        BY <1>0, <2>2 DEF Services
    <2>6. ApplySends(s, action) \in Seq(Commands)
        BY <2>5, SendTypes
    <2> HIDE DEF s
    <2>7. Rest
        BY <1>0, <1>5, <2>1, <2>6 DEF handle_account_ready
    <2> QED
        BY <1>a, <2>4, <2>7
<1>6. CASE Shutdown
    <2>1. Ordered(svc')
        BY <1>0, <1>6, MinorOrders DEF Shutdown, Serving
    <2>2. Rest
        BY <1>0, <1>6 DEF Shutdown
    <2> QED
        BY <1>a, <2>1, <2>2
<1>7. CASE ThrottleFires
    <2>1. SetTunnelSettings(svc.config) \in Commands
        BY <1>b, CommandTypes
    <2>2. Ordered(svc')
        BY <1>0, <1>7, MinorOrders DEF ThrottleFires
    <2>3. Rest
        BY <1>0, <1>7, <2>1 DEF ThrottleFires, Sends
    <2> QED
        BY <1>a, <2>2, <2>3
<1>8. CASE AlwaysOnFires
    <2> DEFINE ao     == poll(svc.ao)
               s      == [svc EXCEPT !.ao = ao]
               action == PollAction(svc.ao)
    <2>1. svc' = Apply(s, action) /\ cmds' = cmds \o ApplySends(s, action)
        BY <1>8 DEF AlwaysOnFires, Sends
    <2>2. ao \in AlwaysOnType /\ ao.target = svc.ao.target /\ ao.streak = svc.ao.streak
          /\ action \in ActionNames \ {"Exit"}
        BY <1>0, PollType, ActionTypes
    <2> HIDE DEF ao, action
    <2>3. svc.up # "exited" => ao.streak < MaxInfrastructureErrors
        BY <1>0, <2>2 DEF Ordered, InStep
    <2>4. Ordered(svc')
        BY <1>0, <2>1, <2>2, <2>3, SuperviseOrders
    <2>5. s \in Services
        BY <1>0, <2>2 DEF Services
    <2>6. ApplySends(s, action) \in Seq(Commands)
        BY <2>5, SendTypes
    <2> HIDE DEF s
    <2>7. Rest
        BY <1>0, <1>8, <2>1, <2>6 DEF AlwaysOnFires
    <2> QED
        BY <1>a, <2>4, <2>7
<1>9. CASE handle_tunnel_event
    <2> DEFINE state  == Head(events)
               ao     == on_tunnel_state(svc.ao, state)
               r      == [svc EXCEPT !.view = state, !.ao = ao]
               s      == update_idle_hint(r)
               action == StateAction(svc.ao, state)
    <2>1. state \in Reported /\ Tail(events) \in Seq(Reported)
        BY <1>0, <1>9 DEF handle_tunnel_event
    <2>2. svc.up # "exited"
        BY <1>9 DEF handle_tunnel_event
    <2>3. svc' = Apply(s, action) /\ cmds' = cmds \o ApplySends(s, action)
        BY <1>9 DEF handle_tunnel_event, Sends
    <2>4. state \in TunnelStates /\ svc.ao.streak < MaxInfrastructureErrors
        BY <1>0, <2>1, <2>2 DEF Reported, Ordered, InStep
    <2> HIDE DEF state
    <2>5. Ordered(svc')
        BY <1>0, <2>1, <2>2, <2>3, EventOrders
    <2>6. ao \in AlwaysOnType
        BY <1>0, <2>1, <2>4, OnStateType
    <2> HIDE DEF ao
    <2>7. r \in Services
        BY <1>0, <2>4, <2>6 DEF Services
    <2> HIDE DEF r
    <2>8. ApplySends(s, action) \in Seq(Commands)
        BY <2>7, HintType, SendTypes
    <2> HIDE DEF s, action
    <2>9. Tail(events) = events' /\ tun' = tun
        BY <1>9 DEF handle_tunnel_event
    <2>10. cmds' \in Seq(Commands)
        BY <1>0, <2>3, <2>8, ConcatType
    <2>11. Rest
        BY <1>0, <2>1, <2>9, <2>10
    <2> QED
        BY <1>a, <2>5, <2>11
<1>10. CASE Joined
    <2>1. Ordered(svc')
        BY <1>0, <1>10, MinorOrders DEF Joined
    <2>2. Rest
        BY <1>0, <1>10 DEF Joined
    <2> QED
        BY <1>a, <2>1, <2>2
<1> QED
    BY <1>a, <1>1, <1>2, <1>3, <1>4, <1>5, <1>6, <1>7, <1>8, <1>9, <1>10, RespawnStep
       DEF Client, Loop, Targets

-----------------------------------------------------------------------------
\* The inductive invariant holds throughout.
LEMMA ServiceInvariant == Spec => []ServiceInv
<1>1. ServiceInv /\ [Next]_vars => ServiceInv'
    <2> SUFFICES ASSUME ServiceInv, [Next]_vars PROVE ServiceInv'
        OBVIOUS
    <2>1. CASE Client \/ Loop
        BY <2>1, ServiceStep
    <2>2. CASE Tunnel
        BY <2>2, TunnelStep DEF ServiceInv, SupervisorInSync
    <2>3. CASE UNCHANGED vars
        BY <2>3 DEF vars, ServiceInv, Typed, SupervisorInSync
    <2> QED
        BY <2>1, <2>2, <2>3 DEF Next, Stopped
<1> QED
    BY <1>1, InitInv, PTL DEF Spec

\* Whatever clients, timers and the machine do, and in whatever order their
\* messages arrive, the supervisor has the loop's target, its timer is armed
\* exactly when it has a deadline, its streak stays below the limit while the
\* process lives, and the idle hint is current (set_target_state,
\* apply_always_on, rearm_always_on_timer and update_idle_hint).
THEOREM InSync == Spec => []SupervisorInSync
<1>1. ServiceInv => SupervisorInSync
    BY DEF ServiceInv
<1> QED
    BY <1>1, ServiceInvariant, PTL

\* Types hold for every bound: no streak passes MAX_INFRASTRUCTURE_ERRORS.
THEOREM ServiceTypeCorrect == Spec => []TypeOK
<1>1. ServiceInv => TypeOK
    <2> SUFFICES ASSUME ServiceInv PROVE TypeOK
        OBVIOUS
    <2>1. Reported \subseteq TunnelStates
        BY DEF Reported
    <2>2. events \in Seq(TunnelStates)
        BY <2>1 DEF ServiceInv, Typed
    <2> QED
        BY <2>2 DEF ServiceInv, Typed, TypeOK, Services, Machines
<1> QED
    BY <1>1, ServiceInvariant, PTL

=============================================================================
