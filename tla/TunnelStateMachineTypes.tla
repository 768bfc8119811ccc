----------------------- MODULE TunnelStateMachineTypes ----------------------
(***************************************************************************)
(* Type correctness of TunnelStateMachine, for every set of gateways,      *)
(* selection inputs and settings: TypeOK holds in every reachable state,   *)
(* along the inductive invariant TypeInv.  One lemma per Enter operator,   *)
(* then one per state handler with a step for each of its actions.         *)
(***************************************************************************)
EXTENDS TunnelStateMachine, TLAPS

Firewalls == [live : Policies, killswitch : BOOLEAN, known : BOOLEAN]

DnsModes == {"wan", "idle", "tunnel", "stuck"}

MaybePairs == Pairs \cup {NoPair}

Params == [entry : Gateways \cup {NoGateway}, tun : BOOLEAN]

Reasons == {"none", "SetFirewallPolicy", "Other"}

\* What every Enter operator fixes, in the next state.
EntryTyped ==
    /\ sm' \in MachineStates /\ firewall' \in Firewalls
    /\ pins' \in BOOLEAN /\ dns' \in DnsModes /\ networking' \in BOOLEAN

\* TypeOK is not inductive: the monitor builds a pair from its selection inputs, and the
\* machine admits the entry gateway of the pair an event carries.
TasksTyped ==
    /\ mon \in Monitors /\ queue \in Seq(Events) /\ detached \in BOOLEAN
    /\ mon.phase # "none" => mon.sel \in EntryPoints
    /\ \A i \in 1..Len(queue) : queue[i].type = "SelectedGateways" => queue[i].pair \in Pairs

NetTyped == net \in [offline : BOOLEAN, event : BOOLEAN, known : BOOLEAN, changed : BOOLEAN]

\* What the Enter operators leave to their callers.
CallerTyped ==
    /\ settings \in AllSettings /\ routes \in BOOLEAN /\ api \in {"cached", "live", "stale"}
    /\ NetTyped /\ shutdown \in BOOLEAN

TypeInv == TypeOK /\ TasksTyped

-----------------------------------------------------------------------------
(***************************************************************************)
(* What the operators return.                                              *)
(***************************************************************************)

\* The policies the states build are policies.
LEMMA PolicyTypes ==
    ASSUME NEW s \in AllSettings
    PROVE  IdlePolicy(s) \in Policies /\ OfflinePolicy(s) \in Policies
BY DEF AllSettings, Policies, Policy, IdlePolicy, OfflinePolicy

\* The three policies that take no argument are policies.
LEMMA FixedPolicyTypes == Open \in Policies /\ BootBlock \in Policies /\ Emergency \in Policies
BY DEF Policies, Policy, Open, BootBlock, Emergency

\* What Connecting asks of the firewall is a policy, whatever is admitted.
LEMMA ConnectingPolicyType ==
    ASSUME NEW s \in AllSettings, NEW params \in Params
    PROVE  ConnectingPolicy(params, s) \in Policies
BY DEF AllSettings, Policies, Policy, ConnectingPolicy, Params

\* The entry gateway of a selection is a gateway, or none when there is none.
LEMMA EntryOfType ==
    ASSUME NEW pair \in MaybePairs
    PROVE  EntryOf(pair) \in Gateways \cup {NoGateway}
BY DEF EntryOf, MaybePairs, Pairs

\* What Connected asks of the firewall is a policy.
LEMMA ConnectedPolicyType ==
    ASSUME NEW s \in AllSettings, NEW pair \in MaybePairs
    PROVE  ConnectedPolicy(pair, s) \in Policies
BY EntryOfType DEF AllSettings, Policies, Policy, ConnectedPolicy

\* A firewall call, granted or refused, leaves a firewall.
LEMMA FirewallTypes ==
    ASSUME NEW f \in Firewalls, NEW s \in AllSettings, NEW policy \in Policies
    PROVE  Applied(s, policy) \in Firewalls /\ Refused(f, s, policy) \subseteq Firewalls
<1>1. Open \in Policies /\ Emergency \in Policies
    BY FixedPolicyTypes
<1>2. s.killswitch \in BOOLEAN
    BY DEF AllSettings
<1>3. Applied(s, policy) \in Firewalls
    BY <1>1, <1>2 DEF Applied, Firewalls
<1>4. ASSUME NEW l \in {f.live} \cup IF s.killswitch THEN {policy, Emergency} ELSE {Open}
      PROVE  [live |-> l, killswitch |-> s.killswitch, known |-> FALSE] \in Firewalls
    <2>1. l \in Policies
        BY <1>1 DEF Firewalls
    <2> QED
        BY <2>1, <1>2 DEF Firewalls
<1> QED
    BY <1>3, <1>4 DEF Refused

\* A call to dnsmasq leaves it in one of its modes.
LEMMA DnsTypes ==
    ASSUME NEW d \in DnsModes, NEW target \in DnsModes
    PROVE  DnsReset(d, target) \subseteq DnsModes
BY DEF DnsReset, DnsModes

\* A state handler starts with its fields blank.
LEMMA BlankType == Blank \in MachineStates /\ NoMonitor \in Monitors
BY DEF Blank, NoParams, MachineStates, States, NoMonitor, Monitors, MonitorPhases

\* The upkeep of the idle states and their pins have their types.
LEMMA IdleTypes ==
    ASSUME NEW s \in AllSettings, NEW a
    PROVE  /\ Schedule(s, a) \in {"off", "resolving", "wait", "retry"}
           /\ IdlePins(s, a) \in BOOLEAN
<1>1. Schedule(s, a) \in {"off", "resolving", "wait", "retry"}
    BY DEF Schedule
<1>2. IdlePins(s, a) \in BOOLEAN
    BY DEF IdlePins
<1> QED
    BY <1>1, <1>2

\* Entering a state fixes its part of the machine at values of their types.
LEMMA EnterErrorType ==
    ASSUME NEW f \in Firewalls, NEW s \in AllSettings, NEW p \in BOOLEAN, NEW d \in DnsModes,
           NEW a, NEW reason \in Reasons, EnterError(f, s, p, d, a, reason)
    PROVE  EntryTyped
<1>1. sm' \in MachineStates
    BY BlankType, IdleTypes DEF EnterError, MachineStates, States, Reasons
<1>2. firewall' \in Firewalls
    BY PolicyTypes, FirewallTypes DEF EnterError
<1>3. pins' \in BOOLEAN
    BY IdleTypes DEF EnterError
<1> QED
    BY <1>1, <1>2, <1>3 DEF EnterError, EntryTyped

\* DisconnectedState::enter leaves well-typed state, refused or not.
LEMMA EnterDisconnectedType ==
    ASSUME NEW f \in Firewalls, NEW s \in AllSettings, NEW p \in BOOLEAN, NEW d \in DnsModes,
           NEW a, EnterDisconnected(f, s, p, d, a)
    PROVE  EntryTyped
<1>1. CASE \E f1 \in Refused(f, s, IdlePolicy(s)) : EnterError(f1, s, p, d, a, "SetFirewallPolicy")
    BY <1>1, PolicyTypes, FirewallTypes, EnterErrorType DEF Reasons
<1>2. CASE /\ sm' = [Blank EXCEPT !.state = "Disconnected", !.idle = Schedule(s, a)]
           /\ firewall' = Applied(s, IdlePolicy(s))
           /\ pins' = IdlePins(s, a)
           /\ networking' = TRUE
           /\ dns' \in DnsReset(d, "idle")
    <2>1. sm' \in MachineStates
        BY <1>2, BlankType, IdleTypes DEF MachineStates, States
    <2>2. firewall' \in Firewalls
        BY <1>2, PolicyTypes, FirewallTypes
    <2>3. pins' \in BOOLEAN
        BY <1>2, IdleTypes
    <2>4. dns' \in DnsModes
        BY <1>2, DnsTypes DEF DnsModes
    <2> QED
        BY <1>2, <2>1, <2>2, <2>3, <2>4 DEF EntryTyped
<1> QED
    BY <1>1, <1>2 DEF EnterDisconnected

\* OfflineState::enter leaves well-typed state.
LEMMA EnterOfflineType ==
    ASSUME NEW f \in Firewalls, NEW s \in AllSettings, NEW p \in BOOLEAN, NEW d \in DnsModes,
           NEW reconnect \in BOOLEAN, NEW pair \in MaybePairs,
           EnterOffline(f, s, p, d, reconnect, pair)
    PROVE  EntryTyped
<1>1. sm' \in MachineStates
    BY BlankType DEF EnterOffline, MachineStates, States, MaybePairs
<1>2. firewall' \in Firewalls
    BY PolicyTypes, FirewallTypes DEF EnterOffline
<1> QED
    BY <1>1, <1>2 DEF EnterOffline, EntryTyped

\* ConnectingState::enter leaves well-typed state in each of its outcomes:
\* offline, refused, or attempting.
LEMMA EnterConnectingType ==
    ASSUME NEW f \in Firewalls, NEW s \in AllSettings, NEW p \in BOOLEAN, NEW d \in DnsModes,
           NEW a, NEW pair \in MaybePairs, EnterConnecting(f, s, p, d, a, pair)
    PROVE  EntryTyped
<1> DEFINE params == [entry |-> EntryOf(pair), tun |-> FALSE]
<1>1. params \in Params
    BY EntryOfType DEF Params
<1>2. ConnectingPolicy(params, s) \in Policies
    BY <1>1, ConnectingPolicyType
<1>3. CASE EnterOffline(f, s, p, d, TRUE, pair)
    BY <1>3, EnterOfflineType
<1>4. CASE \E f1 \in Refused(f, s, ConnectingPolicy(params, s)) :
                EnterError(f1, s, p, d, a, "SetFirewallPolicy")
    BY <1>2, <1>4, FirewallTypes, EnterErrorType DEF Reasons
<1>5. CASE /\ sm' = [Blank EXCEPT !.state = "Connecting", !.gateways = pair, !.step = "delay",
                                  !.params = params]
           /\ firewall' = Applied(s, ConnectingPolicy(params, s))
           /\ networking' = FALSE /\ pins' = p /\ dns' = d
    <2>1. sm' \in MachineStates
        BY <1>5, <1>1, BlankType DEF MachineStates, States, MaybePairs, Params
    <2>2. firewall' \in Firewalls
        BY <1>5, <1>2, FirewallTypes
    <2> QED
        BY <1>5, <2>1, <2>2 DEF EntryTyped
<1> QED
    BY <1>3, <1>4, <1>5 DEF EnterConnecting

\* DisconnectingState::enter leaves well-typed state for every plan of what to
\* do after the monitor has exited.
LEMMA EnterDisconnectingType ==
    ASSUME TypeInv, NEW after \in {"Nothing", "Error", "Reconnect", "Offline"},
           NEW pair \in MaybePairs, NEW reason \in Reasons, NEW reconnect \in BOOLEAN,
           EnterDisconnecting(after, pair, reason, reconnect)
    PROVE  /\ sm' \in MachineStates /\ networking' \in BOOLEAN
           /\ mon' \in Monitors /\ (mon'.phase # "none" => mon'.sel \in EntryPoints)
           /\ queue' = <<>>
<1>1. sm' \in MachineStates
    BY BlankType DEF EnterDisconnecting, MachineStates, States, MaybePairs, Reasons
<1>2. mon' \in Monitors /\ (mon'.phase # "none" => mon'.sel \in EntryPoints)
    BY DEF EnterDisconnecting, TypeInv, TasksTyped, Monitors
<1> QED
    BY <1>1, <1>2 DEF EnterDisconnecting

-----------------------------------------------------------------------------
(***************************************************************************)
(* Type correctness.                                                       *)
(***************************************************************************)

\* The parts of TypeInv, before a step and after it.
LEMMA TypeParts ==
    ASSUME TypeInv
    PROVE  /\ sm \in MachineStates /\ firewall \in Firewalls /\ pins \in BOOLEAN
           /\ dns \in DnsModes /\ networking \in BOOLEAN
           /\ CallerTyped /\ TasksTyped
BY DEF TypeInv, TypeOK, Firewalls, DnsModes, CallerTyped, NetTyped

\* A step that types what an enter function writes, what its caller writes and
\* what the tasks share preserves the type invariant.
LEMMA TypeAssembled ==
    ASSUME EntryTyped, CallerTyped', TasksTyped'
    PROVE  TypeInv'
BY DEF TypeInv, TypeOK, EntryTyped, Firewalls, DnsModes, CallerTyped, NetTyped, TasksTyped

\* A step that leaves the monitor, its queue and the detached task alone keeps
\* them typed.
LEMMA TasksKept ==
    ASSUME TypeInv, UNCHANGED tasks
    PROVE  TasksTyped'
BY DEF TypeInv, TasksTyped, tasks

\* A step that leaves the state and the firewall alone keeps them typed.
LEMMA EntryKept ==
    ASSUME TypeInv, UNCHANGED <<sm, firewall, pins, dns, networking>>
    PROVE  EntryTyped
BY TypeParts DEF EntryTyped

\* A session cannot be without tasks that are typed, whether none or just forgotten.
LEMMA NoTasksTyped ==
    ASSUME mon' = NoMonitor, queue' = <<>>, detached' \in BOOLEAN
    PROVE  TasksTyped'
BY BlankType DEF TasksTyped, NoMonitor

\* The fields of the state handler have their types.
LEMMA FieldTypes ==
    ASSUME TypeInv
    PROVE  /\ sm.gateways \in MaybePairs /\ NoPair \in MaybePairs /\ sm.params \in Params
           /\ sm.reason \in Reasons /\ sm.reconnect \in BOOLEAN
           /\ settings \in AllSettings /\ Settings \subseteq AllSettings
           /\ firewall \in Firewalls /\ pins \in BOOLEAN /\ dns \in DnsModes
           /\ DnsReset(dns, "wan") \subseteq DnsModes /\ DnsReset(dns, "idle") \subseteq DnsModes
<1>1. sm.gateways \in MaybePairs /\ sm.params \in Params /\ sm.reason \in Reasons
        /\ sm.reconnect \in BOOLEAN
    BY DEF TypeInv, TypeOK, MachineStates, MaybePairs, Params, Reasons
<1>2. DnsReset(dns, "wan") \subseteq DnsModes /\ DnsReset(dns, "idle") \subseteq DnsModes
    BY TypeParts, DnsTypes DEF DnsModes
<1> QED
    BY <1>1, <1>2, TypeParts, SettingsAssumption DEF MaybePairs, CallerTyped

\* Every state a fresh process can start in is well-typed.
LEMMA InitType == Init => TypeInv
<1> SUFFICES ASSUME Init PROVE TypeInv
    OBVIOUS
<1>1. sm \in MachineStates /\ mon \in Monitors
    BY BlankType DEF Init
<1>2. settings \in AllSettings
    BY SettingsAssumption DEF Init
<1>3. firewall \in Firewalls
    BY <1>2, FixedPolicyTypes DEF Init, Firewalls, AllSettings
<1>4. NetTyped
    BY DEF Init, NetTyped
<1>5. queue \in Seq(Events) /\ Len(queue) = 0 /\ mon.phase = "none"
    BY DEF Init, NoMonitor
<1>6. detached \in BOOLEAN
    BY DEF Init
<1>7. TasksTyped
    BY <1>1, <1>5, <1>6 DEF TasksTyped
<1>8. TypeOK
    BY <1>1, <1>2, <1>3, <1>4, <1>5 DEF Init, TypeOK, Firewalls, NetTyped
<1> QED
    BY <1>7, <1>8 DEF TypeInv

\* The steps that only an Enter operator and perhaps new settings make up.
LEMMA KeptType ==
    ASSUME TypeInv, EntryTyped, settings' \in AllSettings,
           UNCHANGED <<routes, api, tasks, net, shutdown>>
    PROVE  TypeInv'
<1>1. CallerTyped'
    BY TypeParts DEF CallerTyped, NetTyped
<1> QED
    BY <1>1, TasksKept, TypeAssembled

\* Start, stop, and the environment.
LEMMA EnvironmentType ==
    ASSUME TypeInv,
           \/ Spawn \/ Crash \/ RequestShutdown \/ ConnectivityChanges \/ OfflineMonitorChecks
           \/ EndpointsAge \/ DetachedEnds
    PROVE  TypeInv'
<1> USE FieldTypes, TypeParts
<1>1. CASE Spawn
    <2> PICK s \in Settings, d \in DnsReset(dns, "wan") :
            LET f == [firewall EXCEPT !.killswitch = s.killswitch, !.known = FALSE] IN
            /\ settings' = s
            /\ \/ net.offline /\ EnterOffline(f, s, FALSE, d, FALSE, NoPair)
               \/ ~net.offline /\ EnterDisconnected(f, s, FALSE, d, "cached")
        BY <1>1 DEF Spawn
    <2> DEFINE f == [firewall EXCEPT !.killswitch = s.killswitch, !.known = FALSE]
    <2>1. s \in AllSettings /\ d \in DnsModes
        OBVIOUS
    <2>2. f \in Firewalls
        BY <2>1 DEF Firewalls, AllSettings
    <2>3. EntryTyped
        BY <2>1, <2>2, EnterOfflineType, EnterDisconnectedType
    <2>4. net' \in [offline : BOOLEAN, event : BOOLEAN, known : BOOLEAN, changed : BOOLEAN]
        BY <1>1 DEF Spawn, CallerTyped, NetTyped
    <2>5. routes' \in BOOLEAN
        BY <1>1 DEF Spawn
    <2>6. CallerTyped'
        BY <1>1, <2>1, <2>4, <2>5 DEF Spawn, CallerTyped, NetTyped
    <2> QED
        BY <1>1, <2>3, <2>6, TasksKept, TypeAssembled DEF Spawn
<1>2. CASE Crash
    <2>1. EntryTyped
        <3>1. sm' \in MachineStates
            BY <1>2, BlankType DEF Crash, Exit, MachineStates, States
        <3>2. pins' \in BOOLEAN /\ networking' \in BOOLEAN
            BY <1>2 DEF Crash, Exit
        <3> QED
            BY <1>2, <3>1, <3>2 DEF Crash, EntryTyped
    <2>2. CallerTyped'
        <3>1. NetTyped'
            BY <1>2 DEF Crash, Exit, CallerTyped, NetTyped
        <3>2. shutdown' \in BOOLEAN
            BY <1>2 DEF Crash, Exit
        <3> QED
            BY <1>2, <3>1, <3>2 DEF Crash, Exit, CallerTyped
    <2>3. detached' \in BOOLEAN
        BY <1>2 DEF Crash, Exit
    <2>4. TasksTyped'
        BY <1>2, <2>3, NoTasksTyped DEF Crash, Exit
    <2> QED
        BY <2>1, <2>2, <2>4, TypeAssembled
<1>3. CASE RequestShutdown
    <2>1. EntryTyped
        BY <1>3, EntryKept DEF RequestShutdown, shared
    <2>2. shutdown' \in BOOLEAN
        BY <1>3 DEF RequestShutdown
    <2>3. CallerTyped'
        BY <1>3, <2>2 DEF RequestShutdown, CallerTyped, NetTyped, shared
    <2> QED
        BY <1>3, <2>1, <2>3, TasksKept, TypeAssembled DEF RequestShutdown
<1>4. CASE ConnectivityChanges \/ OfflineMonitorChecks
    <2>1. EntryTyped
        BY <1>4, EntryKept DEF ConnectivityChanges, OfflineMonitorChecks, shared
    <2>2. CASE ConnectivityChanges
        <3>1. Running \in BOOLEAN
            BY DEF Running
        <3>2. NetTyped'
            BY <2>2, <3>1 DEF ConnectivityChanges, CallerTyped, NetTyped
        <3>3. CallerTyped'
            BY <2>2, <3>2 DEF ConnectivityChanges, CallerTyped, shared
        <3> QED
            BY <2>1, <2>2, <3>3, TasksKept, TypeAssembled DEF ConnectivityChanges
    <2>3. CASE OfflineMonitorChecks
        <3>1. NetTyped'
            BY <2>3 DEF OfflineMonitorChecks, CallerTyped, NetTyped
        <3>2. CallerTyped'
            BY <2>3, <3>1 DEF OfflineMonitorChecks, CallerTyped, shared
        <3> QED
            BY <2>1, <2>3, <3>2, TasksKept, TypeAssembled DEF OfflineMonitorChecks
    <2> QED
        BY <1>4, <2>2, <2>3
<1>5. CASE EndpointsAge
    <2>1. EntryTyped
        BY <1>5, EntryKept DEF EndpointsAge
    <2>2. CallerTyped'
        BY <1>5 DEF EndpointsAge, CallerTyped, NetTyped
    <2> QED
        BY <1>5, <2>1, <2>2, TasksKept, TypeAssembled DEF EndpointsAge
<1>6. CASE DetachedEnds
    <2>1. EntryTyped
        BY <1>6, EntryKept DEF DetachedEnds
    <2>2. routes' \in BOOLEAN
        BY <1>6 DEF DetachedEnds, CallerTyped
    <2>3. CallerTyped'
        BY <1>6, <2>2 DEF DetachedEnds, CallerTyped, NetTyped
    <2>4. detached' \in BOOLEAN
        BY <1>6 DEF DetachedEnds
    <2>5. TasksTyped'
        BY <1>6, <2>4 DEF DetachedEnds, TasksTyped
    <2> QED
        BY <2>1, <2>3, <2>5, TypeAssembled
<1> QED
    BY <1>1, <1>2, <1>3, <1>4, <1>5, <1>6

\* A finishing machine forgets what the process held.
LEMMA FinishType ==
    ASSUME TypeInv, Finish, firewall' \in Firewalls, dns' \in DnsModes, UNCHANGED settings
    PROVE  TypeInv'
<1>1. sm' \in MachineStates
    BY BlankType DEF Finish, Exit, MachineStates, States
<1>2. pins' \in BOOLEAN /\ networking' \in BOOLEAN
    BY DEF Finish, Exit
<1>3. NetTyped'
    BY TypeParts DEF Finish, Exit, CallerTyped, NetTyped
<1>4. shutdown' \in BOOLEAN /\ routes' \in BOOLEAN
    BY DEF Finish, Exit
<1>5. CallerTyped'
    BY <1>3, <1>4, TypeParts DEF Finish, Exit, CallerTyped
<1>6. detached' \in BOOLEAN
    BY DEF Finish, Exit
<1>7. TasksTyped'
    BY <1>6, NoTasksTyped DEF Finish, Exit
<1> QED
    BY <1>1, <1>2, <1>5, <1>7, TypeAssembled DEF EntryTyped

\* release_firewall_on_shutdown leaves a firewall, released or not.
LEMMA ReleaseType ==
    ASSUME TypeInv, ReleaseFirewall
    PROVE  firewall' \in Firewalls
BY FieldTypes, FixedPolicyTypes, FirewallTypes DEF ReleaseFirewall

\* Reading the offline monitor's watch keeps the connectivity typed.
LEMMA SeenType ==
    ASSUME TypeInv, Seen
    PROVE  NetTyped'
BY TypeParts DEF Seen, CallerTyped, NetTyped

\* A connectivity report used up, and a state entered or kept.
LEMMA SeenStepType ==
    ASSUME TypeInv, EntryTyped, Seen, routes' \in BOOLEAN, TasksTyped',
           UNCHANGED <<settings, api, shutdown>>
    PROVE  TypeInv'
<1>1. CallerTyped'
    BY TypeParts, SeenType DEF CallerTyped
<1> QED
    BY <1>1, TypeAssembled

\* A re-apply that stays in its idle state.
LEMMA IdleAppliedType ==
    ASSUME TypeInv, NEW s \in AllSettings, NEW a,
           NEW idle \in {"off", "resolving", "wait", "retry"},
           firewall' = Applied(s, IdlePolicy(s)), pins' = IdlePins(s, a),
           sm' = [sm EXCEPT !.idle = idle], dns' \in DnsModes, UNCHANGED networking
    PROVE  EntryTyped
<1>1. sm' \in MachineStates
    BY TypeParts DEF MachineStates
<1>2. firewall' \in Firewalls
    BY TypeParts, PolicyTypes, FirewallTypes
<1>3. pins' \in BOOLEAN
    BY IdleTypes
<1> QED
    BY <1>1, <1>2, <1>3, TypeParts DEF EntryTyped

\* The select! arms of DisconnectedState preserve the type invariant.
LEMMA DisconnectedType ==
    ASSUME TypeInv,
           \/ DisconnectedConnect \/ DisconnectedSetSettings \/ DisconnectedConnectivity
           \/ DisconnectedShutdown
    PROVE  TypeInv'
<1> USE FieldTypes, TypeParts
<1>1. CASE DisconnectedConnect
    <2>1. EntryTyped
        BY <1>1, EnterConnectingType DEF DisconnectedConnect
    <2> QED
        BY <1>1, <2>1, KeptType DEF DisconnectedConnect
<1>2. CASE DisconnectedSetSettings
    <2> PICK s \in Settings :
            /\ settings' = s
            /\ \E d \in IF s.killswitch # settings.killswitch THEN DnsReset(dns, "idle") ELSE {dns} :
                \/ /\ firewall' = Applied(s, IdlePolicy(s))
                   /\ pins' = IdlePins(s, api)
                   /\ sm' = [sm EXCEPT !.idle = Schedule(s, api)]
                   /\ dns' = d
                   /\ UNCHANGED networking
                \/ \E f \in Refused(firewall, s, IdlePolicy(s)) :
                     EnterError(f, s, pins, d, api, "SetFirewallPolicy")
        BY <1>2 DEF DisconnectedSetSettings
    <2>1. s \in AllSettings
        OBVIOUS
    <2>2. PICK d \in DnsModes :
            \/ /\ firewall' = Applied(s, IdlePolicy(s))
               /\ pins' = IdlePins(s, api)
               /\ sm' = [sm EXCEPT !.idle = Schedule(s, api)]
               /\ dns' = d
               /\ UNCHANGED networking
            \/ \E f \in Refused(firewall, s, IdlePolicy(s)) :
                 EnterError(f, s, pins, d, api, "SetFirewallPolicy")
        OBVIOUS
    <2>3. CASE \E f \in Refused(firewall, s, IdlePolicy(s)) :
                 EnterError(f, s, pins, d, api, "SetFirewallPolicy")
        <3>1. EntryTyped
            BY <2>1, <2>3, PolicyTypes, FirewallTypes, EnterErrorType DEF Reasons
        <3> QED
            BY <1>2, <2>1, <3>1, KeptType DEF DisconnectedSetSettings
    <2>4. CASE /\ firewall' = Applied(s, IdlePolicy(s))
               /\ pins' = IdlePins(s, api)
               /\ sm' = [sm EXCEPT !.idle = Schedule(s, api)]
               /\ dns' = d
               /\ UNCHANGED networking
        <3>1. EntryTyped
            BY <2>1, <2>4, IdleTypes, IdleAppliedType
        <3> QED
            BY <1>2, <2>1, <3>1, KeptType DEF DisconnectedSetSettings
    <2> QED
        BY <2>2, <2>3, <2>4
<1>3. CASE DisconnectedConnectivity
    <2>1. EntryTyped
        BY <1>3, EntryKept, EnterOfflineType DEF DisconnectedConnectivity
    <2>2. TasksTyped' /\ routes' \in BOOLEAN
        BY <1>3, TasksKept DEF DisconnectedConnectivity, CallerTyped
    <2> QED
        BY <1>3, <2>1, <2>2, SeenStepType DEF DisconnectedConnectivity
<1>4. CASE DisconnectedShutdown
    BY <1>4, FinishType DEF DisconnectedShutdown
<1> QED
    BY <1>1, <1>2, <1>3, <1>4

\* The allow-list upkeep of Disconnected and Error preserves it.
LEMMA IdleType ==
    ASSUME TypeInv, Idle
    PROVE  TypeInv'
<1> USE FieldTypes, TypeParts
<1>1. CASE IdleResolved
    <2>1. CallerTyped'
        BY <1>1 DEF IdleResolved, CallerTyped, NetTyped
    <2>2. TasksTyped'
        BY <1>1, TasksKept DEF IdleResolved
    <2>3. CASE /\ firewall' = Applied(settings, IdlePolicy(settings))
               /\ pins' = IdlePins(settings, "live")
               /\ sm' = [sm EXCEPT !.idle = "wait"]
               /\ UNCHANGED <<dns, networking>>
        <3>1. EntryTyped
            BY <2>3, IdleAppliedType
        <3> QED
            BY <2>1, <2>2, <3>1, TypeAssembled
    <2>4. CASE \E f \in Refused(firewall, settings, IdlePolicy(settings)) :
                    EnterError(f, settings, pins, dns, "live", "SetFirewallPolicy")
        <3>1. EntryTyped
            BY <2>4, PolicyTypes, FirewallTypes, EnterErrorType DEF Reasons
        <3> QED
            BY <2>1, <2>2, <3>1, TypeAssembled
    <2>5. CASE /\ firewall' \in Refused(firewall, settings, IdlePolicy(settings))
               /\ sm' = [sm EXCEPT !.idle = "off"]
               /\ UNCHANGED <<pins, dns, networking>>
        <3>1. sm' \in MachineStates
            BY <2>5 DEF MachineStates
        <3>2. firewall' \in Firewalls
            BY <2>5, PolicyTypes, FirewallTypes
        <3>3. EntryTyped
            BY <2>5, <3>1, <3>2 DEF EntryTyped
        <3> QED
            BY <2>1, <2>2, <3>3, TypeAssembled
    <2> QED
        BY <1>1, <2>3, <2>4, <2>5 DEF IdleResolved
<1>2. CASE IdleResolveFails \/ IdleTimer
    <2>1. sm' \in MachineStates
        BY <1>2, IdleTypes DEF IdleResolveFails, IdleTimer, MachineStates
    <2>2. EntryTyped
        BY <1>2, <2>1 DEF IdleResolveFails, IdleTimer, shared, EntryTyped
    <2> QED
        BY <1>2, <2>2, KeptType DEF IdleResolveFails, IdleTimer, shared
<1> QED
    BY <1>1, <1>2 DEF Idle

\* So do the select! arms of ErrorState,
LEMMA ErrorType ==
    ASSUME TypeInv, ErrorConnect \/ ErrorDisconnect \/ ErrorSetSettings \/ ErrorShutdown
    PROVE  TypeInv'
<1> USE FieldTypes, TypeParts
<1>1. CASE ErrorConnect
    <2>1. EntryTyped
        BY <1>1, EnterConnectingType DEF ErrorConnect
    <2> QED
        BY <1>1, <2>1, KeptType DEF ErrorConnect
<1>2. CASE ErrorDisconnect
    <2>1. EntryTyped
        BY <1>2, EnterOfflineType, EnterDisconnectedType DEF ErrorDisconnect
    <2> QED
        BY <1>2, <2>1, KeptType DEF ErrorDisconnect
<1>3. CASE ErrorSetSettings
    <2> PICK s \in Settings :
            /\ settings' = s
            /\ \/ UNCHANGED <<sm, firewall, pins, dns, networking>>
               \/ /\ firewall' \in Refused(firewall, s, IdlePolicy(s))
                  /\ UNCHANGED <<sm, pins, dns, networking>>
               \/ EnterDisconnected(Applied(s, IdlePolicy(s)), s, IdlePins(s, api), dns, api)
               \/ /\ firewall' = Applied(s, IdlePolicy(s))
                  /\ pins' = IdlePins(s, api)
                  /\ sm' = [sm EXCEPT !.idle = Schedule(s, api)]
                  /\ UNCHANGED <<dns, networking>>
        BY <1>3 DEF ErrorSetSettings
    <2>1. s \in AllSettings /\ IdlePolicy(s) \in Policies
        BY PolicyTypes
    <2>2. CASE UNCHANGED <<sm, firewall, pins, dns, networking>>
        BY <2>1, <2>2, <1>3, EntryKept, KeptType DEF ErrorSetSettings
    <2>3. CASE /\ firewall' \in Refused(firewall, s, IdlePolicy(s))
               /\ UNCHANGED <<sm, pins, dns, networking>>
        <3>1. firewall' \in Firewalls
            BY <2>1, <2>3, FirewallTypes
        <3>2. EntryTyped
            BY <2>3, <3>1 DEF EntryTyped
        <3> QED
            BY <2>1, <3>2, <1>3, KeptType DEF ErrorSetSettings
    <2>4. CASE EnterDisconnected(Applied(s, IdlePolicy(s)), s, IdlePins(s, api), dns, api)
        <3>1. Applied(s, IdlePolicy(s)) \in Firewalls /\ IdlePins(s, api) \in BOOLEAN
            BY <2>1, FirewallTypes, IdleTypes
        <3>2. EntryTyped
            BY <2>1, <2>4, <3>1, EnterDisconnectedType
        <3> QED
            BY <2>1, <3>2, <1>3, KeptType DEF ErrorSetSettings
    <2>5. CASE /\ firewall' = Applied(s, IdlePolicy(s))
               /\ pins' = IdlePins(s, api)
               /\ sm' = [sm EXCEPT !.idle = Schedule(s, api)]
               /\ UNCHANGED <<dns, networking>>
        <3>1. EntryTyped
            BY <2>1, <2>5, IdleTypes, IdleAppliedType
        <3> QED
            BY <2>1, <3>1, <1>3, KeptType DEF ErrorSetSettings
    <2> QED
        BY <2>2, <2>3, <2>4, <2>5
<1>4. CASE ErrorShutdown
    BY <1>4, ReleaseType, FinishType DEF ErrorShutdown
<1> QED
    BY <1>1, <1>2, <1>3, <1>4

\* and those of OfflineState.
LEMMA OfflineType ==
    ASSUME TypeInv,
           \/ OfflineConnect \/ OfflineDisconnect \/ OfflineSetSettings \/ OfflineConnectivity
           \/ OfflineShutdown
    PROVE  TypeInv'
<1> USE FieldTypes, TypeParts
<1>1. CASE OfflineConnect
    <2>1. EntryTyped
        BY <1>1, EnterOfflineType DEF OfflineConnect
    <2> QED
        BY <1>1, <2>1, KeptType DEF OfflineConnect
<1>2. CASE OfflineDisconnect
    <2>1. sm' \in MachineStates
        BY <1>2 DEF OfflineDisconnect, MachineStates
    <2>2. EntryTyped
        BY <1>2, <2>1 DEF OfflineDisconnect, shared, EntryTyped
    <2> QED
        BY <1>2, <2>2, KeptType DEF OfflineDisconnect, shared
<1>3. CASE OfflineSetSettings
    <2> PICK s \in Settings :
            /\ settings' = s
            /\ sm' = [sm EXCEPT !.gateways = IF s.entry_point # settings.entry_point THEN NoPair ELSE @]
            /\ \/ firewall' \in {Applied(s, OfflinePolicy(s))} \cup
                                  Refused(firewall, s, OfflinePolicy(s))
               \/ UNCHANGED firewall
        BY <1>3 DEF OfflineSetSettings
    <2>1. s \in AllSettings /\ OfflinePolicy(s) \in Policies
        BY PolicyTypes
    <2>2. firewall' \in Firewalls
        BY <2>1, FirewallTypes
    <2>3. sm' \in MachineStates
        BY DEF MachineStates
    <2>4. EntryTyped
        BY <1>3, <2>2, <2>3 DEF OfflineSetSettings, EntryTyped
    <2> QED
        BY <1>3, <2>1, <2>4, KeptType DEF OfflineSetSettings
<1>4. CASE OfflineConnectivity
    <2>1. EntryTyped
        <3>1. CASE UNCHANGED <<sm, firewall, pins, dns, networking>>
            BY <3>1, EntryKept
        <3>2. CASE \E d \in DnsReset(dns, "wan") :
                    \/ EnterConnecting(firewall, settings, pins, d, api, sm.gateways)
                    \/ EnterDisconnected(firewall, settings, pins, d, api)
            BY <3>2, EnterConnectingType, EnterDisconnectedType
        <3> QED
            BY <1>4, <3>1, <3>2 DEF OfflineConnectivity
    <2>2. TasksTyped' /\ routes' \in BOOLEAN
        BY <1>4, TasksKept DEF OfflineConnectivity, CallerTyped
    <2> QED
        BY <1>4, <2>1, <2>2, SeenStepType DEF OfflineConnectivity
<1>5. CASE OfflineShutdown
    BY <1>5, ReleaseType, FinishType DEF OfflineShutdown
<1> QED
    BY <1>1, <1>2, <1>3, <1>4, <1>5

\* Events of a queue whose selections carry pairs.
QueueTyped(q) ==
    /\ q \in Seq(Events)
    /\ \A i \in 1..Len(q) : q[i].type = "SelectedGateways" => q[i].pair \in Pairs

\* Taking the first event off the monitor channel keeps the rest typed: every
\* SelectedGateways still names a real pair.
LEMMA TailTyped ==
    ASSUME NEW q, QueueTyped(q), q # <<>>
    PROVE  QueueTyped(Tail(q))
<1>1. q \in Seq(Events) /\ Tail(q) \in Seq(Events) /\ Len(Tail(q)) = Len(q) - 1
    BY DEF QueueTyped
<1>2. ASSUME NEW i \in 1..Len(Tail(q)) PROVE Tail(q)[i] = q[i + 1] /\ i + 1 \in 1..Len(q)
    BY <1>1
<1> QED
    BY <1>1, <1>2 DEF QueueTyped

\* The first event of the channel is an event, and names a real pair if it is
\* SelectedGateways.
LEMMA HeadTyped ==
    ASSUME NEW q, QueueTyped(q), q # <<>>
    PROVE  /\ Head(q) \in Events
           /\ Head(q).type = "SelectedGateways" => Head(q).pair \in Pairs
<1>1. Head(q) = q[1] /\ 1 \in 1..Len(q) /\ q[1] \in Events
    BY DEF QueueTyped
<1> QED
    BY <1>1 DEF QueueTyped

\* Sending a well-formed event keeps the channel typed.
LEMMA AppendTyped ==
    ASSUME NEW q, QueueTyped(q), NEW event \in Events,
           event.type = "SelectedGateways" => event.pair \in Pairs
    PROVE  QueueTyped(Append(q, event))
<1>1. q \in Seq(Events) /\ Append(q, event) \in Seq(Events)
        /\ Len(Append(q, event)) = Len(q) + 1
    BY DEF QueueTyped
<1>2. ASSUME NEW i \in 1..Len(Append(q, event))
      PROVE  \/ i \in 1..Len(q) /\ Append(q, event)[i] = q[i]
             \/ Append(q, event)[i] = event
    BY <1>1
<1> QED
    BY <1>1, <1>2 DEF QueueTyped

\* The type invariant types the monitor channel.
LEMMA QueueOfTasks ==
    ASSUME TypeInv
    PROVE  QueueTyped(queue)
BY DEF TypeInv, TasksTyped, QueueTyped

\* The handler has read an event, and the monitor is as it was.
LEMMA ReadTasksTyped ==
    ASSUME TypeInv, queue # <<>>, queue' = Tail(queue), UNCHANGED <<mon, detached>>
    PROVE  TasksTyped'
<1>1. QueueTyped(Tail(queue))
    BY QueueOfTasks, TailTyped
<1> QED
    BY <1>1 DEF TypeInv, TasksTyped, QueueTyped

\* The monitor is cancelled and its events are no longer received.
LEMMA CancelledTasksTyped ==
    ASSUME mon' \in Monitors, mon'.phase # "none" => mon'.sel \in EntryPoints,
           queue' = <<>>, detached' \in BOOLEAN
    PROVE  TasksTyped'
BY DEF TasksTyped

\* A tear-down that enters Disconnecting preserves the type invariant.
LEMMA TearDownType ==
    ASSUME TypeInv, NEW after \in {"Nothing", "Error", "Reconnect", "Offline"},
           NEW pair \in MaybePairs, NEW reason \in Reasons, NEW reconnect \in BOOLEAN,
           EnterDisconnecting(after, pair, reason, reconnect),
           firewall' \in Firewalls, pins' \in BOOLEAN, dns' \in DnsModes, detached' \in BOOLEAN
    PROVE  EntryTyped /\ TasksTyped'
BY EnterDisconnectingType, CancelledTasksTyped DEF EntryTyped

\* Admitting a selection, applied or refused, leaves well-typed state.
LEMMA AdmitType ==
    ASSUME TypeInv, queue # <<>>, NEW params \in Params, NEW pair \in MaybePairs,
           Admit(params, pair), UNCHANGED <<pins, dns, detached>>
    PROVE  EntryTyped /\ TasksTyped'
<1> USE FieldTypes, TypeParts
<1>1. ConnectingPolicy(params, settings) \in Policies
    BY ConnectingPolicyType
<1>2. CASE /\ firewall' = Applied(settings, ConnectingPolicy(params, settings))
           /\ sm' = [sm EXCEPT !.params = params, !.gateways = pair]
           /\ queue' = Tail(queue)
           /\ UNCHANGED <<mon, networking>>
    <2>1. sm' \in MachineStates
        BY <1>2 DEF MachineStates, Params, MaybePairs
    <2>2. firewall' \in Firewalls
        BY <1>1, <1>2, FirewallTypes
    <2>3. EntryTyped
        BY <1>2, <2>1, <2>2 DEF EntryTyped
    <2> QED
        BY <1>2, <2>3, ReadTasksTyped
<1>3. CASE /\ firewall' \in Refused(firewall, settings, ConnectingPolicy(params, settings))
           /\ EnterDisconnecting("Error", NoPair, "SetFirewallPolicy", FALSE)
    <2>1. firewall' \in Firewalls /\ detached' \in BOOLEAN
        BY <1>1, <1>3, FirewallTypes DEF TasksTyped
    <2> QED
        BY <1>3, <2>1, TearDownType DEF Reasons
<1> QED
    BY <1>2, <1>3 DEF Admit

\* A handler that writes only settings and routes keeps the rest of the shared
\* state typed.
LEMMA CallerKept ==
    ASSUME TypeInv, settings' \in AllSettings, routes' \in BOOLEAN,
           UNCHANGED <<api, net, shutdown>>
    PROVE  CallerTyped'
BY TypeParts DEF CallerTyped, NetTyped

\* ConnectingState::disconnect preserves the type invariant.
LEMMA ConnectingTearDownType ==
    ASSUME TypeInv, NEW after \in {"Nothing", "Reconnect", "Offline"}, NEW pair \in MaybePairs,
           ConnectingTearDown(after, pair), UNCHANGED detached
    PROVE  EntryTyped /\ TasksTyped' /\ routes' \in BOOLEAN
<1>1. (after = "Offline") \in BOOLEAN /\ detached' \in BOOLEAN
    BY TypeParts DEF TasksTyped
<1>2. routes' \in BOOLEAN
    BY DEF ConnectingTearDown
<1> QED
    BY <1>1, <1>2, FieldTypes, TearDownType DEF ConnectingTearDown, Reasons

\* ConnectingState's own futures.
LEMMA ConnectingFuturesType ==
    ASSUME TypeInv, Connecting
    PROVE  TypeInv'
<1> USE FieldTypes, TypeParts
<1>1. CASE ConnectingDelay
    <2>1. sm' \in MachineStates
        BY <1>1 DEF ConnectingDelay, MachineStates
    <2>2. EntryTyped
        BY <1>1, <2>1 DEF ConnectingDelay, shared, EntryTyped
    <2> QED
        BY <1>1, <2>2, KeptType DEF ConnectingDelay, shared
<1>2. CASE ConnectingResolveFails
    <2>1. EntryTyped
        BY <1>2, EnterConnectingType DEF ConnectingResolveFails, Reconnect
    <2> QED
        BY <1>2, <2>1, KeptType DEF ConnectingResolveFails
<1>3. CASE ConnectingResolved
    <2> DEFINE policy == ConnectingPolicy(sm.params, settings)
    <2>1. policy \in Policies
        BY ConnectingPolicyType
    <2>2. CallerTyped'
        BY <1>3 DEF ConnectingResolved, CallerTyped, NetTyped
    <2>3. CASE /\ firewall' = Applied(settings, policy)
               /\ pins' = TRUE
               /\ networking' = TRUE
               /\ \E pair \in {sm.gateways, NoPair} :
                    /\ sm' = [sm EXCEPT !.step = "monitor", !.gateways = pair]
                    /\ mon' = [phase |-> "starting", pair |-> pair, sel |-> settings.entry_point,
                               cancelled |-> FALSE]
               /\ UNCHANGED dns
        <3>1. sm' \in MachineStates
            BY <2>3 DEF MachineStates, MaybePairs
        <3>2. firewall' \in Firewalls
            BY <2>1, <2>3, FirewallTypes
        <3>3. mon' \in Monitors /\ mon'.sel \in EntryPoints
            BY <2>3 DEF Monitors, MonitorPhases, MaybePairs, AllSettings
        <3>4. pins' \in BOOLEAN /\ networking' \in BOOLEAN
            BY <2>3
        <3>5. EntryTyped
            BY <2>3, <3>1, <3>2, <3>4 DEF EntryTyped
        <3>6. TasksTyped'
            BY <1>3, <3>3 DEF ConnectingResolved, TasksTyped
        <3> QED
            BY <2>2, <3>5, <3>6, TypeAssembled
    <2>4. CASE /\ \/ \E f \in Refused(firewall, settings, policy) :
                        EnterError(f, settings, pins, dns, "live", "SetFirewallPolicy")
                  \/ EnterError(Applied(settings, policy), settings, TRUE, dns, "live", "Other")
               /\ UNCHANGED mon
        <3>1. EntryTyped
            BY <2>1, <2>4, FirewallTypes, EnterErrorType DEF Reasons
        <3>2. TasksTyped'
            BY <1>3, <2>4, TasksKept DEF ConnectingResolved, tasks
        <3> QED
            BY <2>2, <3>1, <3>2, TypeAssembled
    <2> QED
        BY <1>3, <2>3, <2>4 DEF ConnectingResolved
<1> QED
    BY <1>1, <1>2, <1>3 DEF Connecting

\* ConnectingState handling the events of its monitor.
LEMMA ConnectingEventsType ==
    ASSUME TypeInv,
           \/ ConnectingSelectedGateways \/ ConnectingInterfaceUp \/ ConnectingUp
           \/ ConnectingFailure \/ ConnectingDown
    PROVE  TypeInv'
<1> USE FieldTypes, TypeParts
<1>1. CASE ConnectingSelectedGateways
    <2> DEFINE pair == Head(queue).pair
               params == [sm.params EXCEPT !.entry = pair.entry]
    <2>1. queue # <<>> /\ pair \in Pairs
        BY <1>1, QueueOfTasks, HeadTyped DEF ConnectingSelectedGateways, NextEvent
    <2>2. params \in Params /\ pair \in MaybePairs
        BY <2>1 DEF Pairs, Params, MaybePairs
    <2>3. Admit(params, pair) /\ UNCHANGED <<pins, dns, detached>>
        BY <1>1 DEF ConnectingSelectedGateways
    <2>4. EntryTyped /\ TasksTyped'
        BY <2>1, <2>2, <2>3, AdmitType
    <2>5. CallerTyped'
        BY <1>1, CallerKept DEF ConnectingSelectedGateways, CallerTyped
    <2> QED
        BY <2>4, <2>5, TypeAssembled
<1>2. CASE ConnectingInterfaceUp
    <2>1. [sm.params EXCEPT !.tun = TRUE] \in Params
        BY DEF Params
    <2>2. EntryTyped /\ TasksTyped'
        BY <1>2, <2>1, AdmitType DEF ConnectingInterfaceUp, NextEvent
    <2>3. CallerTyped'
        BY <1>2, CallerKept DEF ConnectingInterfaceUp, CallerTyped
    <2> QED
        BY <2>2, <2>3, TypeAssembled
<1>3. CASE ConnectingUp
    <2> DEFINE policy == ConnectedPolicy(sm.gateways, settings)
    <2>1. policy \in Policies /\ queue # <<>> /\ detached' \in BOOLEAN
        BY <1>3, ConnectedPolicyType DEF ConnectingUp, NextEvent, TasksTyped
    <2>2. CallerTyped'
        BY <1>3, CallerKept DEF ConnectingUp, CallerTyped
    <2>3. CASE /\ sm' = [Blank EXCEPT !.state = "Connected", !.gateways = sm.gateways]
               /\ firewall' = Applied(settings, policy)
               /\ dns' = "tunnel"
               /\ pins' = FALSE
               /\ queue' = Tail(queue)
               /\ UNCHANGED <<networking, mon>>
        <3>1. sm' \in MachineStates
            BY <2>3, BlankType DEF MachineStates, States, MaybePairs
        <3>2. firewall' \in Firewalls /\ dns' \in DnsModes
            BY <2>1, <2>3, FirewallTypes DEF DnsModes
        <3>3. pins' \in BOOLEAN
            BY <2>3
        <3>4. EntryTyped
            BY <2>3, <3>1, <3>2, <3>3 DEF EntryTyped
        <3>5. TasksTyped'
            BY <1>3, <2>1, <2>3, ReadTasksTyped DEF ConnectingUp
        <3> QED
            BY <2>2, <3>4, <3>5, TypeAssembled
    <2>4. CASE /\ firewall' \in Refused(firewall, settings, policy)
               /\ EnterDisconnecting("Error", NoPair, "SetFirewallPolicy", FALSE)
               /\ UNCHANGED <<dns, pins>>
        <3>1. firewall' \in Firewalls
            BY <2>1, <2>4, FirewallTypes
        <3>2. EntryTyped /\ TasksTyped'
            BY <2>1, <2>4, <3>1, TearDownType DEF Reasons
        <3> QED
            BY <2>2, <3>2, TypeAssembled
    <2>5. CASE /\ firewall' = Applied(settings, policy)
               /\ dns' \in {dns, "tunnel"}
               /\ EnterDisconnecting("Error", NoPair, "Other", FALSE)
               /\ UNCHANGED pins
        <3>1. firewall' \in Firewalls /\ dns' \in DnsModes
            BY <2>1, <2>5, FirewallTypes DEF DnsModes
        <3>2. EntryTyped /\ TasksTyped'
            BY <2>1, <2>5, <3>1, TearDownType DEF Reasons
        <3> QED
            BY <2>2, <3>2, TypeAssembled
    <2> QED
        BY <1>3, <2>3, <2>4, <2>5 DEF ConnectingUp, EnterConnected
<1>4. CASE ConnectingFailure
    <2>1. sm' \in MachineStates
        BY <1>4 DEF ConnectingFailure, MachineStates, MaybePairs
    <2>2. EntryTyped
        BY <1>4, <2>1 DEF ConnectingFailure, EntryTyped, shared
    <2>3. TasksTyped'
        BY <1>4, ReadTasksTyped DEF ConnectingFailure, NextEvent
    <2>4. CallerTyped'
        BY <1>4, CallerKept DEF ConnectingFailure, CallerTyped, shared
    <2> QED
        BY <2>2, <2>3, <2>4, TypeAssembled
<1>5. CASE ConnectingDown
    <2>1. CallerTyped'
        <3>1. routes' \in BOOLEAN
            BY <1>5 DEF ConnectingDown, CallerTyped
        <3> QED
            BY <1>5, <3>1, CallerKept DEF ConnectingDown, CallerTyped
    <2>2. CASE /\ EnterDisconnecting("Error", NoPair, "Other", FALSE)
               /\ UNCHANGED <<firewall, pins, dns, routes>>
        <3>1. detached' \in BOOLEAN
            BY <1>5 DEF ConnectingDown, TasksTyped
        <3>2. EntryTyped /\ TasksTyped'
            BY <2>2, <3>1, TearDownType DEF Reasons
        <3> QED
            BY <2>1, <3>2, TypeAssembled
    <2>3. CASE Reconnect(api) /\ mon' = NoMonitor /\ queue' = <<>>
        <3>1. EntryTyped
            BY <2>3, EnterConnectingType DEF Reconnect
        <3>2. detached' \in BOOLEAN
            BY <1>5 DEF ConnectingDown, TasksTyped
        <3>3. TasksTyped'
            BY <2>3, <3>2, NoTasksTyped
        <3> QED
            BY <2>1, <3>1, <3>3, TypeAssembled
    <2> QED
        BY <1>5, <2>2, <2>3 DEF ConnectingDown
<1> QED
    BY <1>1, <1>2, <1>3, <1>4, <1>5

\* Dropping the handle of a running monitor keeps the tasks typed.
LEMMA DetachTyped ==
    ASSUME TypeInv, Detach
    PROVE  TasksTyped'
<1>1. detached' \in BOOLEAN
    BY TypeParts DEF Detach, TasksTyped
<1> QED
    BY <1>1, NoTasksTyped DEF Detach

\* A Disconnect or a shutdown in Connecting preserves the type invariant.
LEMMA ConnectingStopType ==
    ASSUME TypeInv, ConnectingStop
    PROVE  TypeInv'
<1> USE FieldTypes, TypeParts
<1>1. CASE ConnectingTearDown("Nothing", NoPair)
    <2>1. EntryTyped /\ TasksTyped' /\ routes' \in BOOLEAN
        BY <1>1, ConnectingTearDownType DEF ConnectingStop
    <2> QED
        BY <2>1, CallerKept, TypeAssembled DEF ConnectingStop, CallerTyped
<1>2. CASE /\ routes' = FALSE
           /\ EnterDisconnected(firewall, settings, pins, dns, api)
           /\ UNCHANGED <<mon, queue>>
    <2>1. routes' \in BOOLEAN
        BY <1>2
    <2>2. EntryTyped
        BY <1>2, EnterDisconnectedType
    <2>3. TasksTyped'
        BY <1>2, TasksKept DEF ConnectingStop, tasks
    <2> QED
        BY <2>1, <2>2, <2>3, CallerKept, TypeAssembled DEF ConnectingStop, CallerTyped
<1> QED
    BY <1>1, <1>2 DEF ConnectingStop

\* The commands, connectivity reports and shutdown of ConnectingState.
LEMMA ConnectingCommandsType ==
    ASSUME TypeInv,
           \/ ConnectingConnect \/ ConnectingDisconnect \/ ConnectingShutdown
           \/ ConnectingSetSettings \/ ConnectingConnectivity
    PROVE  TypeInv'
<1> USE FieldTypes, TypeParts
<1>1. CASE ConnectingConnect
    <2>1. CASE ConnectingTearDown("Reconnect", NoPair)
        <3>1. EntryTyped /\ TasksTyped' /\ routes' \in BOOLEAN
            BY <1>1, <2>1, ConnectingTearDownType DEF ConnectingConnect
        <3> QED
            BY <1>1, <3>1, CallerKept, TypeAssembled DEF ConnectingConnect, CallerTyped
    <2>2. CASE /\ EnterConnecting(firewall, settings, pins, dns, api, NoPair)
               /\ UNCHANGED <<routes, mon, queue>>
        <3>1. EntryTyped
            BY <2>2, EnterConnectingType
        <3> QED
            BY <1>1, <2>2, <3>1, KeptType DEF ConnectingConnect, tasks
    <2> QED
        BY <1>1, <2>1, <2>2 DEF ConnectingConnect
<1>2. CASE ConnectingDisconnect \/ ConnectingShutdown
    BY <1>2, ConnectingStopType DEF ConnectingDisconnect, ConnectingShutdown
<1>3. CASE ConnectingSetSettings
    <2> PICK s \in Settings :
            LET policy  == ConnectingPolicy(sm.params, s)
                reapply == s.allow_lan # settings.allow_lan \/ s.killswitch # settings.killswitch
                f       == IF reapply THEN Applied(s, policy) ELSE firewall
                pair    == IF s.entry_point # settings.entry_point THEN NoPair ELSE sm.gateways
            IN  /\ settings' = s
                /\ \/ /\ \E f1 \in Refused(firewall, s, policy) :
                            EnterError(f1, s, pins, dns, api, "SetFirewallPolicy")
                      /\ Detach
                      /\ UNCHANGED routes
                   \/ /\ firewall' = f
                      /\ UNCHANGED <<sm, pins, dns, routes, networking, tasks>>
                   \/ /\ firewall' = f
                      /\ routes' = FALSE
                      /\ EnterDisconnecting("Reconnect", pair, "none", FALSE)
                      /\ UNCHANGED <<pins, dns, detached>>
                   \/ /\ EnterConnecting(f, s, pins, dns, api, pair)
                      /\ UNCHANGED <<routes, tasks>>
        BY <1>3 DEF ConnectingSetSettings
    <2> DEFINE policy  == ConnectingPolicy(sm.params, s)
               reapply == s.allow_lan # settings.allow_lan \/ s.killswitch # settings.killswitch
               f       == IF reapply THEN Applied(s, policy) ELSE firewall
               pair    == IF s.entry_point # settings.entry_point THEN NoPair ELSE sm.gateways
    <2>1. s \in AllSettings /\ policy \in Policies /\ pair \in MaybePairs
        BY ConnectingPolicyType
    <2>2. f \in Firewalls
        BY <2>1, FirewallTypes
    <2>3. routes' \in BOOLEAN
        BY DEF CallerTyped
    <2>4. CallerTyped'
        BY <1>3, <2>1, <2>3, CallerKept DEF ConnectingSetSettings
    <2>5. CASE /\ \E f1 \in Refused(firewall, s, policy) :
                    EnterError(f1, s, pins, dns, api, "SetFirewallPolicy")
               /\ Detach
        <3>1. EntryTyped
            BY <2>1, <2>5, FirewallTypes, EnterErrorType DEF Reasons
        <3> QED
            BY <2>4, <2>5, <3>1, DetachTyped, TypeAssembled
    <2>6. CASE /\ firewall' = f
               /\ UNCHANGED <<sm, pins, dns, routes, networking, tasks>>
        <3>1. EntryTyped
            BY <2>2, <2>6 DEF EntryTyped
        <3> QED
            BY <2>4, <2>6, <3>1, TasksKept, TypeAssembled
    <2>7. CASE /\ firewall' = f
               /\ EnterDisconnecting("Reconnect", pair, "none", FALSE)
               /\ UNCHANGED <<pins, dns, detached>>
        <3>1. detached' \in BOOLEAN /\ firewall' \in Firewalls
            BY <2>2, <2>7 DEF TasksTyped
        <3>2. EntryTyped /\ TasksTyped'
            BY <2>1, <2>7, <3>1, TearDownType DEF Reasons
        <3> QED
            BY <2>4, <3>2, TypeAssembled
    <2>8. CASE /\ EnterConnecting(f, s, pins, dns, api, pair)
               /\ UNCHANGED <<routes, tasks>>
        <3>1. EntryTyped
            BY <2>1, <2>2, <2>8, EnterConnectingType
        <3> QED
            BY <2>4, <2>8, <3>1, TasksKept, TypeAssembled
    <2> QED
        BY <2>5, <2>6, <2>7, <2>8
<1>4. CASE ConnectingConnectivity
    <2>1. CASE UNCHANGED <<sm, firewall, pins, dns, routes, networking, mon, queue>>
        <3>1. TasksTyped' /\ routes' \in BOOLEAN
            BY <1>4, <2>1, TasksKept DEF ConnectingConnectivity, tasks, CallerTyped
        <3> QED
            BY <1>4, <2>1, <3>1, EntryKept, SeenStepType DEF ConnectingConnectivity
    <2>2. CASE ConnectingTearDown("Offline", sm.gateways)
        <3>1. EntryTyped /\ TasksTyped' /\ routes' \in BOOLEAN
            BY <1>4, <2>2, ConnectingTearDownType DEF ConnectingConnectivity
        <3> QED
            BY <1>4, <3>1, SeenStepType DEF ConnectingConnectivity
    <2>3. CASE /\ EnterOffline(firewall, settings, pins, dns, TRUE, sm.gateways)
               /\ UNCHANGED <<routes, mon, queue>>
        <3>1. EntryTyped
            BY <2>3, EnterOfflineType
        <3>2. TasksTyped' /\ routes' \in BOOLEAN
            BY <1>4, <2>3, TasksKept DEF ConnectingConnectivity, tasks, CallerTyped
        <3> QED
            BY <1>4, <3>1, <3>2, SeenStepType DEF ConnectingConnectivity
    <2> QED
        BY <1>4, <2>1, <2>2, <2>3 DEF ConnectingConnectivity
<1> QED
    BY <1>1, <1>2, <1>3, <1>4

\* ConnectedState::disconnect preserves the type invariant.
LEMMA ConnectedTearDownType ==
    ASSUME TypeInv, NEW after \in {"Nothing", "Reconnect", "Offline"}, NEW pair \in MaybePairs,
           ConnectedTearDown(after, pair), firewall' \in Firewalls
    PROVE  EntryTyped /\ TasksTyped' /\ routes' \in BOOLEAN
<1>1. (after = "Offline") \in BOOLEAN /\ detached' \in BOOLEAN
    BY TypeParts DEF TasksTyped, ConnectedTearDown
<1>2. routes' \in BOOLEAN
    BY DEF ConnectedTearDown
<1>3. pins' \in BOOLEAN /\ dns' \in DnsModes
    BY FieldTypes DEF ConnectedTearDown
<1> QED
    BY <1>1, <1>2, <1>3, TearDownType DEF ConnectedTearDown, Reasons

\* The select! arms of ConnectedState preserve the type invariant.
LEMMA ConnectedType ==
    ASSUME TypeInv,
           \/ ConnectedConnect \/ ConnectedDisconnect \/ ConnectedShutdown \/ ConnectedSetSettings
           \/ ConnectedEvent \/ ConnectedDown \/ ConnectedConnectivity
    PROVE  TypeInv'
<1> USE FieldTypes, TypeParts
<1>1. CASE ConnectedConnect \/ ConnectedDisconnect \/ ConnectedShutdown
    <2>1. EntryTyped /\ TasksTyped' /\ routes' \in BOOLEAN
        BY <1>1, ConnectedTearDownType
           DEF ConnectedConnect, ConnectedDisconnect, ConnectedShutdown
    <2>2. CallerTyped'
        BY <1>1, <2>1, CallerKept DEF ConnectedConnect, ConnectedDisconnect, ConnectedShutdown
    <2> QED
        BY <2>1, <2>2, TypeAssembled
<1>2. CASE ConnectedSetSettings
    <2> PICK s \in Settings :
            LET lan    == [settings EXCEPT !.allow_lan = s.allow_lan]
                policy == ConnectedPolicy(sm.gateways, lan)
                pair   == IF s.entry_point # settings.entry_point THEN NoPair ELSE sm.gateways
            IN  \/ /\ \E f \in Refused(firewall, lan, policy) :
                        EnterError(f, settings, pins, dns, api, "SetFirewallPolicy")
                   /\ Detach
                   /\ UNCHANGED <<settings, routes>>
                \/ /\ firewall' = IF lan # settings THEN Applied(lan, policy) ELSE firewall
                   /\ settings' = s
                   /\ \/ UNCHANGED <<sm, pins, dns, routes, networking, tasks>>
                      \/ ConnectedTearDown("Reconnect", pair)
        BY <1>2 DEF ConnectedSetSettings
    <2> DEFINE lan    == [settings EXCEPT !.allow_lan = s.allow_lan]
               policy == ConnectedPolicy(sm.gateways, lan)
               pair   == IF s.entry_point # settings.entry_point THEN NoPair ELSE sm.gateways
    <2>1. s \in AllSettings /\ lan \in AllSettings /\ pair \in MaybePairs
        BY DEF AllSettings
    <2>2. policy \in Policies
        BY <2>1, ConnectedPolicyType
    <2>3. CASE /\ \E f \in Refused(firewall, lan, policy) :
                    EnterError(f, settings, pins, dns, api, "SetFirewallPolicy")
               /\ Detach
               /\ UNCHANGED <<settings, routes>>
        <3> HIDE DEF lan, policy
        <3>1. EntryTyped
            BY <2>1, <2>2, <2>3, FirewallTypes, EnterErrorType DEF Reasons
        <3>2. CallerTyped'
            BY <1>2, <2>3, CallerKept DEF ConnectedSetSettings, CallerTyped
        <3> QED
            BY <2>3, <3>1, <3>2, DetachTyped, TypeAssembled
    <2>4. CASE /\ firewall' = IF lan # settings THEN Applied(lan, policy) ELSE firewall
               /\ settings' = s
               /\ \/ UNCHANGED <<sm, pins, dns, routes, networking, tasks>>
                  \/ ConnectedTearDown("Reconnect", pair)
        <3> HIDE DEF lan, policy, pair
        <3>1. firewall' \in Firewalls
            BY <2>1, <2>2, <2>4, FirewallTypes
        <3>2. EntryTyped /\ TasksTyped' /\ routes' \in BOOLEAN
            <4>1. CASE UNCHANGED <<sm, pins, dns, routes, networking, tasks>>
                BY <3>1, <4>1, TasksKept DEF EntryTyped, CallerTyped
            <4>2. CASE ConnectedTearDown("Reconnect", pair)
                BY <2>1, <3>1, <4>2, ConnectedTearDownType
            <4> QED
                BY <2>4, <4>1, <4>2
        <3>3. CallerTyped'
            BY <1>2, <2>1, <2>4, <3>2, CallerKept DEF ConnectedSetSettings
        <3> QED
            BY <3>2, <3>3, TypeAssembled
    <2> QED
        BY <2>3, <2>4
<1>3. CASE ConnectedEvent
    <2>1. TasksTyped'
        BY <1>3, ReadTasksTyped DEF ConnectedEvent, NextEvent
    <2>2. EntryTyped
        BY <1>3, EntryKept DEF ConnectedEvent, shared
    <2>3. CallerTyped'
        BY <1>3, CallerKept DEF ConnectedEvent, shared, CallerTyped
    <2> QED
        BY <2>1, <2>2, <2>3, TypeAssembled
<1>4. CASE ConnectedDown
    <2>1. EntryTyped
        BY <1>4, EnterErrorType, EnterConnectingType DEF ConnectedDown, Reasons
    <2>2. detached' \in BOOLEAN
        BY <1>4 DEF ConnectedDown, TasksTyped
    <2>3. TasksTyped'
        BY <1>4, <2>2, NoTasksTyped DEF ConnectedDown
    <2>4. routes' \in BOOLEAN
        BY <1>4 DEF ConnectedDown
    <2>5. CallerTyped'
        BY <1>4, <2>4, CallerKept DEF ConnectedDown, CallerTyped
    <2> QED
        BY <2>1, <2>3, <2>5, TypeAssembled
<1>5. CASE ConnectedConnectivity
    <2>1. CASE UNCHANGED <<sm, pins, dns, routes, networking, tasks>>
        <3>1. EntryTyped /\ TasksTyped' /\ routes' \in BOOLEAN
            BY <1>5, <2>1, EntryKept, TasksKept DEF ConnectedConnectivity, CallerTyped
        <3> QED
            BY <1>5, <3>1, SeenStepType DEF ConnectedConnectivity
    <2>2. CASE ConnectedTearDown("Offline", sm.gateways)
        <3>1. EntryTyped /\ TasksTyped' /\ routes' \in BOOLEAN
            BY <1>5, <2>2, ConnectedTearDownType DEF ConnectedConnectivity
        <3> QED
            BY <1>5, <3>1, SeenStepType DEF ConnectedConnectivity
    <2> QED
        BY <1>5, <2>1, <2>2 DEF ConnectedConnectivity
<1> QED
    BY <1>1, <1>2, <1>3, <1>4, <1>5

\* The select! arms of DisconnectingState preserve the type invariant.
LEMMA DisconnectingType ==
    ASSUME TypeInv,
           \/ DisconnectingDone \/ DisconnectingConnect \/ DisconnectingDisconnect
           \/ DisconnectingSetSettings \/ DisconnectingShutdown
    PROVE  TypeInv'
<1> USE FieldTypes, TypeParts
<1>1. CASE DisconnectingDone \/ DisconnectingShutdown
    <2>1. EntryTyped
        <3>1. CASE DisconnectingShutdown
            BY <3>1, EnterDisconnectedType DEF DisconnectingShutdown
        <3>2. CASE DisconnectingDone
            <4>1. sm.after \in {"Nothing", "Error", "Reconnect", "Offline"}
                BY DEF MachineStates
            <4>2. \/ EnterDisconnected(firewall, settings, pins, dns, api)
                  \/ EnterError(firewall, settings, pins, dns, api, sm.reason)
                  \/ EnterConnecting(firewall, settings, pins, dns, api, sm.gateways)
                  \/ EnterOffline(firewall, settings, pins, dns, sm.reconnect, sm.gateways)
                BY <3>2, <4>1 DEF DisconnectingDone
            <4> QED
                BY <4>2, EnterDisconnectedType, EnterErrorType, EnterConnectingType,
                   EnterOfflineType
        <3> QED
            BY <1>1, <3>1, <3>2
    <2>2. TasksTyped'
        <3>1. mon' = NoMonitor /\ UNCHANGED <<queue, detached>>
            BY <1>1 DEF DisconnectingDone, DisconnectingShutdown
        <3>2. mon' \in Monitors /\ mon'.phase = "none"
            BY <3>1, BlankType DEF NoMonitor
        <3> QED
            BY <3>1, <3>2 DEF TasksTyped
    <2>3. CallerTyped'
        BY <1>1, CallerKept DEF DisconnectingDone, DisconnectingShutdown, CallerTyped
    <2> QED
        BY <2>1, <2>2, <2>3, TypeAssembled
<1>2. CASE DisconnectingConnect \/ DisconnectingDisconnect
    <2>1. sm' \in MachineStates
        <3>1. CASE sm' = [sm EXCEPT !.reconnect = TRUE] \/ sm' = [sm EXCEPT !.reconnect = FALSE]
            BY <3>1 DEF MachineStates
        <3>2. CASE \E after \in {"Nothing", "Reconnect"}, pair \in MaybePairs :
                    sm' = [sm EXCEPT !.after = after, !.reason = "none", !.gateways = pair]
            BY <3>2 DEF MachineStates, MaybePairs
        <3> QED
            BY <1>2, <3>1, <3>2 DEF DisconnectingConnect, DisconnectingDisconnect
    <2>2. EntryTyped
        BY <1>2, <2>1 DEF DisconnectingConnect, DisconnectingDisconnect, shared, EntryTyped
    <2> QED
        BY <1>2, <2>2, KeptType DEF DisconnectingConnect, DisconnectingDisconnect, shared
<1>3. CASE DisconnectingSetSettings
    <2>1. EntryTyped
        BY <1>3, EntryKept DEF DisconnectingSetSettings
    <2> QED
        BY <1>3, <2>1, KeptType DEF DisconnectingSetSettings
<1> QED
    BY <1>1, <1>2, <1>3

\* TunnelMonitor::send_event keeps the channel typed.
LEMMA SendType ==
    ASSUME TypeInv, NEW event \in Events,
           event.type = "SelectedGateways" => event.pair \in Pairs, Send(event)
    PROVE  QueueTyped(queue')
BY QueueOfTasks, AppendTyped DEF Send

\* What a step of the monitor has to leave typed.
LEMMA MonitorStepType ==
    ASSUME TypeInv, mon' \in Monitors, mon'.sel = mon.sel, mon.phase # "none",
           QueueTyped(queue'), routes' \in BOOLEAN, UNCHANGED Others
    PROVE  TypeInv'
<1>1. TasksTyped'
    BY TypeParts DEF TasksTyped, QueueTyped, Others
<1>2. EntryTyped
    BY EntryKept DEF Others
<1>3. CallerTyped'
    BY TypeParts, CallerKept DEF Others, CallerTyped
<1> QED
    BY <1>1, <1>2, <1>3, TypeAssembled

\* Every step of the monitor task preserves the type invariant.
LEMMA MonitorType ==
    ASSUME TypeInv, Monitor
    PROVE  TypeInv'
<1> USE QueueOfTasks
<1>0. /\ mon \in Monitors /\ routes \in BOOLEAN
      /\ mon.phase # "none" => mon.sel \in EntryPoints
    BY TypeParts DEF TasksTyped, CallerTyped
<1>1. CASE MonitorSelect
    <2>1. CASE mon' = [mon EXCEPT !.phase = "registering"] /\ UNCHANGED queue
        <3>1. mon' \in Monitors /\ mon'.sel = mon.sel /\ mon.phase # "none"
            BY <1>0, <1>1, <2>1 DEF MonitorSelect, Monitors, MonitorPhases
        <3> QED
            BY <1>0, <1>1, <2>1, <3>1, MonitorStepType DEF MonitorSelect
    <2>2. CASE \E gateway \in Gateways :
                LET pair == [entry |-> gateway, under |-> mon.sel] IN
                /\ mon' = [mon EXCEPT !.phase = "selected", !.pair = pair]
                /\ Send(Event("SelectedGateways", pair, FALSE))
        <3> PICK gateway \in Gateways :
                LET pair == [entry |-> gateway, under |-> mon.sel] IN
                /\ mon' = [mon EXCEPT !.phase = "selected", !.pair = pair]
                /\ Send(Event("SelectedGateways", pair, FALSE))
            BY <2>2
        <3> DEFINE pair  == [entry |-> gateway, under |-> mon.sel]
                   event == Event("SelectedGateways", pair, FALSE)
        <3>1. pair \in Pairs
            BY <1>0, <1>1 DEF MonitorSelect, Pairs
        <3>2. event \in Events /\ event.pair \in Pairs
            BY <3>1 DEF Event, Events
        <3>3. QueueTyped(queue')
            BY <3>2, SendType
        <3>4. mon' \in Monitors /\ mon'.sel = mon.sel /\ mon.phase # "none"
            BY <1>0, <1>1, <3>1 DEF MonitorSelect, Monitors, MonitorPhases
        <3> QED
            BY <1>0, <1>1, <3>3, <3>4, MonitorStepType DEF MonitorSelect
    <2> QED
        BY <1>1, <2>1, <2>2 DEF MonitorSelect
<1>2. ASSUME NEW phase \in MonitorPhases, mon.phase # "none",
             mon' = [mon EXCEPT !.phase = phase]
      PROVE  mon' \in Monitors /\ mon'.sel = mon.sel
    BY <1>0, <1>2 DEF Monitors
<1>3. ASSUME NEW type \in {"InterfaceUp", "Up", "Failure", "Down"},
             NEW pair \in MaybePairs, NEW fatal \in BOOLEAN, Send(Event(type, pair, fatal))
      PROVE  QueueTyped(queue')
    <2>1. Event(type, pair, fatal) \in Events /\ Event(type, pair, fatal).type # "SelectedGateways"
        BY DEF Event, Events, MaybePairs
    <2> QED
        BY <1>3, <2>1, SendType
<1>4. mon.pair \in MaybePairs /\ NoPair \in MaybePairs
    BY <1>0 DEF Monitors, MaybePairs
<1>5. CASE MonitorProceed
    BY <1>0, <1>2, <1>5, MonitorStepType DEF MonitorProceed, MonitorPhases
<1>6. CASE MonitorRegister
    BY <1>0, <1>2, <1>3, <1>4, <1>6, MonitorStepType DEF MonitorRegister, MonitorPhases
<1>7. CASE MonitorAnnounce
    <2>1. routes' \in BOOLEAN
        BY <1>7 DEF MonitorAnnounce
    <2> QED
        BY <1>0, <1>2, <1>3, <1>4, <1>7, <2>1, MonitorStepType DEF MonitorAnnounce, MonitorPhases
<1>8. CASE MonitorUp
    BY <1>0, <1>2, <1>3, <1>4, <1>8, MonitorStepType DEF MonitorUp, MonitorPhases
<1>9. CASE MonitorEnds
    BY <1>0, <1>2, <1>3, <1>4, <1>9, MonitorStepType DEF MonitorEnds, MonitorPhases
<1>10. CASE MonitorFails
    BY <1>0, <1>2, <1>10, MonitorStepType DEF MonitorFails, MonitorPhases
<1>11. CASE MonitorDown
    BY <1>0, <1>2, <1>3, <1>4, <1>11, MonitorStepType DEF MonitorDown, MonitorPhases
<1>12. CASE MonitorExits
    BY <1>0, <1>2, <1>12, MonitorStepType DEF MonitorExits, MonitorPhases
<1> QED
    BY <1>1, <1>5, <1>6, <1>7, <1>8, <1>9, <1>10, <1>11, <1>12 DEF Monitor

-----------------------------------------------------------------------------
\* A step of the machine, of its monitor or of the environment keeps the types.
LEMMA NextType ==
    ASSUME TypeInv, [Next]_vars
    PROVE  TypeInv'
<1>1. CASE UNCHANGED vars
    <2>1. EntryTyped
        BY <1>1, EntryKept DEF vars, shared
    <2> QED
        BY <1>1, <2>1, TypeParts, KeptType DEF vars, shared, CallerTyped
<1>2. CASE User
    BY <1>2, DisconnectedType, ConnectingCommandsType, ConnectedType, DisconnectingType, ErrorType,
       OfflineType DEF User
<1>3. CASE Connectivity
    BY <1>3, DisconnectedType, ConnectingCommandsType, ConnectedType, OfflineType DEF Connectivity
<1>4. CASE Shutdown
    BY <1>4, DisconnectedType, ConnectingCommandsType, ConnectedType, DisconnectingType, ErrorType,
       OfflineType DEF Shutdown
<1>5. CASE MonitorEvent
    BY <1>5, ConnectingEventsType, ConnectedType, DisconnectingType DEF MonitorEvent
<1> QED
    BY <1>1, <1>2, <1>3, <1>4, <1>5, EnvironmentType, IdleType, ConnectingFuturesType, MonitorType
       DEF Next

\* Every variable of the machine, its monitor and its surroundings keeps its type.
THEOREM TypeInvariant == Spec => []TypeInv
<1>1. Init => TypeInv
    BY InitType
<1>2. TypeInv /\ [Next]_vars => TypeInv'
    BY NextType
<1> QED
    BY <1>1, <1>2, PTL DEF Spec

\* TypeOK, for every set of gateways, selection inputs and settings.
THEOREM TypeCorrect == Spec => []TypeOK
<1>1. TypeInv => TypeOK
    BY DEF TypeInv
<1> QED
    BY <1>1, TypeInvariant, PTL
=============================================================================
