---------------------- MODULE TunnelStateMachineProofs ----------------------
(***************************************************************************)
(* The contract of the states, for every set of gateways, selection inputs *)
(* and settings; that the machine implements KillSwitch; and that no step  *)
(* opens a wanted kill-switch.                                             *)
(***************************************************************************)
EXTENDS TunnelStateMachineTypes

\* The upkeep of the API allow-list runs in the idle states only, so nothing re-applies
\* their policy over the one of a session.
UpkeepIsIdle == sm.idle # "off" => sm.state \in {"Disconnected", "Error"}

\* The contract is inductive once upkeep is known to be idle.
ContractInv == StateContract /\ UpkeepIsIdle

\* What the contract speaks of.
contracted == <<sm, settings, firewall, pins, dns, api>>

-----------------------------------------------------------------------------
(***************************************************************************)
(* Entering a state establishes its contract.                              *)
(***************************************************************************)
LEMMA EnterErrorContract ==
    ASSUME NEW f, NEW s, NEW p, NEW d, NEW a, NEW reason, EnterError(f, s, p, d, a, reason),
           settings' = s, api' = a
    PROVE  ContractInv'
<1>1. sm'.state = "Error"
    BY BlankType DEF EnterError, MachineStates
<1>2. CASE firewall' = Applied(s, IdlePolicy(s)) /\ pins' = IdlePins(s, a)
    BY <1>1, <1>2 DEF ContractInv, StateContract, UpkeepIsIdle, Enforced, Applied
<1>3. CASE firewall' \in Refused(f, s, IdlePolicy(s))
    <2>1. ~firewall'.known
        BY <1>3 DEF Refused
    <2> QED
        BY <1>1, <2>1 DEF ContractInv, StateContract, UpkeepIsIdle
<1> QED
    BY <1>2, <1>3 DEF EnterError

\* DisconnectedState::enter establishes the contract of the state it ends in:
\* Disconnected with the idle policy, or Error when the firewall refused it.
LEMMA EnterDisconnectedContract ==
    ASSUME NEW f, NEW s, NEW p, NEW d, NEW a, EnterDisconnected(f, s, p, d, a),
           settings' = s, api' = a
    PROVE  ContractInv'
<1>1. CASE \E f1 \in Refused(f, s, IdlePolicy(s)) : EnterError(f1, s, p, d, a, "SetFirewallPolicy")
    BY <1>1, EnterErrorContract
<1>2. CASE /\ sm' = [Blank EXCEPT !.state = "Disconnected", !.idle = Schedule(s, a)]
           /\ firewall' = Applied(s, IdlePolicy(s))
           /\ pins' = IdlePins(s, a)
           /\ dns' \in DnsReset(d, "idle")
    <2>1. sm'.state = "Disconnected"
        BY <1>2, BlankType DEF MachineStates
    <2>2. dns' # "tunnel"
        BY <1>2 DEF DnsReset
    <2> QED
        BY <1>2, <2>1, <2>2 DEF ContractInv, StateContract, UpkeepIsIdle, Enforced, Applied
<1> QED
    BY <1>1, <1>2 DEF EnterDisconnected

\* OfflineState::enter establishes the contract of Offline.
LEMMA EnterOfflineContract ==
    ASSUME NEW f, NEW s, NEW p, NEW d, NEW reconnect, NEW pair,
           EnterOffline(f, s, p, d, reconnect, pair), settings' = s
    PROVE  ContractInv'
<1>1. sm'.state = "Offline" /\ sm'.idle = "off"
    BY BlankType DEF EnterOffline, MachineStates, Blank
<1>2. CASE firewall' = Applied(s, OfflinePolicy(s))
    BY <1>1, <1>2 DEF ContractInv, StateContract, UpkeepIsIdle, Enforced, Applied
<1>3. CASE firewall' \in Refused(f, s, OfflinePolicy(s))
    <2>1. ~firewall'.known
        BY <1>3 DEF Refused
    <2> QED
        BY <1>1, <2>1 DEF ContractInv, StateContract, UpkeepIsIdle
<1> QED
    BY <1>2, <1>3 DEF EnterOffline

\* ConnectingState::enter establishes the contract of Connecting, Offline or
\* Error, whichever it ends in.
LEMMA EnterConnectingContract ==
    ASSUME NEW f, NEW s, NEW p, NEW d, NEW a, NEW pair, EnterConnecting(f, s, p, d, a, pair),
           settings' = s, api' = a
    PROVE  ContractInv'
<1> DEFINE params == [entry |-> EntryOf(pair), tun |-> FALSE]
<1>1. CASE EnterOffline(f, s, p, d, TRUE, pair)
    BY <1>1, EnterOfflineContract
<1>2. CASE \E f1 \in Refused(f, s, ConnectingPolicy(params, s)) :
                EnterError(f1, s, p, d, a, "SetFirewallPolicy")
    BY <1>2, EnterErrorContract
<1>3. CASE /\ sm' = [Blank EXCEPT !.state = "Connecting", !.gateways = pair, !.step = "delay",
                                  !.params = params]
           /\ firewall' = Applied(s, ConnectingPolicy(params, s))
    <2>1. sm'.state = "Connecting" /\ sm'.params = params /\ sm'.idle = "off"
        BY <1>3 DEF Blank
    <2> QED
        BY <1>3, <2>1 DEF ContractInv, StateContract, UpkeepIsIdle, Enforced, Applied
<1> QED
    BY <1>1, <1>2, <1>3 DEF EnterConnecting

\* Disconnecting promises nothing of the firewall, so entering it is enough.
LEMMA EnterDisconnectingContract ==
    ASSUME NEW after, NEW pair, NEW reason, NEW reconnect,
           EnterDisconnecting(after, pair, reason, reconnect)
    PROVE  ContractInv'
<1>1. sm'.state = "Disconnecting" /\ sm'.idle = "off"
    BY DEF EnterDisconnecting, Blank
<1> QED
    BY <1>1 DEF ContractInv, StateContract, UpkeepIsIdle

\* No state machine, no contract.
LEMMA ExitContract ==
    ASSUME NEW state \in {"Down", "Finished"}, Exit(state)
    PROVE  ContractInv'
<1>1. sm'.state = state /\ sm'.idle = "off"
    BY DEF Exit, Blank
<1> QED
    BY <1>1 DEF ContractInv, StateContract, UpkeepIsIdle

\* The contract speaks of these variables only.
LEMMA ContractKept ==
    ASSUME ContractInv, UNCHANGED contracted
    PROVE  ContractInv'
BY DEF ContractInv, StateContract, UpkeepIsIdle, Enforced, contracted

\* A re-apply that stays in its idle state.
LEMMA IdleAppliedContract ==
    ASSUME TypeInv, sm.state \in {"Disconnected", "Error"}, NEW s, NEW a, NEW idle,
           firewall' = Applied(s, IdlePolicy(s)), pins' = IdlePins(s, a),
           sm' = [sm EXCEPT !.idle = idle], settings' = s, api' = a,
           sm.state = "Disconnected" => dns' # "tunnel"
    PROVE  ContractInv'
<1>1. sm'.state = sm.state
    BY TypeParts DEF MachineStates
<1> QED
    BY <1>1 DEF ContractInv, StateContract, UpkeepIsIdle, Enforced, Applied

-----------------------------------------------------------------------------
(***************************************************************************)
(* Every action keeps the contract.                                        *)
(***************************************************************************)
LEMMA InitContract == Init => ContractInv
BY DEF Init, Blank, ContractInv, StateContract, UpkeepIsIdle

\* What happens around the machine (start, crash, network, monitor task) keeps
\* the contract.
LEMMA EnvironmentContract ==
    ASSUME TypeInv, ContractInv,
           \/ Spawn \/ Crash \/ RequestShutdown \/ ConnectivityChanges \/ OfflineMonitorChecks
           \/ EndpointsAge \/ DetachedEnds \/ Monitor
    PROVE  ContractInv'
<1>1. CASE Spawn
    BY <1>1, EnterOfflineContract, EnterDisconnectedContract DEF Spawn
<1>2. CASE Crash
    BY <1>2, ExitContract DEF Crash
<1>3. CASE RequestShutdown \/ ConnectivityChanges \/ OfflineMonitorChecks
    BY <1>3, ContractKept
       DEF RequestShutdown, ConnectivityChanges, OfflineMonitorChecks, shared, contracted
<1>4. CASE EndpointsAge
    BY <1>4 DEF EndpointsAge, ContractInv, StateContract, UpkeepIsIdle, Enforced, IdlePins
<1>5. CASE DetachedEnds
    BY <1>5, ContractKept DEF DetachedEnds, contracted
<1>6. CASE Monitor
    BY <1>6, ContractKept
       DEF Monitor, MonitorSelect, MonitorProceed, MonitorRegister, MonitorAnnounce, MonitorUp,
           MonitorEnds, MonitorFails, MonitorDown, MonitorExits, Others, contracted
<1> QED
    BY <1>1, <1>2, <1>3, <1>4, <1>5, <1>6

\* The select! arms of DisconnectedState keep the contract.
LEMMA DisconnectedContract ==
    ASSUME TypeInv, ContractInv,
           \/ DisconnectedConnect \/ DisconnectedSetSettings \/ DisconnectedConnectivity
           \/ DisconnectedShutdown
    PROVE  ContractInv'
<1>1. CASE DisconnectedConnect
    BY <1>1, EnterConnectingContract DEF DisconnectedConnect
<1>2. CASE DisconnectedSetSettings
    <2> PICK s \in Settings,
            d \in DnsReset(dns, "idle") \cup {dns} :
            /\ settings' = s
            /\ \/ /\ firewall' = Applied(s, IdlePolicy(s))
                  /\ pins' = IdlePins(s, api)
                  /\ sm' = [sm EXCEPT !.idle = Schedule(s, api)]
                  /\ dns' = d
                  /\ UNCHANGED networking
               \/ \E f \in Refused(firewall, s, IdlePolicy(s)) :
                    EnterError(f, s, pins, d, api, "SetFirewallPolicy")
        BY <1>2 DEF DisconnectedSetSettings
    <2>1. sm.state = "Disconnected" /\ UNCHANGED api
        BY <1>2 DEF DisconnectedSetSettings
    <2>2. d # "tunnel"
        BY <2>1 DEF ContractInv, StateContract, DnsReset
    <2> QED
        BY <2>1, <2>2, EnterErrorContract, IdleAppliedContract
<1>3. CASE DisconnectedConnectivity
    BY <1>3, EnterOfflineContract, ContractKept DEF DisconnectedConnectivity, contracted
<1>4. CASE DisconnectedShutdown
    BY <1>4, ExitContract DEF DisconnectedShutdown, Finish
<1> QED
    BY <1>1, <1>2, <1>3, <1>4

\* The allow-list upkeep keeps it: a re-apply that is refused in Disconnected
\* ends in Error.
LEMMA IdleContract ==
    ASSUME TypeInv, ContractInv, Idle
    PROVE  ContractInv'
<1>1. CASE IdleResolved
    <2>1. sm.state \in {"Disconnected", "Error"}
        BY <1>1 DEF IdleResolved, ContractInv, UpkeepIsIdle
    <2>2. CASE /\ firewall' = Applied(settings, IdlePolicy(settings))
               /\ pins' = IdlePins(settings, "live")
               /\ sm' = [sm EXCEPT !.idle = "wait"]
               /\ UNCHANGED <<dns, networking>>
        <3>1. sm.state = "Disconnected" => dns' # "tunnel"
            BY <2>2 DEF ContractInv, StateContract
        <3> QED
            BY <1>1, <2>1, <2>2, <3>1, IdleAppliedContract DEF IdleResolved
    <2>3. CASE \E f \in Refused(firewall, settings, IdlePolicy(settings)) :
                    EnterError(f, settings, pins, dns, "live", "SetFirewallPolicy")
        BY <1>1, <2>3, EnterErrorContract DEF IdleResolved
    <2>4. CASE /\ sm.state = "Error"
               /\ firewall' \in Refused(firewall, settings, IdlePolicy(settings))
               /\ sm' = [sm EXCEPT !.idle = "off"]
        <3>1. sm'.state = "Error" /\ ~firewall'.known
            BY <2>4, TypeParts DEF MachineStates, Refused
        <3> QED
            BY <3>1 DEF ContractInv, StateContract, UpkeepIsIdle
    <2> QED
        BY <1>1, <2>2, <2>3, <2>4 DEF IdleResolved
<1>2. CASE IdleResolveFails \/ IdleTimer
    <2>1. sm.idle # "off" /\ sm'.state = sm.state /\ sm'.params = sm.params
            /\ sm'.gateways = sm.gateways /\ UNCHANGED shared
        BY <1>2, TypeParts DEF IdleResolveFails, IdleTimer, MachineStates
    <2> QED
        BY <2>1 DEF ContractInv, StateContract, UpkeepIsIdle, Enforced, shared
<1> QED
    BY <1>1, <1>2 DEF Idle

\* The select! arms of ErrorState keep the contract.
LEMMA ErrorContract ==
    ASSUME TypeInv, ContractInv,
           ErrorConnect \/ ErrorDisconnect \/ ErrorSetSettings \/ ErrorShutdown
    PROVE  ContractInv'
<1>1. CASE ErrorConnect
    BY <1>1, EnterConnectingContract DEF ErrorConnect
<1>2. CASE ErrorDisconnect
    BY <1>2, EnterOfflineContract, EnterDisconnectedContract DEF ErrorDisconnect
<1>3. CASE ErrorSetSettings
    <2> PICK s \in Settings \ {settings} :
            /\ settings' = s
            /\ \/ /\ s.allow_lan = settings.allow_lan /\ s.killswitch = settings.killswitch
                  /\ UNCHANGED <<sm, firewall, pins, dns, networking>>
               \/ /\ firewall' \in Refused(firewall, s, IdlePolicy(s))
                  /\ UNCHANGED <<sm, pins, dns, networking>>
               \/ EnterDisconnected(Applied(s, IdlePolicy(s)), s, IdlePins(s, api), dns, api)
               \/ /\ firewall' = Applied(s, IdlePolicy(s))
                  /\ pins' = IdlePins(s, api)
                  /\ sm' = [sm EXCEPT !.idle = Schedule(s, api)]
                  /\ UNCHANGED <<dns, networking>>
        BY <1>3 DEF ErrorSetSettings
    <2>1. sm.state = "Error" /\ UNCHANGED api
        BY <1>3 DEF ErrorSetSettings
    <2>2. CASE /\ s.allow_lan = settings.allow_lan /\ s.killswitch = settings.killswitch
               /\ UNCHANGED <<sm, firewall, pins, dns, networking>>
        BY <2>1, <2>2
           DEF ContractInv, StateContract, UpkeepIsIdle, Enforced, IdlePolicy, IdlePins
    <2>3. CASE /\ firewall' \in Refused(firewall, s, IdlePolicy(s))
               /\ UNCHANGED <<sm, pins, dns, networking>>
        <3>1. ~firewall'.known
            BY <2>3 DEF Refused
        <3> QED
            BY <2>1, <2>3, <3>1 DEF ContractInv, StateContract, UpkeepIsIdle
    <2>4. CASE EnterDisconnected(Applied(s, IdlePolicy(s)), s, IdlePins(s, api), dns, api)
        BY <2>1, <2>4, EnterDisconnectedContract
    <2>5. CASE /\ firewall' = Applied(s, IdlePolicy(s))
               /\ pins' = IdlePins(s, api)
               /\ sm' = [sm EXCEPT !.idle = Schedule(s, api)]
        BY <2>1, <2>5, IdleAppliedContract
    <2> QED
        BY <2>2, <2>3, <2>4, <2>5
<1>4. CASE ErrorShutdown
    BY <1>4, ExitContract DEF ErrorShutdown, Finish
<1> QED
    BY <1>1, <1>2, <1>3, <1>4

\* The select! arms of OfflineState keep the contract.
LEMMA OfflineContract ==
    ASSUME TypeInv, ContractInv,
           \/ OfflineConnect \/ OfflineDisconnect \/ OfflineSetSettings \/ OfflineConnectivity
           \/ OfflineShutdown
    PROVE  ContractInv'
<1>1. CASE OfflineConnect
    BY <1>1, EnterOfflineContract DEF OfflineConnect
<1>2. CASE OfflineDisconnect
    <2>1. sm'.state = sm.state /\ sm'.idle = sm.idle /\ sm.state = "Offline" /\ UNCHANGED shared
        BY <1>2, TypeParts DEF OfflineDisconnect, MachineStates
    <2> QED
        BY <2>1 DEF ContractInv, StateContract, UpkeepIsIdle, Enforced, shared
<1>3. CASE OfflineSetSettings
    <2> PICK s \in Settings \ {settings} :
            /\ settings' = s
            /\ sm' = [sm EXCEPT !.gateways = IF s.entry_point # settings.entry_point THEN NoPair ELSE @]
            /\ IF s.allow_lan # settings.allow_lan \/ s.killswitch # settings.killswitch
                THEN firewall' \in {Applied(s, OfflinePolicy(s))} \cup
                                   Refused(firewall, s, OfflinePolicy(s))
                ELSE UNCHANGED firewall
        BY <1>3 DEF OfflineSetSettings
    <2>1. sm'.state = "Offline" /\ sm.state = "Offline" /\ sm'.idle = sm.idle
        BY <1>3, TypeParts DEF OfflineSetSettings, MachineStates
    <2>2. CASE firewall' = Applied(s, OfflinePolicy(s))
        BY <2>1, <2>2 DEF ContractInv, StateContract, UpkeepIsIdle, Enforced, Applied
    <2>3. CASE firewall' \in Refused(firewall, s, OfflinePolicy(s))
        <3>1. ~firewall'.known
            BY <2>3 DEF Refused
        <3> QED
            BY <2>1, <3>1 DEF ContractInv, StateContract, UpkeepIsIdle
    <2>4. CASE /\ s.allow_lan = settings.allow_lan /\ s.killswitch = settings.killswitch
               /\ UNCHANGED firewall
        BY <2>1, <2>4 DEF ContractInv, StateContract, UpkeepIsIdle, Enforced, OfflinePolicy
    <2> QED
        BY <2>2, <2>3, <2>4
<1>4. CASE OfflineConnectivity
    BY <1>4, EnterConnectingContract, EnterDisconnectedContract, ContractKept
       DEF OfflineConnectivity, contracted
<1>5. CASE OfflineShutdown
    BY <1>5, ExitContract DEF OfflineShutdown, Finish
<1> QED
    BY <1>1, <1>2, <1>3, <1>4, <1>5

\* The Connecting policy with new parameters is applied, or the session ends.
LEMMA AdmitContract ==
    ASSUME TypeInv, ContractInv, sm.state = "Connecting", NEW params, NEW pair,
           Admit(params, pair), UNCHANGED settings
    PROVE  ContractInv'
<1>1. CASE /\ firewall' = Applied(settings, ConnectingPolicy(params, settings))
           /\ sm' = [sm EXCEPT !.params = params, !.gateways = pair]
    <2>1. sm'.state = "Connecting" /\ sm'.params = params /\ sm'.idle = sm.idle
        BY <1>1, TypeParts DEF MachineStates
    <2> QED
        BY <1>1, <2>1 DEF ContractInv, StateContract, UpkeepIsIdle, Enforced, Applied
<1>2. CASE EnterDisconnecting("Error", NoPair, "SetFirewallPolicy", FALSE)
    BY <1>2, EnterDisconnectingContract
<1> QED
    BY <1>1, <1>2 DEF Admit

\* The futures Connecting waits for (delay, API addresses) keep the contract.
LEMMA ConnectingFuturesContract ==
    ASSUME TypeInv, ContractInv, Connecting
    PROVE  ContractInv'
<1>1. CASE ConnectingDelay
    <2>1. /\ sm.state = "Connecting" /\ sm'.state = "Connecting" /\ sm'.params = sm.params
          /\ sm'.idle = sm.idle /\ UNCHANGED shared
        BY <1>1, TypeParts DEF ConnectingDelay, MachineStates
    <2> QED
        BY <2>1 DEF ContractInv, StateContract, UpkeepIsIdle, Enforced, shared
<1>2. CASE ConnectingResolveFails
    BY <1>2, EnterConnectingContract DEF ConnectingResolveFails, Reconnect
<1>3. CASE ConnectingResolved
    <2> DEFINE policy == ConnectingPolicy(sm.params, settings)
    <2>1. CASE /\ firewall' = Applied(settings, policy)
               /\ \E pair \in {sm.gateways, NoPair} :
                    sm' = [sm EXCEPT !.step = "monitor", !.gateways = pair]
        <3>1. /\ sm'.state = "Connecting" /\ sm'.params = sm.params /\ sm'.idle = sm.idle
              /\ sm.state = "Connecting" /\ UNCHANGED settings
            BY <1>3, <2>1, TypeParts DEF ConnectingResolved, MachineStates
        <3> QED
            BY <2>1, <3>1 DEF ContractInv, StateContract, UpkeepIsIdle, Enforced, Applied
    <2>2. CASE \/ \E f \in Refused(firewall, settings, policy) :
                     EnterError(f, settings, pins, dns, "live", "SetFirewallPolicy")
               \/ EnterError(Applied(settings, policy), settings, TRUE, dns, "live", "Other")
        BY <1>3, <2>2, EnterErrorContract DEF ConnectingResolved
    <2> QED
        BY <1>3, <2>1, <2>2 DEF ConnectingResolved
<1> QED
    BY <1>1, <1>2, <1>3 DEF Connecting

\* The monitor's events, as Connecting handles them, keep the contract.
LEMMA ConnectingEventsContract ==
    ASSUME TypeInv, ContractInv,
           \/ ConnectingSelectedGateways \/ ConnectingInterfaceUp \/ ConnectingUp
           \/ ConnectingFailure \/ ConnectingDown
    PROVE  ContractInv'
<1>1. CASE ConnectingSelectedGateways \/ ConnectingInterfaceUp
    BY <1>1, AdmitContract DEF ConnectingSelectedGateways, ConnectingInterfaceUp, NextEvent
<1>2. CASE ConnectingUp
    <2> DEFINE policy == ConnectedPolicy(sm.gateways, settings)
    <2>1. CASE /\ sm' = [Blank EXCEPT !.state = "Connected", !.gateways = sm.gateways]
               /\ firewall' = Applied(settings, policy)
        <3>1. sm'.state = "Connected" /\ sm'.gateways = sm.gateways /\ sm'.idle = "off"
            BY <2>1 DEF Blank
        <3> QED
            BY <1>2, <2>1, <3>1
               DEF ConnectingUp, ContractInv, StateContract, UpkeepIsIdle, Enforced, Applied
    <2> QED
        BY <1>2, <2>1, EnterDisconnectingContract DEF ConnectingUp, EnterConnected
<1>3. CASE ConnectingFailure
    <2>1. /\ sm.state = "Connecting" /\ sm'.state = "Connecting" /\ sm'.params = sm.params
          /\ sm'.idle = sm.idle /\ UNCHANGED shared
        BY <1>3, TypeParts DEF ConnectingFailure, NextEvent, MachineStates
    <2> QED
        BY <2>1 DEF ContractInv, StateContract, UpkeepIsIdle, Enforced, shared
<1>4. CASE ConnectingDown
    BY <1>4, EnterDisconnectingContract, EnterConnectingContract DEF ConnectingDown, Reconnect
<1> QED
    BY <1>1, <1>2, <1>3, <1>4

\* Commands, connectivity and shutdown in Connecting keep the contract.
LEMMA ConnectingCommandsContract ==
    ASSUME TypeInv, ContractInv,
           \/ ConnectingConnect \/ ConnectingDisconnect \/ ConnectingShutdown
           \/ ConnectingSetSettings \/ ConnectingConnectivity
    PROVE  ContractInv'
<1>1. CASE ConnectingConnect
    BY <1>1, EnterDisconnectingContract, EnterConnectingContract
       DEF ConnectingConnect, ConnectingTearDown
<1>2. CASE ConnectingDisconnect \/ ConnectingShutdown
    BY <1>2, EnterDisconnectingContract, EnterDisconnectedContract
       DEF ConnectingDisconnect, ConnectingShutdown, ConnectingStop, ConnectingTearDown
<1>3. CASE ConnectingSetSettings
    <2> PICK s \in Settings \ {settings} :
            LET policy  == ConnectingPolicy(sm.params, s)
                reapply == s.allow_lan # settings.allow_lan \/ s.killswitch # settings.killswitch
                f       == IF reapply THEN Applied(s, policy) ELSE firewall
                pair    == IF s.entry_point # settings.entry_point THEN NoPair ELSE sm.gateways
            IN  /\ settings' = s
                /\ \/ \E f1 \in Refused(firewall, s, policy) :
                            EnterError(f1, s, pins, dns, api, "SetFirewallPolicy")
                   \/ /\ firewall' = f
                      /\ UNCHANGED <<sm, pins, dns, routes, networking, tasks>>
                   \/ EnterDisconnecting("Reconnect", pair, "none", FALSE)
                   \/ EnterConnecting(f, s, pins, dns, api, pair)
        BY <1>3 DEF ConnectingSetSettings
    <2> DEFINE policy  == ConnectingPolicy(sm.params, s)
               reapply == s.allow_lan # settings.allow_lan \/ s.killswitch # settings.killswitch
               f       == IF reapply THEN Applied(s, policy) ELSE firewall
    <2>1. sm.state = "Connecting" /\ UNCHANGED api
        BY <1>3 DEF ConnectingSetSettings
    <2>2. CASE firewall' = f /\ UNCHANGED <<sm, pins, dns, routes, networking, tasks>>
        <3>1. CASE reapply
            BY <2>1, <2>2, <3>1 DEF ContractInv, StateContract, UpkeepIsIdle, Enforced, Applied
        <3>2. CASE ~reapply
            BY <2>1, <2>2, <3>2
               DEF ContractInv, StateContract, UpkeepIsIdle, Enforced, ConnectingPolicy
        <3> QED
            BY <3>1, <3>2
    <2> QED
        BY <2>1, <2>2, EnterErrorContract, EnterDisconnectingContract, EnterConnectingContract
<1>4. CASE ConnectingConnectivity
    BY <1>4, EnterDisconnectingContract, EnterOfflineContract, ContractKept
       DEF ConnectingConnectivity, ConnectingTearDown, contracted
<1> QED
    BY <1>1, <1>2, <1>3, <1>4

\* The select! arms of ConnectedState keep the contract.
LEMMA ConnectedContract ==
    ASSUME TypeInv, ContractInv,
           \/ ConnectedConnect \/ ConnectedDisconnect \/ ConnectedShutdown \/ ConnectedSetSettings
           \/ ConnectedEvent \/ ConnectedDown \/ ConnectedConnectivity
    PROVE  ContractInv'
<1>1. CASE ConnectedConnect \/ ConnectedDisconnect \/ ConnectedShutdown
    BY <1>1, EnterDisconnectingContract
       DEF ConnectedConnect, ConnectedDisconnect, ConnectedShutdown, ConnectedTearDown
<1>2. CASE ConnectedSetSettings
    <2> PICK s \in Settings \ {settings} :
            LET lan    == [settings EXCEPT !.allow_lan = s.allow_lan]
                policy == ConnectedPolicy(sm.gateways, lan)
                pair   == IF s.entry_point # settings.entry_point THEN NoPair ELSE sm.gateways
            IN  \/ /\ \E f \in Refused(firewall, lan, policy) :
                        EnterError(f, settings, pins, dns, api, "SetFirewallPolicy")
                   /\ UNCHANGED settings
                \/ /\ firewall' = IF lan # settings THEN Applied(lan, policy) ELSE firewall
                   /\ settings' = s /\ HotOnly(s)
                   /\ UNCHANGED <<sm, pins, dns, routes, networking, tasks>>
                \/ EnterDisconnecting("Reconnect", pair, "none", "Reconnect" = "Offline")
        BY <1>2 DEF ConnectedSetSettings, ConnectedTearDown
    <2> DEFINE lan    == [settings EXCEPT !.allow_lan = s.allow_lan]
               policy == ConnectedPolicy(sm.gateways, lan)
    <2>1. sm.state = "Connected" /\ UNCHANGED api
        BY <1>2 DEF ConnectedSetSettings
    <2>2. CASE /\ firewall' = IF lan # settings THEN Applied(lan, policy) ELSE firewall
               /\ settings' = s /\ HotOnly(s)
               /\ UNCHANGED <<sm, pins, dns, routes, networking, tasks>>
        <3>1. /\ lan.killswitch = s.killswitch /\ lan.allow_lan = s.allow_lan
              /\ lan = settings => settings.allow_lan = s.allow_lan
            BY <2>2, FieldTypes DEF HotOnly, AllSettings
        <3>2. policy = ConnectedPolicy(sm.gateways, s)
            BY <3>1 DEF ConnectedPolicy
        <3>3. CASE lan # settings
            BY <2>1, <2>2, <3>1, <3>2, <3>3
               DEF ContractInv, StateContract, UpkeepIsIdle, Enforced, Applied
        <3>4. CASE lan = settings
            BY <2>1, <2>2, <3>1, <3>2, <3>4
               DEF ContractInv, StateContract, UpkeepIsIdle, Enforced
        <3> QED
            BY <3>3, <3>4
    <2> QED
        BY <2>1, <2>2, EnterErrorContract, EnterDisconnectingContract
<1>3. CASE ConnectedEvent
    BY <1>3, ContractKept DEF ConnectedEvent, shared, contracted
<1>4. CASE ConnectedDown
    BY <1>4, EnterErrorContract, EnterConnectingContract DEF ConnectedDown
<1>5. CASE ConnectedConnectivity
    BY <1>5, EnterDisconnectingContract, ContractKept
       DEF ConnectedConnectivity, ConnectedTearDown, contracted
<1> QED
    BY <1>1, <1>2, <1>3, <1>4, <1>5

\* The select! arms of DisconnectingState keep the contract.
LEMMA DisconnectingContract ==
    ASSUME TypeInv, ContractInv,
           \/ DisconnectingDone \/ DisconnectingConnect \/ DisconnectingDisconnect
           \/ DisconnectingSetSettings \/ DisconnectingShutdown
    PROVE  ContractInv'
<1>1. CASE DisconnectingDone
    <2>1. sm.after \in {"Nothing", "Error", "Reconnect", "Offline"}
        BY TypeParts DEF MachineStates
    <2> QED
        BY <1>1, <2>1, EnterDisconnectedContract, EnterErrorContract, EnterConnectingContract,
           EnterOfflineContract DEF DisconnectingDone
<1>2. CASE DisconnectingShutdown
    BY <1>2, EnterDisconnectedContract DEF DisconnectingShutdown
<1>3. CASE DisconnectingConnect \/ DisconnectingDisconnect \/ DisconnectingSetSettings
    <2>1. sm'.state = "Disconnecting" /\ sm.state = "Disconnecting" /\ sm'.idle = sm.idle
        BY <1>3, TypeParts DEF DisconnectingConnect, DisconnectingDisconnect,
                               DisconnectingSetSettings, MachineStates
    <2> QED
        BY <2>1 DEF ContractInv, StateContract, UpkeepIsIdle
<1> QED
    BY <1>1, <1>2, <1>3

\* Every step keeps the contract.
LEMMA NextContract ==
    ASSUME TypeInv, ContractInv, [Next]_vars
    PROVE  ContractInv'
<1>1. CASE UNCHANGED vars
    BY <1>1, ContractKept DEF vars, shared, contracted
<1>2. CASE User
    BY <1>2, DisconnectedContract, ConnectingCommandsContract, ConnectedContract,
       DisconnectingContract, ErrorContract, OfflineContract DEF User
<1>3. CASE Connectivity
    BY <1>3, DisconnectedContract, ConnectingCommandsContract, ConnectedContract, OfflineContract
       DEF Connectivity
<1>4. CASE Shutdown
    BY <1>4, DisconnectedContract, ConnectingCommandsContract, ConnectedContract,
       DisconnectingContract, ErrorContract, OfflineContract DEF Shutdown
<1>5. CASE MonitorEvent
    BY <1>5, ConnectingEventsContract, ConnectedContract, DisconnectingContract DEF MonitorEvent
<1> QED
    BY <1>1, <1>2, <1>3, <1>4, <1>5, EnvironmentContract, IdleContract, ConnectingFuturesContract
       DEF Next

\* The contract, with the upkeep confined to the two idle states, is inductive.
THEOREM ContractInvariant == Spec => []ContractInv
<1>1. Init => ContractInv
    BY InitContract
<1>2. TypeInv /\ ContractInv /\ [Next]_vars => ContractInv'
    BY NextContract
<1> QED
    BY <1>1, <1>2, TypeInvariant, PTL DEF Spec

\* The module table of mod.rs: each state keeps its policy in the firewall, its pins on the
\* API clients and the tunnel out of dnsmasq, whatever path led to it.
THEOREM ContractHolds == Spec => []StateContract
<1>1. ContractInv => StateContract
    BY DEF ContractInv
<1> QED
    BY <1>1, ContractInvariant, PTL

-----------------------------------------------------------------------------
(***************************************************************************)
(* The machine implements KillSwitch.                                      *)
(***************************************************************************)
Wall(f) == f.live # Open

\* What entering a state does to the wall, when the firewall was f.
Walled(f, s) ==
    \/ sm'.state \in {"Disconnected", "Connecting"} /\ (Wall(firewall') <=> s.killswitch)
    \/ /\ sm'.state \in {"Error", "Offline"}
       /\ (Wall(firewall') <=> Wall(f)) \/ (Wall(firewall') <=> s.killswitch)

\* An applied policy that blocks is a wall exactly when the kill-switch is on.
LEMMA AppliedWall ==
    ASSUME NEW s, NEW policy, policy.kind # "open"
    PROVE  Wall(Applied(s, policy)) <=> s.killswitch
BY DEF Wall, Applied, Open, Policy

\* A refused policy leaves the wall as it was, or as the kill-switch wants it:
\* never open where it was closed and wanted.
LEMMA RefusedWall ==
    ASSUME NEW f, NEW s, NEW policy, policy.kind # "open", NEW f1 \in Refused(f, s, policy)
    PROVE  (Wall(f1) <=> Wall(f)) \/ (Wall(f1) <=> s.killswitch)
<1>1. Emergency # Open /\ policy # Open
    BY DEF Emergency, Open, Policy
<1>2. f1.live = f.live \/ (s.killswitch /\ f1.live \in {policy, Emergency})
        \/ (~s.killswitch /\ f1.live = Open)
    BY DEF Refused
<1> QED
    BY <1>1, <1>2 DEF Wall

\* No state of the machine asks for the open policy.
LEMMA PolicyKinds ==
    ASSUME NEW s, NEW params, NEW pair
    PROVE  /\ IdlePolicy(s).kind # "open" /\ OfflinePolicy(s).kind # "open"
           /\ ConnectingPolicy(params, s).kind # "open" /\ ConnectedPolicy(pair, s).kind # "open"
BY DEF IdlePolicy, OfflinePolicy, ConnectingPolicy, ConnectedPolicy, Policy

\* ErrorState::enter never opens a wanted wall.
LEMMA EnterErrorWalled ==
    ASSUME NEW f, NEW s, NEW p, NEW d, NEW a, NEW reason, EnterError(f, s, p, d, a, reason)
    PROVE  Walled(f, s) /\ sm'.state = "Error"
<1>1. sm'.state = "Error"
    BY DEF EnterError, Blank
<1>2. IdlePolicy(s).kind # "open"
    BY PolicyKinds
<1>3. (Wall(firewall') <=> Wall(f)) \/ (Wall(firewall') <=> s.killswitch)
    BY <1>2, AppliedWall, RefusedWall DEF EnterError
<1> QED
    BY <1>1, <1>3 DEF Walled

\* Two refusals in a row leave no more than one may.
LEMMA RefusedErrorWalled ==
    ASSUME NEW f, NEW s, NEW p, NEW d, NEW a, NEW reason, NEW policy, policy.kind # "open",
           NEW s1, s1.killswitch = s.killswitch,
           \E f1 \in Refused(f, s1, policy) : EnterError(f1, s, p, d, a, reason)
    PROVE  Walled(f, s) /\ sm'.state = "Error"
<1> PICK f1 \in Refused(f, s1, policy) : EnterError(f1, s, p, d, a, reason)
    OBVIOUS
<1>1. (Wall(f1) <=> Wall(f)) \/ (Wall(f1) <=> s.killswitch)
    BY RefusedWall
<1>2. Walled(f1, s) /\ sm'.state = "Error"
    BY EnterErrorWalled
<1> QED
    BY <1>1, <1>2 DEF Walled

\* DisconnectedState::enter never opens a wanted wall.
LEMMA EnterDisconnectedWalled ==
    ASSUME NEW f, NEW s, NEW p, NEW d, NEW a, EnterDisconnected(f, s, p, d, a)
    PROVE  Walled(f, s)
<1>1. IdlePolicy(s).kind # "open"
    BY PolicyKinds
<1>2. CASE \E f1 \in Refused(f, s, IdlePolicy(s)) : EnterError(f1, s, p, d, a, "SetFirewallPolicy")
    BY <1>1, <1>2, RefusedErrorWalled
<1>3. CASE /\ sm' = [Blank EXCEPT !.state = "Disconnected", !.idle = Schedule(s, a)]
           /\ firewall' = Applied(s, IdlePolicy(s))
    <2>1. sm'.state = "Disconnected"
        BY <1>3 DEF Blank
    <2> QED
        BY <1>1, <1>3, <2>1, AppliedWall DEF Walled
<1> QED
    BY <1>2, <1>3 DEF EnterDisconnected

\* OfflineState::enter never opens a wanted wall.
LEMMA EnterOfflineWalled ==
    ASSUME NEW f, NEW s, NEW p, NEW d, NEW reconnect, NEW pair,
           EnterOffline(f, s, p, d, reconnect, pair)
    PROVE  Walled(f, s)
<1>1. OfflinePolicy(s).kind # "open" /\ sm'.state = "Offline"
    BY PolicyKinds DEF EnterOffline, Blank
<1> QED
    BY <1>1, AppliedWall, RefusedWall DEF EnterOffline, Walled

\* ConnectingState::enter never opens a wanted wall.
LEMMA EnterConnectingWalled ==
    ASSUME NEW f, NEW s, NEW p, NEW d, NEW a, NEW pair, EnterConnecting(f, s, p, d, a, pair)
    PROVE  Walled(f, s)
<1> DEFINE params == [entry |-> EntryOf(pair), tun |-> FALSE]
<1>1. ConnectingPolicy(params, s).kind # "open"
    BY PolicyKinds
<1>2. CASE EnterOffline(f, s, p, d, TRUE, pair)
    BY <1>2, EnterOfflineWalled
<1>3. CASE \E f1 \in Refused(f, s, ConnectingPolicy(params, s)) :
                EnterError(f1, s, p, d, a, "SetFirewallPolicy")
    BY <1>1, <1>3, RefusedErrorWalled
<1>4. CASE /\ sm' = [Blank EXCEPT !.state = "Connecting", !.gateways = pair, !.step = "delay",
                                  !.params = params]
           /\ firewall' = Applied(s, ConnectingPolicy(params, s))
    <2>1. sm'.state = "Connecting"
        BY <1>4 DEF Blank
    <2> QED
        BY <1>1, <1>4, <2>1, AppliedWall DEF Walled
<1> QED
    BY <1>2, <1>3, <1>4 DEF EnterConnecting

\* Entering a state is a promised step, whatever the calling handler did before.
LEMMA WalledStep ==
    ASSUME TypeInv, TypeInv', NEW f, NEW s, Walled(f, s), settings' = s,
           (Wall(f) <=> Wall(firewall)) \/ (Wall(f) <=> s.killswitch)
    PROVE  KS!KSNext
<1>1. settings'.killswitch \in BOOLEAN
    BY DEF TypeInv, TypeOK, AllSettings
<1>2. CASE sm'.state \in {"Disconnected", "Connecting"} /\ (Wall(firewall') <=> s.killswitch)
    <2>1. KS!Enforce
        BY <1>1, <1>2 DEF KS!Enforce, KSPhase, Wall
    <2> QED
        BY <2>1 DEF KS!KSNext
<1>3. CASE sm'.state \in {"Error", "Offline"} /\ (Wall(firewall') <=> s.killswitch)
    <2>1. KS!Fallback
        BY <1>1, <1>3 DEF KS!Fallback, KSPhase, Wall
    <2> QED
        BY <2>1 DEF KS!KSNext
<1>4. CASE sm'.state \in {"Error", "Offline"} /\ (Wall(firewall') <=> Wall(firewall))
    <2>1. KS!Fallback
        BY <1>1, <1>4 DEF KS!Fallback, KSPhase, Wall
    <2> QED
        BY <2>1 DEF KS!KSNext
<1> QED
    BY <1>2, <1>3, <1>4 DEF Walled

\* The other promised steps.
LEMMA EnforceStep ==
    ASSUME TypeInv', Wall(firewall') <=> settings'.killswitch,
           sm'.state \in {"Disconnected", "Connecting", "Connected", "Error", "Offline"}
    PROVE  KS!KSNext
<1>1. settings'.killswitch \in BOOLEAN
    BY DEF TypeInv, TypeOK, AllSettings
<1>2. KS!Enforce
    BY <1>1 DEF KS!Enforce, KSPhase, Wall
<1> QED
    BY <1>2 DEF KS!KSNext

\* Ending in Error or Offline with the wall kept or as wanted is a Fallback of
\* the abstract kill-switch.
LEMMA FallbackStep ==
    ASSUME TypeInv', sm'.state \in {"Error", "Offline"},
           (Wall(firewall') <=> Wall(firewall)) \/ (Wall(firewall') <=> settings'.killswitch)
    PROVE  KS!KSNext
<1>1. settings'.killswitch \in BOOLEAN
    BY DEF TypeInv, TypeOK, AllSettings
<1>2. KS!Fallback
    BY <1>1 DEF KS!Fallback, KSPhase, Wall
<1> QED
    BY <1>2 DEF KS!KSNext

\* Leaving a session for Disconnecting is a Leave of the abstract kill-switch.
LEMMA LeaveStep ==
    ASSUME TypeInv', sm.state \in {"Connecting", "Connected"}, sm'.state = "Disconnecting",
           (Wall(firewall') <=> Wall(firewall)) \/ (Wall(firewall') <=> settings'.killswitch)
    PROVE  KS!KSNext
<1>1. settings'.killswitch \in BOOLEAN
    BY DEF TypeInv, TypeOK, AllSettings
<1>2. KS!Leave
    BY <1>1 DEF KS!Leave, KSPhase, Wall
<1> QED
    BY <1>2 DEF KS!KSNext

\* The end of the process is a Stop: the wall stays, or is released when it is
\* not wanted.
LEMMA StopStep ==
    ASSUME sm.state \in States \ {"Down", "Finished"}, sm'.state \in {"Down", "Finished"},
           UNCHANGED settings,
           firewall'.live = firewall.live \/ (~settings.killswitch /\ firewall'.live = Open)
    PROVE  KS!KSNext
<1>1. KSPhase # "gone" /\ KSPhase' = "gone"
    BY DEF KSPhase, States
<1>2. KS!Stop
    BY <1>1 DEF KS!Stop
<1> QED
    BY <1>2 DEF KS!KSNext

\* A step that touches neither state, flag nor live table is invisible.
LEMMA StutterStep ==
    ASSUME sm'.state = sm.state, settings'.killswitch = settings.killswitch,
           firewall'.live = firewall.live
    PROVE  UNCHANGED KS!ksvars
BY DEF KS!ksvars, KSPhase

\* release_firewall_on_shutdown opens the wall only when it is not wanted.
LEMMA ReleaseWall ==
    ASSUME ReleaseFirewall
    PROVE  firewall'.live = firewall.live \/ (~settings.killswitch /\ firewall'.live = Open)
BY DEF ReleaseFirewall, Applied, Refused

\* DisconnectingState::enter ends in Disconnecting.
LEMMA EnterDisconnectingState ==
    ASSUME NEW after, NEW pair, NEW reason, NEW reconnect,
           EnterDisconnecting(after, pair, reason, reconnect)
    PROVE  sm'.state = "Disconnecting"
BY DEF EnterDisconnecting, Blank

\* What happens around the machine maps to a step of the abstract kill-switch
\* or to a stutter.
LEMMA KSEnvironment ==
    ASSUME TypeInv, TypeInv',
           \/ Spawn \/ Crash \/ RequestShutdown \/ ConnectivityChanges \/ OfflineMonitorChecks
           \/ EndpointsAge \/ DetachedEnds \/ Monitor
    PROVE  [KS!KSNext]_(KS!ksvars)
<1>1. CASE Spawn
    <2> PICK s \in Settings, d \in DnsReset(dns, "wan") :
            LET f == [firewall EXCEPT !.killswitch = s.killswitch, !.known = FALSE] IN
            /\ settings' = s
            /\ \/ net.offline /\ EnterOffline(f, s, FALSE, d, FALSE, NoPair)
               \/ ~net.offline /\ EnterDisconnected(f, s, FALSE, d, "cached")
        BY <1>1 DEF Spawn
    <2> DEFINE f == [firewall EXCEPT !.killswitch = s.killswitch, !.known = FALSE]
    <2>1. f.live = firewall.live
        BY TypeParts DEF Firewalls
    <2> HIDE DEF f
    <2>2. Walled(f, s)
        BY EnterOfflineWalled, EnterDisconnectedWalled DEF f
    <2> QED
        BY <2>1, <2>2, WalledStep DEF Wall
<1>2. CASE Crash
    <2>1. sm.state \in States \ {"Down", "Finished"} /\ sm'.state = "Down"
        BY <1>2, TypeParts DEF Crash, Running, Exit, Blank, MachineStates
    <2> QED
        BY <1>2, <2>1, StopStep DEF Crash
<1>3. CASE \/ RequestShutdown \/ ConnectivityChanges \/ OfflineMonitorChecks \/ EndpointsAge
           \/ DetachedEnds
    BY <1>3, StutterStep DEF RequestShutdown, ConnectivityChanges, OfflineMonitorChecks,
                             EndpointsAge, DetachedEnds, shared
<1>4. CASE Monitor
    <2>1. UNCHANGED <<sm, settings, firewall>>
        BY <1>4 DEF Monitor, MonitorSelect, MonitorProceed, MonitorRegister, MonitorAnnounce,
                    MonitorUp, MonitorEnds, MonitorFails, MonitorDown, MonitorExits, Others
    <2> QED
        BY <2>1, StutterStep
<1> QED
    BY <1>1, <1>2, <1>3, <1>4

\* The select! arms of DisconnectedState map to abstract steps.
LEMMA KSDisconnected ==
    ASSUME TypeInv, TypeInv',
           \/ DisconnectedConnect \/ DisconnectedSetSettings \/ DisconnectedConnectivity
           \/ DisconnectedShutdown
    PROVE  [KS!KSNext]_(KS!ksvars)
<1>1. CASE DisconnectedConnect
    BY <1>1, EnterConnectingWalled, WalledStep DEF DisconnectedConnect
<1>2. CASE DisconnectedSetSettings
    <2> PICK s \in Settings :
            /\ settings' = s
            /\ \/ /\ firewall' = Applied(s, IdlePolicy(s))
                  /\ sm' = [sm EXCEPT !.idle = Schedule(s, api)]
               \/ \E d : \E f \in Refused(firewall, s, IdlePolicy(s)) :
                    EnterError(f, s, pins, d, api, "SetFirewallPolicy")
        BY <1>2 DEF DisconnectedSetSettings
    <2>1. IdlePolicy(s).kind # "open"
        BY PolicyKinds
    <2>2. CASE /\ firewall' = Applied(s, IdlePolicy(s))
               /\ sm' = [sm EXCEPT !.idle = Schedule(s, api)]
        <3>1. sm'.state = "Disconnected"
            BY <1>2, <2>2, TypeParts DEF DisconnectedSetSettings, MachineStates
        <3>2. Wall(firewall') <=> settings'.killswitch
            BY <2>1, <2>2, AppliedWall
        <3> QED
            BY <3>1, <3>2, EnforceStep
    <2>3. CASE \E d : \E f \in Refused(firewall, s, IdlePolicy(s)) :
                    EnterError(f, s, pins, d, api, "SetFirewallPolicy")
        BY <2>1, <2>3, RefusedErrorWalled, WalledStep
    <2> QED
        BY <2>2, <2>3
<1>3. CASE DisconnectedConnectivity
    BY <1>3, EnterOfflineWalled, WalledStep, StutterStep DEF DisconnectedConnectivity
<1>4. CASE DisconnectedShutdown
    <2>1. sm.state \in States \ {"Down", "Finished"} /\ sm'.state = "Finished"
        BY <1>4 DEF DisconnectedShutdown, Finish, Exit, Blank, States
    <2> QED
        BY <1>4, <2>1, StopStep DEF DisconnectedShutdown
<1> QED
    BY <1>1, <1>2, <1>3, <1>4

\* So does the allow-list upkeep; it is the step that needs the contract,
\* which says that upkeep runs in Disconnected and Error only.
LEMMA KSIdle ==
    ASSUME TypeInv, TypeInv', ContractInv, Idle
    PROVE  [KS!KSNext]_(KS!ksvars)
<1>0. IdlePolicy(settings).kind # "open"
    BY PolicyKinds
<1>1. CASE IdleResolved
    <2>0. sm.state \in {"Disconnected", "Error"} /\ UNCHANGED settings
        BY <1>1 DEF IdleResolved, ContractInv, UpkeepIsIdle
    <2>1. CASE /\ firewall' = Applied(settings, IdlePolicy(settings))
               /\ sm' = [sm EXCEPT !.idle = "wait"]
        <3>1. sm'.state = sm.state
            BY <2>1, TypeParts DEF MachineStates
        <3>2. Wall(firewall') <=> settings'.killswitch
            BY <1>0, <2>0, <2>1, AppliedWall
        <3> QED
            BY <2>0, <3>1, <3>2, EnforceStep
    <2>2. CASE \E f \in Refused(firewall, settings, IdlePolicy(settings)) :
                    EnterError(f, settings, pins, dns, "live", "SetFirewallPolicy")
        BY <1>0, <2>0, <2>2, RefusedErrorWalled, WalledStep
    <2>3. CASE /\ sm.state = "Error"
               /\ firewall' \in Refused(firewall, settings, IdlePolicy(settings))
               /\ sm' = [sm EXCEPT !.idle = "off"]
        <3>1. sm'.state = "Error"
            BY <2>3, TypeParts DEF MachineStates
        <3> QED
            BY <1>0, <2>0, <2>3, <3>1, RefusedWall, FallbackStep
    <2> QED
        BY <1>1, <2>1, <2>2, <2>3 DEF IdleResolved
<1>2. CASE IdleResolveFails \/ IdleTimer
    <2>1. sm'.state = sm.state /\ UNCHANGED <<settings, firewall>>
        BY <1>2, TypeParts DEF IdleResolveFails, IdleTimer, MachineStates, shared
    <2> QED
        BY <2>1, StutterStep
<1> QED
    BY <1>1, <1>2 DEF Idle

\* The select! arms of ErrorState map to abstract steps.
LEMMA KSError ==
    ASSUME TypeInv, TypeInv',
           ErrorConnect \/ ErrorDisconnect \/ ErrorSetSettings \/ ErrorShutdown
    PROVE  [KS!KSNext]_(KS!ksvars)
<1>1. CASE ErrorConnect
    BY <1>1, EnterConnectingWalled, WalledStep DEF ErrorConnect
<1>2. CASE ErrorDisconnect
    BY <1>2, EnterOfflineWalled, EnterDisconnectedWalled, WalledStep DEF ErrorDisconnect
<1>3. CASE ErrorSetSettings
    <2> PICK s \in Settings \ {settings} :
            /\ settings' = s
            /\ \/ /\ s.killswitch = settings.killswitch
                  /\ UNCHANGED <<sm, firewall>>
               \/ /\ firewall' \in Refused(firewall, s, IdlePolicy(s))
                  /\ UNCHANGED sm
               \/ EnterDisconnected(Applied(s, IdlePolicy(s)), s, IdlePins(s, api), dns, api)
               \/ /\ firewall' = Applied(s, IdlePolicy(s))
                  /\ sm' = [sm EXCEPT !.idle = Schedule(s, api)]
        BY <1>3 DEF ErrorSetSettings
    <2>1. sm.state = "Error" /\ IdlePolicy(s).kind # "open"
        BY <1>3, PolicyKinds DEF ErrorSetSettings
    <2>2. CASE s.killswitch = settings.killswitch /\ UNCHANGED <<sm, firewall>>
        BY <2>2, StutterStep
    <2>3. CASE firewall' \in Refused(firewall, s, IdlePolicy(s)) /\ UNCHANGED sm
        BY <2>1, <2>3, RefusedWall, FallbackStep
    <2>4. CASE EnterDisconnected(Applied(s, IdlePolicy(s)), s, IdlePins(s, api), dns, api)
        BY <2>1, <2>4, AppliedWall, EnterDisconnectedWalled, WalledStep
    <2>5. CASE /\ firewall' = Applied(s, IdlePolicy(s))
               /\ sm' = [sm EXCEPT !.idle = Schedule(s, api)]
        <3>1. sm'.state = "Error"
            BY <2>1, <2>5, TypeParts DEF MachineStates
        <3> QED
            BY <2>1, <2>5, <3>1, AppliedWall, EnforceStep
    <2> QED
        BY <2>2, <2>3, <2>4, <2>5
<1>4. CASE ErrorShutdown
    <2>1. sm.state \in States \ {"Down", "Finished"} /\ sm'.state = "Finished"
        BY <1>4 DEF ErrorShutdown, Finish, Exit, Blank, States
    <2> QED
        BY <1>4, <2>1, ReleaseWall, StopStep DEF ErrorShutdown
<1> QED
    BY <1>1, <1>2, <1>3, <1>4

\* The select! arms of OfflineState map to abstract steps.
LEMMA KSOffline ==
    ASSUME TypeInv, TypeInv',
           \/ OfflineConnect \/ OfflineDisconnect \/ OfflineSetSettings \/ OfflineConnectivity
           \/ OfflineShutdown
    PROVE  [KS!KSNext]_(KS!ksvars)
<1>1. CASE OfflineConnect
    BY <1>1, EnterOfflineWalled, WalledStep DEF OfflineConnect
<1>2. CASE OfflineDisconnect
    <2>1. sm'.state = sm.state /\ UNCHANGED <<settings, firewall>>
        BY <1>2, TypeParts DEF OfflineDisconnect, MachineStates, shared
    <2> QED
        BY <2>1, StutterStep
<1>3. CASE OfflineSetSettings
    <2> PICK s \in Settings \ {settings} :
            /\ settings' = s
            /\ sm' = [sm EXCEPT !.gateways = IF s.entry_point # settings.entry_point THEN NoPair ELSE @]
            /\ \/ firewall' \in {Applied(s, OfflinePolicy(s))} \cup
                                  Refused(firewall, s, OfflinePolicy(s))
               \/ UNCHANGED firewall
        BY <1>3 DEF OfflineSetSettings
    <2>1. sm'.state = "Offline" /\ OfflinePolicy(s).kind # "open"
        BY <1>3, TypeParts, PolicyKinds DEF OfflineSetSettings, MachineStates
    <2>2. (Wall(firewall') <=> Wall(firewall)) \/ (Wall(firewall') <=> settings'.killswitch)
        BY <2>1, AppliedWall, RefusedWall
    <2> QED
        BY <2>1, <2>2, FallbackStep
<1>4. CASE OfflineConnectivity
    BY <1>4, EnterConnectingWalled, EnterDisconnectedWalled, WalledStep, StutterStep
       DEF OfflineConnectivity
<1>5. CASE OfflineShutdown
    <2>1. sm.state \in States \ {"Down", "Finished"} /\ sm'.state = "Finished"
        BY <1>5 DEF OfflineShutdown, Finish, Exit, Blank, States
    <2> QED
        BY <1>5, <2>1, ReleaseWall, StopStep DEF OfflineShutdown
<1> QED
    BY <1>1, <1>2, <1>3, <1>4, <1>5

\* Admitting a selection in Connecting is an abstract step.
LEMMA KSAdmit ==
    ASSUME TypeInv, TypeInv', sm.state = "Connecting", UNCHANGED settings,
           NEW params, NEW pair, Admit(params, pair)
    PROVE  KS!KSNext
<1>1. ConnectingPolicy(params, settings).kind # "open"
    BY PolicyKinds
<1>2. CASE /\ firewall' = Applied(settings, ConnectingPolicy(params, settings))
           /\ sm' = [sm EXCEPT !.params = params, !.gateways = pair]
    <2>1. sm'.state = "Connecting"
        BY <1>2, TypeParts DEF MachineStates
    <2> QED
        BY <1>1, <1>2, <2>1, AppliedWall, EnforceStep
<1>3. CASE /\ firewall' \in Refused(firewall, settings, ConnectingPolicy(params, settings))
           /\ EnterDisconnecting("Error", NoPair, "SetFirewallPolicy", FALSE)
    BY <1>1, <1>3, RefusedWall, EnterDisconnectingState, LeaveStep
<1> QED
    BY <1>2, <1>3 DEF Admit

\* ConnectedState::enter is an abstract step.
LEMMA KSConnected ==
    ASSUME TypeInv, TypeInv', sm.state = "Connecting", UNCHANGED settings,
           NEW pair, EnterConnected(settings, pair)
    PROVE  KS!KSNext
<1>1. ConnectedPolicy(pair, settings).kind # "open"
    BY PolicyKinds
<1>2. CASE /\ sm' = [Blank EXCEPT !.state = "Connected", !.gateways = pair]
           /\ firewall' = Applied(settings, ConnectedPolicy(pair, settings))
    <2>1. sm'.state = "Connected"
        BY <1>2 DEF Blank
    <2> QED
        BY <1>1, <1>2, <2>1, AppliedWall, EnforceStep
<1>3. CASE /\ firewall' \in Refused(firewall, settings, ConnectedPolicy(pair, settings))
           /\ EnterDisconnecting("Error", NoPair, "SetFirewallPolicy", FALSE)
    BY <1>1, <1>3, RefusedWall, EnterDisconnectingState, LeaveStep
<1>4. CASE /\ firewall' = Applied(settings, ConnectedPolicy(pair, settings))
           /\ EnterDisconnecting("Error", NoPair, "Other", FALSE)
    BY <1>1, <1>4, AppliedWall, EnterDisconnectingState, LeaveStep
<1> QED
    BY <1>2, <1>3, <1>4 DEF EnterConnected

\* The futures of Connecting map to abstract steps.
LEMMA KSConnecting ==
    ASSUME TypeInv, TypeInv', Connecting
    PROVE  [KS!KSNext]_(KS!ksvars)
<1>0. ConnectingPolicy(sm.params, settings).kind # "open"
    BY PolicyKinds
<1>1. CASE ConnectingDelay
    <2>1. sm'.state = sm.state /\ UNCHANGED <<settings, firewall>>
        BY <1>1, TypeParts DEF ConnectingDelay, MachineStates, shared
    <2> QED
        BY <2>1, StutterStep
<1>2. CASE ConnectingResolved
    <2>0. sm.state = "Connecting" /\ UNCHANGED settings
        BY <1>2 DEF ConnectingResolved
    <2>1. CASE /\ firewall' = Applied(settings, ConnectingPolicy(sm.params, settings))
               /\ \E pair \in {sm.gateways, NoPair} :
                    sm' = [sm EXCEPT !.step = "monitor", !.gateways = pair]
        <3>1. sm'.state = "Connecting"
            BY <2>0, <2>1, TypeParts DEF MachineStates
        <3> QED
            BY <1>0, <2>0, <2>1, <3>1, AppliedWall, EnforceStep
    <2>2. CASE \E f \in Refused(firewall, settings, ConnectingPolicy(sm.params, settings)) :
                    EnterError(f, settings, pins, dns, "live", "SetFirewallPolicy")
        BY <1>0, <2>0, <2>2, RefusedErrorWalled, WalledStep
    <2>3. CASE EnterError(Applied(settings, ConnectingPolicy(sm.params, settings)), settings, TRUE,
                          dns, "live", "Other")
        <3> DEFINE f == Applied(settings, ConnectingPolicy(sm.params, settings))
        <3>1. Wall(f) <=> settings.killswitch
            BY <1>0, AppliedWall
        <3>2. Walled(f, settings)
            BY <2>3, EnterErrorWalled
        <3> HIDE DEF f
        <3> QED
            BY <2>0, <3>1, <3>2, WalledStep
    <2> QED
        BY <1>2, <2>1, <2>2, <2>3 DEF ConnectingResolved
<1>3. CASE ConnectingResolveFails
    BY <1>3, EnterConnectingWalled, WalledStep DEF ConnectingResolveFails, Reconnect
<1> QED
    BY <1>1, <1>2, <1>3 DEF Connecting

\* Commands, connectivity and shutdown in Connecting map to abstract steps.
LEMMA KSConnectingCommand ==
    ASSUME TypeInv, TypeInv',
           ConnectingConnect \/ ConnectingDisconnect \/ ConnectingShutdown \/ ConnectingConnectivity
    PROVE  [KS!KSNext]_(KS!ksvars)
<1>0. sm.state = "Connecting" /\ UNCHANGED settings
    BY DEF ConnectingConnect, ConnectingDisconnect, ConnectingShutdown, ConnectingStop,
           ConnectingConnectivity
<1>1. ASSUME NEW after, NEW pair, ConnectingTearDown(after, pair)
      PROVE  KS!KSNext
    BY <1>0, <1>1, EnterDisconnectingState, LeaveStep DEF ConnectingTearDown
<1>2. CASE ConnectingConnect
    BY <1>0, <1>1, <1>2, EnterConnectingWalled, WalledStep DEF ConnectingConnect
<1>3. CASE ConnectingStop
    BY <1>0, <1>1, <1>3, EnterDisconnectedWalled, WalledStep DEF ConnectingStop
<1>4. CASE ConnectingConnectivity
    BY <1>0, <1>1, <1>4, EnterOfflineWalled, WalledStep, StutterStep DEF ConnectingConnectivity
<1> QED
    BY <1>2, <1>3, <1>4 DEF ConnectingDisconnect, ConnectingShutdown

\* A settings change in Connecting maps to an abstract step: hot-applied,
\* reconnecting, or refused.
LEMMA KSConnectingSetSettings ==
    ASSUME TypeInv, TypeInv', ConnectingSetSettings
    PROVE  [KS!KSNext]_(KS!ksvars)
<1> PICK s \in Settings \ {settings} :
        LET policy  == ConnectingPolicy(sm.params, s)
            reapply == s.allow_lan # settings.allow_lan \/ s.killswitch # settings.killswitch
            f       == IF reapply THEN Applied(s, policy) ELSE firewall
            pair    == IF s.entry_point # settings.entry_point THEN NoPair ELSE sm.gateways
        IN  /\ settings' = s
            /\ \/ \E f1 \in Refused(firewall, s, policy) :
                      EnterError(f1, s, pins, dns, api, "SetFirewallPolicy")
               \/ HotOnly(s) /\ firewall' = f /\ UNCHANGED sm
               \/ firewall' = f /\ EnterDisconnecting("Reconnect", pair, "none", FALSE)
               \/ EnterConnecting(f, s, pins, dns, api, pair)
    BY DEF ConnectingSetSettings
<1> DEFINE policy  == ConnectingPolicy(sm.params, s)
           reapply == s.allow_lan # settings.allow_lan \/ s.killswitch # settings.killswitch
           f       == IF reapply THEN Applied(s, policy) ELSE firewall
           pair    == IF s.entry_point # settings.entry_point THEN NoPair ELSE sm.gateways
<1>0. sm.state = "Connecting" /\ settings' = s
    BY DEF ConnectingSetSettings
<1>1. policy.kind # "open"
    BY PolicyKinds
<1>2. f = firewall \/ (Wall(f) <=> s.killswitch)
    BY <1>1, AppliedWall
<1>3. CASE \E f1 \in Refused(firewall, s, policy) :
                EnterError(f1, s, pins, dns, api, "SetFirewallPolicy")
    <2> HIDE DEF policy
    <2> QED
        BY <1>0, <1>1, <1>3, RefusedErrorWalled, WalledStep
<1>4. CASE HotOnly(s) /\ firewall' = f /\ UNCHANGED sm
    <2> HIDE DEF f
    <2> QED
        BY <1>0, <1>2, <1>4, StutterStep, EnforceStep DEF HotOnly
<1>5. CASE firewall' = f /\ EnterDisconnecting("Reconnect", pair, "none", FALSE)
    <2>1. sm'.state = "Disconnecting"
        BY <1>5, EnterDisconnectingState
    <2> HIDE DEF f
    <2> QED
        BY <1>0, <1>2, <1>5, <2>1, LeaveStep
<1>6. CASE EnterConnecting(f, s, pins, dns, api, pair)
    <2>1. Walled(f, s)
        BY <1>6, EnterConnectingWalled
    <2> HIDE DEF f
    <2> QED
        BY <1>0, <1>2, <2>1, WalledStep
<1> QED
    BY <1>3, <1>4, <1>5, <1>6

\* Commands, connectivity and shutdown in Connected map to abstract steps.
LEMMA KSConnectedCommand ==
    ASSUME TypeInv, TypeInv',
           ConnectedConnect \/ ConnectedDisconnect \/ ConnectedShutdown \/ ConnectedConnectivity
    PROVE  [KS!KSNext]_(KS!ksvars)
<1>0. sm.state = "Connected" /\ UNCHANGED <<settings, firewall>>
    BY DEF ConnectedConnect, ConnectedDisconnect, ConnectedShutdown, ConnectedConnectivity
<1>1. ASSUME NEW after, NEW pair, ConnectedTearDown(after, pair)
      PROVE  KS!KSNext
    BY <1>0, <1>1, EnterDisconnectingState, LeaveStep DEF ConnectedTearDown
<1> QED
    BY <1>0, <1>1, StutterStep
       DEF ConnectedConnect, ConnectedDisconnect, ConnectedShutdown, ConnectedConnectivity

\* The LAN flag is applied under the old kill-switch: by the contract that moves no wall.
LEMMA KSConnectedSetSettings ==
    ASSUME TypeInv, TypeInv', ContractInv, ConnectedSetSettings
    PROVE  [KS!KSNext]_(KS!ksvars)
<1> PICK s \in Settings \ {settings} :
        LET lan    == [settings EXCEPT !.allow_lan = s.allow_lan]
            policy == ConnectedPolicy(sm.gateways, lan)
            pair   == IF s.entry_point # settings.entry_point THEN NoPair ELSE sm.gateways
        IN  \/ /\ \E f \in Refused(firewall, lan, policy) :
                      EnterError(f, settings, pins, dns, api, "SetFirewallPolicy")
               /\ UNCHANGED settings
            \/ /\ firewall' = IF lan # settings THEN Applied(lan, policy) ELSE firewall
               /\ settings' = s
               /\ \/ HotOnly(s) /\ UNCHANGED sm
                  \/ ConnectedTearDown("Reconnect", pair)
    BY DEF ConnectedSetSettings
<1> DEFINE lan    == [settings EXCEPT !.allow_lan = s.allow_lan]
           policy == ConnectedPolicy(sm.gateways, lan)
           pair   == IF s.entry_point # settings.entry_point THEN NoPair ELSE sm.gateways
<1>1. sm.state = "Connected"
    BY DEF ConnectedSetSettings
<1>2. lan.killswitch = settings.killswitch
    BY DEF TypeInv, TypeOK, AllSettings
<1>3. policy.kind # "open"
    BY PolicyKinds
<1>4. Wall(firewall) <=> settings.killswitch
    <2>1. Enforced(ConnectedPolicy(sm.gateways, settings))
        BY <1>1 DEF ContractInv, StateContract
    <2>2. ConnectedPolicy(sm.gateways, settings) # Open
        BY DEF ConnectedPolicy, Open, Policy
    <2> QED
        BY <2>1, <2>2 DEF Enforced, Wall
<1>5. CASE /\ \E f \in Refused(firewall, lan, policy) :
                  EnterError(f, settings, pins, dns, api, "SetFirewallPolicy")
           /\ UNCHANGED settings
    <2> HIDE DEF policy, lan
    <2> QED
        BY <1>2, <1>3, <1>5, RefusedErrorWalled, WalledStep
<1>6. CASE /\ firewall' = IF lan # settings THEN Applied(lan, policy) ELSE firewall
           /\ settings' = s
           /\ \/ HotOnly(s) /\ UNCHANGED sm
              \/ ConnectedTearDown("Reconnect", pair)
    <2>1. Wall(firewall') <=> settings.killswitch
        <3> HIDE DEF policy, lan
        <3> QED
            BY <1>2, <1>3, <1>4, <1>6, AppliedWall
    <2>2. CASE HotOnly(s) /\ UNCHANGED sm
        BY <1>1, <1>6, <2>1, <2>2, EnforceStep DEF HotOnly
    <2>3. CASE ConnectedTearDown("Reconnect", pair)
        <3>1. sm'.state = "Disconnecting"
            BY <2>3, EnterDisconnectingState DEF ConnectedTearDown
        <3> QED
            BY <1>1, <1>4, <2>1, <3>1, LeaveStep
    <2> QED
        BY <1>6, <2>2, <2>3
<1> QED
    BY <1>5, <1>6

\* The monitor's events map to abstract steps.
LEMMA KSMonitorEvent ==
    ASSUME TypeInv, TypeInv', MonitorEvent
    PROVE  [KS!KSNext]_(KS!ksvars)
<1>1. CASE ConnectingSelectedGateways
    BY <1>1, KSAdmit DEF ConnectingSelectedGateways, NextEvent
<1>2. CASE ConnectingInterfaceUp
    BY <1>2, KSAdmit DEF ConnectingInterfaceUp, NextEvent
<1>3. CASE ConnectingUp
    BY <1>3, KSConnected DEF ConnectingUp, NextEvent
<1>4. CASE ConnectingFailure \/ ConnectedEvent
    <2>1. sm'.state = sm.state /\ UNCHANGED <<settings, firewall>>
        BY <1>4, TypeParts DEF ConnectingFailure, ConnectedEvent, MachineStates, shared
    <2> QED
        BY <2>1, StutterStep
<1>5. CASE ConnectingDown
    BY <1>5, EnterDisconnectingState, LeaveStep, EnterConnectingWalled, WalledStep
       DEF ConnectingDown, Reconnect, NextEvent
<1>6. CASE ConnectedDown
    BY <1>6, EnterErrorWalled, EnterConnectingWalled, WalledStep DEF ConnectedDown
<1>7. CASE DisconnectingDone
    <2>1. sm.after \in {"Nothing", "Error", "Reconnect", "Offline"}
        BY <1>7, TypeParts DEF MachineStates, DisconnectingDone
    <2>2. Walled(firewall, settings)
        BY <1>7, <2>1, EnterErrorWalled, EnterConnectingWalled, EnterOfflineWalled,
           EnterDisconnectedWalled DEF DisconnectingDone
    <2> QED
        BY <1>7, <2>2, WalledStep DEF DisconnectingDone
<1> QED
    BY <1>1, <1>2, <1>3, <1>4, <1>5, <1>6, <1>7 DEF MonitorEvent

\* Commands and shutdown in Disconnecting map to abstract steps.
LEMMA KSDisconnecting ==
    ASSUME TypeInv, TypeInv',
           \/ DisconnectingConnect \/ DisconnectingDisconnect \/ DisconnectingSetSettings
           \/ DisconnectingShutdown
    PROVE  [KS!KSNext]_(KS!ksvars)
<1>1. CASE DisconnectingConnect \/ DisconnectingDisconnect
    <2>1. sm'.state = sm.state /\ UNCHANGED <<settings, firewall>>
        BY <1>1, TypeParts DEF DisconnectingConnect, DisconnectingDisconnect, MachineStates, shared
    <2> QED
        BY <2>1, StutterStep
<1>2. CASE DisconnectingSetSettings
    <2>1. settings'.killswitch \in BOOLEAN
        BY DEF TypeInv, TypeOK, AllSettings
    <2>2. KS!Leave
        BY <1>2, <2>1 DEF DisconnectingSetSettings, KS!Leave, KSPhase
    <2> QED
        BY <2>2 DEF KS!KSNext
<1>3. CASE DisconnectingShutdown
    BY <1>3, EnterDisconnectedWalled, WalledStep DEF DisconnectingShutdown
<1> QED
    BY <1>1, <1>2, <1>3

\* Every step of the machine is a promised one.
LEMMA KSStep ==
    ASSUME TypeInv, TypeInv', ContractInv, [Next]_vars
    PROVE  [KS!KSNext]_(KS!ksvars)
<1>1. CASE UNCHANGED vars
    BY <1>1, StutterStep DEF vars, shared
<1>2. CASE User \/ Connectivity \/ Shutdown
    BY <1>2, KSDisconnected, KSConnectingCommand, KSConnectingSetSettings, KSConnectedCommand,
       KSConnectedSetSettings, KSDisconnecting, KSError, KSOffline
       DEF User, Connectivity, Shutdown
<1>3. CASE MonitorEvent \/ Idle \/ Connecting
    BY <1>3, KSMonitorEvent, KSIdle, KSConnecting
<1> QED
    BY <1>1, <1>2, <1>3, KSEnvironment DEF Next

\* No step of the abstract kill-switch opens a wanted wall.
LEMMA KSOpens ==
    ASSUME [KS!KSNext]_(KS!ksvars), settings'.killswitch, firewall.live # Open
    PROVE  firewall'.live # Open
BY DEF KS!KSNext, KS!Enforce, KS!Fallback, KS!Leave, KS!Stop, KS!ksvars

\* The state machine implements KillSwitch: whatever the settings, the gateways and
\* the faults, each handler's whole effect on the firewall is a step the contract
\* of killswitch-contract.md allows in that phase.
THEOREM Implements == Spec => KeepsKillSwitch
<1>1. Init => KS!KSInit
    <2> SUFFICES ASSUME Init PROVE KS!KSInit
        OBVIOUS
    <2>1. settings.killswitch \in BOOLEAN
        BY SettingsAssumption DEF Init, AllSettings
    <2> QED
        BY <2>1 DEF Init, KS!KSInit, KSPhase, Blank
<1>2. TypeInv /\ TypeInv' /\ ContractInv /\ [Next]_vars => [KS!KSNext]_(KS!ksvars)
    BY KSStep
<1> QED
    BY <1>1, <1>2, TypeInvariant, ContractInvariant, PTL DEF Spec, KeepsKillSwitch, KS!KSSpec

\* No handler, failed apply, crash, restart or shutdown opens a closed router under a
\* kill-switch that is on.
THEOREM Closed == Spec => NeverOpens
<1>1. TypeInv /\ TypeInv' /\ ContractInv /\ [Next]_vars
        => [settings'.killswitch /\ firewall.live # Open => firewall'.live # Open]_vars
    BY KSStep, KSOpens
<1> QED
    BY <1>1, TypeInvariant, ContractInvariant, PTL DEF Spec, NeverOpens
=============================================================================
