----------------------------- MODULE CommandLoop -----------------------------
(***************************************************************************)
(* The command interface of the daemon: gRPC handlers put commands on one  *)
(* queue, the service loop takes them one at a time, slow reads run in     *)
(* tasks of their own, and the liveness watcher probes the loop through    *)
(* the same queue.                                                         *)
(*                                                                         *)
(*   rpc       per call: its method, its caller, its task off the loop     *)
(*   svc       the service loop: its queue and the command it is busy with *)
(*   watcher   the liveness watcher of liveness.rs                         *)
(*   tun       the state machine behind the loop, and the loop's view      *)
(*                                                                         *)
(* Time passes in units.  Whatever can happen now happens before the next  *)
(* unit; a command or a task that takes long ends at any time up to its    *)
(* bound.                                                                  *)
(***************************************************************************)
EXTENDS Naturals, Sequences, FiniteSets

CONSTANTS Methods,      \* the RPC methods that the callers use
          RpcCalls,     \* how many calls are made
          INTERVAL, TIMEOUT, STRIKES,
          REGISTER_DIAGNOSTIC_TIMEOUT, RUN_DIAGNOSTIC_TIMEOUT,
          ACCOUNT_READ_TIMEOUT, TENTATIVE_GATEWAYS_TIMEOUT,
          TEST_DEADLINE,
          MUTATION_BOUND,  \* API timeouts bound an account mutation
          START_BOUND,     \* and the construction of the service
          RpcHangs         \* whether an inline command may never return

VARIABLES rpc, svc, watcher, tun

rpcVars == <<rpc, svc, watcher, tun>>

-----------------------------------------------------------------------------
(* The methods, by what the loop does for them.                            *)

PointSetters == {"set_entry_point", "set_exit_point"}

FlagSetters ==
  {"set_disable_ipv6", "set_enable_two_hop", "set_enable_bridges",
   "set_enable_lewes_protocol", "set_netstack", "set_allow_lan",
   "set_killswitch", "set_stealth_api", "set_always_on", "get_always_on_status"}

SelectionSetters ==
  {"set_legacy_split_tunnel", "set_enable_gateway_independence",
   "set_gateway_independence_notifications"}

ListSetters == {"set_inbound_exemptions", "get_inbound_exemptions"}

DnsSetters == {"set_residential_exit", "set_enable_custom_dns", "set_custom_dns"}

OtherSetters == {"set_enable_ad_blocking", "set_mixnet_traffic_config", "set_network"}

LocalReads == {"info", "get_config"}

NetworkReads ==
  {"get_system_messages", "get_network_compatibility", "get_feature_flags",
   "get_default_dns", "get_dns_upstream_owner"}

StateReads == {"get_tunnel_state", "get_account_state", "refresh_account_state",
               "get_socks5_status"}

TunnelCommands == {"connect_tunnel", "reconnect_tunnel", "disconnect_tunnel"}

Listings == {"list_gateways", "list_filtered_gateways"}

GatewayChecks == {"test_gateways", "get_tentative_gateways"}

Diagnostics == {"run_diagnostic", "register_diagnostic"}

StoreAccount ==
  {"store_account", "decentralised_obtain_ticketbooks", "deeplink_store_account"}

(* Refused unless the loop sees the tunnel down.                           *)
DownOnly == {"forget_account", "rotate_keys", "reset_device_identity"}

IdentityReads == {"get_account_identity", "get_account_links"}

DeviceReads ==
  {"get_device_identity", "get_devices", "get_active_devices",
   "get_available_tickets", "get_account_summary", "get_deeplink"}

AccountReads == IdentityReads \cup DeviceReads
  \cup {"account_balance", "is_account_stored", "get_account_usage"}

Socks5Methods == {"enable_socks5", "disable_socks5"}

LogMethods == {"get_log_path", "delete_log_file"}

(* Answered while the loop handles the command.                            *)
Quick == PointSetters \cup FlagSetters \cup SelectionSetters \cup ListSetters
           \cup DnsSetters \cup OtherSetters \cup LocalReads \cup NetworkReads
           \cup StateReads \cup LogMethods

(* Run by the loop itself, in order with Connect.                          *)
SlowInline == StoreAccount \cup DownOnly \cup (Diagnostics \ {"run_diagnostic"})

(* Run in a task; a listing and a SOCKS5 command have no deadline.         *)
Spawned == AccountReads \cup Listings \cup GatewayChecks \cup Socks5Methods
             \cup (Diagnostics \ {"register_diagnostic"})

AllMethods == Quick \cup TunnelCommands \cup SlowInline \cup Spawned

Unbounded == Listings \cup Socks5Methods

Deadline(m) == CASE m \in AccountReads -> ACCOUNT_READ_TIMEOUT
                 [] m = "run_diagnostic" -> RUN_DIAGNOSTIC_TIMEOUT
                 [] m = "test_gateways" -> TEST_DEADLINE
                 [] m = "get_tentative_gateways" -> TENTATIVE_GATEWAYS_TIMEOUT
                 [] OTHER -> 0

InlineBound(m) == IF m = "register_diagnostic" THEN REGISTER_DIAGNOSTIC_TIMEOUT
                                               ELSE MUTATION_BOUND

(* One diagnostic run and one gateway test at a time.                      *)
Slotted == {"run_diagnostic", "test_gateways"}

-----------------------------------------------------------------------------
RpcIds == 1..RpcCalls

Probe == 0        \* the watcher's GetTunnelState in the queue

Uncalled == [method |-> "none", caller |-> "idle", task |-> "none", left |-> 0]

IdleLoop == [on |-> 0, left |-> 0, hung |-> FALSE]

Taking == svc.phase = "running" /\ svc.busy = IdleLoop

(* A reply reaches a caller that is still there.                           *)
Answered(call, with) ==
  IF call.caller = "waiting" THEN [call EXCEPT !.caller = with] ELSE call

SlotTaken(m) == \E c \in RpcIds : rpc[c].method = m /\ rpc[c].task # "none"

-----------------------------------------------------------------------------
(* The callers.                                                            *)

(* send_and_wait: an unparseable argument never reaches the queue.         *)
SendAndWait(c) ==
  /\ rpc[c].caller = "idle" /\ \A d \in RpcIds : d < c => rpc[d].caller # "idle"
  /\ svc.open
  /\ \E m \in Methods :
       rpc' = [rpc EXCEPT ![c].method = m,
                          ![c].caller = IF svc.phase = "gone" THEN "failed" ELSE "waiting"]
  /\ svc' = IF svc.phase = "gone" THEN svc ELSE [svc EXCEPT !.queue = Append(@, c)]
  /\ UNCHANGED <<watcher, tun>>

(* The client disconnects: tonic drops the handler and its receiver.       *)
CallerLeaves(c) ==
  /\ rpc[c].caller = "waiting"
  /\ rpc' = [rpc EXCEPT ![c].caller = "left"]
  /\ UNCHANGED <<svc, watcher, tun>>

-----------------------------------------------------------------------------
(* The service loop.                                                       *)

ServiceStarted ==
  /\ svc.phase = "starting"
  /\ svc' = [svc EXCEPT !.phase = "running", !.busy = IdleLoop]
  /\ UNCHANGED <<rpc, watcher, tun>>

(* The constructor fails: the receiver is dropped with everything in it.   *)
ReceiverDropped ==
  /\ svc' = [svc EXCEPT !.phase = "gone", !.busy = IdleLoop, !.queue = <<>>, !.open = FALSE]
  /\ rpc' = [c \in RpcIds |-> IF rpc[c].task = "none" THEN Answered(rpc[c], "failed")
                                                     ELSE rpc[c]]

ServiceFails ==
  /\ svc.phase = "starting" /\ ReceiverDropped
  /\ UNCHANGED <<watcher, tun>>

Popped == [svc EXCEPT !.queue = Tail(@)]

(* GetTunnelState of the watcher: only the newest probe still has someone  *)
(* waiting for its reply.                                                  *)
TakeProbe ==
  /\ Taking /\ svc.queue # <<>> /\ Head(svc.queue) = Probe
  /\ svc' = Popped
  /\ watcher' = IF /\ watcher.phase = "probing"
                   /\ \A i \in 2..Len(svc.queue) : svc.queue[i] # Probe
                THEN [watcher EXCEPT !.phase = "sleeping", !.clock = INTERVAL,
                                     !.missed = 0, !.slow = 0]
                ELSE watcher
  /\ UNCHANGED <<rpc, tun>>

TakeQuick(c) ==
  /\ rpc[c].method \in Quick
  /\ rpc' = [rpc EXCEPT ![c] = Answered(@, "answered")]
  /\ svc' = Popped
  /\ UNCHANGED <<watcher, tun>>

(* set_target_state and reconnect_tunnel send to the machine and answer.   *)
TakeTunnelCommand(c) ==
  /\ rpc[c].method \in TunnelCommands
  /\ rpc' = [rpc EXCEPT ![c] = Answered(@, "answered")]
  /\ svc' = Popped
  /\ tun' = [tun EXCEPT !.commands = Append(@, rpc[c].method)]
  /\ UNCHANGED watcher

(* handle_forget_account, handle_rotate_keys, handle_reset_device_identity *)
(* and handle_register_diagnostic look at the loop's own view.             *)
TakeInline(c) ==
  /\ rpc[c].method \in SlowInline
  /\ IF rpc[c].method \in DownOnly \cup {"register_diagnostic"} /\ tun.view # "down"
     THEN /\ rpc' = [rpc EXCEPT ![c] = Answered(@, "refused")]
          /\ svc' = Popped /\ UNCHANGED watcher
     ELSE /\ \E hangs \in {FALSE, RpcHangs} :
               svc' = [Popped EXCEPT !.busy = [on |-> c, left |-> InlineBound(rpc[c].method),
                                               hung |-> hangs]]
          /\ watcher' = [watcher EXCEPT !.slow = @ + 1]
          /\ UNCHANGED rpc
  /\ UNCHANGED tun

\* Faulty variant: no slots.
TakeSpawnedUnslotted(c) ==
  /\ rpc[c].method \in Spawned
  /\ rpc' = [rpc EXCEPT ![c].task = "running", ![c].left = Deadline(rpc[c].method)]
  /\ svc' = Popped
  /\ UNCHANGED <<watcher, tun>>

(* spawn_reply and the spawned handlers: a second run of a slot's method   *)
(* is refused, everything else gets a task.                                *)
TakeSpawned(c) ==
  /\ rpc[c].method \in Spawned
  /\ rpc' = IF rpc[c].method \in Slotted /\ SlotTaken(rpc[c].method)
            THEN [rpc EXCEPT ![c] = Answered(@, "refused")]
            ELSE [rpc EXCEPT ![c].task = "running", ![c].left = Deadline(rpc[c].method)]
  /\ svc' = Popped
  /\ UNCHANGED <<watcher, tun>>

TakeCall ==
  /\ Taking /\ svc.queue # <<>> /\ Head(svc.queue) # Probe
  /\ LET c == Head(svc.queue)
     IN TakeQuick(c) \/ TakeTunnelCommand(c) \/ TakeInline(c) \/ TakeSpawned(c)

(* The inline command returns, or its timeout cuts it short.               *)
CommandReturns ==
  /\ svc.phase = "running" /\ svc.busy # IdleLoop /\ ~svc.busy.hung
  /\ rpc' = [rpc EXCEPT ![svc.busy.on] = Answered(@, "answered")]
  /\ svc' = [svc EXCEPT !.busy = IdleLoop]
  /\ UNCHANGED <<watcher, tun>>

TakeEvent ==
  /\ Taking /\ tun.events # <<>>
  /\ tun' = [tun EXCEPT !.view = Head(tun.events), !.events = Tail(@)]
  /\ UNCHANGED <<rpc, svc, watcher>>

-----------------------------------------------------------------------------
(* Tasks off the loop.                                                     *)

(* The work is done or its deadline passes.  The permit of a diagnostic    *)
(* run goes with the work, before the reply.                               *)
TaskEnds(c) ==
  /\ rpc[c].task = "running"
  /\ rpc' = [rpc EXCEPT ![c] = [Answered(@, "answered") EXCEPT
                                  !.task = IF rpc[c].method = "test_gateways"
                                           THEN "answered" ELSE "none"]]
  /\ UNCHANGED <<svc, watcher, tun>>

(* The permit of a gateway test lives as long as the task.                 *)
PermitDropped(c) ==
  /\ rpc[c].task = "answered"
  /\ rpc' = [rpc EXCEPT ![c].task = "none"]
  /\ UNCHANGED <<svc, watcher, tun>>

(* `closed()` of the reply channel; a listing runs on for nobody.          *)
TaskAbandoned(c) ==
  /\ rpc[c].task = "running" /\ rpc[c].caller = "left"
  /\ rpc[c].method \notin Unbounded \cup {"get_tentative_gateways"}
  /\ rpc' = [rpc EXCEPT ![c].task = "none"]
  /\ UNCHANGED <<svc, watcher, tun>>

-----------------------------------------------------------------------------
(* The liveness watcher.                                                   *)

probe_service ==
  /\ watcher.phase = "sleeping" /\ watcher.clock = 0
  /\ IF svc.phase = "gone"
     THEN watcher' = [watcher EXCEPT !.phase = "shutdown"] /\ UNCHANGED svc
     ELSE /\ watcher' = [watcher EXCEPT !.phase = "probing", !.clock = TIMEOUT]
          /\ svc' = [svc EXCEPT !.queue = Append(@, Probe)]
  /\ UNCHANGED <<rpc, tun>>

(* The probe times out: a strike, and the process exits on the last one.   *)
ProbeMissed ==
  /\ watcher.phase = "probing" /\ watcher.clock = 0
  /\ watcher' = [watcher EXCEPT !.phase = IF watcher.missed + 1 >= STRIKES
                                          THEN "hung" ELSE "sleeping",
                                !.clock = INTERVAL, !.missed = @ + 1]
  /\ UNCHANGED <<rpc, svc, tun>>

(* The loop dropped the probe's sender: it is going away.                  *)
ProbeDropped ==
  /\ watcher.phase = "probing" /\ svc.phase = "gone"
  /\ watcher' = [watcher EXCEPT !.phase = "shutdown"]
  /\ UNCHANGED <<rpc, svc, tun>>

-----------------------------------------------------------------------------
(* The state machine, the shutdown and time.                               *)

MachineMoves ==
  /\ tun.commands # <<>>
  /\ LET state == IF Head(tun.commands) = "disconnect_tunnel" THEN "down" ELSE "up"
     IN tun' = [tun EXCEPT !.commands = Tail(@), !.state = state,
                           !.events = IF state = tun.state THEN @ ELSE Append(@, state)]
  /\ UNCHANGED <<rpc, svc, watcher>>

(* A signal: the loop leaves its select and stops the other services.      *)
ShutdownSignal ==
  /\ Taking
  /\ svc' = [svc EXCEPT !.phase = "stopping", !.busy = [IdleLoop EXCEPT !.left = START_BOUND]]
  /\ watcher' = [watcher EXCEPT !.slow = @ + 1]
  /\ UNCHANGED <<rpc, tun>>

\* Faulty variant: the service keeps the receiver of its queue.
ServiceStoppedKeeping ==
  /\ svc.phase = "stopping"
  /\ svc' = [svc EXCEPT !.phase = "gone", !.busy = IdleLoop, !.open = FALSE]
  /\ UNCHANGED <<rpc, watcher, tun>>

ServiceStopped ==
  /\ svc.phase = "stopping" /\ ReceiverDropped
  /\ UNCHANGED <<watcher, tun>>

(* wait_until_shutdown: the listener drains, then the process ends.        *)
ProcessEnds ==
  /\ svc.phase = "gone" /\ \A c \in RpcIds : rpc[c].caller # "waiting"
  /\ watcher.phase # "hung"
  /\ svc' = [svc EXCEPT !.phase = "exited", !.open = FALSE]
  /\ rpc' = [c \in RpcIds |-> [rpc[c] EXCEPT !.task = "none"]]
  /\ watcher' = [watcher EXCEPT !.phase = "shutdown"]
  /\ UNCHANGED tun

Exited == svc.phase = "exited" \/ watcher.phase = "hung"

(* What is due now is done before time passes.                             *)
Urgent ==
  \/ Taking /\ (svc.queue # <<>> \/ tun.events # <<>>)
  \/ svc.phase = "running" /\ svc.busy # IdleLoop /\ svc.busy.left = 0 /\ ~svc.busy.hung
  \/ svc.phase \in {"starting", "stopping"} /\ svc.busy.left = 0
  \/ svc.phase = "gone" /\ \A c \in RpcIds : rpc[c].caller # "waiting"
  \/ watcher.phase \in {"sleeping", "probing"} /\ watcher.clock = 0
  \/ tun.commands # <<>>
  \/ \E c \in RpcIds : \/ rpc[c].task = "running" /\ rpc[c].left = 0 /\ rpc[c].method \notin Unbounded
                      \/ rpc[c].task = "answered"

Less(n) == IF n = 0 THEN 0 ELSE n - 1

RpcTick ==
  /\ ~Urgent
  /\ svc' = [svc EXCEPT !.busy.left = IF svc.busy.hung THEN @ ELSE Less(@)]
  /\ watcher' = [watcher EXCEPT !.clock = Less(@)]
  /\ rpc' = [c \in RpcIds |-> [rpc[c] EXCEPT !.left = IF rpc[c].task = "running"
                                                      THEN Less(@) ELSE 0]]
  /\ UNCHANGED tun

-----------------------------------------------------------------------------
RpcInit ==
  /\ rpc = [c \in RpcIds |-> Uncalled]
  /\ svc = [phase |-> "starting", open |-> TRUE, queue |-> <<>>,
            busy |-> [IdleLoop EXCEPT !.left = START_BOUND]]
  /\ watcher = [phase |-> "sleeping", clock |-> INTERVAL, missed |-> 0, slow |-> 1]
  /\ tun = [state |-> "down", view |-> "down", commands |-> <<>>, events |-> <<>>]

RpcTasks == \E c \in RpcIds : TaskEnds(c) \/ PermitDropped(c) \/ TaskAbandoned(c)

RpcLoop == ServiceStarted \/ TakeProbe \/ TakeCall \/ CommandReturns \/ TakeEvent
             \/ ServiceStopped \/ ProcessEnds

RpcWatcher == probe_service \/ ProbeMissed \/ ProbeDropped

RpcNext ==
  /\ ~Exited
  /\ \/ \E c \in RpcIds : SendAndWait(c) \/ CallerLeaves(c)
     \/ RpcTasks \/ RpcLoop \/ ServiceFails \/ RpcWatcher
     \/ MachineMoves \/ ShutdownSignal \/ RpcTick

(* Tokio schedules every runnable task, and time passes.                   *)
RpcFairSteps == {"loop", "watcher", "machine", "tick"}

RpcFair(s) ==
  /\ ~Exited
  /\ \/ s = "loop" /\ RpcLoop
     \/ s = "watcher" /\ RpcWatcher
     \/ s = "machine" /\ MachineMoves
     \/ s = "tick" /\ RpcTick

RpcTaskFair(c) == ~Exited /\ (TaskEnds(c) \/ PermitDropped(c) \/ TaskAbandoned(c))

RpcFairness ==
  /\ \A s \in RpcFairSteps : WF_rpcVars(RpcFair(s))
  /\ \A c \in RpcIds : WF_rpcVars(RpcTaskFair(c))

RpcSpec == RpcInit /\ [][RpcNext]_rpcVars /\ RpcFairness

-----------------------------------------------------------------------------
(* The shape of the state.                                                 *)
RpcTypeOK ==
  /\ \A c \in RpcIds :
       /\ rpc[c].method \in AllMethods \cup {"none"}
       /\ rpc[c].caller \in {"idle", "waiting", "answered", "refused", "failed", "left"}
       /\ rpc[c].task \in {"none", "running", "answered"}
       /\ rpc[c].left \in 0..RUN_DIAGNOSTIC_TIMEOUT
  /\ svc.phase \in {"starting", "running", "stopping", "gone", "exited"}
  /\ svc.busy.on \in 0..RpcCalls
  /\ watcher.phase \in {"sleeping", "probing", "hung", "shutdown"}
  /\ watcher.missed \in 0..STRIKES
  /\ {tun.state, tun.view} \subseteq {"up", "down"}

(* The watcher never counts more strikes than slow inline commands have    *)
(* been started since the last probe that was answered (its own start and  *)
(* stop included): one costs at most one strike, so a loop that makes      *)
(* progress is only taken for hung after STRIKES of them in a row.         *)
OneStrikeEach == svc.busy.hung \/ watcher.missed <= watcher.slow

(* A diagnostic run and a gateway test are each alone, and nobody waits    *)
(* for a task that is gone: a waiting call is in the queue, with the loop  *)
(* or with its own task.                                                   *)
CallsTracked ==
  /\ \A m \in Slotted : Cardinality({c \in RpcIds : rpc[c].method = m /\ rpc[c].task # "none"}) <= 1
  /\ ~Exited => \A c \in RpcIds : rpc[c].caller = "waiting" =>
       \/ \E i \in 1..Len(svc.queue) : svc.queue[i] = c
       \/ svc.busy.on = c
       \/ rpc[c].task = "running"

(* Every caller hears back, unless it leaves or the process ends.          *)
CallersHearBack ==
  \A c \in RpcIds : rpc[c].caller = "waiting" ~> (rpc[c].caller # "waiting" \/ Exited)

(* A loop that is stuck in a command for good is noticed: the process      *)
(* exits and procd starts a new one.                                       *)
StuckLoopExits == svc.busy.hung ~> Exited

(* A shutdown ends, whatever is queued or running then.                    *)
ShutdownDrains == svc.phase = "stopping" ~> Exited

(* A slot is free again in the end, its caller gone or not.                *)
SlotsFreed == \A m \in Slotted : SlotTaken(m) ~> ~SlotTaken(m) \/ Exited

(* The loop, its callers and its watchdog agree: the facts above.          *)
CallsConsistent == RpcTypeOK /\ OneStrikeEach /\ CallsTracked

(* Nobody waits for the loop for ever, and a stuck loop is replaced.       *)
CallsProgress == CallersHearBack /\ StuckLoopExits /\ ShutdownDrains /\ SlotsFreed
=============================================================================
