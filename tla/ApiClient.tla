------------------------------ MODULE ApiClient ------------------------------
(***************************************************************************)
(* The client of the NymVPN API: requests signed with a token that carries *)
(* the time, on a router whose clock may be wrong and may jump.  The skew  *)
(* to the API's clock is measured with a health call and cached; a token   *)
(* that is refused for its time is measured again and, if the clock still  *)
(* looks wrong, sent once more.  The client also follows the process-wide  *)
(* fronting policy (Stealth API) from one request to the next.             *)
(*                                                                         *)
(* Times are offsets from the API's clock.                                 *)
(***************************************************************************)
EXTENDS Integers

CONSTANTS ApiTasks,                     \* callers of the shared client
          ApiEndpoints,                 \* what they call
          Offsets,                      \* what the router's clock may be off by
          MAX_ACCEPTABLE_SKEW_SECONDS,  \* in the unit of the offsets
          NYM_VPN_API_TIMEOUT,          \* of one attempt, in the same unit
          ApiRetries,                   \* attempts of a health call after the first
          ApiFaults                     \* bound

ASSUME ApiAssumption == /\ Offsets \subseteq Int /\ 0 \in Offsets
                        /\ MAX_ACCEPTABLE_SKEW_SECONDS \in Nat \ {0}
                        /\ NYM_VPN_API_TIMEOUT \in Nat /\ ApiRetries \in Nat
                        /\ ApiFaults \in Nat

VARIABLES wall,    \* the offset of the router's clock
          skews,   \* SkewState: cached skew, unset or past its four hours
          calls,   \* per caller the request under way
          fronts,  \* fronting policy, its mirror, and the base URL in use
          apiLeft  \* faults, clock jumps and switches left

apiVars == <<wall, skews, calls, fronts, apiLeft>>

\* The endpoints, by the way they are asked.
AccountEndpoints == {"get_account", "get_account_summary", "get_account_summary_with_device"}
DeviceEndpoints  == {"get_devices", "get_active_devices", "get_device_by_id"}
ZkNymEndpoints   == {"get_device_zk_nyms", "get_zk_nyms_available_for_download", "get_zk_nym_by_id"}
PlanEndpoints    == {"get_free_passes", "get_subscriptions", "get_active_subscriptions", "get_usage"}
GetEndpoints     == AccountEndpoints \cup DeviceEndpoints \cup ZkNymEndpoints \cup PlanEndpoints
PostEndpoints    == {"register_device", "request_zk_nym", "apply_freepass", "create_subscription"}
DeleteEndpoints  == {"confirm_zk_nym_download_by_id"}
PatchEndpoints   == {"update_device"}
GatewayEndpoints == {"get_gateways", "get_vpn_gateways", "get_vpn_gateway_countries", "get_gateway_countries",
                     "get_entry_gateways", "get_entry_gateway_countries"}
ExitEndpoints    == {"get_exit_gateways", "get_exit_gateway_countries",
                     "get_directory_zk_nyms_ticketbook_partial_verification_keys"}

\* What is asked of one endpoint of a kind is asked of all.
Offers(endpoints) == ApiEndpoints \cap endpoints # {}

Abs(n) == IF n < 0 THEN -n ELSE n

\* is_synced: the local clock is good enough.
use_remote_time(skew) == Abs(skew) >= MAX_ACCEPTABLE_SKEW_SECONDS

\* The time in a token, against the API's clock: the local clock, corrected
\* by the skew when there is one to use.
jwt(skew) == wall - skew

\* The API takes a token as close to its own clock as the client asks for.
Refuses(time) == Abs(time) >= MAX_ACCEPTABLE_SKEW_SECONDS

NoCall == [pc |-> "idle", skew |-> 0, before |-> 0, waited |-> 0, tries |-> 0,
           sync |-> FALSE, fronted |-> FALSE, asked |-> FALSE]

ApiFault == apiLeft > 0 /\ apiLeft' = apiLeft - 1

-----------------------------------------------------------------------------
(* Fronting.                                                               *)

\* The mirror is stored first, the library's policy after it.
set_shared_front_policy ==
    /\ \/ fronts.always = fronts.shared /\ ApiFault
       \/ fronts.always # fronts.shared /\ apiLeft' = apiLeft
    /\ fronts' = IF fronts.always = fronts.shared THEN [fronts EXCEPT !.always = ~@]
                 ELSE [fronts EXCEPT !.shared = fronts.always]
    /\ UNCHANGED <<wall, skews, calls>>

\* Faulty variant: a client that exists already is left on the URL it uses.
prefer_fronted_base_url_once == {fronts}

\* Every request steps the client onto a URL with cover domains first.  While
\* the library does not front yet it may rotate to any other URL.
prefer_fronted_base_url ==
    IF ~fronts.always \/ fronts.fronted THEN {fronts}
    ELSE {[fronts EXCEPT !.fronted = f]: f \in IF fronts.shared THEN {TRUE} ELSE BOOLEAN}

\* A failed attempt rotates the URLs; with fronting on, among fronted ones.
maybe_rotate_hosts ==
    {[fronts EXCEPT !.fronted = f]: f \in IF fronts.shared THEN {TRUE} ELSE BOOLEAN}

Sends(t, call) ==
    /\ fronts' \in prefer_fronted_base_url
    /\ calls' = [calls EXCEPT ![t] = [call EXCEPT !.fronted = fronts'.fronted,
                                                  !.asked = fronts.always /\ fronts.shared]]

-----------------------------------------------------------------------------
(* The time of the API.                                                    *)

\* get_remote_time reads the clock and asks for the health of the API.
Measures(t, call) == Sends(t, [call EXCEPT !.pc = "health", !.before = wall,
                                           !.waited = 0, !.tries = 0])

\* A failed attempt is made again; the clock read before the first one stays.
get_health_retries(t) ==
    /\ calls[t].pc = "health" /\ calls[t].tries < ApiRetries /\ ApiFault
    /\ fronts' \in maybe_rotate_hosts
    /\ calls' = [calls EXCEPT ![t].tries = @ + 1, ![t].waited = @ + NYM_VPN_API_TIMEOUT]
    /\ UNCHANGED <<wall, skews>>

\* from_remote_timestamp: half of what the local clock saw pass is added to
\* the API's time, then the local clock is compared with that.
Skew(call) == wall - (call.waited + wall - call.before) \div 2

Sign(call, skew) == [call EXCEPT !.pc = "send", !.skew = IF use_remote_time(skew) THEN skew ELSE 0]

\* refresh_skew: measured and cached; a second measurement that finds the
\* clock good ends the request with its first error.
refresh_skew(t) ==
    /\ calls[t].pc = "health"
    /\ LET skew == Skew(calls[t])
       IN  /\ skews' = [set |-> TRUE, skew |-> skew]
           /\ calls' = [calls EXCEPT ![t] =
                          IF ~@.sync THEN Sign(@, skew)
                          ELSE IF use_remote_time(skew) THEN Sign(@, skew)
                          ELSE [@ EXCEPT !.pc = "refused"]]
    /\ UNCHANGED <<wall, fronts, apiLeft>>

\* Without the API's time the local clock has to do; a retry is given up.
RefreshFails(t) ==
    /\ calls[t].pc = "health" /\ calls[t].tries = ApiRetries /\ ApiFault
    /\ calls' = [calls EXCEPT ![t] = IF @.sync THEN [@ EXCEPT !.pc = "refused"]
                                     ELSE [@ EXCEPT !.pc = "send", !.skew = 0]]
    /\ UNCHANGED <<wall, skews, fronts>>

SkewExpires == /\ skews.set /\ ApiFault
               /\ skews' = [skews EXCEPT !.set = FALSE]
               /\ UNCHANGED <<wall, calls, fronts>>

\* The clock is set by hand or by NTP.
ClockJumps == /\ ApiFault
              /\ \E offset \in Offsets \ {wall}: wall' = offset
              /\ UNCHANGED <<skews, calls, fronts>>

-----------------------------------------------------------------------------
(* Requests.                                                               *)

\* From the cache while it is fresh.
current_remote_time(t) ==
    /\ calls[t].pc = "idle"
    /\ IF skews.set THEN /\ calls' = [calls EXCEPT ![t] = Sign(NoCall, skews.skew)]
                         /\ fronts' = fronts
       ELSE Measures(t, NoCall)
    /\ UNCHANGED <<wall, skews, apiLeft>>

get_authorized(t) == Offers(GetEndpoints) /\ current_remote_time(t)
post_authorized(t) == Offers(PostEndpoints) /\ current_remote_time(t)

\* These start from the local clock.
LocalTime(t) == /\ calls[t].pc = "idle"
                /\ calls' = [calls EXCEPT ![t] = [NoCall EXCEPT !.pc = "send"]]
                /\ UNCHANGED <<wall, skews, fronts, apiLeft>>

delete_authorized(t) == Offers(DeleteEndpoints) /\ LocalTime(t)
patch_authorized(t) == Offers(PatchEndpoints) /\ LocalTime(t)

\* A refused token: the skew is measured again, unless this is the retry.
get_query(t) ==
    /\ calls[t].pc = "send"
    /\ IF ~Refuses(jwt(calls[t].skew)) THEN Sends(t, [calls[t] EXCEPT !.pc = "done"])
       ELSE IF calls[t].sync THEN Sends(t, [calls[t] EXCEPT !.pc = "refused"])
       ELSE Measures(t, [calls[t] EXCEPT !.sync = TRUE])
    /\ UNCHANGED <<wall, skews, apiLeft>>

\* Any other error goes to the caller.
QueryFails(t) == /\ calls[t].pc = "send" /\ ApiFault
                 /\ Sends(t, [calls[t] EXCEPT !.pc = IF calls[t].sync THEN "refused" ELSE "failed"])
                 /\ UNCHANGED <<wall, skews>>

get_json_with_retry(t) ==
    /\ \/ /\ Offers(GatewayEndpoints \cup ExitEndpoints) /\ calls[t].pc = "idle" /\ apiLeft' = apiLeft
          /\ Sends(t, [NoCall EXCEPT !.pc = "public"])
       \/ /\ calls[t].pc = "public" /\ calls[t].tries < ApiRetries /\ ApiFault
          /\ Sends(t, [calls[t] EXCEPT !.tries = @ + 1])
       \/ /\ calls[t].pc = "public" /\ calls[t].tries = ApiRetries /\ ApiFault
          /\ calls' = [calls EXCEPT ![t].pc = "failed"] /\ fronts' = fronts
       \/ /\ calls[t].pc = "public" /\ apiLeft' = apiLeft
          /\ calls' = [calls EXCEPT ![t].pc = "done"] /\ fronts' = fronts
    /\ UNCHANGED <<wall, skews>>

CallReturns(t) == /\ calls[t].pc \in {"done", "refused", "failed"}
             /\ calls' = [calls EXCEPT ![t] = NoCall]
             /\ UNCHANGED <<wall, skews, fronts, apiLeft>>

-----------------------------------------------------------------------------
ApiInit == /\ wall \in Offsets
           /\ skews = [set |-> FALSE, skew |-> 0]
           /\ calls = [t \in ApiTasks |-> NoCall]
           /\ fronts = [always |-> FALSE, shared |-> FALSE, fronted |-> FALSE]
           /\ apiLeft = ApiFaults

ApiNext == \/ \E t \in ApiTasks: \/ get_authorized(t) \/ post_authorized(t)
                                 \/ delete_authorized(t) \/ patch_authorized(t) \/ get_json_with_retry(t)
                                 \/ get_query(t) \/ QueryFails(t) \/ CallReturns(t)
                                 \/ get_health_retries(t) \/ refresh_skew(t) \/ RefreshFails(t)
           \/ set_shared_front_policy \/ SkewExpires \/ ClockJumps

ApiSpec == ApiInit /\ [][ApiNext]_apiVars

\* A caller that has its answer goes on, a request under way is answered.
ApiFair(t) == get_query(t) \/ refresh_skew(t) \/ CallReturns(t)

ApiFairness == \A t \in ApiTasks : WF_apiVars(ApiFair(t))

FairApiSpec == ApiSpec /\ ApiFairness

-----------------------------------------------------------------------------
\* The shape of the state.
ApiTypeOK == /\ wall \in Offsets
             /\ skews.set \in BOOLEAN /\ skews.skew \in Int
             /\ \A t \in ApiTasks: /\ calls[t].pc \in {"idle", "health", "send", "public", "done", "refused", "failed"}
                                   /\ calls[t].tries \in 0..ApiRetries
             /\ apiLeft \in 0..ApiFaults

\* With Stealth API on, no request leaves for a host without a cover domain,
\* however old the client and wherever a failed attempt had rotated it.
StealthReachesClients == \A t \in ApiTasks: calls[t].asked => calls[t].fronted

\* Whatever the clock did and however slow the API was: once both are steady,
\* tokens are accepted again, for good.
EventuallyAccepted == <>[](\A t \in ApiTasks: calls[t].pc # "refused")

\* The client's calls are well formed and keep to the fronting policy.
ApiConsistent == ApiTypeOK /\ StealthReachesClients
=============================================================================
