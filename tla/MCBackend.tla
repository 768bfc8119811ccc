------------------------------ MODULE MCBackend ------------------------------
(***************************************************************************)
(* What the daemon has to do with the Nym network, for TLC: the account,   *)
(* its tickets, the API client, the gateway directory and selection, and   *)
(* the tunnel session with its bandwidth meter.  The components share no   *)
(* state here.  One of them moves, the others stay where they start, so    *)
(* the states of the run are the sum of theirs and not the product.        *)
(***************************************************************************)
EXTENDS AccountController, ZkNymRequests, ApiClient, GatewayCache,
        GatewaySelection, TunnelSession, DepletionRate

CONSTANTS g1, g2, g3

VARIABLE moves

backendVars == <<accountVars, zkVars, apiVars, dirVars, selectionVars, sessionVars, meter, moves>>

\* A clock that is far behind, right, or a little ahead.
McOffsets == {-4, 0, 1}

\* Gateways that differ in what selection looks at: score, country, and what
\* makes two of them dependent.
McKind(s, c, a, f, r) == [score |-> s, country |-> c, asn |-> a, family |-> f, route |-> r,
                          residential |-> s > 1, bridge |-> s < 3]
McKinds == {McKind(3, "a", {1}, {}, {1}), McKind(2, "a", {2}, {1}, {2}), McKind(1, "b", {2}, {1}, {1})}
McKindsFew == {McKind(3, "a", {1}, {}, {1}), McKind(0, "b", {}, {}, {})}
McEntryPoints == {<<"random">>, <<"country", "a">>, <<"gateway", g1>>}
McExitPoints == {<<"random">>, <<"country", "b">>, <<"gateway", g1>>}
McAny == {<<"random">>}

\* Where a component that does not move stays.
AtRest ==
    /\ moves # "account" => ctl = AccountInitial("none", FALSE)
    /\ moves # "api" => wall = 0
    /\ moves # "directory" =>
         outside = [online |-> FALSE, reported |-> FALSE, work |-> DirWork, faults |-> DirFaults]
    /\ moves # "selection" =>
         /\ directory = [g \in Identities |-> CHOOSE k \in Kinds : TRUE]
         /\ settings = [entry |-> <<"random">>, exit |-> <<"random">>, criteria |-> CHOOSE c \in CriteriaSets : TRUE,
                        residential |-> FALSE, bridges |-> FALSE]
         /\ blacklist = {}

BackendInit ==
    /\ moves \in {"account", "tickets", "api", "directory", "selection", "session", "meter"}
    /\ AtRest
    /\ AccountInit /\ ZkInit /\ ApiInit /\ DirInit /\ SelectionInit /\ SessionInit /\ MeterInit

BackendNext ==
    /\ UNCHANGED moves
    /\ \/ /\ moves = "account" /\ AccountNext
          /\ UNCHANGED <<zkVars, apiVars, dirVars, selectionVars, sessionVars, meter>>
       \/ /\ moves = "tickets" /\ ZkNext
          /\ UNCHANGED <<accountVars, apiVars, dirVars, selectionVars, sessionVars, meter>>
       \/ /\ moves = "api" /\ ApiNext
          /\ UNCHANGED <<accountVars, zkVars, dirVars, selectionVars, sessionVars, meter>>
       \/ /\ moves = "directory" /\ DirNext
          /\ UNCHANGED <<accountVars, zkVars, apiVars, selectionVars, sessionVars, meter>>
       \/ /\ moves = "selection" /\ SelectionNext
          /\ UNCHANGED <<accountVars, zkVars, apiVars, dirVars, sessionVars, meter>>
       \/ /\ moves = "session" /\ SessionNext
          /\ UNCHANGED <<accountVars, zkVars, apiVars, dirVars, selectionVars, meter>>
       \/ /\ moves = "meter" /\ MeterNext
          /\ UNCHANGED <<accountVars, zkVars, apiVars, dirVars, selectionVars, sessionVars>>

BackendSpec == BackendInit /\ [][BackendNext]_backendVars

FairBackendSpec ==
    /\ BackendSpec
    /\ \A s \in AccountFairSteps : WF_accountVars(moves = "account" /\ AccountFair(s))
    /\ \A s \in ZkFairSteps, id \in ZkIds : WF_zkVars(moves = "tickets" /\ ZkFair(s, id))
    /\ \A t \in ApiTasks : WF_apiVars(moves = "api" /\ ApiFair(t))
    /\ \A s \in DirFairSteps : WF_dirVars(moves = "directory" /\ DirFair(s))
    /\ WF_selectionVars(moves = "selection" /\ SelectionStep)
    /\ \A s \in SessionFairSteps : WF_sessionVars(moves = "session" /\ SessionFair(s))

\* Neither the API client, nor the directory, nor a selection gets stuck.
NetworkProgress == EventuallyAccepted /\ KeptWarm /\ DirectorySettles /\ SelectionEnds
=============================================================================
