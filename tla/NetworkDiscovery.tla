-------------------------- MODULE NetworkDiscovery --------------------------
(***************************************************************************)
(* The network environment of the daemon: the discovery and network-detail *)
(* files of nym-vpn-network-config, how the daemon finds or recreates them *)
(* at start, and the refresher task that checks them every CHECK_INTERVAL, *)
(* with the commands the tunnel state machine and the service send it.     *)
(*                                                                         *)
(* What a file holds is <<"absent">>, <<"torn">> (truncated, not yet       *)
(* rewritten), <<"default">> (compiled in) or <<"fetched", v>>, v being    *)
(* the version the API served.  A file's age is "fresh", "stale"           *)
(* (MAX_FILE_AGE or older) or "future" (the clock was set back).           *)
(***************************************************************************)
EXTENDS Naturals

CONSTANTS DiscVersions,  \* the API serves versions 1 .. DiscVersions
          DiscFaults,    \* bound on failed fetches, crashes, clock steps
          DiscCommands   \* bound on commands and connectivity changes

ASSUME DiscAssumption ==
    DiscVersions \in Nat \ {0} /\ DiscFaults \in Nat /\ DiscCommands \in Nat

VARIABLES netfiles,       \* the two files
          proc,       \* the daemon: its network name and what it is doing
          refresher,  \* the refresher's flags, client and network
          world       \* the API's version, connectivity, the clock, budgets

discVars == <<netfiles, proc, refresher, world>>

FileNames == {"discovery", "network"}
Contents == {<<"absent">>, <<"torn">>, <<"default">>}
              \cup {<<"fetched", v>> : v \in 1..DiscVersions}
Ages == {"fresh", "stale", "future"}

Faulted == world.faults < DiscFaults
Fault == [world EXCEPT !.faults = @ + 1]

-----------------------------------------------------------------------------
(* The files.                                                              *)

(* deserialize_from_json_file: only an absent or corrupt file may be       *)
(* overwritten.                                                            *)
should_overwrite_file(f) == netfiles[f].holds \in {<<"absent">>, <<"torn">>}

(* is_stale_file: absent is stale; a modification time in the future is an *)
(* error.                                                                  *)
is_stale_file(f) == netfiles[f].holds = <<"absent">> \/ netfiles[f].age = "stale"

(* Discovery::fetch and fetch_nym_network_details: what the API serves.    *)
fetch == <<"fetched", world.version>>
fetch_nym_network_details == <<"fetched", world.version>>

(* serialize_to_json_file opens with truncate ...                          *)
Truncate(f, then) ==
    /\ netfiles' = [netfiles EXCEPT ![f] = [holds |-> <<"torn">>, age |-> "fresh"]]
    /\ proc' = [proc EXCEPT !.at = <<"write", f, then>>]

(* ... writes, and the caller may move the modification time back, so that *)
(* defaults count as stale.  An error of set_modified is only logged.      *)
DiscStep(at) == proc' = [proc EXCEPT !.at = at]
AfterWrite(f) == IF proc.booting THEN <<"ensure", f>> ELSE <<"refreshed", f>>

WriteFile ==
    \E f \in FileNames : \E holds \in Contents :
        /\ proc.at = <<"write", f, holds>>
        /\ netfiles' = [netfiles EXCEPT ![f].holds = holds]
        /\ DiscStep(IF holds = <<"default">> THEN <<"backdate", f>> ELSE AfterWrite(f))
        /\ UNCHANGED <<refresher, world>>

set_modified ==
    \E f \in FileNames :
        /\ proc.at = <<"backdate", f>>
        /\ \/ /\ netfiles' = [netfiles EXCEPT ![f].age = "stale"]
              /\ UNCHANGED world
           \/ Faulted /\ world' = Fault /\ UNCHANGED netfiles
        /\ DiscStep(AfterWrite(f))
        /\ UNCHANGED refresher

-----------------------------------------------------------------------------
(* Start: discover_env.                                                    *)

StartDaemon ==
    /\ proc.at = <<"down">>
    /\ proc' = [proc EXCEPT !.at = <<"ensure", "discovery">>, !.booting = TRUE]
    /\ UNCHANGED <<netfiles, refresher, world>>

(* The refresher starts with the network just built and a first tick due.  *)
Up(network) ==
    /\ proc' = [proc EXCEPT !.at = <<"up">>, !.booting = FALSE]
    /\ refresher' = [paused |-> FALSE, idle |-> FALSE, last |-> "never",
                     due |-> 1, overridden |-> FALSE,
                     network |-> network]

(* Discovery::ensure_exists: read, or recreate.  A network other than      *)
(* mainnet starts from its compiled-in discovery; for mainnet the fetch is *)
(* tried first.                                                            *)
ensure_discovery_exists ==
    LET f == "discovery" IN
    /\ proc.at = <<"ensure", f>>
    /\ \/ /\ ~should_overwrite_file(f)
          /\ DiscStep(<<"ensure", "network">>)
          /\ UNCHANGED <<netfiles, world>>
       \/ /\ should_overwrite_file(f) /\ proc.name # "mainnet"
          /\ Truncate(f, <<"default">>) /\ UNCHANGED world
       \/ /\ should_overwrite_file(f) /\ proc.name = "mainnet" /\ world.online
          /\ Truncate(f, fetch) /\ UNCHANGED world
       \/ /\ should_overwrite_file(f) /\ proc.name = "mainnet"
          /\ \/ ~world.online /\ UNCHANGED world
             \/ world.online /\ Faulted /\ world' = Fault
          /\ Truncate(f, <<"default">>)
    /\ UNCHANGED refresher

(* NymNetwork::ensure_exists: read, or fetch; only mainnet has a default,  *)
(* without one the start fails and procd starts the daemon again.          *)
ensure_network_exists ==
    LET f == "network" IN
    /\ proc.at = <<"ensure", f>>
    /\ \/ /\ ~should_overwrite_file(f)
          /\ Up([g \in FileNames |-> netfiles[g].holds])
          /\ UNCHANGED <<netfiles, world>>
       \/ /\ should_overwrite_file(f) /\ world.online
          /\ Truncate(f, fetch_nym_network_details) /\ UNCHANGED <<refresher, world>>
       \/ /\ should_overwrite_file(f)
          /\ \/ ~world.online /\ UNCHANGED world
             \/ world.online /\ Faulted /\ world' = Fault
          /\ IF proc.name = "mainnet"
             THEN Truncate(f, <<"default">>)
             ELSE DiscStep(<<"failed">>) /\ UNCHANGED netfiles
          /\ UNCHANGED refresher

Respawned ==
    /\ proc.at = <<"failed">> /\ DiscStep(<<"down">>)
    /\ UNCHANGED <<netfiles, refresher, world>>

-----------------------------------------------------------------------------
(* The refresher: DiscoveryRefresher::run.                                 *)

Idling == proc.at = <<"up">>
Command == /\ Idling /\ world.commands < DiscCommands
           /\ world' = [world EXCEPT !.commands = @ + 1]

Pause(paused) ==
    /\ Command /\ refresher.paused # paused
    /\ refresher' = [refresher EXCEPT !.paused = paused]
    /\ UNCHANGED <<netfiles, proc>>

(* Waking resets the interval to the last check plus CHECK_INTERVAL, or to *)
(* now, so the ticks missed while idle are forgotten.                      *)
SetIdle(idle) ==
    /\ Command /\ refresher.idle # idle
    /\ refresher' = [refresher EXCEPT
          !.idle = idle,
          !.due = IF idle THEN @ ELSE IF refresher.last = "recent" THEN 0 ELSE 1]
    /\ UNCHANGED <<netfiles, proc>>

(* The overrides are compared with current_resolver_overrides, which spawn *)
(* sets to None and nothing changes afterwards; a client that cannot be    *)
(* built leaves the old one.                                               *)
UseResolverOverrides(some) ==
    /\ Command
    /\ \E built \in BOOLEAN :
          refresher' = [refresher EXCEPT
             !.overridden = IF some /\ built THEN TRUE ELSE @]
    /\ UNCHANGED <<netfiles, proc>>

NetConnectivityChanges ==
    /\ world.commands < DiscCommands
    /\ world' = [world EXCEPT !.commands = @ + 1, !.online = ~@]
    /\ UNCHANGED <<netfiles, proc, refresher>>

(* A tick.  The files are looked at in order; refresh_discovery_file       *)
(* returns None for a file that is not stale, and an error ends the check. *)
MayCheck ==
    /\ ~refresher.paused /\ world.online
    /\ ~refresher.idle \/ refresher.last = "never"

refresh_discovery_file ==
    \/ /\ is_stale_file("discovery")
       /\ Truncate("discovery", fetch) /\ UNCHANGED world
    \/ /\ is_stale_file("discovery") /\ Faulted
       /\ world' = Fault /\ UNCHANGED <<netfiles, proc>>
    \/ /\ ~is_stale_file("discovery") /\ UNCHANGED <<netfiles, proc, world>>

CheckTick ==
    /\ Idling /\ MayCheck /\ refresher.due > 0
    /\ refresher' = [refresher EXCEPT !.due = @ - 1, !.last = "recent"]
    /\ refresh_discovery_file

\* Faulty variant: a failed fetch falls back to the defaults.
refresh_nym_network_file_default ==
    LET f == "network" IN
    /\ proc.at = <<"refreshed", "discovery">>
    /\ IF is_stale_file(f) THEN Truncate(f, IF world.online THEN fetch ELSE <<"default">>)
       ELSE DiscStep(<<"refreshed", f>>) /\ UNCHANGED netfiles
    /\ UNCHANGED <<refresher, world>>

(* refresh_nym_network_file, of which an error is only logged.             *)
refresh_nym_network_file ==
    LET f == "network" IN
    /\ proc.at = <<"refreshed", "discovery">>
    /\ \/ /\ is_stale_file(f) /\ world.online
          /\ Truncate(f, fetch_nym_network_details) /\ UNCHANGED world
       \/ /\ is_stale_file(f)
          /\ \/ ~world.online /\ UNCHANGED world
             \/ world.online /\ Faulted /\ world' = Fault
          /\ DiscStep(<<"refreshed", f>>) /\ UNCHANGED netfiles
       \/ /\ ~is_stale_file(f)
          /\ DiscStep(<<"refreshed", f>>) /\ UNCHANGED <<netfiles, world>>
    /\ UNCHANGED refresher

(* network_from_discovery reads the network file back, and the service is  *)
(* told of a network that differs from the last one.                       *)
network_from_discovery ==
    /\ proc.at = <<"refreshed", "network">>
    /\ refresher' = [refresher EXCEPT
          !.network = [f \in FileNames |-> netfiles[f].holds]]
    /\ DiscStep(<<"up">>)
    /\ UNCHANGED <<netfiles, world>>

-----------------------------------------------------------------------------
(* External: time, the clock, the API and the process.                     *)

(* CHECK_INTERVAL, which is also MAX_FILE_AGE, passes.                     *)
HourPasses ==
    /\ netfiles' = [f \in FileNames |->
          IF netfiles[f].age = "fresh" THEN [netfiles[f] EXCEPT !.age = "stale"]
          ELSE netfiles[f]]
    /\ refresher' = [refresher EXCEPT
          !.due = IF @ < 2 THEN @ + 1 ELSE @,
          !.last = IF @ = "recent" THEN "old" ELSE @]
    /\ proc.at = <<"up">>
    /\ UNCHANGED <<proc, world>>

ClockSetBack ==
    /\ Faulted /\ world' = Fault
    /\ netfiles' = [f \in FileNames |-> [netfiles[f] EXCEPT !.age = "future"]]
    /\ UNCHANGED <<proc, refresher>>

ClockCorrected ==
    /\ \E f \in FileNames : netfiles[f].age = "future"
    /\ \E age \in {"fresh", "stale"} :
          netfiles' = [f \in FileNames |->
             IF netfiles[f].age = "future" THEN [netfiles[f] EXCEPT !.age = age]
             ELSE netfiles[f]]
    /\ UNCHANGED <<proc, refresher, world>>

ApiChanges ==
    /\ world.version < DiscVersions
    /\ world' = [world EXCEPT !.version = @ + 1]
    /\ UNCHANGED <<netfiles, proc, refresher>>

KillDaemon ==
    /\ proc.at # <<"down">> /\ Faulted /\ world' = Fault
    /\ proc' = [proc EXCEPT !.at = <<"down">>]
    /\ UNCHANGED <<netfiles, refresher>>

DiscInit ==
    /\ netfiles = [f \in FileNames |-> [holds |-> <<"absent">>, age |-> "stale"]]
    /\ \E name \in {"mainnet", "sandbox"} :
          proc = [name |-> name, at |-> <<"down">>, booting |-> FALSE]
    /\ refresher = [paused |-> FALSE, idle |-> FALSE, last |-> "never",
                    due |-> 0, overridden |-> FALSE,
                    network |-> [f \in FileNames |-> <<"absent">>]]
    /\ world \in [version : {1}, online : BOOLEAN, faults : {0}, commands : {0}]

Boots == StartDaemon \/ ensure_discovery_exists \/ ensure_network_exists
           \/ Respawned
CheckSteps == WriteFile \/ set_modified \/ refresh_nym_network_file
            \/ network_from_discovery

DiscNext ==
    \/ Boots \/ CheckSteps \/ CheckTick \/ NetConnectivityChanges
    \/ \E b \in BOOLEAN : Pause(b) \/ SetIdle(b) \/ UseResolverOverrides(b)
    \/ HourPasses \/ ClockSetBack \/ ClockCorrected \/ ApiChanges \/ KillDaemon

(* procd restarts the daemon, the task runs, time passes and the clock is  *)
(* set by NTP.                                                             *)
DiscFairSteps == {"boot", "check", "tick", "hour", "clock"}

DiscFair(s) ==
    \/ s = "boot" /\ Boots
    \/ s = "check" /\ CheckSteps
    \/ s = "tick" /\ CheckTick
    \/ s = "hour" /\ HourPasses
    \/ s = "clock" /\ ClockCorrected

DiscFairness == \A s \in DiscFairSteps : WF_discVars(DiscFair(s))

DiscSpec == DiscInit /\ [][DiscNext]_discVars /\ DiscFairness

-----------------------------------------------------------------------------
(* Types: a daemon is at a step of its start or of a check, and at most    *)
(* two early checks are due (discovery_refresher.rs).                      *)
DiscTypeOK ==
    /\ netfiles \in [FileNames -> [holds : Contents, age : Ages]]
    /\ proc.name \in {"mainnet", "sandbox"} /\ proc.booting \in BOOLEAN
    /\ \/ proc.at \in {<<"down">>, <<"up">>, <<"failed">>}
       \/ proc.at \in {"ensure", "refreshed", "backdate"} \X FileNames
       \/ proc.at \in {"write"} \X FileNames \X Contents
    /\ refresher \in
          [paused : BOOLEAN, idle : BOOLEAN, last : {"never", "recent", "old"},
           due : 0..2, overridden : BOOLEAN,
           network : [FileNames -> Contents]]
    /\ world \in [version : 1..DiscVersions, online : BOOLEAN,
                  faults : 0..DiscFaults, commands : 0..DiscCommands]

(* No crash, whichever write it interrupts, keeps a mainnet daemon from    *)
(* starting: a torn file is recreated, from the compiled-in defaults if    *)
(* need be (should_overwrite_file and both ensure_exists).                 *)
MainnetStarts ==
    /\ proc.at = <<"failed">> => proc.name # "mainnet"
    /\ proc.at = <<"up">> => \A f \in FileNames :
          refresher.network[f] \notin {<<"absent">>, <<"torn">>}

(* A network the running daemon has fetched is never given up for the      *)
(* compiled-in one, whatever fails later (DiscoveryRefresher::run).        *)
FetchedIsKept ==
    [][\A f \in FileNames :
         /\ refresher.network[f] \in {<<"fetched", v>> : v \in 1..DiscVersions}
         /\ ~proc.booting /\ proc.at # <<"down">>
         => refresher'.network[f] # <<"default">>]_discVars

(* A daemon that stays up, online and neither paused nor idle ends with    *)
(* the network the API serves, through failed fetches, torn files and a    *)
(* clock that was wrong for a while.                                       *)
NetworkRefreshed ==
    <>[](world.online /\ ~refresher.paused /\ ~refresher.idle)
      => <>(refresher.network = [f \in FileNames |-> fetch])

(* An idle refresher still makes its first check ("never blocks the very   *)
(* first check").                                                          *)
FirstCheckMade ==
    <>[](world.online /\ ~refresher.paused) => <>(refresher.last # "never")
=============================================================================
