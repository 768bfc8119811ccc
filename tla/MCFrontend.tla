----------------------------- MODULE MCFrontend ------------------------------
(***************************************************************************)
(* What serves the user, for TLC: the SOCKS5 proxy, network discovery, the *)
(* RPC loop with its watchdog, the stored configuration, and the LuCI      *)
(* pages.  They share no state here.  One of them moves, the others stay   *)
(* where they start.                                                       *)
(***************************************************************************)
EXTENDS Socks5, NetworkDiscovery, CommandLoop, ServiceConfig,
        LuciPage, LuciSettings, LuciPickers

VARIABLE moves

frontendVars == <<s5vars, discVars, rpcVars, confVars, pageVars, setVars, pickVars, moves>>

\* Where a component that does not move stays.
AtRest ==
    /\ moves # "discovery" =>
         /\ proc = [name |-> "mainnet", at |-> <<"down">>, booting |-> FALSE]
         /\ world = [version |-> 1, online |-> FALSE, faults |-> 0, commands |-> 0]
    /\ moves # "config" => disk = DiskWith(Absent)
    /\ moves # "page" =>
         /\ daemon = [up |-> TRUE, state |-> "disconnected", error |-> "",
                      account |-> "ready", relaxed |-> FALSE]
         /\ page = seed(TRUE)
    /\ moves # "pickers" => points = [s \in PickSides |-> CHOOSE p \in PickPoints : TRUE]

FrontendInit ==
    /\ moves \in {"socks5", "discovery", "rpc", "config", "page", "settings", "pickers"}
    /\ AtRest
    /\ Socks5Init /\ DiscInit /\ RpcInit /\ ConfInit /\ PageInit /\ SettingsInit /\ PickersInit
    /\ moves # "settings" => form = FormOf(init_batch)

FrontendNext ==
    /\ UNCHANGED moves
    /\ \/ /\ moves = "socks5" /\ Socks5Next
          /\ UNCHANGED <<discVars, rpcVars, confVars, pageVars, setVars, pickVars>>
       \/ /\ moves = "discovery" /\ DiscNext
          /\ UNCHANGED <<s5vars, rpcVars, confVars, pageVars, setVars, pickVars>>
       \/ /\ moves = "rpc" /\ RpcNext
          /\ UNCHANGED <<s5vars, discVars, confVars, pageVars, setVars, pickVars>>
       \/ /\ moves = "config" /\ ConfNext
          /\ UNCHANGED <<s5vars, discVars, rpcVars, pageVars, setVars, pickVars>>
       \/ /\ moves = "page" /\ PageNext
          /\ UNCHANGED <<s5vars, discVars, rpcVars, confVars, setVars, pickVars>>
       \/ /\ moves = "settings" /\ SettingsNext
          /\ UNCHANGED <<s5vars, discVars, rpcVars, confVars, pageVars, pickVars>>
       \/ /\ moves = "pickers" /\ PickersNext
          /\ UNCHANGED <<s5vars, discVars, rpcVars, confVars, pageVars, setVars>>

FrontendSpec == FrontendInit /\ [][FrontendNext]_frontendVars

\* The page does not mislead its user: a wait has an end in sight, and
\* switches, lists and pickers agree with the daemon where they promise to.
PageHonest ==
    /\ PageTypeOK /\ OverlayOwned
    /\ SettingsTypeOK /\ SwitchesHeal /\ DnsHeals
    /\ PickersTypeOK /\ PickIsSent /\ PrefillMatches

\* The settings file and the network files survive whatever interrupts a
\* write of them, and the tasks of the SOCKS5 service stay within their
\* retries and counts.
FilesSafe == SettingsSafe /\ DiscTypeOK /\ MainnetStarts /\ Socks5TypeOK
=============================================================================
