---------------------------- MODULE ServiceConfig ----------------------------
(***************************************************************************)
(* The service configuration file of nym-vpnd: the eight JSON versions and *)
(* the TOML file before them, their migration at start, the setters that   *)
(* save by temporary file, fsync and rename, the stash of a file that      *)
(* cannot be read, the fronting policy installed before the first API      *)
(* request, and the boot guard, which reads the same file before the       *)
(* daemon runs.  A write may fail at every step, the process may die and   *)
(* the power may be cut between any two.                                   *)
(*                                                                         *)
(* A file is its version and the keys it holds.  The fields that every     *)
(* conversion treats alike are one field: "tunnel" stands for allow_lan,   *)
(* disable_ipv6, enable_two_hop, enable_bridges, netstack,                 *)
(* min_gateway_vpn_performance and residential_exit.                       *)
(***************************************************************************)
EXTENDS Naturals

CONSTANTS ConfVersions,   \* versions of the file found: 0 is TOML, 9 a newer daemon's
          ConfTouched,    \* the fields the setters change
          ConfSets,       \* bound on settings requests
          ConfFaults      \* bound on failed writes, deaths and power cuts

ASSUME ConfAssumption == /\ ConfVersions \subseteq 0..9
                         /\ ConfTouched \subseteq {"entry_point", "exit_point", "tunnel",
                                "enable_custom_dns", "custom_dns", "enable_ad_blocking",
                                "mixnet_knobs", "killswitch", "legacy_split_tunnel",
                                "inbound_exemptions", "stealth_api", "gateway_independence",
                                "always_on"}
                         /\ ConfSets \in Nat /\ ConfFaults \in Nat

VARIABLES disk,     \* the directory, what of it is durable, and the temporary file
          vpnd,     \* the configuration manager of the running process
          history,  \* what was found, held in memory and acknowledged
          confLeft  \* what is left of the two bounds

confVars == <<disk, vpnd, history, confLeft>>

Absent == [version |-> 10]
Torn   == [version |-> 11]

-----------------------------------------------------------------------------
(* The configuration and its file versions.                                *)

ConfDefault ==
    [entry_point |-> "CH", exit_point |-> "CH", tunnel |-> "default", enable_lewes_protocol |-> FALSE,
     enable_custom_dns |-> FALSE, custom_dns |-> <<>>, enable_ad_blocking |-> FALSE,
     mixnet_knobs |-> "default", mixnet_delays |-> "default", killswitch |-> TRUE,
     legacy_split_tunnel |-> FALSE, inbound_exemptions |-> {}, stealth_api |-> FALSE,
     gateway_independence |-> TRUE, always_on |-> FALSE]

\* Until v2 of the points a country was called a location.
points_v1(p) == IF p = "location" THEN "country" ELSE p
points_v2(p) == p

\* A gateway identity or a resolver address that does not parse.
Converts(file) ==
    /\ "bad" \notin {file.keys.entry_point, file.keys.exit_point}
    /\ "custom_dns" \in DOMAIN file.keys => file.keys.custom_dns # <<"bad">>

Migrated == [ConfDefault EXCEPT !.killswitch = FALSE]

legacy_try_from(k) == [Migrated EXCEPT !.entry_point = points_v1(k.entry_point),
                                       !.exit_point = points_v1(k.exit_point)]
v1_try_from(k) == [Migrated EXCEPT !.entry_point = points_v1(k.entry_point),
                                   !.exit_point = points_v1(k.exit_point)]
WithPoints(c, k) == [c EXCEPT !.entry_point = points_v2(k.entry_point),
                              !.exit_point = points_v2(k.exit_point),
                              !.tunnel = k.tunnel,
                              !.custom_dns = k.custom_dns]
v2_try_from(k) == [WithPoints(Migrated, k) EXCEPT !.mixnet_knobs = k.mixnet_knobs,
                                                  !.enable_custom_dns = k.custom_dns # <<>>,
                                                  !.killswitch = TRUE]
v3_try_from(k) == [WithPoints(Migrated, k) EXCEPT !.mixnet_knobs = k.mixnet_knobs,
                                                  !.enable_custom_dns = k.custom_dns # <<>>]
v4_try_from(k) == [WithPoints(Migrated, k) EXCEPT !.mixnet_knobs = k.mixnet_knobs,
                                                  !.enable_custom_dns = k.enable_custom_dns]
mixnet_traffic_from(c, k) == [c EXCEPT !.mixnet_knobs = k.mixnet_knobs,
                                       !.mixnet_delays = k.mixnet_delays]
v5_try_from(k) == [mixnet_traffic_from(WithPoints(Migrated, k), k)
                     EXCEPT !.enable_custom_dns = k.enable_custom_dns]
v6_try_from(k) == [v5_try_from(k) EXCEPT !.enable_lewes_protocol = k.enable_lewes_protocol]
v7_try_from(k) == [v6_try_from(k) EXCEPT !.enable_ad_blocking = k.enable_ad_blocking]

\* The keys added after v8 shipped, and the kill-switch of a file edited by
\* hand, take the default; so does every key of the independence object.
SerdeDefaulted == {"killswitch", "legacy_split_tunnel", "inbound_exemptions", "stealth_api",
                   "gateway_independence", "always_on"}

v8_try_from(k) ==
    LET old == v7_try_from(k)
    IN  [f \in DOMAIN ConfDefault |->
            IF f \notin SerdeDefaulted THEN old[f]
            ELSE IF f \in DOMAIN k THEN k[f] ELSE ConfDefault[f]]

Keys(v) ==
    {"entry_point", "exit_point"}
        \cup (IF v >= 2 THEN {"tunnel", "custom_dns", "mixnet_knobs"} ELSE {})
        \cup (IF v >= 4 THEN {"enable_custom_dns"} ELSE {})
        \cup (IF v >= 5 THEN {"mixnet_delays"} ELSE {})
        \cup (IF v >= 6 THEN {"enable_lewes_protocol"} ELSE {})
        \cup (IF v >= 7 THEN {"enable_ad_blocking"} ELSE {})
        \cup (IF v >= 8 THEN SerdeDefaulted ELSE {})

latest == 8

config_try_from(file) ==
    CASE file.version = 0 -> legacy_try_from(file.keys)
      [] file.version = 1 -> v1_try_from(file.keys)
      [] file.version = 2 -> v2_try_from(file.keys)
      [] file.version = 3 -> v3_try_from(file.keys)
      [] file.version = 4 -> v4_try_from(file.keys)
      [] file.version = 5 -> v5_try_from(file.keys)
      [] file.version = 6 -> v6_try_from(file.keys)
      [] file.version = 7 -> v7_try_from(file.keys)
      [] file.version = 8 -> v8_try_from(file.keys)

ext_try_from(config) == [version |-> latest, keys |-> config]

Parses(file) == file.version \in 0..latest /\ Converts(file)

\* The JSON file if there is one, else the TOML file, else the defaults.
read_from_file(dir) ==
    CASE dir.json.file # Absent ->
           [ok |-> Parses(dir.json.file), file |-> dir.json.file]
      [] dir.json.file = Absent /\ dir.toml # Absent -> [ok |-> Parses(dir.toml), file |-> dir.toml]
      [] OTHER -> [ok |-> TRUE, file |-> Absent]

Loads(dir) ==
    LET read == read_from_file(dir)
    IN  IF read.ok /\ read.file # Absent THEN config_try_from(read.file) ELSE ConfDefault

\* What of the configuration reaches the tunnel; stealth_api and always_on do not.
generate_tunnel_settings(c) ==
    [points |-> <<c.entry_point, c.exit_point>>, tunnel |-> c.tunnel,
     mixnet |-> <<c.mixnet_knobs, c.mixnet_delays>>,
     dns |-> IF c.enable_custom_dns THEN c.custom_dns ELSE <<>>,
     killswitch |-> c.killswitch /\ ~c.legacy_split_tunnel,
     legacy_split_tunnel |-> c.legacy_split_tunnel, inbound_exemptions |-> c.inbound_exemptions,
     gateway_independence |-> c.gateway_independence]

-----------------------------------------------------------------------------
(* The boot guard: only an explicit false opens, only an explicit true     *)
(* turns legacy on; a file that is no JSON has no key.                     *)

nym_config_bool(dir, key) ==
    IF dir.json.file \in {Absent, Torn} THEN "absent"
    ELSE IF key \notin DOMAIN dir.json.file.keys THEN "absent"
    ELSE IF dir.json.file.keys[key] THEN "true" ELSE "false"

boot_block_wanted(dir) == /\ nym_config_bool(dir, "killswitch") # "false"
                          /\ nym_config_bool(dir, "legacy_split_tunnel") # "true"

-----------------------------------------------------------------------------
(* Writing the file: create the temporary file, write and flush, fsync,    *)
(* rename.  Where it was called from decides what follows.                 *)

WriteSteps == {"create", "write", "sync", "rename"}

Begins(config, then) == [vpnd EXCEPT !.pc = "create", !.config = config, !.then = then]

\* Faulty variant: a setter answers Ok whether or not the file was written.
WrittenAnyway(ok) ==
    IF vpnd.then = "start"
    THEN vpnd' = [vpnd EXCEPT !.pc = "toml"] /\ UNCHANGED history
    ELSE /\ vpnd' = [vpnd EXCEPT !.pc = "running"]
         /\ history' = [history EXCEPT !.saved = {vpnd.config}]

\* Start ends with the removal of the TOML file; a setter replies.
Written(ok) ==
    IF vpnd.then = "start"
    THEN vpnd' = [vpnd EXCEPT !.pc = "toml"] /\ UNCHANGED history
    ELSE /\ vpnd' = [vpnd EXCEPT !.pc = "running"]
         /\ history' = [history EXCEPT !.saved = IF ok THEN {vpnd.config} ELSE @]

write_create == /\ vpnd.pc = "create"
                /\ disk' = [disk EXCEPT !.tmp = [file |-> Torn, synced |-> TRUE]]
                /\ vpnd' = [vpnd EXCEPT !.pc = "write"]
                /\ UNCHANGED <<history, confLeft>>

write_all == /\ vpnd.pc = "write"
             /\ disk' = [disk EXCEPT !.tmp = [file |-> ext_try_from(vpnd.config), synced |-> FALSE]]
             /\ vpnd' = [vpnd EXCEPT !.pc = "sync"]
             /\ UNCHANGED <<history, confLeft>>

write_sync == /\ vpnd.pc = "sync"
              /\ disk' = [disk EXCEPT !.tmp.synced = TRUE]
              /\ vpnd' = [vpnd EXCEPT !.pc = "rename"]
              /\ UNCHANGED <<history, confLeft>>

write_rename == /\ vpnd.pc = "rename"
                /\ disk' = [disk EXCEPT !.dir.json = disk.tmp, !.tmp = [file |-> Absent, synced |-> TRUE]]
                /\ Written(TRUE)
                /\ UNCHANGED confLeft

\* Every step may fail; the temporary file then stays behind.
WriteFails == /\ vpnd.pc \in WriteSteps /\ confLeft.faults > 0
              /\ confLeft' = [confLeft EXCEPT !.faults = @ - 1]
              /\ Written(FALSE)
              /\ UNCHANGED disk

-----------------------------------------------------------------------------
(* The start of the process.                                               *)

\* Before discovery makes the first API request.
install_persisted_front_policy ==
    /\ vpnd.pc = "off" /\ confLeft.starts > 0
    /\ vpnd' = [vpnd EXCEPT !.pc = "discovery", !.stealth = Loads(disk.dir).stealth_api]
    /\ confLeft' = [confLeft EXCEPT !.starts = @ - 1]
    /\ UNCHANGED <<disk, history>>

\* A file that cannot be read is moved aside, which may fail.
Stash(dir) ==
    IF read_from_file(dir).ok \/ dir.json.file = Absent THEN {dir}
    ELSE {[dir EXCEPT !.json = [file |-> Absent, synced |-> TRUE], !.bak = dir.json.file]}
         \cup (IF confLeft.faults > 0 THEN {dir} ELSE {})

config_manager_new ==
    /\ vpnd.pc = "discovery"
    /\ LET read   == read_from_file(disk.dir)
           loaded == Loads(disk.dir)
       IN  /\ \E dir \in Stash(disk.dir):
                /\ disk' = [disk EXCEPT !.dir = dir]
                /\ LET unmoved == ~read.ok /\ disk.dir.json.file # Absent /\ dir = disk.dir
                   IN  /\ confLeft' = [confLeft EXCEPT !.faults = IF unmoved THEN @ - 1 ELSE @]
                       /\ history' = [history EXCEPT !.held = @ \cup {loaded},
                                                     !.unmoved = @ \/ unmoved]
           /\ vpnd' = [vpnd EXCEPT !.pc = IF read.ok /\ read.file.version = latest THEN "toml" ELSE "create",
                                   !.config = loaded, !.stealth = loaded.stealth_api, !.then = "start"]

\* The TOML file goes whether or not the JSON file was written.
remove_toml == /\ vpnd.pc = "toml"
               /\ disk' = [disk EXCEPT !.dir.toml = Absent]
               /\ vpnd' = [vpnd EXCEPT !.pc = "running"]
               /\ UNCHANGED <<history, confLeft>>

RemoveTomlFails == /\ vpnd.pc = "toml" /\ disk.dir.toml # Absent /\ confLeft.faults > 0
                   /\ confLeft' = [confLeft EXCEPT !.faults = @ - 1]
                   /\ vpnd' = [vpnd EXCEPT !.pc = "running"]
                   /\ UNCHANGED <<disk, history>>

-----------------------------------------------------------------------------
(* The setters.                                                            *)

Requested(config, stealth) ==
    /\ vpnd.pc = "running" /\ confLeft.sets > 0
    /\ confLeft' = [confLeft EXCEPT !.sets = @ - 1]
    /\ IF config = vpnd.config
       THEN UNCHANGED <<vpnd, history>>
       ELSE /\ vpnd' = [Begins(config, "reply") EXCEPT !.stealth = stealth]
            /\ history' = [history EXCEPT !.held = @ \cup {config}]
    /\ UNCHANGED disk

\* The values a client sets a field to.
SettableTo(f) ==
    CASE f \in {"entry_point", "exit_point"} -> {"CH", "country"}
      [] f \in {"tunnel", "mixnet_knobs"}     -> {"default", "user"}
      [] f = "custom_dns"                     -> {<<>>, <<"ip">>}
      [] f = "inbound_exemptions"             -> {{}, {"ssh"}}
      [] OTHER                                -> BOOLEAN

set_field(f, value) == Requested([vpnd.config EXCEPT ![f] = value], vpnd.stealth)

\* The fronting policy changes with the setting, before the save.
set_stealth_api(value) == Requested([vpnd.config EXCEPT !.stealth_api = value], value)

-----------------------------------------------------------------------------
(* Death, power cut, and the kernel's own write-back of the directory.     *)

Dies == /\ vpnd.pc # "off" /\ confLeft.faults > 0
        /\ confLeft' = [confLeft EXCEPT !.faults = @ - 1]
        /\ vpnd' = [vpnd EXCEPT !.pc = "off"]
        /\ UNCHANGED <<disk, history>>

\* Contents that were not synced may be lost, and names changed since the
\* last write-back may be as they were.
Survives(content) == IF content.synced THEN {content} ELSE {content, [file |-> Torn, synced |-> TRUE]}

PowerCut == /\ confLeft.faults > 0
            /\ confLeft' = [confLeft EXCEPT !.faults = @ - 1]
            /\ vpnd' = [vpnd EXCEPT !.pc = "off"]
            /\ \E dir \in {disk.dir, disk.durable}: \E json \in Survives(dir.json):
                 LET left == [dir EXCEPT !.json = [json EXCEPT !.synced = TRUE]]
                 IN  disk' = [dir |-> left, durable |-> left, tmp |-> [file |-> Absent, synced |-> TRUE]]
            /\ history' = [history EXCEPT !.cut = TRUE]

WriteBack == /\ disk.durable # disk.dir
             /\ disk' = [disk EXCEPT !.durable = disk.dir]
             /\ UNCHANGED <<vpnd, history, confLeft>>

-----------------------------------------------------------------------------
PointOf(v) == IF v <= 1 THEN "location" ELSE "country"

UserKeys(v, point, dns, killswitch, legacy) ==
    [f \in Keys(v) |->
        CASE f \in {"entry_point", "exit_point"} -> point
          [] f \in {"tunnel", "mixnet_knobs", "mixnet_delays"} -> "user"
          [] f = "custom_dns" -> dns
          [] f = "killswitch" -> killswitch
          [] f = "legacy_split_tunnel" -> legacy
          [] f = "inbound_exemptions" -> {"ssh"}
          [] OTHER -> TRUE]

\* A v8 file may predate the keys added later.
FilesFound ==
    {[version |-> v, keys |-> UserKeys(v, IF bad THEN "bad" ELSE PointOf(v), dns, killswitch, legacy)]:
        v \in ConfVersions, bad \in BOOLEAN, dns \in {<<"ip">>, <<"bad">>},
        killswitch \in BOOLEAN, legacy \in BOOLEAN}
    \cup {[version |-> v, keys |-> [f \in Keys(7) \cup later |->
                                       UserKeys(8, "region", <<>>, FALSE, FALSE)[f]]]:
            v \in ConfVersions \cap {8}, later \in {{}, {"killswitch"}}}

DiskWith(found) ==
    LET toml == found.version = 0
        dir  == [json |-> [file |-> IF toml THEN Absent ELSE found, synced |-> TRUE],
                 bak |-> Absent, toml |-> IF toml THEN found ELSE Absent]
    IN  [dir |-> dir, durable |-> dir, tmp |-> [file |-> Absent, synced |-> TRUE]]

ConfInit ==
    /\ \E found \in FilesFound \cup {Absent, Torn}:
         /\ disk = DiskWith(found)
         /\ history = [found |-> found, held |-> {Loads(disk.dir)}, saved |-> {},
                       cut |-> FALSE, unmoved |-> FALSE]
    /\ vpnd = [pc |-> "off", config |-> ConfDefault, stealth |-> FALSE, then |-> "start"]
    /\ confLeft = [sets |-> ConfSets, faults |-> ConfFaults, starts |-> ConfFaults + 1]

ConfNext == \/ write_create \/ write_all \/ write_sync \/ write_rename \/ WriteFails
            \/ install_persisted_front_policy \/ config_manager_new
            \/ remove_toml \/ RemoveTomlFails
            \/ \E f \in ConfTouched \ {"stealth_api"}: \E value \in SettableTo(f): set_field(f, value)
            \/ "stealth_api" \in ConfTouched /\ \E value \in BOOLEAN: set_stealth_api(value)
            \/ Dies \/ PowerCut \/ WriteBack

ConfSpec == ConfInit /\ [][ConfNext]_confVars

-----------------------------------------------------------------------------
\* The shape of the state: steps and configurations are of their kind, the
\* bounds hold, and what is about to be renamed over the settings file is
\* the whole configuration and on disk.
ConfTypeOK ==
    /\ vpnd.pc \in {"off", "discovery", "toml", "running"} \cup WriteSteps
    /\ DOMAIN vpnd.config = DOMAIN ConfDefault
    /\ vpnd.stealth \in BOOLEAN /\ vpnd.then \in {"start", "reply"}
    /\ vpnd.pc = "rename" => disk.tmp = [file |-> ext_try_from(vpnd.config), synced |-> TRUE]
    /\ confLeft.sets \in 0..ConfSets /\ confLeft.faults \in 0..ConfFaults

Off == vpnd.pc = "off"

\* Nothing that fails, dies or is cut resets the settings: whatever the
\* daemon would load next is a configuration it found or held before.  (The
\* TOML migration is left out: it removes its file although the JSON file may
\* not have been written, and the next start then takes the defaults.)
SettingsKept == Off /\ history.found.version # 0 => Loads(disk.dir) \in history.held

\* A setting whose save was acknowledged is what the next start loads, unless
\* the power was cut.
SavedSurvives ==
    Off /\ ~history.cut /\ history.saved # {}
        => Loads(disk.dir) \in history.saved

\* A settings file that cannot be read is not overwritten: it is under its
\* own name or the stash's, as long as the move itself does not fail.
UnreadableStashed ==
    /\ history.found.version # 0 /\ history.found # Absent
    /\ ~Parses(history.found)
    /\ ~history.unmoved
    => history.found \in {disk.dir.json.file, disk.dir.bak}

\* Once the daemon has written its file, or found one of its own version, the
\* boot guard blocks exactly when the daemon will have its kill-switch on.
GuardAgrees ==
    LET file == disk.dir.json.file
    IN  file.version = latest /\ Converts(file)
        => boot_block_wanted(disk.dir) = generate_tunnel_settings(Loads(disk.dir)).killswitch

\* From before discovery's first request to the end of the process, the
\* fronting policy is the one of the configuration in force.
PolicyFollows ==
    ~Off => vpnd.stealth = IF vpnd.pc = "discovery" THEN Loads(disk.dir).stealth_api
                           ELSE vpnd.config.stealth_api

\* No failure, crash or power cut costs the user settings, and all who read
\* the file agree on it: the facts above.
SettingsSafe ==
    /\ ConfTypeOK /\ SettingsKept /\ SavedSurvives /\ UnreadableStashed
    /\ GuardAgrees /\ PolicyFollows
=============================================================================
