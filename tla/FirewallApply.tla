--------------------------- MODULE FirewallApply ---------------------------
(***************************************************************************)
(* How a compiled policy gets into the router's firewall and stays there:  *)
(* the daemon's backends (nym-firewall), the include script fw3 or fw4     *)
(* runs after it rebuilt its own rules, the init script, and the firewall  *)
(* framework and the user acting at any moment, a crash of the daemon      *)
(* between any two commands included.                                      *)
(*                                                                         *)
(* A command (one iptables, nft or file operation) is one step.  A         *)
(* program is the sequence of the commands still to run; a command that    *)
(* decides replaces the rest of it.  fw3 has one set of chains per address *)
(* family, fw4 one table for both, so a "family" is 4, 6 or 0.  The rule   *)
(* text is abstracted to the name of the policy it came from.              *)
(***************************************************************************)
EXTENDS Integers, Sequences, FiniteSets

CONSTANTS
    FwHosts,        \* routers: firewall kind, flock(1), and the state of IPv6 at boot
    Policies,       \* compiled rule sets the daemon asks for
    FwBudget        \* failing commands, crashes, restarts, reloads, settings and stops together

VARIABLES
    fw,         \* what is in the kernel
    fwfiles,    \* /var/run/nym-firewall
    fwconf,     \* the settings file, the firewall's kind, what may still happen
    fwd,        \* the daemon's Firewall handle, the call it is in and the
                \* settings its state machine has yet to take
    include     \* the include run by the framework or by the init script;
                \* "opening" records that it saw no block to be wanted

fwVars == <<fw, fwfiles, fwconf, fwd, include>>

NoRules == "none"
ResetTarget == "reset"
Egress == {"output", "forward"}
JUMPS == <<"input", "output", "forward">>
Families == IF fwconf.system = "fw3" THEN {4, 6} ELSE {0}

\* What fw-boot-guard.sh decides from the settings, before any daemon has run.
nym_boot_block_wanted == ~fwfiles.stopped /\ fwconf.killswitch

kernel_ipv6_enabled == fw.ipv6 # "disabled"

\* All three hooks jump to our chains.
jumps_present(f) == fw.hooks[f] = {"input", "output", "forward"}

\* The include looks at IPv4 and the two egress hooks only.
policy_hooked == Egress \subseteq fw.hooks[4]

\* Traffic of family f leaving the router meets our chains or the block.
Closed(f) ==
    Egress \subseteq (IF fw.rules[f] # NoRules THEN fw.hooks[f] ELSE {}) \cup fw.emergency[f]

(***************************************************************************)
(* The programs.                                                           *)
(***************************************************************************)
setup_jumps(f) == [i \in 1..3 |-> <<"hook", f, JUMPS[i]>>]

\* Marks are the rule module's; here the command can only fail.
setup_mangle_jumps(f) == <<<<"mangle", f>>>>

\* One family's filter chains, jumps and mangle jumps.
apply_family(f) == <<<<"rules", f>>>> \o setup_jumps(f) \o setup_mangle_jumps(f)

remove_emergency_block(f) == <<<<"lift", f, "output">>, <<"lift", f, "forward">>>>

\* Without IPv6, ip6tables may not even answer.
remove_emergency_blocks(with_v6) ==
    remove_emergency_block(4) \o (IF with_v6 THEN remove_emergency_block(6) ELSE <<<<"try", 6>>>>)

\* The scripts of both families, for the include to replay.
persist_state(with_v6) == <<<<"save", 4>>, <<IF with_v6 THEN "save" ELSE "unsave", 6>>>>

\* Faulty variant: the block is lifted before the chains are hooked.
Fw3ApplyLiftsFirst(with_v6) ==
    <<<<"mark">>, <<"cover", 4>>>> \o (IF with_v6 THEN <<<<"cover", 6>>>> ELSE <<>>)
    \o remove_emergency_blocks(with_v6)
    \o apply_family(4) \o (IF with_v6 THEN apply_family(6) ELSE <<>>)
    \o persist_state(with_v6) \o <<<<"unmark">>>>

\* Faulty variant: the block that covered the apply stays.
Fw3ApplyUnlifted(with_v6) ==
    <<<<"mark">>, <<"cover", 4>>>> \o (IF with_v6 THEN <<<<"cover", 6>>>> ELSE <<>>)
    \o apply_family(4) \o (IF with_v6 THEN apply_family(6) ELSE <<>>)
    \o persist_state(with_v6) \o <<<<"unmark">>>>

\* fw3::apply, once the IPv6 probe has said whether ip6tables takes part.
Fw3Apply(with_v6) ==
    <<<<"mark">>, <<"cover", 4>>>> \o (IF with_v6 THEN <<<<"cover", 6>>>> ELSE <<>>)
    \o apply_family(4) \o (IF with_v6 THEN apply_family(6) ELSE <<>>)
    \o persist_state(with_v6) \o <<<<"unmark">>>>
    \o <<<<"reactivate", 4>>>> \o (IF with_v6 THEN <<<<"reactivate", 6>>>> ELSE <<>>)
    \o remove_emergency_blocks(with_v6)

\* fw3::reset: the saved scripts go first, so nothing can bring them back.
Fw3Reset(with_v6) ==
    <<<<"mark">>, <<"unsave", 4>>, <<"unsave", 6>>, <<"cleanup", 4>>, <<"cleanup", 6>>, <<"unmark">>>>
    \o remove_emergency_blocks(with_v6)

\* run_backend: fw4 is one nft transaction, fw3 a program under the lock.
run_backend ==
    IF fwconf.system = "fw4" THEN <<<<"nft">>>> ELSE <<<<"lock">>, <<"plan">>>>

(***************************************************************************)
(* What a command does to the kernel and to the files.  Every one but the  *)
(* best-effort cleanups may fail; the ones that insert a jump must while   *)
(* fw3 is rebuilding its own hook chains, or where the target is gone.     *)
(***************************************************************************)
SetFw(field, f, v) == [fw EXCEPT ![field][f] = v]

install_emergency_block(f) == SetFw("emergency", f, Egress)

cleanup_filter(f) == [fw EXCEPT !.rules[f] = NoRules, !.hooks[f] = {}]

\* A restore replaces the chains of one family whole.
apply_filter(f, target) == SetFw("rules", f, target)

ensure_jump(f, hook) == SetFw("hooks", f, fw.hooks[f] \cup {hook})

\* The include puts all three back at once.
IncludeJumps(f) == SetFw("hooks", f, {"input", "output", "forward"})

\* Faulty variant: the transaction leaves the boot table.
run_nft_script_boot_kept(target) ==
    [fw EXCEPT !.rules[0] = IF target = ResetTarget THEN NoRules ELSE target,
               !.hooks[0] = IF target = ResetTarget THEN {} ELSE Egress]

\* Policy and boot table change in one transaction.
run_nft_script(target) ==
    [fw EXCEPT !.rules[0] = IF target = ResetTarget THEN NoRules ELSE target,
               !.hooks[0] = IF target = ResetTarget THEN {} ELSE Egress,
               !.emergency[0] = {}]

\* ip6tables is there and works, or the family is not IPv6.
Usable(f) == f = 6 => fw.ipv6 = "enabled"

Runnable(op) ==
    CASE op[1] = "block" -> fw.up /\ Usable(op[2])
      [] op[1] \in {"hook", "rehook"} -> fw.up /\ Usable(op[2]) /\ fw.rules[op[2]] # NoRules
      [] op[1] = "cover" -> jumps_present(op[2]) \/ (fw.up /\ Usable(op[2]))
      [] op[1] \in {"rules", "replay"} -> Usable(op[2])
      [] op[1] = "plan" -> fw.ipv6 # "unusable" \/ fwd.target = ResetTarget
      [] OTHER -> TRUE

FwAfter(op, target) ==
    CASE op[1] = "cover" -> IF jumps_present(op[2]) THEN fw ELSE install_emergency_block(op[2])
      [] op[1] = "block" -> install_emergency_block(op[2])
      [] op[1] = "rules" -> apply_filter(op[2], target)
      [] op[1] = "replay" -> apply_filter(op[2], fwfiles.rules[op[2]])
      [] op[1] = "hook" -> ensure_jump(op[2], op[3])
      [] op[1] = "rehook" -> IncludeJumps(op[2])
      [] op[1] = "cleanup" -> cleanup_filter(op[2])
      [] op[1] = "lift" -> SetFw("emergency", op[2], fw.emergency[op[2]] \ {op[3]})
      [] op[1] \in {"relift", "clear", "try"} -> SetFw("emergency", op[2], {})
      [] op[1] = "nft" -> run_nft_script(target)
      [] op[1] = "install" -> install_emergency_block(0)
      [] OTHER -> fw

FilesAfter(op, target) ==
    CASE op[1] = "mark" -> [fwfiles EXCEPT !.transition = TRUE]
      [] op[1] = "unmark" -> [fwfiles EXCEPT !.transition = FALSE]
      [] op[1] = "save" -> [fwfiles EXCEPT !.rules[op[2]] = target]
      [] op[1] = "unsave" -> [fwfiles EXCEPT !.rules[op[2]] = NoRules]
      [] op[1] = "discard" -> [fwfiles EXCEPT !.rules = [f \in DOMAIN @ |-> NoRules], !.transition = FALSE]
      [] OTHER -> fwfiles

(***************************************************************************)
(* The daemon.                                                             *)
(***************************************************************************)
FwIdle == fwd.alive /\ fwd.todo = <<>>

\* converge: an identical call soon after the last successful one is skipped;
\* otherwise the memory is cleared before the backend runs.
converge(target, force) ==
    /\ FwIdle
    /\ fwd' = IF ~force /\ fwd.applied = target /\ fwd.fresh THEN fwd
                 ELSE [fwd EXCEPT !.applied = NoRules, !.target = target, !.todo = run_backend]
    /\ UNCHANGED <<fw, fwfiles, fwconf, include>>

\* set_killswitch and apply_policy, which the tunnel states call together.
ApplyPolicy(policy) ==
    /\ fwd.inbox = <<>>
    /\ converge(IF fwd.killswitch THEN policy ELSE ResetTarget, FALSE)

set_killswitch ==
    /\ FwIdle /\ fwd.inbox # <<>>
    /\ fwd' = [fwd EXCEPT !.killswitch = Head(fwd.inbox), !.inbox = Tail(@),
                                !.applied = IF Head(fwd.inbox) = fwd.killswitch THEN @ ELSE NoRules]
    /\ UNCHANGED <<fw, fwfiles, fwconf, include>>

\* Only when blocking is off: the idle state and the exit of the state machine.
reset_policy == ~fwd.killswitch /\ fwd.inbox = <<>> /\ converge(ResetTarget, TRUE)

\* REAPPLY_AFTER has passed since the last call that reached the backend.
MemoryExpires ==
    /\ fwd.fresh
    /\ fwd' = [fwd EXCEPT !.fresh = FALSE]
    /\ UNCHANGED <<fw, fwfiles, fwconf, include>>

\* The call returned: the lock, if it was taken, goes with it.
Return(applied) ==
    /\ fwd' = [fwd EXCEPT !.todo = <<>>, !.applied = applied, !.fresh = applied # NoRules,
                                !.locked = FALSE]

DaemonCommand ==
    LET op == Head(fwd.todo) IN
    /\ fwd.alive /\ fwd.todo # <<>> /\ op[1] \notin {"lock", "plan", "reactivate"}
    /\ Runnable(op)
    /\ fw' = FwAfter(op, fwd.target)
    /\ fwfiles' = FilesAfter(op, fwd.target)
    /\ IF Len(fwd.todo) = 1 THEN Return(fwd.target)
       ELSE fwd' = [fwd EXCEPT !.todo = Tail(@)]
    /\ UNCHANGED <<fwconf, include>>

lock_fw3_state ==
    /\ fwd.alive /\ fwd.todo # <<>> /\ Head(fwd.todo)[1] = "lock"
    /\ ~include.locked
    /\ fwd' = [fwd EXCEPT !.locked = TRUE, !.todo = Tail(@)]
    /\ UNCHANGED <<fw, fwfiles, fwconf, include>>

\* The IPv6 probe: enabled but without a usable ip6tables, nothing is applied.
ipv6_status ==
    /\ fwd.alive /\ fwd.todo # <<>> /\ Head(fwd.todo)[1] = "plan"
    /\ Runnable(Head(fwd.todo))
    /\ fwd' = [fwd EXCEPT !.todo = IF fwd.target = ResetTarget THEN Fw3Reset(fw.ipv6 = "enabled")
                                         ELSE Fw3Apply(fw.ipv6 = "enabled")]
    /\ UNCHANGED <<fw, fwfiles, fwconf, include>>

\* A flush raced the apply: build the family again before the block is lifted.
activate_family_script ==
    LET op == Head(fwd.todo) IN
    /\ fwd.alive /\ fwd.todo # <<>> /\ op[1] = "reactivate"
    /\ fwd' = [fwd EXCEPT !.todo = IF jumps_present(op[2]) THEN Tail(@)
                                         ELSE apply_family(op[2]) \o Tail(@)]
    /\ UNCHANGED <<fw, fwfiles, fwconf, include>>

\* A command failed, or the lock stayed held for STATE_LOCK_TIMEOUT: the call
\* returns at once, with the marker and any block left where they are.  The
\* cleanups of a reset ignore what the commands say.
CommandFails ==
    LET op == Head(fwd.todo) IN
    /\ fwd.alive /\ fwd.todo # <<>> /\ op[1] # "reactivate"
    /\ \/ ~Runnable(op) /\ UNCHANGED fwconf
       \/ op[1] = "lock" /\ include.locked /\ UNCHANGED fwconf
       \/ /\ fwconf.budget > 0 /\ fwconf' = [fwconf EXCEPT !.budget = @ - 1, !.failed = @ + 1]
    /\ IF op[1] = "cleanup" THEN fwd' = [fwd EXCEPT !.todo = Tail(@)]
       ELSE Return(IF op[1] = "try" THEN fwd.target ELSE NoRules)
    /\ UNCHANGED <<fw, fwfiles, include>>

FwDead == [alive |-> FALSE, killswitch |-> fwconf.killswitch, applied |-> NoRules, fresh |-> FALSE,
         target |-> NoRules, todo |-> <<>>, locked |-> FALSE, inbox |-> <<>>]

\* Killed between two commands: the kernel frees the lock, nothing else.
FwCrash ==
    /\ fwd.alive /\ fwconf.budget > 0
    /\ fwconf' = [fwconf EXCEPT !.budget = @ - 1]
    /\ fwd' = FwDead
    /\ UNCHANGED <<fw, fwfiles, include>>

\* procd respawns it for ever, unless the service was stopped.
Respawn ==
    /\ ~fwd.alive /\ fwconf.service = "started"
    /\ fwd' = [FwDead EXCEPT !.alive = TRUE]
    /\ UNCHANGED <<fw, fwfiles, fwconf, include>>

(***************************************************************************)
(* The include.                                                            *)
(***************************************************************************)
emergency_block(fs) == IF 6 \in fs THEN <<<<"block", 4>>, <<"block", 6>>>> ELSE <<<<"block", 4>>>>

Enabled4And6 == IF kernel_ipv6_enabled THEN {4, 6} ELSE {4}

cleanup_emergency == <<<<"relift", 4>>, <<"relift", 6>>>>

\* An IPv4 block that cannot be lifted leaves the IPv6 one where it is.
lift_emergency == <<<<"relift", 4, "first">>, <<"relift", 6>>>>

apply_rules(f) == <<<<"replay", f>>, <<"rehook", f>>, <<"clear", f>>>>

restore_policy ==
    apply_rules(4) \o (CASE fwfiles.rules[6] # NoRules -> apply_rules(6)
                         [] fwfiles.rules[6] = NoRules /\ kernel_ipv6_enabled -> <<<<"block", 6>>>>
                         [] OTHER -> <<<<"cleanup", 6>>>>)

handle_no_policy == <<<<"cleanup", 4>>, <<"cleanup", 6>>, <<"decide">>>>

\* main of fw3-include.sh, under the state lock.
Fw3Main ==
    CASE fwfiles.stopped -> <<<<"discard">>>> \o handle_no_policy
      [] ~fwfiles.stopped /\ fwfiles.transition -> emergency_block(Enabled4And6)
      [] ~fwfiles.stopped /\ ~fwfiles.transition /\ fwfiles.rules[4] # NoRules -> restore_policy
      [] OTHER -> handle_no_policy

\* Without flock(1) main never runs.
run_without_lock ==
    IF policy_hooked \/ ~nym_boot_block_wanted THEN <<>>
    ELSE emergency_block(Enabled4And6) \o <<<<"barecheck">>>>

\* fw4-include.sh: nft transactions need no lock, so it looks again afterwards.
reconcile_boot_block ==
    IF fw.rules[0] # NoRules \/ ~nym_boot_block_wanted THEN <<<<"relift", 0>>>>
    ELSE <<<<"install">>, <<"recheck">>>>

\* The boot block or nothing, by what the settings say.
no_policy_block ==
    IF nym_boot_block_wanted THEN emergency_block(Enabled4And6) \o <<<<"raced">>>> ELSE cleanup_emergency

\* The look back after the block went in, on fw3: a transition or a policy
\* that is not hooked yet is the daemon's, which lifts the block itself.
no_policy_raced ==
    CASE fwfiles.transition -> <<>>
      [] ~fwfiles.transition /\ fwfiles.rules[4] # NoRules -> IF policy_hooked THEN lift_emergency ELSE <<>>
      [] OTHER -> IF nym_boot_block_wanted THEN <<>> ELSE lift_emergency

boot_block_recheck ==
    IF fw.rules[0] # NoRules \/ ~nym_boot_block_wanted THEN <<<<"relift", 0>>>> ELSE <<>>

\* Where a script decides, from what it sees at that moment.
Decide(op) ==
    CASE op[1] = "main" /\ fwconf.system = "fw4" -> reconcile_boot_block
      [] op[1] = "main" /\ fwconf.system = "fw3" -> IF include.locked THEN Fw3Main ELSE run_without_lock
      [] op[1] = "decide" -> no_policy_block
      [] op[1] = "raced" -> no_policy_raced
      [] op[1] = "barecheck" -> IF policy_hooked THEN cleanup_emergency ELSE <<>>
      [] op[1] = "recheck" -> boot_block_recheck

Deciding == {"main", "decide", "raced", "barecheck", "recheck"}

ScriptDone(todo) ==
    include' = IF todo = <<>> THEN [include EXCEPT !.todo = <<>>, !.locked = FALSE, !.opening = FALSE]
              ELSE [include EXCEPT !.todo = todo, !.opening = @ \/ ~nym_boot_block_wanted]

\* The include starts: at once on fw4, with the lock on fw3 where flock(1) is
\* installed, and without it otherwise.
Include(by) ==
    /\ include.todo = <<>> /\ fw.up
    /\ include' = [by |-> by, due |-> include.due /\ by # "framework", todo |-> <<<<"main">>>>, opening |-> FALSE,
                  locked |-> fwconf.flock /\ fwconf.system = "fw3"]
    /\ include'.locked => ~fwd.locked
    /\ UNCHANGED <<fw, fwfiles, fwd>>

\* The framework runs it last, after it has built its own rules.
FrameworkIncludes == include.due /\ Include("framework") /\ UNCHANGED fwconf

ScriptDecides ==
    /\ include.todo # <<>> /\ Head(include.todo)[1] \in Deciding
    /\ ScriptDone(Decide(Head(include.todo)) \o Tail(include.todo))
    /\ UNCHANGED <<fw, fwfiles, fwconf, fwd>>

ScriptCommand ==
    LET op == Head(include.todo) IN
    /\ include.todo # <<>> /\ op[1] \notin Deciding /\ Runnable(op)
    /\ fw' = FwAfter(op, NoRules)
    /\ fwfiles' = FilesAfter(op, NoRules)
    /\ ScriptDone(Tail(include.todo))
    /\ UNCHANGED <<fwconf, fwd>>

\* A family that cannot be restored is blocked instead; other failures are
\* logged and the script goes on.
ScriptFails ==
    LET op == Head(include.todo)
        rest == SelectSeq(Tail(include.todo),
                          LAMBDA o : ~(o[1] \in {"rehook", "clear"} /\ o[2] = op[2]))
    IN  /\ include.todo # <<>> /\ op[1] \notin Deciding
        /\ \/ ~Runnable(op) /\ UNCHANGED fwconf
           \/ fwconf.budget > 0 /\ fwconf' = [fwconf EXCEPT !.budget = @ - 1, !.failed = @ + 1]
        /\ ScriptDone(CASE op[1] \in {"replay", "rehook", "clear"} -> <<<<"block", op[2]>>>> \o rest
                        [] op[1] = "install" \/ (op[1] = "relift" /\ Len(op) = 3) -> <<>>
                        [] OTHER -> Tail(include.todo))
        /\ UNCHANGED <<fw, fwfiles, fwd>>

(***************************************************************************)
(* The framework, the init script, the kernel and the user.                *)
(***************************************************************************)
FwEvent == fwconf.budget > 0 /\ fwconf' = [fwconf EXCEPT !.budget = @ - 1]

\* fw3 restart: every table is flushed, ours too.
FrameworkFlushes ==
    /\ fwconf.system = "fw3" /\ fw.up /\ ~include.due
    /\ include.todo = <<>> \/ include.by = "init"
    /\ FwEvent
    /\ fw' = [fw EXCEPT !.up = FALSE, !.rules = [f \in DOMAIN @ |-> NoRules],
                        !.hooks = [f \in DOMAIN @ |-> {}], !.emergency = [f \in DOMAIN @ |-> {}]]
    /\ include' = [include EXCEPT !.due = TRUE]
    /\ UNCHANGED <<fwfiles, fwd>>

FrameworkBuilds ==
    /\ ~fw.up /\ fw' = [fw EXCEPT !.up = TRUE]
    /\ UNCHANGED <<fwfiles, fwconf, fwd, include>>

\* A reload leaves our chains and tables alone and runs the include.
FrameworkReloads ==
    /\ fw.up /\ ~include.due /\ FwEvent
    /\ include' = [include EXCEPT !.due = TRUE]
    /\ UNCHANGED <<fw, fwfiles, fwd>>

\* The disable_ipv6 setting.  Both writers probe it once per run; it does not
\* change inside one, and once in all.
Ipv6Changes ==
    /\ fwconf.system = "fw3" /\ include.todo = <<>> /\ fwd.todo = <<>> /\ FwEvent
    /\ fw.ipv6 # "unusable" /\ ~fw.moved
    /\ fw' = [fw EXCEPT !.moved = TRUE, !.ipv6 = IF @ = "enabled" THEN "disabled" ELSE "enabled"]
    /\ UNCHANGED <<fwfiles, fwd, include>>

\* The daemon saves the setting, then tells its state machine.
KillswitchToggled ==
    /\ fwd.alive /\ fwconf.budget > 0
    /\ fwconf' = [fwconf EXCEPT !.budget = @ - 1, !.killswitch = ~@]
    /\ fwd' = [fwd EXCEPT !.inbox = Append(@, ~fwconf.killswitch)]
    /\ UNCHANGED <<fw, fwfiles, include>>

\* An explicit stop writes the marker first; restart, shutdown and the
\* account reset keep the kill-switch, and look like a crash from here.
stop_service ==
    /\ fwconf.service = "started" /\ fwconf.budget > 0
    /\ fwfiles' = [fwfiles EXCEPT !.stopped = TRUE]
    /\ fwconf' = [fwconf EXCEPT !.budget = @ - 1, !.service = "stopping"]
    /\ UNCHANGED <<fw, fwd, include>>

\* procd kills the daemon; service_stopped waits for the process to be gone.
DaemonKilled ==
    /\ fwconf.service = "stopping"
    /\ fwconf' = [fwconf EXCEPT !.service = "nym"]
    /\ fwd' = FwDead
    /\ UNCHANGED <<fw, fwfiles, include>>

\* The two nft deletes, which do nothing on fw3; then the include under the
\* lock on fw3.  Without the lock the next reload is left to finish.
service_stopped ==
    \/ /\ fwconf.service = "nym" /\ fwconf' = [fwconf EXCEPT !.service = "nym_boot"]
       /\ fw' = IF fwconf.system = "fw4" THEN cleanup_filter(0) ELSE fw
       /\ UNCHANGED <<fwfiles, fwd, include>>
    \/ /\ fwconf.service = "nym_boot" /\ fwconf' = [fwconf EXCEPT !.service = "fw3"]
       /\ fw' = IF fwconf.system = "fw4" THEN SetFw("emergency", 0, {}) ELSE fw
       /\ UNCHANGED <<fwfiles, fwd, include>>
    \/ /\ fwconf.service = "fw3" /\ fwconf' = [fwconf EXCEPT !.service = "stopped"]
       /\ \/ fwconf.system = "fw3" /\ fwconf.flock /\ Include("init")
          \/ ~(fwconf.system = "fw3" /\ fwconf.flock /\ fw.up) /\ UNCHANGED <<fw, fwfiles, fwd, include>>

\* The marker goes; on fw3 there is no fw4 table, so the firewall is reloaded.
start_service ==
    /\ fwconf.service = "stopped" /\ (include.by = "init" => include.todo = <<>>)
    /\ fwconf' = [fwconf EXCEPT !.service = "started"]
    /\ fwfiles' = [fwfiles EXCEPT !.stopped = FALSE]
    /\ include' = [include EXCEPT !.due = @ \/ fwconf.system = "fw3"]
    /\ UNCHANGED <<fw, fwd>>

\* Power-on: nothing of ours is loaded and the framework is about to run.
FwInit ==
    \E host \in FwHosts :
        LET fs == IF host.system = "fw3" THEN {4, 6} ELSE {0} IN
        /\ fwconf \in [system : {host.system}, flock : {host.flock}, killswitch : BOOLEAN,
                        service : {"started"}, budget : {FwBudget}, failed : {0}]
        /\ fw = [up |-> FALSE, moved |-> FALSE, ipv6 |-> host.ipv6, rules |-> [f \in fs |-> NoRules],
                 hooks |-> [f \in fs |-> {}], emergency |-> [f \in fs |-> {}]]
        /\ fwfiles = [rules |-> [f \in fs |-> NoRules], transition |-> FALSE, stopped |-> FALSE]
        /\ fwd = FwDead
        /\ include = [by |-> "framework", due |-> TRUE, todo |-> <<>>, opening |-> FALSE, locked |-> FALSE]

DaemonNext ==
    \/ \E p \in Policies : ApplyPolicy(p)
    \/ set_killswitch \/ reset_policy \/ MemoryExpires
    \/ DaemonCommand \/ lock_fw3_state \/ ipv6_status \/ activate_family_script \/ CommandFails
    \/ FwCrash \/ Respawn

ScriptNext == FrameworkIncludes \/ ScriptDecides \/ ScriptCommand \/ ScriptFails

HostNext ==
    \/ FrameworkFlushes \/ FrameworkBuilds \/ FrameworkReloads \/ Ipv6Changes
    \/ KillswitchToggled \/ stop_service \/ DaemonKilled \/ service_stopped \/ start_service

FwNext == DaemonNext \/ ScriptNext \/ HostNext

\* The scheduler runs the daemon and the scripts; procd respawns; the idle
\* state asks for its policy again on every refresh.
FwFairSteps == {"daemon", "include", "build", "respawn", "expire", "killswitch", "stop"}

FwFair(s) ==
    \/ s = "daemon" /\ \/ DaemonCommand \/ lock_fw3_state \/ ipv6_status
                       \/ activate_family_script \/ CommandFails
    \/ s = "include" /\ (FrameworkIncludes \/ ScriptDecides \/ ScriptCommand \/ ScriptFails)
    \/ s = "build" /\ FrameworkBuilds
    \/ s = "respawn" /\ Respawn
    \/ s = "expire" /\ MemoryExpires
    \/ s = "killswitch" /\ set_killswitch
    \/ s = "stop" /\ (DaemonKilled \/ service_stopped)

FwFairness ==
    /\ \A s \in FwFairSteps : WF_fwVars(FwFair(s))
    /\ \A p \in Policies : SF_fwVars(ApplyPolicy(p))

FwSpec == FwInit /\ [][FwNext]_fwVars /\ FwFairness

(***************************************************************************)
(* Properties.                                                             *)
(***************************************************************************)
FwTypeOK ==
    /\ fw.up \in BOOLEAN /\ fw.ipv6 \in {"enabled", "disabled", "unusable"}
    /\ fw.rules \in [Families -> Policies \cup {NoRules}]
    /\ fw.hooks \in [Families -> SUBSET {"input", "output", "forward"}]
    /\ fw.emergency \in [Families -> SUBSET Egress]
    /\ fwfiles.rules \in [Families -> Policies \cup {NoRules}]
    /\ {fwfiles.transition, fwfiles.stopped, fwd.alive, fwd.fresh, fwd.locked, include.locked} \subseteq BOOLEAN
    /\ fwd.applied \in Policies \cup {NoRules, ResetTarget}
    /\ ~(fwd.locked /\ include.locked)

\* Nobody has asked for an open router, and nobody in charge is still acting
\* on such a wish.
BlockWanted == nym_boot_block_wanted /\ (fwd.alive => fwd.killswitch) /\ ~include.opening

\* The writers exclude each other: nft transactions do, and fw3's where flock(1)
\* is installed.  Where it is not, the include cannot keep out of an apply,
\* lifts the IPv6 block on the word of the IPv4 chains and may leave a block.
Serialised == fwconf.system = "fw3" => fwconf.flock

\* Chains that a failed teardown left after a stop are not a policy any more.
Leftover(f) == fwconf.system = "fw3" /\ fwfiles.rules[4] = NoRules /\ ~fwfiles.transition /\ fw.rules[f] # NoRules

\* With the kill-switch wanted, egress that is closed stays closed through
\* every command of an apply, of an include and of a recovery, whatever
\* fails or dies in between; only fw3's own flush opens it.
OnlyTheFlushOpens ==
    [][Serialised => \A f \in {g \in Families : ~Leftover(g)} :
          (BlockWanted /\ BlockWanted' /\ fw'.up /\ Closed(f) /\ (f = 6 => kernel_ipv6_enabled)) => Closed(f)']_fwVars

\* The saved scripts of the two families are of one policy whenever the
\* marker does not say otherwise: a restart never restores half of two.
SavedPairWhole ==
    (fwconf.system = "fw3" /\ ~fwfiles.transition) => fwfiles.rules[6] \in {NoRules, fwfiles.rules[4]}

\* Nothing is running and nothing is about to.
Quiet == fw.up /\ ~include.due /\ include.todo = <<>> /\ fwd.todo = <<>>

\* While the daemon remembers a policy as applied, so that it may skip the
\* same one, the router is closed by it or by a block, restarts and the
\* failure of one command included.
MemoryHonest ==
    (Quiet /\ fwd.applied \in Policies /\ ~fwfiles.stopped /\ fwconf.killswitch
        /\ Serialised /\ fwconf.failed <= 1) =>
        \A f \in Families : (f = 6 => kernel_ipv6_enabled /\ fwfiles.rules[6] # NoRules) => Closed(f)

\* After an explicit stop nothing of ours is left in the way, whatever the
\* daemon and the include were in the middle of.
StopOpens ==
    (Quiet /\ fwconf.service = "stopped" /\ fwconf.failed = 0 /\ Serialised) =>
        \A f \in Families : fw.rules[f] = NoRules /\ fw.emergency[f] = {}

\* With the kill-switch off, no block that raced the switch is left behind.
NoStrandedBlock ==
    (Quiet /\ ~fwconf.killswitch /\ fwd.inbox = <<>> /\ fwd.applied = ResetTarget
        /\ fwconf.failed = 0 /\ Serialised) =>
        \A f \in Families : fw.emergency[f] = {}

\* An emergency or boot block is always lifted again, by the daemon's policy or
\* by the stop: the router does not stay cut off by a leftover.
BlockLifted ==
    (Serialised /\ \E f \in Families : fw.emergency[f] # {}) ~>
        \/ \A f \in Families : fw.emergency[f] = {}
        \/ fw.ipv6 = "unusable" \/ (fwconf.service = "stopped" /\ fwconf.failed > 0)

\* A wanted kill-switch ends up closed, whatever was flushed or died.
EventuallyClosed ==
    []<>((fwconf.killswitch /\ fwconf.service = "started" /\ fw.ipv6 # "unusable") =>
            \A f \in Families : (f = 6 => kernel_ipv6_enabled) => Closed(f))

\* What is saved, remembered or left behind is true of the router: the four
\* facts about states above.
FirewallConsistent == FwTypeOK /\ SavedPairWhole /\ MemoryHonest /\ StopOpens /\ NoStrandedBlock
=============================================================================
