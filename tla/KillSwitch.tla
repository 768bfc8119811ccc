----------------------------- MODULE KillSwitch -----------------------------
(***************************************************************************)
(* What the daemon promises about the router's kill-switch                 *)
(* (docs/architecture/killswitch-contract.md and the module table of       *)
(* tunnel_state_machine/mod.rs), without saying how: whether egress is     *)
(* walled off, in each phase of the daemon's life.                         *)
(*                                                                         *)
(*   gone      no state machine runs: the wall is what was left behind     *)
(*   idle      between sessions: the wall is what the user wishes          *)
(*   session   connecting or connected: likewise                           *)
(*   leaving   a session is being torn down: the wall is not touched       *)
(*   fallback  offline or error: a wall that could not be set is kept      *)
(***************************************************************************)
VARIABLES
    phase,
    wish,       \* the user wants the kill-switch on
    wall        \* egress outside the tunnel is closed

ksvars == <<phase, wish, wall>>

KSInit == phase = "gone" /\ wish \in BOOLEAN /\ wall \in BOOLEAN

\* Enter a phase, or stay in it, with the wall as wished.
Enforce ==
    /\ phase' \in {"idle", "session", "fallback"}
    /\ wish' \in BOOLEAN
    /\ wall' = wish'

\* The wall could not be set: it may be as before, or as wished.
Fallback ==
    /\ phase' = "fallback"
    /\ wish' \in BOOLEAN
    /\ wall' \in {wall, wish'}

\* A session ends; the user may change their mind while it does.
Leave ==
    /\ phase \in {"session", "leaving"} /\ phase' = "leaving"
    /\ wish' \in BOOLEAN
    /\ wall' \in IF phase = "session" THEN {wall, wish'} ELSE {wall}

\* A crash leaves the wall alone; a shutdown opens it only if nobody wants it.
Stop ==
    /\ phase # "gone" /\ phase' = "gone"
    /\ wish' = wish
    /\ wall' \in {wall} \cup (IF wish THEN {} ELSE {FALSE})

KSNext == Enforce \/ Fallback \/ Leave \/ Stop

KSSpec == KSInit /\ [][KSNext]_ksvars
=============================================================================
