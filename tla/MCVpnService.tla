---------------------------- MODULE MCVpnService ----------------------------
(* VpnService for TLC.  The bounds are in the configuration files: two     *)
(* queued events let the service fall two states behind the machine, two   *)
(* commands let a user overtake a retry, and a streak of two is the        *)
(* shortest in which resetting and not resetting it differ.                *)
EXTENDS VpnService
=============================================================================
