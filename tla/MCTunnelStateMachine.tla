------------------------ MODULE MCTunnelStateMachine ------------------------
(***************************************************************************)
(* Instances of TunnelStateMachine for TLC.                                *)
(***************************************************************************)
EXTENDS TunnelStateMachine, TLC

\* LAN access is told apart under the kill-switch only: no policy, no difference.
ContractSettings == {s \in AllSettings : s.allow_lan => s.killswitch}

\* Kill-switch on and LAN access off: only the selection inputs change.
SelectionSettings == {s \in AllSettings : s.killswitch /\ ~s.allow_lan}

\* Selection treats the gateways alike.
GatewaySymmetry == Permutations(Gateways)
=============================================================================
