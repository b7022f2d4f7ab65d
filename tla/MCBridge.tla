------------------------------ MODULE MCBridge ------------------------------
(* TLC instance of BridgeSystem: the packets of the bridge. *)
EXTENDS BridgeSystem

MCPacket == {HeartbeatPacket, ZeroPacket}
=============================================================================
