---------------------------- MODULE MCBridgeConn ----------------------------
EXTENDS BridgeConn
=============================================================================
