--------------------------- MODULE MCUartGateway ---------------------------
(* UartGateway for TLC: two devices, a counter that wraps twice during one *)
(* startup, two restarts.                                                  *)
EXTENDS UartGateway

CONSTANTS p1, p2
MCPeers == {p1, p2}

============================================================================
