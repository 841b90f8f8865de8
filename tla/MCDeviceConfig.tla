--------------------------- MODULE MCDeviceConfig ---------------------------
(* A thermostat with three bytes of parameters, two of which the program   *)
(* sets, one to a packet; or with a single byte the program leaves alone.  *)
EXTENDS DeviceConfig, TLC

MCProgram == 1 :> 1 @@ 3 :> 1
NoProgram == [i \in {} |-> 0]
MCValues  == {0, 1}
=============================================================================
