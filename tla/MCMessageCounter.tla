-------------------------- MODULE MCMessageCounter --------------------------
(* MessageCounter for TLC: a switch and a thermostat. *)
EXTENDS MessageCounter

CONSTANTS switch, thermostat
MCDevices  == {switch, thermostat}
MCSwitches == {switch}
NoSwitches == {}

=============================================================================
