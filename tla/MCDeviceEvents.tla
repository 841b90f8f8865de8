--------------------------- MODULE MCDeviceEvents ---------------------------
(***************************************************************************)
(* One device of each type and a second wall thermostat.  Two gauges stand *)
(* for the first and the last of a kind.  The readings are at the ends of  *)
(* each field and around the places where it shares a byte with another.   *)
(***************************************************************************)
EXTENDS DeviceEvents

CONSTANTS tc1, tc2, ts, ps, stranger

MCThermals    == {tc1, tc2}
MCThermostats == {ts}
MCSwitches    == {ps}
MCBySerial    == <<tc1, ts, tc2, ps>>
MCGaugeCount(kind) == 2

MCTargets     == {0, 34, 63}
MCActuals     == {0, 3, 226, 255, 256, 515, 1023}
MCOutside     == {0, 253, 255, 256, 8192, 16383}
MCHumidities  == {0, 57, 99}
MCBatteries   == {15, 29, 46}
MCValves      == {0, 100, 127}
MCBoosts      == {0, 5, 63}
MCEnergies    == {0, 906, 65536, 8388607}
MCPowers      == {0, 187, 255, 256, 65535, 65536, 16777215}
MCCurrents    == {0, 16, 256, 65535}
MCVoltages    == {0, 2312, 65535}
MCFrequencies == {5000, 5001, 5255}

=============================================================================
