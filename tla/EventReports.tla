---------------------------- MODULE EventReports ----------------------------
(***************************************************************************)
(* A device measures again and again and reports to the main loop, which   *)
(* decodes each report with what EventFields has for it.                   *)
(***************************************************************************)
EXTENDS EventFields

VARIABLES
  frame,         \* the kind of event the device sends
  reading,       \* what it reported last, or measured first
  event          \* what the program made of the last report

vars == <<frame, reading, event>>

Init ==
  /\ frame \in DOMAIN Readings
  /\ reading \in Readings[frame]
  /\ event = <<>>

Report ==
  /\ reading' \in Readings[frame]
  /\ event' = Received(frame, reading')
  /\ UNCHANGED frame

Spec == Init /\ [][Report]_vars

----------------------------------------------------------------------------

\* thermalcontrolevent.go and both infoevent.go say of ActualTemperature:
\* "in degC", so that what is decoded is the temperature measured.  Not so
\* from 25.6 degC on: the high bits are not shifted into place.
TemperatureArrives ==
  "actual" \in DOMAIN event => event.actual = reading.actual

=============================================================================
