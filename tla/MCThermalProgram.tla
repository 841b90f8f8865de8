-------------------------- MODULE MCThermalProgram --------------------------
(***************************************************************************)
(* Rooms of all kinds; the months around the two changes of the season;    *)
(* memories that agree with no program, and one that agrees with part of   *)
(* one.                                                                    *)
(***************************************************************************)
EXTENDS ThermalProgram

MCRooms   == {"Wohnzimmer", "Bad", "Lea"}
MCMonths  == {4, 5, 8, 9}
MCFactory == { [i \in Index |-> 0], [i \in Index |-> 255],
               [i \in Index |-> IF i % 2 = 0 THEN 68 ELSE 72] }
\* Just before and at each change of temperature.
MCMinutes == {0, 359, 360, 599, 600, 1019, 1020, 1379, 1380, 1439}

=============================================================================
