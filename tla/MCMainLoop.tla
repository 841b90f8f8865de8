----------------------------- MODULE MCMainLoop -----------------------------
(* MainLoop for TLC: two requests, of which either may switch on or off. *)
EXTENDS MainLoop

CONSTANTS h1, h2
MCHandlers == {h1, h2}
MCLevels   == {"on", "off"}

=============================================================================
