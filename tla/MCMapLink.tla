------------------------------ MODULE MCMapLink ------------------------------
(* Small instances of MapLink for TLC.                                      *)
EXTENDS MapLink

NoPacket == {}
SecondPacket == {2}
==============================================================================
