----------------------------- MODULE MCStartup -----------------------------
(* The TLC instance of Startup by itself.                                  *)
EXTENDS Startup

CONSTANT k0

NoRules == {}

EmptyVolume == {[key |-> Absent, cert |-> Absent]}
=============================================================================
