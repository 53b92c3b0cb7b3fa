-------------------------- MODULE MCTokenLifetime --------------------------
(* TLC instances of TokenLifetime.                                         *)
EXTENDS TokenLifetime

CONSTANT k0

NoRules == {}

\* An empty volume, or PEM files that were put there before the first start.
EitherVolume == {[key |-> Absent, cert |-> Absent], [key |-> k0, cert |-> k0]}

\* A clock behind as far as both leeways reach, right, or ahead.
MCSkews == {-2, 0, 1}
=============================================================================
