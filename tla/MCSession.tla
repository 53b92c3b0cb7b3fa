----------------------------- MODULE MCSession -----------------------------
(* TLC instances of Session.                                               *)
EXTENDS Session, TLC

NoRules == {}

Symmetry == Permutations(UserIds) \cup Permutations(Usernames)
            \cup Permutations(Slots) \cup Permutations(CsrfTokens)
=============================================================================
