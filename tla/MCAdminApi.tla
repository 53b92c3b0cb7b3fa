----------------------------- MODULE MCAdminApi -----------------------------
(* TLC instances of AdminApi.                                              *)
EXTENDS AdminApi, TLC

CONSTANTS g1, p1

NoRules == {}

\* The forms an admin posts: for the group, for anonymous with a subject left in
\* the form, an anonymous push, and one without a subject.
SomeRules == {
  [kind |-> "group",     subject |-> g1,   pattern |-> p1, action |-> "push"],
  [kind |-> "anonymous", subject |-> g1,   pattern |-> p1, action |-> "pull"],
  [kind |-> "anonymous", subject |-> NULL, pattern |-> p1, action |-> "push"],
  [kind |-> "user",      subject |-> NULL, pattern |-> p1, action |-> "pull"] }

\* No rule names a user; requests, users and their names are interchangeable.
Symmetry == Permutations(UserIds) \cup Permutations(Usernames) \cup Permutations(Slots)
=============================================================================
