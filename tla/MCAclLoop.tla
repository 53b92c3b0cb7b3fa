----------------------------- MODULE MCAclLoop -----------------------------
(* TLC instance of AclLoop: an anonymous client and a member of one group, *)
(* and a glob that matches one of two repositories.                        *)
EXTENDS AclLoop

CONSTANTS alice, bob, devs, noone, glob, teamApp, otherApp

MCIdentities == {
  [anonymous |-> TRUE,  user |-> noone, groups |-> {}],
  [anonymous |-> FALSE, user |-> alice, groups |-> {devs}] }

\* team/* and team/app match team/app only, as path.Match has it.
MCMatches == {<<glob, teamApp>>}

MCRules ==
  {[kind |-> k, subject |-> s, pattern |-> glob, action |-> a] :
     <<k, s>> \in {<<"user", alice>>, <<"user", bob>>, <<"group", devs>>,
                   <<"anonymous", noone>>, <<"other", alice>>},
     a \in {"pull", "push"}}
  \cup {[kind |-> "user", subject |-> alice, pattern |-> glob, action |-> "other"]}

MCScopes ==
  {[type |-> "repository", name |-> n, actions |-> a] :
     n \in {teamApp, otherApp}, a \in {{"pull"}, {"push"}, {"pull", "push", "delete"}}}
  \cup {[type |-> "registry", name |-> teamApp, actions |-> {"pull"}]}
=============================================================================
