------------------------------ MODULE AclLoop ------------------------------
(***************************************************************************)
(* acl.Evaluate as the code runs it: an outer loop over the requested      *)
(* scopes, an inner one over the rules in the order ListACLRules returns   *)
(* them, and two flags.  The rules, the scopes and the identity are any    *)
(* that the constants allow.                                               *)
(***************************************************************************)
EXTENDS Acl, Naturals, Sequences, FiniteSets

CONSTANTS
  Identities, Rules, Scopes,   \* what a call may be about
  MaxRules, MaxScopes          \* bounds of the two slices

ASSUME AclLoopAssumption == MaxRules \in Nat /\ MaxScopes \in Nat

VARIABLES
  id, ruleList, requested,     \* the arguments
  pc,                          \* "scope", "rule" or "done"
  i, j,                        \* the scope and the rule being looked at
  pull, push,                  \* evaluateRules' named results
  out                          \* the granted scopes so far

vars == <<id, ruleList, requested, pc, i, j, pull, push, out>>
arguments == <<id, ruleList, requested>>

SeqsUpTo(S, n) == UNION {[1..k -> S] : k \in 0..n}
Elements(s) == {s[k] : k \in 1..Len(s)}

TypeOK ==
  /\ id \in Identities
  /\ ruleList \in SeqsUpTo(Rules, MaxRules)
  /\ requested \in SeqsUpTo(Scopes, MaxScopes)
  /\ pc \in {"scope", "rule", "done"}
  /\ i \in 1..Len(requested)+1 /\ j \in 1..Len(ruleList)+1
  /\ pull \in BOOLEAN /\ push \in BOOLEAN
  /\ Len(out) <= Len(requested)

Init ==
  /\ id \in Identities
  /\ ruleList \in SeqsUpTo(Rules, MaxRules)
  /\ requested \in SeqsUpTo(Scopes, MaxScopes)
  /\ pc = "scope" /\ i = 1 /\ j = 1
  /\ pull = FALSE /\ push = FALSE
  /\ out = <<>>

BUG_NextScope_KeepsFlags ==   \* the flags are declared outside the outer loop
  /\ pc = "scope" /\ i <= Len(requested)
  /\ IF requested[i].type = "repository"
     THEN pc' = "rule" /\ i' = i
     ELSE pc' = "scope" /\ i' = i + 1
  /\ j' = 1
  /\ UNCHANGED <<arguments, pull, push, out>>

\* for _, scope := range requested
NextScope ==
  /\ pc = "scope" /\ i <= Len(requested)
  /\ IF requested[i].type = "repository"
     THEN pc' = "rule" /\ i' = i
     ELSE pc' = "scope" /\ i' = i + 1
  /\ j' = 1 /\ pull' = FALSE /\ push' = FALSE
  /\ UNCHANGED <<arguments, out>>

Return ==
  /\ pc = "scope" /\ i > Len(requested)
  /\ pc' = "done"
  /\ UNCHANGED <<arguments, i, j, pull, push, out>>

BUG_EvaluateRule_AnonymousPush ==   \* the identity is not looked at again
  /\ pc = "rule" /\ j <= Len(ruleList)
  /\ LET rule == ruleList[j]
         applies == Applies(id, rule, requested[i].name)
     IN /\ pull' = (pull \/ (applies /\ rule.action \in {"pull", "push"}))
        /\ push' = (push \/ (applies /\ rule.action = "push"))
  /\ j' = j + 1
  /\ UNCHANGED <<arguments, pc, i, out>>

\* The body of evaluateRules' loop.
EvaluateRule ==
  /\ pc = "rule" /\ j <= Len(ruleList)
  /\ LET rule == ruleList[j]
         applies == Applies(id, rule, requested[i].name)
         pushes == applies /\ rule.action = "push" /\ ~id.anonymous
     IN /\ pull' = (pull \/ pushes \/ (applies /\ rule.action = "pull"))
        /\ push' = (push \/ pushes)
  /\ j' = j + 1
  /\ UNCHANGED <<arguments, pc, i, out>>

\* grantedActions on slices: the loop over what the flags allow, and then "pull"
\* in front of a lone "push".
allowed == IF push THEN <<"pull", "push">> ELSE IF pull THEN <<"pull">> ELSE <<>>

Selected(granted, want) ==
  LET selected[k \in 0..Len(granted)] ==
        IF k = 0 THEN <<>>
        ELSE IF granted[k] \in want THEN Append(selected[k - 1], granted[k])
        ELSE selected[k - 1]
  IN selected[Len(granted)]

BUG_FilterGranted_LonePush(want) == Selected(allowed, want)   \* no containsAction

FilterGranted(want) ==
  LET selected == Selected(allowed, want)
  IN IF "push" \in Elements(selected) /\ "pull" \notin Elements(selected)
     THEN <<"pull">> \o selected ELSE selected

BUG_FinishScope_Twice ==   \* the scope is appended and looked at again
  /\ pc = "rule" /\ j > Len(ruleList)
  /\ LET scope == requested[i]
     IN out' = Append(out, [type |-> scope.type, name |-> scope.name,
                            actions |-> FilterGranted(scope.actions)])
  /\ pc' = "scope"
  /\ UNCHANGED <<arguments, i, j, pull, push>>

FinishScope ==
  /\ pc = "rule" /\ j > Len(ruleList)
  /\ LET scope   == requested[i]
         actions == FilterGranted(scope.actions)
     IN out' = IF Len(actions) = 0 THEN out
               ELSE Append(out, [type |-> scope.type, name |-> scope.name,
                                 actions |-> actions])
  /\ pc' = "scope" /\ i' = i + 1
  /\ UNCHANGED <<arguments, j, pull, push>>

Next == NextScope \/ EvaluateRule \/ FinishScope \/ Return

Spec == Init /\ [][Next]_vars

-----------------------------------------------------------------------------
GrantedSet ==
  {[type |-> s.type, name |-> s.name, actions |-> Elements(s.actions)] :
     s \in Elements(out)}

\* The loops compute the policy: neither the order of the rules, nor a repeated
\* rule or scope, nor a flag left over from the scope before changes a decision.
ComputesPolicy ==
  pc = "done" => GrantedSet = Evaluate(id, Elements(ruleList), Elements(requested))

\* No prefix of the rules grants more than the whole list: a rule is never
\* evidence against access, so the loop may only add.
OnlyAdds ==
  pc = "rule" =>
    /\ pull => grantedPull(id, Elements(ruleList), requested[i].name)
    /\ push => grantedPush(id, Elements(ruleList), requested[i].name)

\* "Push implies pull", and "anonymous push is not supported" (README.md): a
\* granted scope that pushes also pulls, names "pull" first, and belongs to no
\* anonymous client.
PushImpliesPull ==
  \A s \in Elements(out) :
    "push" \in Elements(s.actions) => ~id.anonymous /\ s.actions = <<"pull", "push">>
=============================================================================
