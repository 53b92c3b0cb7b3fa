----------------------------- MODULE AclProofs -----------------------------
(***************************************************************************)
(* What the access policy guarantees, for every identity, every collection *)
(* of rules and every request; and that the loops of acl.Evaluate compute  *)
(* it, for slices of any length.                                           *)
(***************************************************************************)
EXTENDS AclLoop, SequenceTheorems, TLAPS

-----------------------------------------------------------------------------
(***************************************************************************)
(* The policy.                                                             *)
(***************************************************************************)

\* A granted scope is a requested repository with the actions granted for it.
LEMMA EvaluateScope ==
  ASSUME NEW who, NEW R, NEW asked, NEW s \in Evaluate(who, R, asked)
  PROVE  \E r \in asked : /\ r.type = "repository"
                          /\ s = [type |-> r.type, name |-> r.name,
                                  actions |-> Granted(who, R, r)]
                          /\ Granted(who, R, r) # {}
BY DEF Evaluate

\* "Anonymous push is not supported": whatever the rules say, an anonymous
\* client is granted no push.
THEOREM AnonymousNeverPushes ==
  ASSUME NEW who, who.anonymous, NEW R, NEW asked, NEW s \in Evaluate(who, R, asked)
  PROVE  "push" \notin s.actions
<1>1. \A r : "push" \notin Granted(who, R, r)
  BY DEF Granted, grantedActions, grantedPush
<1> QED BY <1>1, EvaluateScope

\* "Push implies pull": a grant of push carries pull, even if only push was
\* asked for, and nothing but pull and push is ever granted.
THEOREM PushBringsPull ==
  ASSUME NEW who, NEW R, NEW asked, NEW s \in Evaluate(who, R, asked)
  PROVE  /\ "push" \in s.actions => "pull" \in s.actions
         /\ s.actions \subseteq {"pull", "push"}
<1>1. \A r : /\ "push" \in Granted(who, R, r) => "pull" \in Granted(who, R, r)
             /\ Granted(who, R, r) \subseteq {"pull", "push"}
  BY DEF Granted, grantedActions
<1> QED BY <1>1, EvaluateScope

\* Access is denied by omission: a grant rests on a rule of the list that
\* applies to this identity and this repository.
THEOREM DenyByOmission ==
  ASSUME NEW who, NEW R, NEW asked, NEW s \in Evaluate(who, R, asked)
  PROVE  \E rule \in R : Applies(who, rule, s.name) /\ rule.action \in {"pull", "push"}
<1>1. PICK r \in asked : s.name = r.name /\ Granted(who, R, r) # {}
  BY EvaluateScope
<1>2. grantedPull(who, R, r.name)
  BY <1>1 DEF Granted, grantedActions, grantedPull
<1> QED BY <1>1, <1>2 DEF grantedPull, grantedPush

-----------------------------------------------------------------------------
(***************************************************************************)
(* grantedActions on slices.                                               *)
(***************************************************************************)

LEMMA ElementsAppend ==
  ASSUME NEW S, NEW s \in Seq(S), NEW x \in S
  PROVE  Elements(Append(s, x)) = Elements(s) \cup {x}
BY AppendProperties, LenProperties DEF Elements

LEMMA ShortAppends ==
  /\ Append(<<>>, "pull") = <<"pull">> /\ Append(<<>>, "push") = <<"push">>
  /\ Append(<<"pull">>, "push") = <<"pull", "push">>
<1> DEFINE S == {"pull", "push"}
<1>1. ASSUME NEW x \in S PROVE Append(<<>>, x) = <<x>>
  <2> DEFINE s == Append(<<>>, x)
             t == <<x>>
  <2>1. <<>> \in Seq(S) /\ Len(<<>>) = 0
    BY EmptySeq
  <2>2. s \in Seq(S) /\ Len(s) = 1 /\ s[1] = x
    BY <2>1, AppendProperties
  <2>3. t \in Seq(S) /\ Len(t) = 1 /\ t[1] = x
    OBVIOUS
  <2> HIDE DEF s, t
  <2> QED BY <2>2, <2>3, SeqEqual DEF s, t
<1>2. Append(<<"pull">>, "push") = <<"pull", "push">>
  <2> DEFINE s == Append(<<"pull">>, "push")
             t == <<"pull", "push">>
             r == <<"pull">>
  <2>1. r \in Seq(S) /\ Len(r) = 1 /\ r[1] = "pull"
    OBVIOUS
  <2>2. s = Append(r, "push")
    OBVIOUS
  <2> HIDE DEF r
  <2>3. s \in Seq(S) /\ Len(s) = 2 /\ s[1] = "pull" /\ s[2] = "push"
    BY <2>1, <2>2, AppendProperties
  <2>4. t \in Seq(S) /\ Len(t) = 2 /\ t[1] = "pull" /\ t[2] = "push"
    OBVIOUS
  <2> HIDE DEF s, t
  <2>5. s = t
    BY <2>3, <2>4, SeqEqual
  <2> QED BY <2>5, Zenon DEF s, t
<1> QED BY <1>1, <1>2

\* The loop over two actions at most, unrolled.
With(s, x, want) == IF x \in want THEN Append(s, x) ELSE s

LEMMA SelectedSteps ==
  ASSUME NEW want, NEW granted, NEW none, none = <<>>, Len(granted) \in 0..2
  PROVE  Selected(granted, want) =
           IF Len(granted) = 0 THEN none
           ELSE IF Len(granted) = 1 THEN With(none, granted[1], want)
           ELSE With(With(none, granted[1], want), granted[2], want)
<1> DEFINE n == Len(granted)
           body(f, k) == IF k = 0 THEN none ELSE With(f[k - 1], granted[k], want)
           loop(f) == f = [k \in 0..n |-> body(f, k)]
           one  == With(none, granted[1], want)
           two  == With(one, granted[2], want)
           f0   == [k \in 0..n |-> IF k = 0 THEN none ELSE IF k = 1 THEN one ELSE two]
           last == CHOOSE f : loop(f)
<1>1. Selected(granted, want) = last[n]
  BY DEF Selected, With
<1> HIDE DEF n, one, two
<1>2. n \in 0..2
  BY DEF n
<1>3. loop(f0)
  <2>1. \A k \in 0..n : f0[k] = IF k = 0 THEN none ELSE IF k = 1 THEN one ELSE two
    OBVIOUS
  <2>2. f0 = [k \in 0..n |-> f0[k]]
    OBVIOUS
  <2> HIDE DEF f0
  <2>3. ASSUME NEW k \in 0..n PROVE f0[k] = body(f0, k)
    <3>1. CASE k = 0
      BY <2>1, <3>1
    <3>2. CASE k = 1
      <4>1. k - 1 = 0 /\ 0 \in 0..n /\ f0[0] = none /\ f0[1] = one
        BY <1>2, <2>1, <3>2
      <4> QED BY <3>2, <4>1 DEF one
    <3>3. CASE k = 2
      <4>1. k - 1 = 1 /\ 1 \in 0..n /\ f0[1] = one /\ f0[2] = two
        BY <1>2, <2>1, <3>3
      <4> QED BY <3>3, <4>1 DEF two
    <3> QED BY <1>2, <3>1, <3>2, <3>3
  <2> HIDE DEF body
  <2> QED BY <2>2, <2>3
<1>4. loop(last)
  <2> HIDE DEF loop, f0
  <2> QED BY <1>3
<1> HIDE DEF last, f0
<1>5. \A k \in 0..n : last[k] = IF k = 0 THEN none ELSE With(last[k - 1], granted[k], want)
  BY <1>4
<1>6. CASE n = 0
  BY <1>1, <1>5, <1>6 DEF n
<1>7. CASE n = 1
  <2>1. last[0] = none /\ last[1] = With(last[0], granted[1], want)
    BY <1>5, <1>7
  <2> QED BY <1>1, <1>7, <2>1 DEF n
<1>8. CASE n = 2
  <2>1. /\ last[0] = none /\ last[1] = With(last[0], granted[1], want)
        /\ last[2] = With(last[1], granted[2], want)
    BY <1>5, <1>8
  <2> QED BY <1>1, <1>8, <2>1 DEF n
<1> QED BY <1>2, <1>6, <1>7, <1>8

LEMMA ShortElements ==
  /\ Elements(<<>>) = {} /\ Elements(<<"pull">>) = {"pull"} /\ Elements(<<"push">>) = {"push"}
  /\ Elements(<<"pull", "push">>) = {"pull", "push"}
  /\ <<"pull">> \o <<"push">> = <<"pull", "push">>
<1>1. Elements(<<>>) = {}
  <2>1. Len(<<>>) = 0
    BY EmptySeq
  <2> QED BY <2>1 DEF Elements
<1>2. ASSUME NEW x PROVE Elements(<<x>>) = {x}
  BY DEF Elements
<1>3. Elements(<<"pull", "push">>) = {"pull", "push"}
  <2> DEFINE t == <<"pull", "push">>
  <2>1. Len(t) = 2 /\ t[1] = "pull" /\ t[2] = "push"
    OBVIOUS
  <2> HIDE DEF t
  <2>2. Elements(t) = {"pull", "push"}
    BY <2>1 DEF Elements
  <2> QED BY <2>2 DEF t
<1>4. <<"pull">> \o <<"push">> = Append(<<"pull">>, "push")
  BY AppendIsConcat, <<"pull">> \in Seq({"pull", "push"})
<1> QED BY <1>1, <1>2, <1>3, <1>4, ShortAppends

LEMMA SelectedIs ==
  ASSUME pull \in BOOLEAN, push \in BOOLEAN, NEW want
  PROVE  Selected(allowed, want) =
           IF push
           THEN IF "pull" \in want
                THEN IF "push" \in want THEN <<"pull", "push">> ELSE <<"pull">>
                ELSE IF "push" \in want THEN <<"push">> ELSE <<>>
           ELSE IF pull /\ "pull" \in want THEN <<"pull">> ELSE <<>>
<1> DEFINE none == <<>>
<1>1. /\ Append(none, "pull") = <<"pull">> /\ Append(none, "push") = <<"push">>
      /\ Append(<<"pull">>, "push") = <<"pull", "push">>
  BY ShortAppends
<1>2. none = <<>>
  OBVIOUS
<1> HIDE DEF none
<1>3. CASE push
  <2>1. Len(allowed) = 2 /\ allowed[1] = "pull" /\ allowed[2] = "push"
    BY <1>3 DEF allowed
  <2>2. Selected(allowed, want) = With(With(none, "pull", want), "push", want)
    BY <1>2, <2>1, SelectedSteps
  <2> QED BY <1>1, <1>2, <1>3, <2>2 DEF With
<1>4. CASE ~push /\ pull
  <2>1. Len(allowed) = 1 /\ allowed[1] = "pull"
    BY <1>4 DEF allowed
  <2>2. Selected(allowed, want) = With(none, "pull", want)
    BY <1>2, <2>1, SelectedSteps
  <2> QED BY <1>1, <1>2, <1>4, <2>2 DEF With
<1>5. CASE ~push /\ ~pull
  <2>1. Len(allowed) = 0
    BY <1>5, EmptySeq DEF allowed
  <2>2. Selected(allowed, want) = none
    BY <1>2, <2>1, SelectedSteps
  <2> QED BY <1>2, <1>5, <2>2
<1> QED BY <1>3, <1>4, <1>5

\* What comes out, in the order in which the registry reads it.
LEMMA FilterGrantedIs ==
  ASSUME pull \in BOOLEAN, push \in BOOLEAN, NEW want
  PROVE  FilterGranted(want) = IF push /\ "push" \in want THEN <<"pull", "push">>
                               ELSE IF (pull \/ push) /\ "pull" \in want THEN <<"pull">>
                               ELSE <<>>
<1> DEFINE sel == Selected(allowed, want)
<1>1. /\ Elements(<<>>) = {} /\ Elements(<<"pull">>) = {"pull"}
      /\ Elements(<<"push">>) = {"push"} /\ Elements(<<"pull", "push">>) = {"pull", "push"}
      /\ <<"pull">> \o <<"push">> = <<"pull", "push">>
  BY ShortElements
<1>2. FilterGranted(want) = IF "push" \in Elements(sel) /\ "pull" \notin Elements(sel)
                            THEN <<"pull">> \o sel ELSE sel
  BY DEF FilterGranted
<1>3. sel = IF push
            THEN IF "pull" \in want
                 THEN IF "push" \in want THEN <<"pull", "push">> ELSE <<"pull">>
                 ELSE IF "push" \in want THEN <<"push">> ELSE <<>>
            ELSE IF pull /\ "pull" \in want THEN <<"pull">> ELSE <<>>
  BY SelectedIs
<1> HIDE DEF sel
<1>4. CASE push /\ "pull" \notin want /\ "push" \in want
  <2>1. sel = <<"push">> /\ "push" \in Elements(sel) /\ "pull" \notin Elements(sel)
    BY <1>1, <1>3, <1>4
  <2> QED BY <1>1, <1>2, <1>4, <2>1
<1>5. CASE ~(push /\ "pull" \notin want /\ "push" \in want)
  <2>1. "push" \in Elements(sel) => "pull" \in Elements(sel)
    BY <1>1, <1>3, <1>5
  <2> QED BY <1>2, <1>3, <1>5, <2>1
<1> QED BY <1>4, <1>5

-----------------------------------------------------------------------------
(***************************************************************************)
(* The loops of acl.Evaluate.                                              *)
(***************************************************************************)

\* What the flags have been set by so far, and the scopes that are done.
Found(action) == \E k \in 1..j-1 : /\ Applies(id, ruleList[k], requested[i].name)
                                   /\ ruleList[k].action = action
Asked == {requested[k] : k \in 1..i-1}

\* An answer names a requested scope and one of two lists of actions.
Answers == {[type |-> s.type, name |-> s.name, actions |-> a] :
              s \in Scopes, a \in {<<"pull">>, <<"pull", "push">>}}

\* The invariant of the two loops: the flags say which rules have been found,
\* and "out" is the policy's answer for the scopes that are done.
LoopInv ==
  /\ TypeOK
  /\ pc = "rule" =>
       /\ i <= Len(requested) /\ requested[i].type = "repository"
       /\ push <=> ~id.anonymous /\ Found("push")
       /\ pull <=> push \/ Found("pull")
  /\ pc = "done" => i = Len(requested) + 1
  /\ out \in Seq(Answers) /\ Len(out) < i
  /\ \A s \in Elements(out) : s.actions = <<"pull">> \/ ~id.anonymous
  /\ GrantedSet = Evaluate(id, Elements(ruleList), Asked)

LEMMA UpToSeq ==
  ASSUME NEW S, NEW n \in Nat, NEW s \in SeqsUpTo(S, n)
  PROVE  s \in Seq(S) /\ Len(s) \in Nat /\ \A k \in 1..Len(s) : s[k] \in S
<1>1. PICK k \in 0..n : s \in [1..k -> S]
  BY DEF SeqsUpTo
<1>2. s \in Seq(S)
  BY <1>1, SeqDef
<1> QED BY <1>2, LenProperties, ElementOfSeq

LEMMA Arguments ==
  ASSUME TypeOK
  PROVE  /\ ruleList \in Seq(Rules) /\ requested \in Seq(Scopes)
         /\ Len(ruleList) \in Nat /\ Len(requested) \in Nat
         /\ \A k \in 1..Len(requested) : requested[k] \in Scopes
BY AclLoopAssumption, UpToSeq DEF TypeOK

\* The two lists of actions are different sequences.
LEMMA Lists ==
  /\ Len(<<"pull">>) = 1 /\ Len(<<"pull", "push">>) = 2 /\ Len(<<>>) = 0
  /\ <<"pull">> # <<"pull", "push">>
OBVIOUS

LEMMA EvaluateNothing ==
  ASSUME NEW who, NEW R
  PROVE  Evaluate(who, R, {}) = {}
BY DEF Evaluate

\* The policy answers for every scope by itself.
LEMMA EvaluateOneMore ==
  ASSUME NEW who, NEW R, NEW asked, NEW s
  PROVE  Evaluate(who, R, asked \cup {s}) =
           Evaluate(who, R, asked) \cup
           (IF s.type = "repository" /\ Granted(who, R, s) # {}
            THEN {[type |-> s.type, name |-> s.name, actions |-> Granted(who, R, s)]}
            ELSE {})
<1> DEFINE good(x) == x.type = "repository" /\ Granted(who, R, x) # {}
           answer(x) == [type |-> x.type, name |-> x.name, actions |-> Granted(who, R, x)]
<1>1. \A X : Evaluate(who, R, X) = {answer(x) : x \in {y \in X : good(y)}}
  BY DEF Evaluate
<1> HIDE DEF good, answer
<1>2. Evaluate(who, R, asked \cup {s}) =
        Evaluate(who, R, asked) \cup (IF good(s) THEN {answer(s)} ELSE {})
  BY <1>1
<1> QED BY <1>2 DEF good, answer

LEMMA EvaluateSkips ==
  ASSUME NEW who, NEW R, NEW asked, NEW s, s.type # "repository"
  PROVE  Evaluate(who, R, asked \cup {s}) = Evaluate(who, R, asked)
<1>1. {x \in asked \cup {s} : x.type = "repository" /\ Granted(who, R, x) # {}}
        = {x \in asked : x.type = "repository" /\ Granted(who, R, x) # {}}
  OBVIOUS
<1> QED BY <1>1, Zenon DEF Evaluate

LEMMA LoopInit == Init => LoopInv
<1> SUFFICES ASSUME Init PROVE LoopInv
  OBVIOUS
<1>1. Elements(out) = {} /\ Len(out) = 0 /\ out \in Seq(Answers)
  BY ShortElements, EmptySeq DEF Init
<1>2. TypeOK
  <2>1. Len(ruleList) \in Nat /\ Len(requested) \in Nat
    BY AclLoopAssumption, UpToSeq DEF Init
  <2>2. i \in 1..Len(requested)+1 /\ j \in 1..Len(ruleList)+1 /\ Len(out) <= Len(requested)
    BY <1>1, <2>1 DEF Init
  <2> QED BY <2>2, Zenon DEF Init, TypeOK
<1>3. Asked = {} /\ GrantedSet = {}
  BY <1>1 DEF Init, Asked, GrantedSet
<1> QED BY <1>1, <1>2, <1>3, EvaluateNothing DEF Init, LoopInv

LEMMA LoopNextScope == LoopInv /\ NextScope => LoopInv'
<1> SUFFICES ASSUME LoopInv, NextScope PROVE LoopInv'
  OBVIOUS
<1>1. /\ Len(ruleList) \in Nat /\ Len(requested) \in Nat /\ i \in 1..Len(requested)
      /\ ruleList' = ruleList /\ requested' = requested /\ id' = id /\ out' = out /\ j' = 1
  BY Arguments DEF LoopInv, NextScope, TypeOK, arguments
<1>2. i' \in {i, i + 1} /\ (pc' = "rule" => i' = i /\ requested[i].type = "repository")
      /\ pc' \in {"rule", "scope"} /\ (i' = i + 1 => requested[i].type # "repository")
  BY <1>1 DEF NextScope
<1>3. TypeOK'
  <2>1. pull' \in BOOLEAN /\ push' \in BOOLEAN
    BY DEF NextScope
  <2>2. i' \in 1..Len(requested) + 1 /\ j' \in 1..Len(ruleList) + 1
    BY <1>1, <1>2
  <2> QED BY <1>1, <1>2, <2>1, <2>2 DEF LoopInv, TypeOK
<1>4. (Found("push") <=> FALSE)' /\ (Found("pull") <=> FALSE)'
  BY <1>1 DEF Found
<1>5. GrantedSet' = GrantedSet
  BY <1>1 DEF GrantedSet, Elements
<1>6. Evaluate(id', Elements(ruleList'), Asked') = Evaluate(id, Elements(ruleList), Asked)
  <2>1. CASE i' = i
    BY <1>1, <2>1 DEF Asked
  <2>2. CASE i' = i + 1
    <3>1. Asked' = Asked \cup {requested[i]}
      BY <1>1, <2>2 DEF Asked
    <3>2. Evaluate(id, Elements(ruleList), Asked \cup {requested[i]})
            = Evaluate(id, Elements(ruleList), Asked)
      BY <1>2, <2>2, EvaluateSkips
    <3> QED BY <1>1, <3>1, <3>2
  <2> QED BY <1>2, <2>1, <2>2
<1> QED BY <1>1, <1>2, <1>3, <1>4, <1>5, <1>6 DEF LoopInv, NextScope, Elements

LEMMA LoopEvaluateRule == LoopInv /\ EvaluateRule => LoopInv'
<1> SUFFICES ASSUME LoopInv, EvaluateRule PROVE LoopInv'
  OBVIOUS
<1>1. /\ Len(ruleList) \in Nat /\ Len(requested) \in Nat /\ j \in 1..Len(ruleList)
      /\ ruleList' = ruleList /\ requested' = requested /\ id' = id /\ out' = out
      /\ i' = i /\ pc' = pc /\ pc = "rule" /\ j' = j + 1
  BY Arguments DEF LoopInv, EvaluateRule, TypeOK, arguments
<1>2. TypeOK'
  BY <1>1 DEF LoopInv, TypeOK, EvaluateRule
<1>3. ASSUME NEW a
      PROVE  Found(a)' <=> Found(a) \/ (/\ Applies(id, ruleList[j], requested[i].name)
                                        /\ ruleList[j].action = a)
  BY <1>1 DEF Found, Applies, subjectMatches, Match
<1>4. /\ push' <=> ~id.anonymous /\ Found("push")'
      /\ pull' <=> push' \/ Found("pull")'
  BY <1>1, <1>3 DEF LoopInv, EvaluateRule
<1>5. Asked' = Asked /\ GrantedSet' = GrantedSet
  BY <1>1 DEF Asked, GrantedSet, Elements
<1>6. Evaluate(id, Elements(ruleList), Asked)' = Evaluate(id, Elements(ruleList), Asked)
  BY <1>1, <1>5 DEF Evaluate, Elements, Granted
<1> QED BY <1>1, <1>2, <1>4, <1>5, <1>6 DEF LoopInv, Elements

\* After the last rule the flags are the decision of the policy.
LEMMA FlagsDecide ==
  ASSUME LoopInv, pc = "rule", j > Len(ruleList)
  PROVE  /\ push <=> grantedPush(id, Elements(ruleList), requested[i].name)
         /\ pull <=> grantedPull(id, Elements(ruleList), requested[i].name)
<1>1. j - 1 = Len(ruleList)
  BY Arguments DEF LoopInv, TypeOK
<1>2. \A a : Found(a) <=> \E rule \in Elements(ruleList) :
                            Applies(id, rule, requested[i].name) /\ rule.action = a
  BY <1>1, Zenon DEF Found, Elements
<1> QED BY <1>2 DEF LoopInv, grantedPush, grantedPull

\* What FilterGranted leaves is what the policy grants for the scope.
LEMMA FilterIsPolicy ==
  ASSUME LoopInv, pc = "rule", j > Len(ruleList), NEW actions,
         actions = FilterGranted(requested[i].actions)
  PROVE  /\ Elements(actions) = Granted(id, Elements(ruleList), requested[i])
         /\ \/ actions = <<>>
            \/ actions = <<"pull">>
            \/ actions = <<"pull", "push">> /\ ~id.anonymous
<1> DEFINE want == requested[i].actions
<1>1. pull \in BOOLEAN /\ push \in BOOLEAN
  BY DEF LoopInv, TypeOK
<1>2. actions = IF push /\ "push" \in want THEN <<"pull", "push">>
                ELSE IF (pull \/ push) /\ "pull" \in want THEN <<"pull">> ELSE <<>>
  BY <1>1, FilterGrantedIs
<1>3. Granted(id, Elements(ruleList), requested[i]) = grantedActions(pull, push, want)
  <2> DEFINE p == grantedPull(id, Elements(ruleList), requested[i].name)
             q == grantedPush(id, Elements(ruleList), requested[i].name)
  <2>1. (pull <=> p) /\ (push <=> q)
    BY FlagsDecide
  <2>2. Granted(id, Elements(ruleList), requested[i]) = grantedActions(p, q, want)
    BY DEF Granted
  <2> HIDE DEF p, q, want
  <2> QED BY <2>1, <2>2 DEF grantedActions
<1>4. push => ~id.anonymous
  BY DEF LoopInv
<1> HIDE DEF want
<1>5. CASE push /\ "push" \in want
  <2>1. actions = <<"pull", "push">> /\ Elements(actions) = {"pull", "push"}
    BY <1>2, <1>5, ShortElements
  <2> QED BY <1>3, <1>4, <1>5, <2>1 DEF grantedActions
<1>6. CASE ~(push /\ "push" \in want) /\ (pull \/ push) /\ "pull" \in want
  <2>1. actions = <<"pull">> /\ Elements(actions) = {"pull"}
    BY <1>2, <1>6, ShortElements
  <2> QED BY <1>3, <1>6, <2>1 DEF grantedActions
<1>7. CASE ~(push /\ "push" \in want) /\ ~((pull \/ push) /\ "pull" \in want)
  <2>1. actions = <<>> /\ Elements(actions) = {}
    BY <1>2, <1>7, ShortElements
  <2> QED BY <1>3, <1>7, <2>1 DEF grantedActions
<1> QED BY <1>5, <1>6, <1>7

LEMMA LoopFinishScope == LoopInv /\ FinishScope => LoopInv'
<1> SUFFICES ASSUME LoopInv, FinishScope PROVE LoopInv'
  OBVIOUS
<1> DEFINE scope   == requested[i]
           actions == FilterGranted(scope.actions)
           answer  == [type |-> scope.type, name |-> scope.name, actions |-> actions]
           R       == Elements(ruleList)
<1>1. /\ Len(ruleList) \in Nat /\ Len(requested) \in Nat /\ j > Len(ruleList)
      /\ ruleList' = ruleList /\ requested' = requested /\ id' = id
      /\ pc = "rule" /\ pc' = "scope" /\ i' = i + 1 /\ j' = j /\ i \in 1..Len(requested)
      /\ scope \in Scopes /\ scope.type = "repository"
      /\ out' = IF Len(actions) = 0 THEN out ELSE Append(out, answer)
  BY Arguments DEF LoopInv, FinishScope, TypeOK, arguments
<1>2. /\ Elements(actions) = Granted(id, R, scope)
      /\ \/ actions = <<>>
         \/ actions = <<"pull">>
         \/ actions = <<"pull", "push">> /\ ~id.anonymous
  BY <1>1, FilterIsPolicy
<1>3. Asked' = Asked \cup {scope}
  BY <1>1 DEF Asked
<1>4. Evaluate(id', Elements(ruleList'), Asked') =
        Evaluate(id, R, Asked) \cup
        (IF Granted(id, R, scope) # {}
         THEN {[type |-> scope.type, name |-> scope.name, actions |-> Granted(id, R, scope)]}
         ELSE {})
  BY <1>1, <1>3, EvaluateOneMore
<1> HIDE DEF actions, scope, R
<1>5. /\ out' \in Seq(Answers) /\ Len(out') < i' /\ Len(out') <= Len(requested)
      /\ \A s \in Elements(out') : s.actions = <<"pull">> \/ ~id.anonymous
      /\ GrantedSet' = Evaluate(id', Elements(ruleList'), Asked')
  <2>1. CASE actions = <<>>
    <3>1. Len(actions) = 0 /\ Elements(actions) = {}
      BY <2>1, ShortElements, Lists
    <3>2. out' = out /\ Granted(id, R, scope) = {}
      BY <1>1, <1>2, <3>1
    <3>3. GrantedSet' = GrantedSet
      BY <3>2 DEF GrantedSet, Elements
    <3>4. Evaluate(id', Elements(ruleList'), Asked') = Evaluate(id, R, Asked)
      BY <1>4, <3>2
    <3>5. Len(out) \in Nat
      BY LenProperties DEF LoopInv
    <3> QED BY <1>1, <3>2, <3>3, <3>4, <3>5 DEF LoopInv, TypeOK, R
  <2>2. CASE actions # <<>>
    <3>1. /\ actions \in {<<"pull">>, <<"pull", "push">>} /\ Len(actions) # 0
          /\ Elements(actions) # {} /\ (actions = <<"pull">> \/ ~id.anonymous)
      BY <1>2, <2>2, Lists, ShortElements
    <3>2. answer \in Answers
      <4> DEFINE lists == {<<"pull">>, <<"pull", "push">>}
      <4>1. scope \in Scopes /\ actions \in lists
        BY <1>1, <3>1
      <4>2. Answers = {[type |-> s.type, name |-> s.name, actions |-> a] : s \in Scopes, a \in lists}
        BY DEF Answers
      <4> HIDE DEF lists
      <4> QED BY <4>1, <4>2
    <3> DEFINE last == answer
               pair == [type |-> scope.type, name |-> scope.name, actions |-> Elements(actions)]
    <3>3. /\ last.actions = actions
          /\ pair = [type |-> last.type, name |-> last.name, actions |-> Elements(last.actions)]
      OBVIOUS
    <3>4. out' = Append(out, last) /\ last \in Answers /\ out \in Seq(Answers)
      BY <1>1, <3>1, <3>2 DEF LoopInv
    <3> HIDE DEF last, answer
    <3>5. /\ Elements(out') = Elements(out) \cup {last}
          /\ out' \in Seq(Answers) /\ Len(out') = Len(out) + 1 /\ Len(out) \in Nat
      BY <3>4, ElementsAppend, AppendProperties, LenProperties
    <3>6. GrantedSet' = GrantedSet \cup {pair}
      <4> DEFINE set(s) == [type |-> s.type, name |-> s.name, actions |-> Elements(s.actions)]
      <4>1. pair = set(last) /\ GrantedSet = {set(s) : s \in Elements(out)}
        BY <3>3, Zenon DEF GrantedSet
      <4>2. GrantedSet' = {set(s) : s \in Elements(out')}
        BY Zenon DEF GrantedSet, Elements
      <4> HIDE DEF set, pair
      <4> QED BY <3>5, <4>1, <4>2
    <3>7. Evaluate(id', Elements(ruleList'), Asked') = Evaluate(id, R, Asked) \cup {pair}
      BY <1>2, <1>4, <3>1
    <3>8. GrantedSet = Evaluate(id, R, Asked)
      BY DEF LoopInv, R
    <3>9. \A s \in Elements(out') : s.actions = <<"pull">> \/ ~id.anonymous
      BY <3>1, <3>3, <3>5 DEF LoopInv
    <3>10. Len(out) < i
      BY DEF LoopInv
    <3> QED BY <1>1, <3>5, <3>6, <3>7, <3>8, <3>9, <3>10
  <2> QED BY <2>1, <2>2
<1>6. TypeOK'
  <2>1. i' \in 1..Len(requested) + 1
    BY <1>1
  <2> QED BY <1>1, <1>5, <2>1, pull' = pull, push' = push DEF LoopInv, TypeOK, FinishScope
<1> QED BY <1>1, <1>5, <1>6 DEF LoopInv

LEMMA LoopReturn == LoopInv /\ Return => LoopInv'
<1> SUFFICES ASSUME LoopInv, Return PROVE LoopInv'
  OBVIOUS
<1>1. /\ Len(requested) \in Nat /\ i = Len(requested) + 1 /\ pc' = "done"
      /\ id' = id /\ ruleList' = ruleList /\ requested' = requested
      /\ i' = i /\ j' = j /\ out' = out /\ pull' = pull /\ push' = push
  BY Arguments DEF LoopInv, TypeOK, Return, arguments
<1>2. TypeOK' /\ Asked' = Asked /\ GrantedSet' = GrantedSet
  BY <1>1 DEF LoopInv, TypeOK, Asked, GrantedSet, Elements
<1> QED BY <1>1, <1>2 DEF LoopInv, Elements, Evaluate, Granted

LEMMA LoopStutter == LoopInv /\ UNCHANGED vars => LoopInv'
<1> SUFFICES ASSUME LoopInv, UNCHANGED vars PROVE LoopInv'
  OBVIOUS
<1>1. /\ id' = id /\ ruleList' = ruleList /\ requested' = requested /\ pc' = pc
      /\ i' = i /\ j' = j /\ out' = out /\ pull' = pull /\ push' = push
  BY DEF vars
<1>2. TypeOK' /\ Asked' = Asked /\ GrantedSet' = GrantedSet
  BY <1>1 DEF LoopInv, TypeOK, Asked, GrantedSet, Elements
<1>3. \A a : Found(a)' <=> Found(a)
  BY <1>1 DEF Found, Applies, subjectMatches, Match
<1> QED BY <1>1, <1>2, <1>3 DEF LoopInv, Elements, Evaluate, Granted

LEMMA LoopInvariant == Spec => []LoopInv
<1>1. LoopInv /\ [Next]_vars => LoopInv'
  BY LoopNextScope, LoopEvaluateRule, LoopFinishScope, LoopReturn, LoopStutter DEF Next
<1> QED BY <1>1, LoopInit, PTL DEF Spec

\* The two indices never leave the slices by more than the step that ends a
\* loop, and no scope is answered twice: eval.go never panics.
THEOREM LoopTypeCorrect == Spec => []TypeOK
<1>1. LoopInv => TypeOK
  BY DEF LoopInv
<1> QED BY <1>1, LoopInvariant, PTL

\* What the loops of eval.go return is the policy, whatever the rules, their
\* order, the identity and the request.
THEOREM LoopComputesPolicy == Spec => []ComputesPolicy
<1>1. LoopInv => ComputesPolicy
  <2> SUFFICES ASSUME LoopInv, pc = "done"
               PROVE  GrantedSet = Evaluate(id, Elements(ruleList), Elements(requested))
    BY DEF ComputesPolicy
  <2>1. Asked = Elements(requested)
    BY Arguments DEF LoopInv, Asked, Elements
  <2> QED BY <2>1 DEF LoopInv
<1> QED BY <1>1, LoopInvariant, PTL

\* No prefix of the rules grants more than all of them.
THEOREM LoopOnlyAdds == Spec => []OnlyAdds
<1>1. LoopInv => OnlyAdds
  <2> SUFFICES ASSUME LoopInv, pc = "rule" PROVE OnlyAdds
    BY DEF OnlyAdds
  <2>1. j - 1 <= Len(ruleList) /\ j \in Nat /\ Len(ruleList) \in Nat
    BY Arguments DEF LoopInv, TypeOK
  <2>2. \A a : Found(a) => \E rule \in Elements(ruleList) :
                             Applies(id, rule, requested[i].name) /\ rule.action = a
    BY <2>1 DEF Found, Elements
  <2> QED BY <2>2 DEF LoopInv, OnlyAdds, grantedPull, grantedPush
<1> QED BY <1>1, LoopInvariant, PTL

\* A slice of actions that eval.go returns is ["pull"] or, for a client that has
\* a name, ["pull" "push"].
THEOREM LoopPushImpliesPull == Spec => []PushImpliesPull
<1>1. LoopInv => PushImpliesPull
  <2> SUFFICES ASSUME LoopInv, NEW s \in Elements(out), "push" \in Elements(s.actions)
               PROVE  ~id.anonymous /\ s.actions = <<"pull", "push">>
    BY DEF PushImpliesPull
  <2>1. out \in Seq(Answers) /\ (s.actions = <<"pull">> \/ ~id.anonymous)
    BY DEF LoopInv
  <2>2. s \in Answers
    BY <2>1, ElementOfSeq, LenProperties DEF Elements
  <2>3. s.actions = <<"pull">> \/ s.actions = <<"pull", "push">>
    BY <2>2 DEF Answers
  <2>4. s.actions # <<"pull">>
    BY ShortElements
  <2> QED BY <2>1, <2>3, <2>4
<1> QED BY <1>1, LoopInvariant, PTL
=============================================================================
