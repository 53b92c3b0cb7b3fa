-------------------------- MODULE RateLimiterProofs --------------------------
(***************************************************************************)
(* The limit is kept: for any number of clients and requests at once, any  *)
(* limit, any window and any wait for the lock.                            *)
(*                                                                         *)
(* The logs are sequences of any length, so the facts about the loop of    *)
(* allow are proved by induction.  A set that holds the empty log, and     *)
(* with a log also every longer one, holds all logs: induction in this     *)
(* form is a lemma about sets, and needs no rule of the prover's own.      *)
(***************************************************************************)
EXTENDS RateLimiter, SequenceTheorems, FiniteSetTheorems, WellFoundedInduction, TLAPS

\* Induction on natural numbers: the least counterexample has a predecessor.
LEMMA NatSets ==
  ASSUME NEW T, 0 \in T, \A n \in Nat : n \in T => n + 1 \in T
  PROVE  Nat \subseteq T
<1> DEFINE Bad == Nat \ T
<1> SUFFICES ASSUME Bad # {} PROVE FALSE
  OBVIOUS
<1>1. PICK m \in Bad : \A k \in Bad : <<k, m>> \notin OpToRel(<, Nat)
  BY WFMin, NatLessThanWellFounded, Bad \subseteq Nat, Zenon
<1>2. \A k \in Bad : ~(k < m)
  BY <1>1, Zenon DEF OpToRel
<1>3. m \in Nat \ {0} /\ m - 1 \in Nat /\ m - 1 < m
  OBVIOUS
<1>4. m - 1 \in T
  BY <1>2, <1>3
<1> QED BY <1>3, <1>4

\* Induction on sequences, by their length.
LEMMA SeqSets ==
  ASSUME NEW S, NEW T, <<>> \in T,
         \A s \in Seq(S) : \A x \in S : s \in T => Append(s, x) \in T
  PROVE  Seq(S) \subseteq T
<1> DEFINE N == {n \in Nat : \A s \in Seq(S) : Len(s) = n => s \in T}
<1>1. 0 \in N
  BY EmptySeq
<1>2. ASSUME NEW n \in Nat, n \in N PROVE n + 1 \in N
  <2> SUFFICES ASSUME NEW s \in Seq(S), Len(s) = n + 1 PROVE s \in T
    OBVIOUS
  <2>1. s # <<>>
    BY <1>2, EmptySeq
  <2>2. PICK front \in Seq(S), x \in S : s = Append(front, x)
    BY <2>1, SequenceEmptyOrAppend
  <2>3. Len(front) \in Nat /\ Len(s) = Len(front) + 1
    BY <2>2, AppendProperties, LenProperties
  <2>4. Len(front) = n
    BY <2>3
  <2>5. front \in T
    BY <1>2, <2>4
  <2> QED BY <2>2, <2>5
<1>3. Nat \subseteq N
  <2> HIDE DEF N
  <2> QED BY <1>1, <1>2, NatSets
<1> QED BY <1>3, LenProperties

-----------------------------------------------------------------------------
(***************************************************************************)
(* The loop over the entries.                                              *)
(***************************************************************************)

\* kept[k] is what the loop has kept after k entries.
Loop(s, bound, kept) ==
  kept = [k \in 0..Len(s) |->
            IF k = 0 THEN <<>>
            ELSE IF s[k] < bound THEN Append(kept[k - 1], s[k]) ELSE kept[k - 1]]

LongerLoop(s, x, bound, kept) ==
  [k \in 0..Len(s) + 1 |->
     IF k =< Len(s) THEN kept[k]
     ELSE IF x < bound THEN Append(kept[Len(s)], x) ELSE kept[Len(s)]]

LEMMA LoopGoesOn ==
  ASSUME NEW S, NEW s \in Seq(S), NEW x \in S, NEW bound, NEW kept, Loop(s, bound, kept)
  PROVE  Loop(Append(s, x), bound, LongerLoop(s, x, bound, kept))
<1> DEFINE t == Append(s, x)
           n == Len(s)
           longer == LongerLoop(s, x, bound, kept)
           body(k) == IF k = 0 THEN <<>>
                      ELSE IF t[k] < bound THEN Append(longer[k - 1], t[k])
                      ELSE longer[k - 1]
<1>1. n \in Nat /\ Len(t) = n + 1 /\ t[n + 1] = x /\ \A k \in 1..n : t[k] = s[k]
  BY AppendProperties, LenProperties
<1>2. \A k \in 0..n : longer[k] = kept[k]
  BY <1>1 DEF LongerLoop
<1>3. longer[n + 1] = IF x < bound THEN Append(kept[n], x) ELSE kept[n]
  BY <1>1 DEF LongerLoop
<1>4. \A k \in 0..n : kept[k] = IF k = 0 THEN <<>>
                                ELSE IF s[k] < bound THEN Append(kept[k - 1], s[k])
                                ELSE kept[k - 1]
  BY DEF Loop
<1> HIDE DEF t
<1>5. ASSUME NEW k \in 0..n + 1 PROVE longer[k] = body(k)
  <2>1. CASE k = n + 1
    <3>1. k - 1 \in 0..n /\ k # 0 /\ k - 1 = n
      BY <1>1, <2>1
    <3> QED BY <1>1, <1>2, <1>3, <2>1, <3>1
  <2>2. CASE k = 0
    BY <1>1, <1>2, <1>4, <2>2
  <2>3. CASE k \in 1..n
    <3>1. k - 1 \in 0..n /\ k \in 0..n /\ k # 0
      BY <1>1, <2>3
    <3> QED BY <1>1, <1>2, <1>4, <2>3, <3>1
  <2> QED BY <1>1, <2>1, <2>2, <2>3
<1>6. longer = [k \in 0..n + 1 |-> longer[k]]
  BY DEF LongerLoop
<1>7. longer = [k \in 0..n + 1 |-> body(k)]
  <2> HIDE DEF longer, body
  <2> QED BY <1>5, <1>6
<1> QED BY <1>1, <1>7 DEF Loop, t

LEMMA LoopRuns ==
  ASSUME NEW S, NEW s \in Seq(S), NEW bound
  PROVE  \E kept : Loop(s, bound, kept)
<1> DEFINE T == {r \in Seq(S) : \E kept : Loop(r, bound, kept)}
<1>1. <<>> \in T
  <2>1. Loop(<<>>, bound, [k \in 0..0 |-> <<>>])
    BY EmptySeq DEF Loop
  <2> QED BY <2>1, EmptySeq
<1>2. ASSUME NEW r \in Seq(S), NEW x \in S, r \in T PROVE Append(r, x) \in T
  BY <1>2, LoopGoesOn, AppendProperties
<1> HIDE DEF T
<1>3. Seq(S) \subseteq T
  BY <1>1, <1>2, SeqSets
<1> QED BY <1>3 DEF T

LEMMA LoopIsOne ==
  ASSUME NEW S, NEW s \in Seq(S), NEW bound, NEW f, NEW g,
         Loop(s, bound, f), Loop(s, bound, g)
  PROVE  f[Len(s)] = g[Len(s)]
<1> DEFINE N == {k \in Nat : k =< Len(s) => f[k] = g[k]}
<1>1. Len(s) \in Nat
  BY LenProperties
<1>2. 0 \in N
  BY <1>1 DEF Loop
<1>3. ASSUME NEW k \in Nat, k \in N PROVE k + 1 \in N
  <2> SUFFICES ASSUME k + 1 =< Len(s) PROVE f[k + 1] = g[k + 1]
    OBVIOUS
  <2>1. k + 1 \in 0..Len(s) /\ k + 1 # 0 /\ (k + 1) - 1 = k /\ f[k] = g[k]
    BY <1>1, <1>3
  <2>2. f[k + 1] = IF s[k + 1] < bound THEN Append(f[k], s[k + 1]) ELSE f[k]
    BY <2>1 DEF Loop
  <2>3. g[k + 1] = IF s[k + 1] < bound THEN Append(g[k], s[k + 1]) ELSE g[k]
    BY <2>1 DEF Loop
  <2> QED BY <2>1, <2>2, <2>3
<1> HIDE DEF N
<1>4. Nat \subseteq N
  BY <1>2, <1>3, NatSets
<1> QED BY <1>1, <1>4 DEF N

LEMMA RecentIsLoop ==
  ASSUME NEW S, NEW s \in Seq(S), NEW bound, NEW f, Loop(s, bound, f)
  PROVE  Recent(s, bound) = f[Len(s)]
<1> DEFINE kept == CHOOSE g : Loop(s, bound, g)
<1>1. Loop(s, bound, kept)
  BY LoopRuns
<1>2. Recent(s, bound) = kept[Len(s)]
  BY DEF Recent, Loop
<1> HIDE DEF kept
<1> QED BY <1>1, <1>2, LoopIsOne

\* The equations of the loop.
LEMMA RecentAppend ==
  ASSUME NEW S, NEW bound
  PROVE  /\ Recent(<<>>, bound) = <<>>
         /\ \A s \in Seq(S), x \in S :
              Recent(Append(s, x), bound) =
                IF x < bound THEN Append(Recent(s, bound), x) ELSE Recent(s, bound)
<1>1. Recent(<<>>, bound) = <<>>
  <2> DEFINE f == [k \in 0..0 |-> <<>>]
  <2>1. Loop(<<>>, bound, f)
    BY EmptySeq DEF Loop
  <2>2. <<>> \in Seq(S) /\ Len(<<>>) = 0 /\ f[0] = <<>>
    BY EmptySeq
  <2> QED BY <2>1, <2>2, RecentIsLoop
<1>2. ASSUME NEW s \in Seq(S), NEW x \in S
      PROVE  Recent(Append(s, x), bound) =
               IF x < bound THEN Append(Recent(s, bound), x) ELSE Recent(s, bound)
  <2>1. PICK f : Loop(s, bound, f)
    BY LoopRuns
  <2>2. Loop(Append(s, x), bound, LongerLoop(s, x, bound, f))
    BY <2>1, LoopGoesOn
  <2>3. /\ Append(s, x) \in Seq(S) /\ Len(Append(s, x)) = Len(s) + 1 /\ Len(s) \in Nat
    BY AppendProperties, LenProperties
  <2>4. Recent(s, bound) = f[Len(s)]
    BY <2>1, RecentIsLoop
  <2>5. Recent(Append(s, x), bound) = LongerLoop(s, x, bound, f)[Len(s) + 1]
    BY <2>2, <2>3, RecentIsLoop
  <2> QED BY <2>3, <2>4, <2>5 DEF LongerLoop
<1> QED BY <1>1, <1>2

LEMMA RecentTyped ==
  ASSUME NEW bound, NEW s \in Seq(Ages)
  PROVE  Recent(s, bound) \in Seq(Ages) /\ Len(Recent(s, bound)) =< Len(s)
<1> DEFINE P(r) == Recent(r, bound) \in Seq(Ages) /\ Len(Recent(r, bound)) =< Len(r)
           T == {r \in Seq(Ages) : P(r)}
<1>1. <<>> \in Seq(Ages) /\ P(<<>>)
  <2> DEFINE none == <<>>
  <2>1. none \in Seq(Ages) /\ Len(none) = 0 /\ Recent(none, bound) = none
    BY EmptySeq, RecentAppend
  <2> HIDE DEF none
  <2>2. P(none)
    BY <2>1
  <2> QED BY <2>1, <2>2 DEF none
<1>2. ASSUME NEW r \in Seq(Ages), NEW x \in Ages, P(r)
      PROVE  Append(r, x) \in Seq(Ages) /\ P(Append(r, x))
  <2> DEFINE kept == Recent(r, bound)
             more == Recent(Append(r, x), bound)
  <2>1. more = Append(kept, x) \/ more = kept
    BY RecentAppend
  <2>2. Append(r, x) \in Seq(Ages) /\ Len(Append(r, x)) = Len(r) + 1 /\ Len(r) \in Nat
    BY AppendProperties, LenProperties
  <2>3. kept \in Seq(Ages) /\ Len(kept) =< Len(r) /\ Len(kept) \in Nat
    BY <1>2, LenProperties
  <2>4. Append(kept, x) \in Seq(Ages) /\ Len(Append(kept, x)) = Len(kept) + 1
    BY <2>3, AppendProperties
  <2> HIDE DEF kept, more
  <2>5. more \in Seq(Ages) /\ Len(more) =< Len(r) + 1
    <3>1. CASE more = Append(kept, x)
      BY <2>2, <2>3, <2>4, <3>1
    <3>2. CASE more = kept
      BY <2>2, <2>3, <3>2
    <3> QED BY <2>1, <3>1, <3>2
  <2> QED BY <2>2, <2>5 DEF more
<1> HIDE DEF P
<1>3. Seq(Ages) \subseteq T
  BY <1>1, <1>2, SeqSets
<1> QED BY <1>3 DEF P

\* Who forgets less first forgets the same in the end.
LEMMA RecentOfRecent ==
  ASSUME NEW a \in Int, NEW b \in Int, b =< a, NEW s \in Seq(Ages)
  PROVE  Recent(Recent(s, a), b) = Recent(s, b)
<1> DEFINE T == {r \in Seq(Ages) : Recent(Recent(r, a), b) = Recent(r, b)}
<1>1. <<>> \in T
  BY RecentAppend, EmptySeq
<1>2. ASSUME NEW r \in Seq(Ages), NEW x \in Ages, r \in T PROVE Append(r, x) \in T
  <2>1. Append(r, x) \in Seq(Ages) /\ Recent(r, a) \in Seq(Ages)
    BY AppendProperties, RecentTyped
  <2>2. /\ Recent(Append(r, x), a) = IF x < a THEN Append(Recent(r, a), x) ELSE Recent(r, a)
        /\ Recent(Append(r, x), b) = IF x < b THEN Append(Recent(r, b), x) ELSE Recent(r, b)
        /\ Recent(Append(Recent(r, a), x), b) =
             IF x < b THEN Append(Recent(Recent(r, a), b), x) ELSE Recent(Recent(r, a), b)
    BY <2>1, RecentAppend
  <2>3. x < b => x < a
    BY RateLimiterAssumption DEF Ages, Horizon
  <2> QED BY <1>2, <2>1, <2>2, <2>3
<1> HIDE DEF T
<1>3. Seq(Ages) \subseteq T
  BY <1>1, <1>2, SeqSets
<1> QED BY <1>3 DEF T

LEMMA AgesTyped ==
  /\ Window \in Nat /\ MaxDelay \in Nat /\ MaxDelay < Window /\ Horizon = Window + MaxDelay
  /\ Ages = 0..Horizon
  /\ \A x \in Ages : Older(x) \in Ages /\ Older(x) = IF x < Horizon THEN x + 1 ELSE Horizon
BY RateLimiterAssumption DEF Horizon, Ages, Older

LEMMA AgedAppend ==
  /\ Aged(<<>>) = <<>>
  /\ \A s \in Seq(Ages) :
       /\ Aged(s) \in Seq(Ages) /\ Len(Aged(s)) = Len(s)
       /\ \A x \in Ages : Aged(Append(s, x)) = Append(Aged(s), Older(x))
<1>1. Aged(<<>>) = <<>>
  BY DEF Aged
<1>2. ASSUME NEW s \in Seq(Ages)
      PROVE  /\ Aged(s) \in Seq(Ages) /\ Len(Aged(s)) = Len(s)
             /\ \A k \in 1..Len(s) : Aged(s)[k] = Older(s[k])
  <2>1. /\ DOMAIN s = 1..Len(s) /\ Len(s) \in Nat
        /\ \A k \in 1..Len(s) : s[k] \in Ages
    BY LenProperties, ElementOfSeq
  <2>2. Aged(s) = [k \in 1..Len(s) |-> Older(s[k])]
    BY <2>1 DEF Aged
  <2>3. \A k \in 1..Len(s) : Older(s[k]) \in Ages
    BY <2>1, AgesTyped
  <2> QED BY <2>1, <2>2, <2>3, IsASeq
<1>3. ASSUME NEW s \in Seq(Ages), NEW x \in Ages
      PROVE  Aged(Append(s, x)) = Append(Aged(s), Older(x))
  <2> DEFINE t == Append(s, x)
             u == Append(Aged(s), Older(x))
  <2>1. /\ t \in Seq(Ages) /\ Len(t) = Len(s) + 1 /\ Len(s) \in Nat
        /\ \A k \in 1..Len(s) : t[k] = s[k]
        /\ t[Len(s) + 1] = x
    BY AppendProperties, LenProperties
  <2>2. Older(x) \in Ages /\ Aged(s) \in Seq(Ages) /\ Len(Aged(s)) = Len(s)
    BY <1>2, AgesTyped
  <2>3. /\ u \in Seq(Ages) /\ Len(u) = Len(s) + 1
        /\ \A k \in 1..Len(s) : u[k] = Aged(s)[k]
        /\ u[Len(s) + 1] = Older(x)
    BY <2>2, AppendProperties
  <2>4. /\ Aged(t) \in Seq(Ages) /\ Len(Aged(t)) = Len(s) + 1
        /\ \A k \in 1..Len(s) + 1 : Aged(t)[k] = Older(t[k])
    BY <1>2, <2>1
  <2> HIDE DEF t, u
  <2>5. \A k \in 1..Len(s) + 1 : Aged(t)[k] = u[k]
    BY <1>2, <2>1, <2>3, <2>4
  <2> QED BY <2>3, <2>4, <2>5, SeqEqual DEF t, u
<1> QED BY <1>1, <1>2, <1>3

\* The loop commutes with the passing of a unit of time.
LEMMA RecentAged ==
  ASSUME NEW b \in Int, b =< Horizon, NEW s \in Seq(Ages)
  PROVE  Recent(Aged(s), b) = Aged(Recent(s, b - 1))
<1> DEFINE T == {r \in Seq(Ages) : Recent(Aged(r), b) = Aged(Recent(r, b - 1))}
<1>1. <<>> \in T
  BY RecentAppend, AgedAppend, EmptySeq
<1>2. ASSUME NEW r \in Seq(Ages), NEW x \in Ages, r \in T PROVE Append(r, x) \in T
  <2>1. /\ Append(r, x) \in Seq(Ages) /\ Recent(r, b - 1) \in Seq(Ages)
        /\ Aged(r) \in Seq(Ages) /\ Older(x) \in Ages
    BY AppendProperties, RecentTyped, AgedAppend, AgesTyped
  <2>2. Aged(Append(r, x)) = Append(Aged(r), Older(x))
    BY AgedAppend
  <2>3. /\ Recent(Append(r, x), b - 1) =
             IF x < b - 1 THEN Append(Recent(r, b - 1), x) ELSE Recent(r, b - 1)
        /\ Recent(Append(Aged(r), Older(x)), b) =
             IF Older(x) < b THEN Append(Recent(Aged(r), b), Older(x)) ELSE Recent(Aged(r), b)
    BY <2>1, RecentAppend
  <2>4. Older(x) < b <=> x < b - 1
    BY AgesTyped
  <2>5. Aged(Append(Recent(r, b - 1), x)) = Append(Aged(Recent(r, b - 1)), Older(x))
    BY <2>1, AgedAppend
  <2> QED BY <1>2, <2>1, <2>2, <2>3, <2>4, <2>5
<1> HIDE DEF T
<1>3. Seq(Ages) \subseteq T
  BY <1>1, <1>2, SeqSets
<1> QED BY <1>3 DEF T

-----------------------------------------------------------------------------
(***************************************************************************)
(* How many ages of a log are in a period.                                 *)
(***************************************************************************)
Within(s, lo, hi) == {k \in DOMAIN s : lo =< s[k] /\ s[k] < hi}
Count(s, lo, hi)  == Cardinality(Within(s, lo, hi))

LEMMA CountTyped ==
  ASSUME NEW s \in Seq(Ages), NEW lo \in Int, NEW hi \in Int
  PROVE  /\ IsFiniteSet(Within(s, lo, hi))
         /\ Count(s, lo, hi) \in Nat /\ Count(s, lo, hi) =< Len(s)
<1>1. Len(s) \in Nat /\ Within(s, lo, hi) \in SUBSET (1..Len(s))
  BY LenProperties DEF Within
<1>2. IsFiniteSet(1..Len(s)) /\ Cardinality(1..Len(s)) = Len(s)
  <2> DEFINE n == Len(s)
  <2>1. IsFiniteSet(1..n) /\ Cardinality(1..n) = IF 1 > n THEN 0 ELSE n - 1 + 1
    BY <1>1, FS_Interval
  <2> HIDE DEF n
  <2>2. (IF 1 > n THEN 0 ELSE n - 1 + 1) = n
    BY <1>1 DEF n
  <2> QED BY <2>1, <2>2 DEF n
<1>3. /\ IsFiniteSet(Within(s, lo, hi))
      /\ Cardinality(Within(s, lo, hi)) =< Cardinality(1..Len(s))
  BY <1>1, <1>2, FS_Subset
<1> QED BY <1>2, <1>3, FS_CardinalityType DEF Count

LEMMA CountSubset ==
  ASSUME NEW s \in Seq(Ages), NEW lo \in Int, NEW hi \in Int, NEW l \in Int, NEW h \in Int,
         Within(s, lo, hi) \subseteq Within(s, l, h)
  PROVE  Count(s, lo, hi) =< Count(s, l, h)
BY CountTyped, FS_Subset DEF Count

LEMMA CountAppend ==
  ASSUME NEW s \in Seq(Ages), NEW x \in Ages, NEW lo \in Int, NEW hi \in Int
  PROVE  Count(Append(s, x), lo, hi) =
           IF lo =< x /\ x < hi THEN Count(s, lo, hi) + 1 ELSE Count(s, lo, hi)
<1> DEFINE t == Append(s, x)
           n == Len(s) + 1
<1>1. /\ t \in Seq(Ages) /\ Len(s) \in Nat /\ DOMAIN s = 1..Len(s) /\ DOMAIN t = 1..n
      /\ \A k \in 1..Len(s) : t[k] = s[k]
      /\ t[n] = x
  BY AppendProperties, LenProperties
<1> HIDE DEF t
<1>2. n \notin Within(s, lo, hi)
  BY <1>1 DEF Within
<1>3. CASE lo =< x /\ x < hi
  <2>1. Within(t, lo, hi) = Within(s, lo, hi) \cup {n}
    BY <1>1, <1>3 DEF Within
  <2>2. Cardinality(Within(s, lo, hi) \cup {n}) = Cardinality(Within(s, lo, hi)) + 1
    BY <1>2, CountTyped, FS_AddElement
  <2> QED BY <1>3, <2>1, <2>2 DEF Count, t
<1>4. CASE ~(lo =< x /\ x < hi)
  <2>1. Within(t, lo, hi) = Within(s, lo, hi)
    BY <1>1, <1>4 DEF Within
  <2> QED BY <1>4, <2>1 DEF Count, t
<1> QED BY <1>3, <1>4

LEMMA CountRecent ==
  ASSUME NEW lo \in Int, NEW hi \in Int, NEW b \in Int, NEW s \in Seq(Ages)
  PROVE  Count(Recent(s, b), lo, hi) = Count(s, lo, IF hi =< b THEN hi ELSE b)
<1> DEFINE h == IF hi =< b THEN hi ELSE b
           T == {r \in Seq(Ages) : Count(Recent(r, b), lo, hi) = Count(r, lo, h)}
<1>1. <<>> \in T
  <2>1. Within(<<>>, lo, hi) = Within(<<>>, lo, h)
    BY EmptySeq DEF Within
  <2> QED BY <2>1, RecentAppend, EmptySeq DEF Count
<1>2. ASSUME NEW r \in Seq(Ages), NEW x \in Ages, r \in T PROVE Append(r, x) \in T
  <2>1. /\ Append(r, x) \in Seq(Ages) /\ Recent(r, b) \in Seq(Ages) /\ h \in Int
        /\ x \in Int
    BY AppendProperties, RecentTyped, AgesTyped
  <2>2. Recent(Append(r, x), b) = IF x < b THEN Append(Recent(r, b), x) ELSE Recent(r, b)
    BY RecentAppend
  <2>3. /\ Count(Append(r, x), lo, h) =
             IF lo =< x /\ x < h THEN Count(r, lo, h) + 1 ELSE Count(r, lo, h)
        /\ Count(Append(Recent(r, b), x), lo, hi) =
             IF lo =< x /\ x < hi THEN Count(Recent(r, b), lo, hi) + 1
             ELSE Count(Recent(r, b), lo, hi)
    BY <2>1, CountAppend
  <2>4. x < h <=> x < b /\ x < hi
    BY <2>1
  <2>5. Count(Recent(r, b), lo, hi) = Count(r, lo, h)
    BY <1>2
  <2> HIDE DEF h
  <2>6. Count(Recent(Append(r, x), b), lo, hi) = Count(Append(r, x), lo, h)
    BY <2>2, <2>3, <2>4, <2>5
  <2> QED BY <2>1, <2>6 DEF h
<1> HIDE DEF T
<1>3. Seq(Ages) \subseteq T
  BY <1>1, <1>2, SeqSets
<1> QED BY <1>3 DEF T

LEMMA CountAged ==
  ASSUME NEW lo \in Int, NEW hi \in Int, hi =< Horizon, NEW s \in Seq(Ages)
  PROVE  Count(Aged(s), lo, hi) = Count(s, lo - 1, hi - 1)
<1>1. /\ DOMAIN Aged(s) = DOMAIN s
      /\ \A k \in DOMAIN s : Aged(s)[k] = Older(s[k]) /\ s[k] \in Ages
  BY LenProperties, ElementOfSeq DEF Aged
<1>2. \A x \in Ages : lo =< Older(x) /\ Older(x) < hi <=> lo - 1 =< x /\ x < hi - 1
  BY AgesTyped
<1>3. Within(Aged(s), lo, hi) = Within(s, lo - 1, hi - 1)
  BY <1>1, <1>2 DEF Within
<1> QED BY <1>3 DEF Count

-----------------------------------------------------------------------------
(***************************************************************************)
(* The steps of the limiter.                                               *)
(***************************************************************************)
Period == Window - MaxDelay

LEMMA LimitTyped == Limit \in Nat \ {0} /\ Period \in Nat /\ Period =< Window
BY RateLimiterAssumption DEF Period

\* What one call of allow does to the two logs of its client; the logs of the
\* others stay.
LEMMA AllowEffect ==
  ASSUME TypeOK, NEW t \in Threads, allow(t)
  PROVE  \E c \in Clients, now \in 0..MaxDelay :
           LET recent == Recent(entries[c], now + Window) IN
           /\ \A d \in Clients \ {c} : entries'[d] = entries[d] /\ admitted'[d] = admitted[d]
           /\ \/ /\ Len(recent) >= Limit
                 /\ entries'[c] = recent /\ admitted'[c] = admitted[c]
              \/ /\ Len(recent) < Limit
                 /\ entries'[c] = Append(recent, now)
                 /\ admitted'[c] = Append(admitted[c], now)
<1> DEFINE c == call[t].client
           now == call[t].now
           recent == Recent(entries[c], now + Window)
<1>1. c \in Clients /\ now \in 0..MaxDelay
  BY DEF TypeOK, Call, allow
<1>2. /\ entries = [d \in Clients |-> entries[d]] /\ admitted = [d \in Clients |-> admitted[d]]
  BY DEF TypeOK
<1>3. recent \in Seq(Ages) /\ Len(recent) \in Nat
  BY <1>1, RecentTyped, LenProperties DEF TypeOK
<1>4. \/ /\ Len(recent) >= Limit
         /\ entries' = [entries EXCEPT ![c] = recent] /\ UNCHANGED admitted
      \/ /\ ~(Len(recent) >= Limit)
         /\ entries' = [entries EXCEPT ![c] = Append(recent, now)]
         /\ admitted' = [admitted EXCEPT ![c] = Append(admitted[c], now)]
  BY DEF allow
<1> HIDE DEF c, now, recent
<1>5. /\ \A d \in Clients \ {c} : entries'[d] = entries[d] /\ admitted'[d] = admitted[d]
      /\ \/ /\ Len(recent) >= Limit
            /\ entries'[c] = recent /\ admitted'[c] = admitted[c]
         \/ /\ Len(recent) < Limit
            /\ entries'[c] = Append(recent, now)
            /\ admitted'[c] = Append(admitted[c], now)
  BY <1>1, <1>2, <1>3, <1>4, LimitTyped
<1> QED BY <1>1, <1>5 DEF recent

LEMMA LogsAreFunctions ==
  ASSUME TypeOK, [Next]_vars
  PROVE  /\ entries' = [c \in Clients |-> entries'[c]]
         /\ admitted' = [c \in Clients |-> admitted'[c]]
         /\ call' \in [Threads -> Call \cup {Passed}]
<1>1. CASE UNCHANGED vars
  BY <1>1 DEF vars, TypeOK
<1>2. ASSUME NEW t \in Threads, Arrive(t)
      PROVE  /\ UNCHANGED <<entries, admitted>>
             /\ call' \in [Threads -> Call \cup {Passed}]
  <2>1. PICK c \in Clients : call' = [call EXCEPT ![t] = [client |-> c, now |-> 0]]
    BY <1>2 DEF Arrive
  <2>2. [client |-> c, now |-> 0] \in Call
    BY RateLimiterAssumption DEF Call
  <2> QED BY <1>2, <2>1, <2>2 DEF Arrive, TypeOK
<1>3. ASSUME NEW t \in Threads, allow(t)
      PROVE  /\ entries' = [c \in Clients |-> entries'[c]]
             /\ admitted' = [c \in Clients |-> admitted'[c]]
             /\ call' \in [Threads -> Call \cup {Passed}]
  <2>1. call' = [call EXCEPT ![t] = Passed]
    BY <1>3 DEF allow
  <2>2. (\E c, e : entries' = [entries EXCEPT ![c] = e])
        /\ (UNCHANGED admitted \/ \E c, e : admitted' = [admitted EXCEPT ![c] = e])
    BY <1>3 DEF allow
  <2> QED BY <2>1, <2>2 DEF TypeOK
<1>4. CASE Tick
  <2>1. ASSUME NEW t \in Threads
        PROVE  (IF call[t] = Passed THEN Passed ELSE [call[t] EXCEPT !.now = @ + 1])
                 \in Call \cup {Passed}
    <3>1. CASE call[t] # Passed
      <4>1. call[t] \in Call /\ call[t].now + 1 \in 0..MaxDelay
        BY <1>4, <3>1, AgesTyped DEF Tick, TypeOK, Call
      <4> QED BY <3>1, <4>1 DEF Call
    <3> QED BY <3>1
  <2> QED BY <1>4, <2>1 DEF Tick
<1> QED BY <1>1, <1>2, <1>3, <1>4 DEF Next, TypeOK

LEMMA TypeStep == ASSUME TypeOK, [Next]_vars PROVE TypeOK'
<1>1. ASSUME NEW c \in Clients
      PROVE  /\ entries[c] \in Seq(Ages) /\ Len(entries[c]) =< Limit
             /\ admitted[c] \in Seq(Ages)
  BY DEF TypeOK
<1>2. ASSUME NEW c \in Clients
      PROVE  /\ entries'[c] \in Seq(Ages) /\ Len(entries'[c]) =< Limit
             /\ admitted'[c] \in Seq(Ages)
  <2>1. CASE UNCHANGED <<entries, admitted>>
    BY <1>1, <2>1
  <2>2. ASSUME NEW t \in Threads, allow(t)
        PROVE  /\ entries'[c] \in Seq(Ages) /\ Len(entries'[c]) =< Limit
               /\ admitted'[c] \in Seq(Ages)
    <3>1. PICK d \in Clients, now \in 0..MaxDelay :
            LET recent == Recent(entries[d], now + Window) IN
            /\ \A e \in Clients \ {d} : entries'[e] = entries[e] /\ admitted'[e] = admitted[e]
            /\ \/ /\ Len(recent) >= Limit
                  /\ entries'[d] = recent /\ admitted'[d] = admitted[d]
               \/ /\ Len(recent) < Limit
                  /\ entries'[d] = Append(recent, now)
                  /\ admitted'[d] = Append(admitted[d], now)
      BY <2>2, AllowEffect
    <3> DEFINE recent == Recent(entries[d], now + Window)
    <3>2. CASE c # d
      BY <1>1, <3>1, <3>2
    <3>3. CASE c = d
      <4>1. recent \in Seq(Ages) /\ Len(recent) \in Nat /\ Len(recent) =< Len(entries[d])
        BY <1>1, RecentTyped, LenProperties
      <4>2. now \in Ages /\ Len(entries[d]) \in Nat
        BY <1>1, AgesTyped, LenProperties
      <4>3. /\ Append(recent, now) \in Seq(Ages) /\ Append(admitted[d], now) \in Seq(Ages)
            /\ Len(Append(recent, now)) = Len(recent) + 1
        BY <1>1, <4>1, <4>2, AppendProperties
      <4> HIDE DEF recent
      <4>4. Len(recent) =< Limit
        BY <1>1, <4>1, <4>2, LimitTyped
      <4>5. CASE entries'[c] = recent /\ admitted'[c] = admitted[c]
        BY <1>1, <4>1, <4>4, <4>5
      <4>6. CASE /\ Len(recent) < Limit
                 /\ entries'[c] = Append(recent, now)
                 /\ admitted'[c] = Append(admitted[d], now)
        <5>1. Len(Append(recent, now)) =< Limit
          BY <4>1, <4>3, <4>6, LimitTyped
        <5> QED BY <4>3, <4>6, <5>1
      <4> QED BY <3>1, <3>3, <4>5, <4>6 DEF recent
    <3> QED BY <3>2, <3>3
  <2>3. CASE Tick
    <3>1. entries'[c] = Aged(entries[c]) /\ admitted'[c] = Recent(Aged(admitted[c]), Horizon)
      BY <2>3 DEF Tick
    <3> QED BY <1>1, <3>1, AgedAppend, RecentTyped
  <2> QED BY <2>1, <2>2, <2>3 DEF Next, Arrive, vars
<1>3. entries' \in [Clients -> Seq(Ages)] /\ admitted' \in [Clients -> Seq(Ages)]
  BY <1>2, LogsAreFunctions
<1> QED BY <1>2, <1>3, LogsAreFunctions DEF TypeOK

LEMMA InitTyped == ASSUME Init PROVE TypeOK
<1>1. <<>> \in Seq(Ages) /\ Len(<<>>) = 0
  BY EmptySeq
<1> QED BY <1>1, LimitTyped DEF Init, TypeOK

\* The limiter never has more on record for a client than the limit.
THEOREM LimiterTypeCorrect == Spec => []TypeOK
BY InitTyped, TypeStep, PTL DEF Spec

-----------------------------------------------------------------------------
(***************************************************************************)
(* The limit.  The log of a client and the history of its admissions agree *)
(* on every age below the window: what a call forgets is older than the    *)
(* window of its own "now", and thus older than the window.  A call that   *)
(* is let through has found fewer than the limit in the window of its      *)
(* "now", and a period that holds this "now" and is shorter than the       *)
(* window by the longest wait lies in both.                                *)
(***************************************************************************)
SameRecent == \A c \in Clients : Recent(entries[c], Window) = Recent(admitted[c], Window)

Bounded == \A c \in Clients, first \in Ages :
             Count(admitted[c], first, first + Period) =< Limit

LEMMA CallKeepsLimit ==
  ASSUME TypeOK, SameRecent, Bounded, NEW t \in Threads, allow(t)
  PROVE  SameRecent' /\ Bounded'
<1>1. PICK c \in Clients, now \in 0..MaxDelay :
        LET recent == Recent(entries[c], now + Window) IN
        /\ \A d \in Clients \ {c} : entries'[d] = entries[d] /\ admitted'[d] = admitted[d]
        /\ \/ /\ Len(recent) >= Limit
              /\ entries'[c] = recent /\ admitted'[c] = admitted[c]
           \/ /\ Len(recent) < Limit
              /\ entries'[c] = Append(recent, now)
              /\ admitted'[c] = Append(admitted[c], now)
  BY AllowEffect
<1> DEFINE recent == Recent(entries[c], now + Window)
<1>2. /\ entries[c] \in Seq(Ages) /\ admitted[c] \in Seq(Ages)
      /\ now \in Ages /\ now \in Int /\ now < Window /\ now + Window \in Int
      /\ Window =< now + Window /\ Window \in Int
  BY AgesTyped DEF TypeOK
<1>3. /\ recent \in Seq(Ages) /\ Recent(recent, Window) = Recent(entries[c], Window)
  BY <1>2, RecentTyped, RecentOfRecent
<1>4. Recent(recent, Window) = Recent(admitted[c], Window)
  BY <1>3 DEF SameRecent
<1>5. CASE entries'[c] = recent /\ admitted'[c] = admitted[c]
  <2>1. \A d \in Clients : admitted'[d] = admitted[d]
    BY <1>1, <1>5
  <2>2. SameRecent'
    <3> HIDE DEF recent
    <3> QED BY <1>1, <1>4, <1>5 DEF SameRecent
  <2> QED BY <2>1, <2>2 DEF Bounded
<1>6. CASE /\ Len(recent) < Limit
           /\ entries'[c] = Append(recent, now)
           /\ admitted'[c] = Append(admitted[c], now)
  <2>1. SameRecent'
    <3>1. /\ Recent(Append(recent, now), Window) = Append(Recent(recent, Window), now)
          /\ Recent(Append(admitted[c], now), Window) = Append(Recent(admitted[c], Window), now)
      BY <1>2, <1>3, RecentAppend
    <3> HIDE DEF recent
    <3>2. \A d \in Clients \ {c} : Recent(entries'[d], Window) = Recent(admitted'[d], Window)
      BY <1>1 DEF SameRecent
    <3>3. Recent(entries'[c], Window) = Recent(admitted'[c], Window)
      BY <1>4, <1>6, <3>1
    <3> QED BY <3>2, <3>3 DEF SameRecent
  <2>2. ASSUME NEW first \in Ages PROVE Count(admitted'[c], first, first + Period) =< Limit
    <3> DEFINE hi == first + Period
    <3>1. first \in Int /\ hi \in Int
      BY AgesTyped, LimitTyped
    <3>2. Count(admitted[c], first, hi) =< Limit /\ Count(admitted[c], first, hi) \in Nat
      BY <1>2, <3>1, CountTyped DEF Bounded
    <3>3. Count(Append(admitted[c], now), first, hi) =
            IF first =< now /\ now < hi THEN Count(admitted[c], first, hi) + 1
            ELSE Count(admitted[c], first, hi)
      BY <1>2, <3>1, CountAppend
    <3>4. ASSUME first =< now
          PROVE  Count(admitted[c], first, hi) < Limit
      <4>1. hi =< Window /\ hi =< now + Window
        BY <3>1, <3>4, <1>2, RateLimiterAssumption DEF Period
      <4>2. Count(admitted[c], first, hi) = Count(Recent(admitted[c], Window), first, hi)
        BY <1>2, <3>1, <4>1, CountRecent
      <4>3. Count(recent, first, hi) = Count(Recent(recent, Window), first, hi)
        BY <1>2, <1>3, <3>1, <4>1, CountRecent
      <4>4. Count(recent, first, hi) =< Len(recent) /\ Count(recent, first, hi) \in Nat
        BY <1>3, <3>1, CountTyped
      <4>5. Len(recent) \in Nat
        BY <1>3, LenProperties
      <4> HIDE DEF recent, hi
      <4> QED BY <1>4, <1>6, <4>2, <4>3, <4>4, <4>5, LimitTyped
    <3> HIDE DEF recent, hi
    <3>5. Count(admitted'[c], first, hi) =< Limit
      BY <1>6, <3>2, <3>3, <3>4, LimitTyped
    <3> QED BY <3>5 DEF hi
  <2>3. ASSUME NEW d \in Clients \ {c}, NEW first \in Ages
        PROVE  Count(admitted'[d], first, first + Period) =< Limit
    BY <1>1 DEF Bounded
  <2> QED BY <2>1, <2>2, <2>3 DEF Bounded
<1> QED BY <1>1, <1>5, <1>6

LEMMA TimeKeepsLimit ==
  ASSUME TypeOK, SameRecent, Bounded, Tick
  PROVE  SameRecent' /\ Bounded'
<1>1. ASSUME NEW c \in Clients
      PROVE  /\ entries[c] \in Seq(Ages) /\ admitted[c] \in Seq(Ages)
             /\ Aged(entries[c]) \in Seq(Ages) /\ Aged(admitted[c]) \in Seq(Ages)
             /\ entries'[c] = Aged(entries[c])
             /\ admitted'[c] = Recent(Aged(admitted[c]), Horizon)
  BY AgedAppend DEF Tick, TypeOK
<1>2. /\ Window \in Int /\ Window - 1 \in Int /\ Horizon \in Int
      /\ Window =< Horizon /\ Window - 1 =< Window
  BY AgesTyped
<1>3. ASSUME NEW c \in Clients PROVE Recent(entries'[c], Window) = Recent(admitted'[c], Window)
  <2>1. Recent(Recent(Aged(admitted[c]), Horizon), Window) = Recent(Aged(admitted[c]), Window)
    BY <1>1, <1>2, RecentOfRecent
  <2>2. /\ Recent(Aged(admitted[c]), Window) = Aged(Recent(admitted[c], Window - 1))
        /\ Recent(Aged(entries[c]), Window) = Aged(Recent(entries[c], Window - 1))
    BY <1>1, <1>2, RecentAged
  <2>3. /\ Recent(admitted[c], Window - 1) = Recent(Recent(admitted[c], Window), Window - 1)
        /\ Recent(entries[c], Window - 1) = Recent(Recent(entries[c], Window), Window - 1)
    BY <1>1, <1>2, RecentOfRecent
  <2> QED BY <1>1, <2>1, <2>2, <2>3 DEF SameRecent
<1>4. ASSUME NEW c \in Clients, NEW first \in Ages
      PROVE  Count(admitted'[c], first, first + Period) =< Limit
  <2> DEFINE hi == first + Period
             m  == IF hi =< Horizon THEN hi ELSE Horizon
             lo == IF first = 0 THEN 0 ELSE first - 1
  <2>1. /\ first \in Int /\ hi \in Int /\ m \in Int /\ m =< Horizon /\ m =< hi
        /\ lo \in Ages /\ lo \in Int /\ first - 1 =< lo /\ (first - 1 < lo => lo = 0)
        /\ m - 1 =< lo + Period /\ m - 1 \in Int /\ first - 1 \in Int /\ lo + Period \in Int
    BY AgesTyped, LimitTyped
  <2>2. Count(admitted'[c], first, hi) = Count(Aged(admitted[c]), first, m)
    BY <1>1, <1>2, <2>1, CountRecent
  <2> HIDE DEF m, lo, hi
  <2>3. Count(Aged(admitted[c]), first, m) = Count(admitted[c], first - 1, m - 1)
    BY <1>1, <2>1, CountAged
  <2>4. Within(admitted[c], first - 1, m - 1) \subseteq Within(admitted[c], lo, lo + Period)
    <3>1. \A k \in DOMAIN admitted[c] : admitted[c][k] \in Ages
      BY <1>1, LenProperties, ElementOfSeq
    <3> QED BY <2>1, <3>1, AgesTyped DEF Within
  <2>5. Count(admitted[c], first - 1, m - 1) =< Count(admitted[c], lo, lo + Period)
    BY <1>1, <2>1, <2>4, CountSubset
  <2>6. Count(admitted[c], lo, lo + Period) =< Limit
    BY <2>1 DEF Bounded
  <2>7. /\ Count(admitted[c], first - 1, m - 1) \in Nat
        /\ Count(admitted[c], lo, lo + Period) \in Nat
    BY <1>1, <2>1, CountTyped
  <2>8. Count(admitted'[c], first, hi) =< Limit
    BY <2>2, <2>3, <2>5, <2>6, <2>7, LimitTyped
  <2> QED BY <2>8 DEF hi
<1> QED BY <1>3, <1>4 DEF SameRecent, Bounded

\* However many requests wait for the lock at once, and in whatever order they
\* get it: no client is let through more often than the limit in any period as
\* long as the window less the longest wait.
THEOREM LimitIsKept == Spec => []LimitKept
<1>1. Init => SameRecent /\ Bounded
  <2> SUFFICES ASSUME Init PROVE SameRecent /\ Bounded
    OBVIOUS
  <2>1. \A c \in Clients : entries[c] = <<>> /\ admitted[c] = <<>>
    BY DEF Init
  <2>2. ASSUME NEW first \in Ages PROVE Count(<<>>, first, first + Period) =< Limit
    <3>1. <<>> \in Seq(Ages) /\ Len(<<>>) = 0 /\ first \in Int /\ first + Period \in Int
      BY EmptySeq, AgesTyped, LimitTyped
    <3>2. /\ Count(<<>>, first, first + Period) \in Nat
          /\ Count(<<>>, first, first + Period) =< Len(<<>>)
      BY <3>1, CountTyped
    <3> QED BY <3>1, <3>2, LimitTyped
  <2> QED BY <2>1, <2>2 DEF SameRecent, Bounded
<1>2. TypeOK /\ SameRecent /\ Bounded /\ [Next]_vars => (SameRecent /\ Bounded)'
  <2> SUFFICES ASSUME TypeOK, SameRecent, Bounded, [Next]_vars
               PROVE  (SameRecent /\ Bounded)'
    OBVIOUS
  <2>1. CASE UNCHANGED <<entries, admitted>>
    BY <2>1 DEF SameRecent, Bounded
  <2> QED BY <2>1, CallKeepsLimit, TimeKeepsLimit DEF Next, Arrive, vars
<1>3. Bounded => LimitKept
  BY DEF Bounded, LimitKept, AtMostLimitIn, Count, Within, Period
<1> QED BY <1>1, <1>2, <1>3, LimiterTypeCorrect, PTL DEF Spec
=============================================================================
