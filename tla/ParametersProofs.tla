-------------------------- MODULE ParametersProofs --------------------------
(***************************************************************************)
(* Proofs about Policies and Parameters, for every set of tenants,         *)
(* identities, policies, parameters and secrets, every number of requests  *)
(* and operator processes and every bound.                                 *)
(***************************************************************************)
EXTENDS Parameters, FiniteSetTheorems, SequenceTheorems, WellFoundedInduction, TLAPS

-----------------------------------------------------------------------------
(* Loops. *)

(* The order of the numbers, as a relation. *)
Below == {pair \in Nat \X Nat : pair[1] < pair[2]}

(* A set of numbers that is not empty has a least one. *)
LEMMA LeastNumber ==
  ASSUME NEW T \in SUBSET Nat, T # {}
  PROVE  \E x \in T : \A y \in T : x <= y
<1>1. IsWellFoundedOn(Below, Nat)
  BY NatLessThanWellFounded DEF OpToRel, Below
<1>2. PICK x \in T : \A y \in T : ~ (<<y, x>> \in Below)
  BY <1>1, WFMin
<1>3. ASSUME NEW y \in T PROVE x <= y
  <2>1. x \in Nat /\ y \in Nat /\ ~ (<<y, x>> \in Below)
    BY <1>2
  <2>2. y < x => <<y, x>> \in Below
    BY <2>1 DEF Below
  <2>3. QED BY <2>1, <2>2
<1>4. QED BY <1>3

(* Induction up to N over a set, which the loops below are reasoned about  *)
(* by: what holds before a loop and is kept by each turn of it holds after *)
(* the last.                                                               *)
LEMMA UpTo ==
  ASSUME NEW N \in Nat, NEW S, 0 \in S, \A n \in 0..N : n \in S /\ n < N => n+1 \in S
  PROVE  \A n \in 0..N : n \in S
<1> DEFINE T == {n \in 0..N : n \notin S}
<1>1. SUFFICES ASSUME T # {} PROVE FALSE
  OBVIOUS
<1>2. T \in SUBSET Nat
  OBVIOUS
<1>3. PICK x \in T : \A y \in T : x <= y
  <2> HIDE DEF T
  <2> QED BY <1>1, <1>2, LeastNumber
<1>4. x # 0 /\ x - 1 \in 0..N /\ x - 1 \in S /\ x - 1 < N
  BY <1>3
<1>5. x - 1 + 1 \in S
  BY <1>4
<1>6. QED BY <1>3, <1>4, <1>5

(* The functions a loop of N turns may compute, from a first value and     *)
(* what one turn makes of the last one.                                    *)
Runs(V, N, a, step) ==
  {g \in [0..N -> V] : g[0] = a /\ \A n \in 1..N : g[n] = step[<<n, g[n-1]>>]}

(* A loop computes something: the recursive functions below are not empty  *)
(* choices.                                                                *)
LEMMA Recursion ==
  ASSUME NEW V, NEW N \in Nat, NEW a \in V, NEW step \in [(1..N) \X V -> V]
  PROVE  Runs(V, N, a, step) # {}
<1> DEFINE S == {n \in 0..N : Runs(V, n, a, step) # {}}
<1>1. 0 \in S
  <2>1. [n \in 0..0 |-> a] \in Runs(V, 0, a, step)
    BY DEF Runs
  <2>2. QED BY <2>1
<1>2. ASSUME NEW n \in 0..N, n \in S /\ n < N PROVE n+1 \in S
  <2>1. PICK g \in [0..n -> V] : g[0] = a /\ \A m \in 1..n : g[m] = step[<<m, g[m-1]>>]
    BY <1>2 DEF Runs
  <2> DEFINE h == [m \in 0..(n+1) |-> IF m = n+1 THEN step[<<n+1, g[n]>>] ELSE g[m]]
  <2>2. g[n] \in V /\ n+1 \in 1..N
    BY <1>2, <2>1
  <2>3. step[<<n+1, g[n]>>] \in V
    BY <2>2
  <2>4. h \in [0..(n+1) -> V]
    BY <2>1, <2>3
  <2>5. h[0] = a
    BY <2>1
  <2>6. ASSUME NEW m \in 1..(n+1) PROVE h[m] = step[<<m, h[m-1]>>]
    <3>1. CASE m = n+1
      <4>1. h[n+1] = step[<<n+1, g[n]>>] /\ h[n] = g[n]
        BY <1>2
      <4>2. m - 1 = n
        BY <3>1
      <4>3. QED BY <3>1, <4>1, <4>2
    <3>2. CASE m # n+1
      <4>1. m \in 1..n /\ h[m] = g[m] /\ h[m-1] = g[m-1]
        BY <3>2, <1>2
      <4>2. QED BY <4>1, <2>1
    <3>3. QED BY <3>1, <3>2
  <2>7. h \in Runs(V, n+1, a, step)
    BY <2>4, <2>5, <2>6 DEF Runs
  <2>8. QED BY <2>7, <1>2
<1>3. N \in 0..N
  OBVIOUS
<1> HIDE DEF S
<1>4. N \in S
  BY <1>1, <1>2, <1>3, UpTo
<1>5. QED BY <1>4 DEF S

(* The function FlattenSeq is the last value of. *)
Flattening(s) ==
  CHOOSE flatten : flatten = [i \in 1..Len(s) |-> IF i = 1 THEN s[i] ELSE flatten[i-1] \o s[i]]

(* FlattenSeq concatenates one sequence at a time. *)
LEMMA FlatteningStep ==
  ASSUME NEW V, NEW s \in Seq(Seq(V)), s # <<>>
  PROVE  /\ FlattenSeq(s) = Flattening(s)[Len(s)]
         /\ Flattening(s)[1] = s[1]
         /\ \A n \in 2..Len(s) : Flattening(s)[n] = Flattening(s)[n-1] \o s[n]
<1> DEFINE N == Len(s)
           step == [p \in (1..N) \X Seq(V) |-> p[2] \o s[p[1]]]
           f(g) == [n \in 1..N |-> g[n]]
<1>1. N \in Nat /\ N # 0 /\ \A n \in 1..N : s[n] \in Seq(V)
  OBVIOUS
<1>2. step \in [(1..N) \X Seq(V) -> Seq(V)] /\ <<>> \in Seq(V)
  BY <1>1
<1>3. PICK g \in Runs(Seq(V), N, <<>>, step) : TRUE
  <2>1. Runs(Seq(V), N, <<>>, step) # {}
    <3> HIDE DEF step, N
    <3> QED BY <1>1, <1>2, Recursion
  <2>2. QED BY <2>1
<1>4. /\ g \in [0..N -> Seq(V)] /\ g[0] = <<>>
      /\ \A n \in 1..N : g[n] = step[<<n, g[n-1]>>]
  BY <1>3 DEF Runs
<1>5. ASSUME NEW n \in 1..N
      PROVE  g[n-1] \in Seq(V) /\ g[n] = g[n-1] \o s[n]
  <2>1. n-1 \in 0..N
    BY <1>1
  <2>2. g[n-1] \in Seq(V) /\ <<n, g[n-1]>> \in (1..N) \X Seq(V)
    BY <1>4, <2>1
  <2>3. step[<<n, g[n-1]>>] = g[n-1] \o s[n]
    BY <2>2
  <2>4. QED BY <1>4, <2>2, <2>3
<1>first. g[1] = s[1]
  <2>1. 1 \in 1..N /\ 1 - 1 = 0
    BY <1>1
  <2>2. g[1] = g[1-1] \o s[1]
    BY <2>1, <1>5
  <2>3. g[1-1] = <<>>
    BY <2>1, <1>4
  <2>4. s[1] \in Seq(V)
    BY <2>1, <1>1
  <2>5. QED BY <2>2, <2>3, <2>4, ConcatEmptySeq
<1>6. f(g) = [n \in 1..N |-> IF n = 1 THEN s[n] ELSE f(g)[n-1] \o s[n]]
  <2>1. ASSUME NEW n \in 1..N
        PROVE  g[n] = IF n = 1 THEN s[n] ELSE f(g)[n-1] \o s[n]
    <3>1. CASE n = 1
      BY <3>1, <1>first
    <3>2. CASE n # 1
      <4>1. n-1 \in 1..N
        BY <3>2, <1>1
      <4>2. f(g)[n-1] = g[n-1]
        BY <4>1
      <4>3. QED BY <4>2, <3>2, <1>5
    <3>3. QED BY <3>1, <3>2
  <2>2. QED BY <2>1
<1>7. \E flatten : flatten = [n \in 1..N |-> IF n = 1 THEN s[n] ELSE flatten[n-1] \o s[n]]
  <2> HIDE DEF f
  <2> QED BY <1>6
<1>8. Flattening(s) = [n \in 1..N |-> IF n = 1 THEN s[n] ELSE Flattening(s)[n-1] \o s[n]]
  BY <1>7 DEF Flattening
<1>9. FlattenSeq(s) = Flattening(s)[N]
  BY <1>1 DEF FlattenSeq, Flattening
<1>10. Flattening(s)[1] = s[1] /\ \A n \in 2..N : Flattening(s)[n] = Flattening(s)[n-1] \o s[n]
  <2>1. \A n \in 1..N : Flattening(s)[n] = IF n = 1 THEN s[n] ELSE Flattening(s)[n-1] \o s[n]
    <3> DEFINE F == Flattening(s)
    <3>1. F = [n \in 1..N |-> IF n = 1 THEN s[n] ELSE F[n-1] \o s[n]]
      BY <1>8
    <3> HIDE DEF F, N
    <3>2. \A n \in 1..N : F[n] = IF n = 1 THEN s[n] ELSE F[n-1] \o s[n]
      BY <3>1
    <3>3. QED BY <3>2 DEF F
  <2>2. 1 \in 1..N /\ \A n \in 2..N : n \in 1..N /\ n # 1
    BY <1>1
  <2>3. QED BY <2>1, <2>2
<1>11. QED BY <1>9, <1>10

(* What is in one of two sequences is in their concatenation, and nothing  *)
(* else.                                                                   *)
LEMMA PartsOfConcat ==
  ASSUME NEW V, NEW s \in Seq(V), NEW t \in Seq(V)
  PROVE  s \o t \in Seq(V) /\ ToSet(s \o t) = ToSet(s) \cup ToSet(t)
<1>1. s \o t \in Seq(V)
  OBVIOUS
<1>2. /\ DOMAIN s = 1..Len(s) /\ DOMAIN t = 1..Len(t)
      /\ DOMAIN (s \o t) = 1..(Len(s) + Len(t))
  BY <1>1
<1>3. ToSet(s \o t) \subseteq ToSet(s) \cup ToSet(t)
  BY <1>2 DEF ToSet
<1>4. ASSUME NEW k \in 1..Len(s) PROVE s[k] \in ToSet(s \o t)
  <2>1. k \in 1..(Len(s) + Len(t)) /\ (s \o t)[k] = s[k]
    OBVIOUS
  <2>2. QED BY <2>1, <1>2 DEF ToSet
<1>5. ASSUME NEW k \in 1..Len(t) PROVE t[k] \in ToSet(s \o t)
  <2>1. Len(s) + k \in 1..(Len(s) + Len(t)) /\ (s \o t)[Len(s) + k] = t[k]
    OBVIOUS
  <2>2. QED BY <2>1, <1>2 DEF ToSet
<1>6. QED BY <1>1, <1>2, <1>3, <1>4, <1>5 DEF ToSet

(* What is in the concatenation of a list of sequences is in one of them:  *)
(* SetFor, References and Substitute lose nothing and add nothing.         *)
LEMMA PartsOfFlattening ==
  ASSUME NEW V, NEW s \in Seq(Seq(V))
  PROVE  /\ FlattenSeq(s) \in Seq(V)
         /\ ToSet(FlattenSeq(s)) = UNION {ToSet(s[j]) : j \in DOMAIN s}
<1>1. CASE s = <<>>
  <2>1. Len(s) = 0 /\ FlattenSeq(s) = s
    BY <1>1 DEF FlattenSeq
  <2>2. ToSet(s) = {} /\ DOMAIN s = {}
    BY <1>1 DEF ToSet
  <2>3. FlattenSeq(s) \in Seq(V)
    <3>1. FlattenSeq(s) = <<>>
      BY <1>1, <2>1
    <3>2. QED BY <3>1, EmptySeq
  <2>4. UNION {ToSet(s[j]) : j \in DOMAIN s} = {}
    BY <2>2
  <2>5. QED BY <2>1, <2>2, <2>3, <2>4
<1>2. CASE s # <<>>
  <2> DEFINE N == Len(s)
             F == Flattening(s)
             S == {n \in 0..N : n # 0 =>
                     /\ F[n] \in Seq(V)
                     /\ ToSet(F[n]) = UNION {ToSet(s[j]) : j \in 1..n}}
  <2>1. N \in Nat /\ N # 0 /\ DOMAIN s = 1..N /\ \A n \in 1..N : s[n] \in Seq(V)
    BY <1>2
  <2>2. FlattenSeq(s) = F[N] /\ F[1] = s[1] /\ \A n \in 2..N : F[n] = F[n-1] \o s[n]
    BY <1>2, FlatteningStep
  <2> HIDE DEF F, N
  <2>3. 0 \in S
    BY <2>1
  <2>4. ASSUME NEW n \in 0..N, n \in S /\ n < N PROVE n+1 \in S
    <3>1. CASE n = 0
      <4>1. F[1] \in Seq(V) /\ ToSet(F[1]) = UNION {ToSet(s[j]) : j \in 1..1}
        BY <2>1, <2>2
      <4>2. QED BY <4>1, <3>1, <2>4, <2>1
    <3>2. CASE n # 0
      <4>1. F[n] \in Seq(V) /\ ToSet(F[n]) = UNION {ToSet(s[j]) : j \in 1..n}
        BY <3>2, <2>4
      <4>2. n+1 \in 2..N /\ n+1 \in 1..N /\ (n+1) - 1 = n /\ n+1 \in 0..N
        BY <3>2, <2>4, <2>1
      <4>3. F[n+1] = F[n] \o s[n+1] /\ s[n+1] \in Seq(V)
        BY <2>1, <2>2, <4>2
      <4>4. F[n+1] \in Seq(V) /\ ToSet(F[n+1]) = ToSet(F[n]) \cup ToSet(s[n+1])
        BY <4>1, <4>3, PartsOfConcat
      <4>5. \A j : j \in 1..(n+1) <=> j \in 1..n \/ j = n+1
        BY <4>2
      <4>6. UNION {ToSet(s[j]) : j \in 1..(n+1)}
              = (UNION {ToSet(s[j]) : j \in 1..n}) \cup ToSet(s[n+1])
        BY <4>5
      <4>7. QED BY <4>1, <4>2, <4>4, <4>6
    <3>3. QED BY <3>1, <3>2
  <2>5. N \in S
    <3>1. \A n \in 0..N : n \in S
      <4> HIDE DEF S
      <4> QED BY <2>1, <2>3, <2>4, UpTo
    <3>2. N \in 0..N
      BY <2>1
    <3> HIDE DEF S
    <3>3. QED BY <3>1, <3>2
  <2>6. QED BY <2>1, <2>2, <2>5
<1>3. QED BY <1>1, <1>2

(* The function Best is the last value of: the loop of Set.Evaluate. *)
Loop(rules, path) ==
  CHOOSE best : best = [n \in 0..Len(rules) |->
    IF n = 0 THEN None
    ELSE IF Matches(rules[n], path) /\ (best[n-1] = None \/ Beats(rules[n], best[n-1]))
    THEN rules[n]
    ELSE best[n-1]]

(* One turn of the loop of Set.Evaluate keeps the best rule or takes the   *)
(* next.                                                                   *)
LEMMA LoopStep ==
  ASSUME NEW rules \in Seq(Rule), NEW path
  PROVE  /\ Best(rules, path) = Loop(rules, path)[Len(rules)]
         /\ Loop(rules, path)[0] = None
         /\ \A n \in 1..Len(rules) :
              Loop(rules, path)[n] =
                IF /\ Matches(rules[n], path)
                   /\ Loop(rules, path)[n-1] = None \/ Beats(rules[n], Loop(rules, path)[n-1])
                THEN rules[n] ELSE Loop(rules, path)[n-1]
<1> DEFINE N == Len(rules)
           V == Rule \cup {None}
           Better(n, b) == Matches(rules[n], path) /\ (b = None \/ Beats(rules[n], b))
           step == [p \in (1..N) \X V |-> IF Better(p[1], p[2]) THEN rules[p[1]] ELSE p[2]]
           F == Loop(rules, path)
<1>1. N \in Nat /\ \A n \in 1..N : rules[n] \in V
  OBVIOUS
<1> HIDE DEF Better, N
<1>2. step \in [(1..N) \X V -> V] /\ None \in V
  BY <1>1
<1>3. PICK g \in Runs(V, N, None, step) : TRUE
  <2>1. Runs(V, N, None, step) # {}
    <3> HIDE DEF step, V
    <3> QED BY <1>1, <1>2, Recursion
  <2>2. QED BY <2>1
<1>4. /\ g \in [0..N -> V] /\ g[0] = None
      /\ \A n \in 1..N : g[n] = step[<<n, g[n-1]>>]
  BY <1>3 DEF Runs
<1>5. ASSUME NEW n \in 1..N
      PROVE  g[n] = IF Better(n, g[n-1]) THEN rules[n] ELSE g[n-1]
  <2>1. n-1 \in 0..N
    BY <1>1
  <2>2. <<n, g[n-1]>> \in (1..N) \X V
    BY <1>4, <2>1
  <2>3. step[<<n, g[n-1]>>] = IF Better(n, g[n-1]) THEN rules[n] ELSE g[n-1]
    BY <2>2
  <2>4. QED BY <1>4, <2>3
<1>6. g = [n \in 0..N |-> IF n = 0 THEN None
                          ELSE IF Better(n, g[n-1]) THEN rules[n] ELSE g[n-1]]
  <2>1. \A n \in 0..N : n # 0 => n \in 1..N
    BY <1>1
  <2> HIDE DEF V
  <2>2. QED BY <1>4, <1>5, <2>1
<1>7. \E best : best = [n \in 0..N |-> IF n = 0 THEN None
                          ELSE IF Better(n, best[n-1]) THEN rules[n] ELSE best[n-1]]
  BY <1>6
<1>8. F = [n \in 0..N |-> IF n = 0 THEN None
                          ELSE IF Better(n, F[n-1]) THEN rules[n] ELSE F[n-1]]
  <2>1. F = CHOOSE best : best = [n \in 0..N |-> IF n = 0 THEN None
                          ELSE IF Better(n, best[n-1]) THEN rules[n] ELSE best[n-1]]
    BY DEF Loop, Better, N
  <2> HIDE DEF F
  <2>2. QED BY <1>7, <2>1
<1>9. Best(rules, path) = F[N]
  BY DEF Best, Loop, N
<1> HIDE DEF F
<1>10. 0 \in 0..N /\ \A n \in 1..N : n \in 0..N /\ n # 0
  BY <1>1
<1>11. F[0] = None /\ \A n \in 1..N : F[n] = IF Better(n, F[n-1]) THEN rules[n] ELSE F[n-1]
  BY <1>8, <1>10
<1>12. QED BY <1>9, <1>11 DEF F, N, Better

(* candidate.beats is a strict order in which rules that do not beat each  *)
(* other stand alike: the loop may compare with the running best alone.    *)
LEMMA BeatsOrder ==
  ASSUME NEW a \in Rule, NEW b \in Rule, NEW c \in Rule
  PROVE  /\ ~(Beats(a, b) /\ Beats(b, a))
         /\ Beats(a, b) /\ ~Beats(c, b) => Beats(a, c)
<1>1. /\ a.wild \in BOOLEAN /\ b.wild \in BOOLEAN /\ c.wild \in BOOLEAN
      /\ Len(a.path) \in Nat /\ Len(b.path) \in Nat /\ Len(c.path) \in Nat
  BY DEF Rule
<1>2. QED BY <1>1 DEF Beats

(* Rule k decides among the first n. *)
DecidesAmong(rules, path, n, k) ==
  /\ Matches(rules[k], path)
  /\ \A l \in 1..n : (l # k /\ Matches(rules[l], path)) =>
       Beats(rules[k], rules[l]) \/ (k < l /\ ~Beats(rules[l], rules[k]))

(* The loop of Set.Evaluate ends with the rule that decides among all of   *)
(* them, or with none when none matches.                                   *)
LEMMA BestDecides ==
  ASSUME NEW rules \in Seq(Rule), NEW path
  PROVE  \/ /\ Best(rules, path) = None
            /\ \A k \in DOMAIN rules : ~Matches(rules[k], path)
         \/ \E k \in DOMAIN rules : Best(rules, path) = rules[k] /\ Decides(rules, path, k)
<1> DEFINE N == Len(rules)
           F == Loop(rules, path)
           Empty(n) == F[n] = None /\ \A k \in 1..n : ~Matches(rules[k], path)
           Found(n) == \E k \in 1..n : F[n] = rules[k] /\ DecidesAmong(rules, path, n, k)
           S == {n \in 0..N : Empty(n) \/ Found(n)}
<1>1. /\ N \in Nat /\ DOMAIN rules = 1..N
      /\ \A k \in 1..N : rules[k] \in Rule /\ rules[k] # None
  BY NoneRuleAssumption
<1>2. /\ Best(rules, path) = F[N] /\ F[0] = None
      /\ \A n \in 1..N : F[n] = IF Matches(rules[n], path) /\ (F[n-1] = None \/ Beats(rules[n], F[n-1]))
                                THEN rules[n] ELSE F[n-1]
  BY LoopStep
<1> HIDE DEF F, N
<1>3. 0 \in S
  BY <1>1, <1>2
<1>4. ASSUME NEW n \in 0..N, n \in S /\ n < N PROVE n+1 \in S
  <2>1. /\ n+1 \in 1..N /\ n+1 \in 0..N /\ (n+1)-1 = n
        /\ \A k : k \in 1..(n+1) <=> k \in 1..n \/ k = n+1
    BY <1>1, <1>4
  <2>2. F[n+1] = IF Matches(rules[n+1], path) /\ (F[n] = None \/ Beats(rules[n+1], F[n]))
                 THEN rules[n+1] ELSE F[n]
    BY <1>2, <2>1
  <2>3. CASE Empty(n)
    <3>1. CASE Matches(rules[n+1], path)
      <4>1. F[n+1] = rules[n+1]
        BY <2>2, <2>3, <3>1
      <4>2. DecidesAmong(rules, path, n+1, n+1)
        BY <2>1, <2>3, <3>1 DEF DecidesAmong
      <4>3. Found(n+1)
        BY <4>1, <4>2, <2>1
      <4>4. QED BY <4>3, <2>1
    <3>2. CASE ~Matches(rules[n+1], path)
      <4>1. Empty(n+1)
        BY <2>1, <2>2, <2>3, <3>2
      <4>2. QED BY <4>1, <2>1
    <3>3. QED BY <3>1, <3>2
  <2>4. CASE Found(n)
    <3>1. PICK k \in 1..n : F[n] = rules[k] /\ DecidesAmong(rules, path, n, k)
      BY <2>4
    <3>2. k \in 1..N /\ k \in 1..(n+1) /\ k < n+1 /\ k # n+1 /\ F[n] # None
      BY <2>1, <1>1, <3>1
    <3>3. CASE Matches(rules[n+1], path) /\ Beats(rules[n+1], rules[k])
      <4>1. F[n+1] = rules[n+1]
        BY <2>2, <3>1, <3>3
      <4>2. ASSUME NEW l \in 1..(n+1), l # n+1, Matches(rules[l], path)
            PROVE  Beats(rules[n+1], rules[l])
        <5>1. l \in 1..n /\ l \in 1..N
          BY <4>2, <2>1, <1>1
        <5>2. CASE l = k
          BY <5>2, <3>3
        <5>3. CASE l # k
          <6>1. Beats(rules[k], rules[l]) \/ ~Beats(rules[l], rules[k])
            BY <5>1, <5>3, <4>2, <3>1 DEF DecidesAmong
          <6>2. /\ rules[k] \in Rule /\ rules[l] \in Rule /\ rules[n+1] \in Rule
            BY <1>1, <5>1, <3>2, <2>1
          <6>3. ~Beats(rules[l], rules[k])
            BY <6>1, <6>2, BeatsOrder
          <6>4. QED BY <6>2, <6>3, <3>3, BeatsOrder
        <5>4. QED BY <5>2, <5>3
      <4>3. DecidesAmong(rules, path, n+1, n+1)
        BY <4>2, <3>3 DEF DecidesAmong
      <4>4. Found(n+1)
        BY <4>1, <4>3, <2>1
      <4>5. QED BY <4>4, <2>1
    <3>4. CASE ~(Matches(rules[n+1], path) /\ Beats(rules[n+1], rules[k]))
      <4>1. F[n+1] = rules[k]
        BY <2>2, <3>1, <3>2, <3>4
      <4>2. DecidesAmong(rules, path, n+1, k)
        BY <3>1, <3>2, <3>4, <2>1 DEF DecidesAmong
      <4>3. Found(n+1)
        BY <4>1, <4>2, <3>2
      <4>4. QED BY <4>3, <2>1
    <3>5. QED BY <3>3, <3>4
  <2>5. QED BY <1>4, <2>3, <2>4
<1>5. N \in S
  <2>1. N \in 0..N
    BY <1>1
  <2> HIDE DEF S
  <2>2. QED BY <2>1, <1>1, <1>3, <1>4, UpTo
<1>6. CASE Empty(N)
  BY <1>1, <1>2, <1>6
<1>7. CASE Found(N)
  <2>1. PICK k \in 1..N : F[N] = rules[k] /\ DecidesAmong(rules, path, N, k)
    BY <1>7
  <2>2. Decides(rules, path, k)
    BY <2>1, <1>1 DEF Decides, DecidesAmong
  <2>3. QED BY <2>1, <2>2, <1>1, <1>2
<1>8. QED BY <1>5, <1>6, <1>7

(* At most one rule of a list decides a path. *)
LEMMA OneDecides ==
  ASSUME NEW rules \in Seq(Rule), NEW path, NEW k \in DOMAIN rules, NEW l \in DOMAIN rules,
         Decides(rules, path, k), Decides(rules, path, l)
  PROVE  k = l
<1>1. SUFFICES ASSUME k # l PROVE FALSE
  OBVIOUS
<1>2. k \in Nat /\ l \in Nat /\ rules[k] \in Rule /\ rules[l] \in Rule
  OBVIOUS
<1>3. /\ Beats(rules[k], rules[l]) \/ (k < l /\ ~Beats(rules[l], rules[k]))
      /\ Beats(rules[l], rules[k]) \/ (l < k /\ ~Beats(rules[k], rules[l]))
  BY <1>1 DEF Decides
<1>4. ~(Beats(rules[k], rules[l]) /\ Beats(rules[l], rules[k]))
  BY <1>2, BeatsOrder
<1>5. QED BY <1>2, <1>3, <1>4

(***************************************************************************)
(* Set.Evaluate, a loop with an early return and a running best, decides   *)
(* as the rules state, for every list of valid rules of any length, every  *)
(* path and every capability.                                              *)
(***************************************************************************)
THEOREM EvaluateDecides ==
  ASSUME NEW rules \in Seq(Rule), \A k \in DOMAIN rules : ValidRule(rules[k]),
         NEW path, NEW capability \in Capabilities
  PROVE  Evaluate(rules, path, capability) <=> AllowedByRules(rules, path, capability)
<1>1. capability \in Grantable <=> capability # "deny"
  BY DEF Grantable
<1>2. Denied(rules, path) <=>
        \E k \in DOMAIN rules : Matches(rules[k], path) /\ rules[k].capabilities = {"deny"}
  BY DEF Denied, ValidRule
<1>3. \/ Best(rules, path) = None /\ \A k \in DOMAIN rules : ~Matches(rules[k], path)
      \/ \E k \in DOMAIN rules : Best(rules, path) = rules[k] /\ Decides(rules, path, k)
  BY BestDecides
<1>4. (Best(rules, path) # None /\ capability \in Best(rules, path).capabilities)
        <=> \E k \in DOMAIN rules : Decides(rules, path, k) /\ capability \in rules[k].capabilities
  <2>1. CASE Best(rules, path) = None /\ \A k \in DOMAIN rules : ~Matches(rules[k], path)
    BY <2>1 DEF Decides
  <2>2. ASSUME NEW k \in DOMAIN rules, Best(rules, path) = rules[k] /\ Decides(rules, path, k)
        PROVE  <1>4!1 <=> <1>4!2
    <3>1. rules[k] # None
      BY NoneRuleAssumption
    <3>2. \A l \in DOMAIN rules : Decides(rules, path, l) => l = k
      BY <2>2, OneDecides
    <3>3. QED BY <2>2, <3>1, <3>2
  <2>3. QED BY <1>3, <2>1, <2>2
<1>5. QED BY <1>1, <1>2, <1>4 DEF Evaluate, AllowedByRules

-----------------------------------------------------------------------------
(* Policies and bindings. *)

(* What a binding may be. *)
Bindings == Tenants \X Identities \X PolicyNames

(* A bind under way knows what it binds. *)
CommandsSound ==
  \A c \in Operators : ~Idle(c) => commands[c].binding \in Bindings

PolicyInv == PolicyTypeOK /\ CommandsSound /\ BindingsSound

(* There are finitely many policy names, so bindings can be counted. *)
LEMMA NamesFinite == IsFiniteSet(PolicyNames)
<1>1. DOMAIN Names = 1..Len(Names) /\ Len(Names) \in Nat
  BY NamesAssumption
<1>2. IsFiniteSet(1..Len(Names))
  BY <1>1, FS_Interval
<1>3. Names \in [1..Len(Names) -> PolicyNames] 
  BY <1>1, NamesAssumption DEF PolicyNames
<1>4. Names \in Surjection(1..Len(Names), PolicyNames)
  BY <1>1, <1>3 DEF PolicyNames, Surjection
<1>5. QED BY <1>2, <1>4, FS_Surjection

(* The counts in BindingsSound are numbers, and no more binds are past the *)
(* count than there are operator processes.                                *)
LEMMA CountsFinite ==
  ASSUME NEW t, NEW i
  PROVE  /\ IsFiniteSet(BindingsFor(t, i)) /\ Cardinality(BindingsFor(t, i)) \in Nat
         /\ IsFiniteSet(PastCount(t, i)) /\ Cardinality(PastCount(t, i)) \in Nat
         /\ Cardinality(PastCount(t, i)) <= Cardinality(Operators)
         /\ Cardinality(Operators) \in Nat
<1>1. BindingsFor(t, i) \subseteq PolicyNames /\ PastCount(t, i) \subseteq Operators
  BY DEF BindingsFor, PastCount
<1>2. QED BY <1>1, NamesFinite, OperatorsAssumption, FS_Subset, FS_CardinalityType

(* An empty database satisfies the invariant of the policies. *)
LEMMA PolicyInitially == PolicyInit => PolicyInv
<1> SUFFICES ASSUME PolicyInit PROVE PolicyInv
  OBVIOUS
<1>1. PolicyTypeOK /\ CommandsSound
  BY DEF PolicyInit, PolicyTypeOK, Command, IdleCommand, CommandsSound, Idle
<1>2. \A t, i : BindingsFor(t, i) = {} /\ PastCount(t, i) = {}
  BY DEF PolicyInit, BindingsFor, PastCount, IdleCommand
<1>3. Cardinality({}) = 0 /\ Cardinality(Operators) \in Nat
  BY FS_EmptySet, OperatorsAssumption, FS_CardinalityType
<1>4. 0 + 0 < MaxBound + Cardinality(Operators)
  BY <1>3, MaxBoundAssumption
<1>5. \A t, i : Cardinality(BindingsFor(t, i)) + Cardinality(PastCount(t, i)) = 0 + 0
  BY <1>2, <1>3
<1>6. BindingsSound
  BY <1>4, <1>5 DEF BindingsSound, PolicyInit
<1>7. QED BY <1>1, <1>6 DEF PolicyInv

(* Every operator command keeps the types and leaves each bind with what   *)
(* it binds.                                                               *)
LEMMA PolicyTypes ==
  ASSUME PolicyTypeOK, CommandsSound, NEW c \in Operators, PolicyStep(c)
  PROVE  PolicyTypeOK' /\ CommandsSound'
<1> USE DEF PolicyTypeOK, CommandsSound, Command, IdleCommand, Bindings, Idle
<1>1. ASSUME NEW t \in Tenants, NEW n \in PolicyNames, NEW d \in Documents, Put(c, t, n, d)
      PROVE  PolicyTypeOK' /\ CommandsSound'
  BY <1>1 DEF Put, Stored
<1>2. ASSUME NEW t \in Tenants, NEW n \in PolicyNames, Delete(c, t, n)
      PROVE  PolicyTypeOK' /\ CommandsSound'
  BY <1>2 DEF Delete
<1>3. ASSUME NEW t \in Tenants, NEW i \in Identities, NEW n \in PolicyNames, BindGet(c, t, i, n)
      PROVE  PolicyTypeOK' /\ CommandsSound'
  BY <1>3 DEF BindGet
<1>4. ASSUME NEW t \in Tenants, NEW i \in Identities, NEW n \in PolicyNames, Unbind(c, t, i, n)
      PROVE  PolicyTypeOK' /\ CommandsSound'
  BY <1>4 DEF Unbind
<1>5. CASE BindCount(c)
  BY <1>5 DEF BindCount
<1>6. CASE BindInsert(c)
  BY <1>6 DEF BindInsert
<1>7. CASE Abandon(c)
  BY <1>7 DEF Abandon
<1>8. QED BY <1>1, <1>2, <1>3, <1>4, <1>5, <1>6, <1>7 DEF PolicyStep

(* What BindingsSound says of one identity in one tenant. *)
WithinLimit(t, i) ==
  Cardinality(BindingsFor(t, i)) + Cardinality(PastCount(t, i)) < MaxBound + Cardinality(Operators)

(* A step that adds no binding and lets no bind past the count keeps the   *)
(* limit.                                                                  *)
LEMMA FewerKeepLimit ==
  ASSUME NEW t, NEW i, WithinLimit(t, i),
         BindingsFor(t, i)' \subseteq BindingsFor(t, i),
         PastCount(t, i)' \subseteq PastCount(t, i)
  PROVE  WithinLimit(t, i)'
<1>1. /\ Cardinality(BindingsFor(t, i)') \in Nat /\ Cardinality(PastCount(t, i)') \in Nat
      /\ Cardinality(BindingsFor(t, i)') <= Cardinality(BindingsFor(t, i))
      /\ Cardinality(PastCount(t, i)') <= Cardinality(PastCount(t, i))
  BY CountsFinite, FS_Subset, FS_CardinalityType
<1>2. Cardinality(BindingsFor(t, i)') + Cardinality(PastCount(t, i)')
        < MaxBound + Cardinality(Operators)
  BY <1>1, CountsFinite, MaxBoundAssumption DEF WithinLimit
<1>3. QED BY <1>2 DEF WithinLimit

(* Every operator command keeps the bindings sound. The count of Bind lets *)
(* one more pass only while there is room, when all the processes together *)
(* are within the limit; the insert adds one binding and leaves one fewer  *)
(* past the count; a deleted policy takes its bindings along.              *)
LEMMA BindingsStep ==
  ASSUME PolicyInv, NEW c \in Operators, PolicyStep(c)
  PROVE  BindingsSound'
<1> USE DEF PolicyInv
<1>before. /\ PolicyTypeOK /\ CommandsSound /\ PolicyTypeOK' /\ CommandsSound'
           /\ \A b \in bindings : Defined(b[1], b[3])
           /\ \A t \in Tenants, i \in Identities : WithinLimit(t, i)
  BY PolicyTypes DEF BindingsSound, WithinLimit
<1>goal. SUFFICES /\ \A b \in bindings' : Defined(b[1], b[3])'
                  /\ \A t \in Tenants, i \in Identities : WithinLimit(t, i)'
  BY DEF BindingsSound, WithinLimit
<1>1. ASSUME NEW t \in Tenants, NEW n \in PolicyNames, NEW d \in Documents, Put(c, t, n, d)
      PROVE  <1>goal!1
  <2>1. \A b \in bindings' : Defined(b[1], b[3])'
    BY <1>before, <1>1, DocumentsAssumption DEF Put, Defined, PolicyTypeOK
  <2>2. \A u, i : BindingsFor(u, i)' = BindingsFor(u, i) /\ PastCount(u, i)' = PastCount(u, i)
    BY <1>1 DEF Put, BindingsFor, PastCount
  <2>3. QED BY <1>before, <2>1, <2>2, FewerKeepLimit
<1>2. ASSUME NEW t \in Tenants, NEW n \in PolicyNames, Delete(c, t, n)
      PROVE  <1>goal!1
  <2>1. ASSUME NEW b \in bindings' PROVE Defined(b[1], b[3])'
    <3>1. b \in bindings /\ ~(b[1] = t /\ b[3] = n) /\ b \in Bindings
      BY <1>2, <1>before DEF Delete, PolicyTypeOK, Bindings
    <3>2. /\ <<b[1], b[3]>> \in Tenants \X PolicyNames /\ <<b[1], b[3]>> # <<t, n>>
      BY <3>1 DEF Bindings
    <3>3. definitions'[<<b[1], b[3]>>] = definitions[<<b[1], b[3]>>]
      BY <1>2, <1>before, <3>2 DEF Delete, PolicyTypeOK
    <3>4. QED BY <1>before, <3>1, <3>3 DEF Defined
  <2>2. \A u, i : BindingsFor(u, i)' \subseteq BindingsFor(u, i) /\ PastCount(u, i)' = PastCount(u, i)
    BY <1>2 DEF Delete, BindingsFor, PastCount
  <2>3. QED BY <1>before, <2>1, <2>2, FewerKeepLimit
<1>3. ASSUME NEW t \in Tenants, NEW j \in Identities, NEW n \in PolicyNames, BindGet(c, t, j, n)
      PROVE  <1>goal!1
  <2>1. \A b \in bindings' : Defined(b[1], b[3])'
    BY <1>before, <1>3 DEF BindGet, Defined
  <2>2. \A u, i : BindingsFor(u, i)' = BindingsFor(u, i) /\ PastCount(u, i)' \subseteq PastCount(u, i)
    BY <1>before, <1>3 DEF BindGet, BindingsFor, PastCount, PolicyTypeOK, Command
  <2>3. QED BY <1>before, <2>1, <2>2, FewerKeepLimit
<1>4. ASSUME NEW t \in Tenants, NEW j \in Identities, NEW n \in PolicyNames, Unbind(c, t, j, n)
      PROVE  <1>goal!1
  <2>1. \A b \in bindings' : Defined(b[1], b[3])'
    BY <1>before, <1>4 DEF Unbind, Defined
  <2>2. \A u, i : BindingsFor(u, i)' \subseteq BindingsFor(u, i) /\ PastCount(u, i)' = PastCount(u, i)
    BY <1>before, <1>4 DEF Unbind, BindingsFor, PastCount
  <2>3. QED BY <1>before, <2>1, <2>2, FewerKeepLimit
<1>5. CASE BindCount(c)
  <2>1. \A b \in bindings' : Defined(b[1], b[3])'
    BY <1>before, <1>5 DEF BindCount, Defined
  <2>2. ASSUME NEW t \in Tenants, NEW i \in Identities PROVE WithinLimit(t, i)'
    <3>1. BindingsFor(t, i)' = BindingsFor(t, i)
      BY <1>5 DEF BindCount, BindingsFor
    <3>2. CASE Room(t, i) 
      <4>1. PastCount(t, i)' \in SUBSET Operators
        BY DEF PastCount
      <4>2. /\ Cardinality(PastCount(t, i)') \in Nat
            /\ Cardinality(PastCount(t, i)') <= Cardinality(Operators)
        BY <4>1, OperatorsAssumption, FS_Subset, FS_CardinalityType
      <4>3. Cardinality(BindingsFor(t, i)) < MaxBound
        BY <3>2 DEF Room
      <4>4. Cardinality(BindingsFor(t, i)) + Cardinality(PastCount(t, i)')
              < MaxBound + Cardinality(Operators)
        BY <4>2, <4>3, CountsFinite, MaxBoundAssumption
      <4>5. QED BY <3>1, <4>4 DEF WithinLimit
    <3>3. CASE ~Room(t, i)
      <4>1. PastCount(t, i)' \subseteq PastCount(t, i)
        <5>1. ASSUME NEW d \in PastCount(t, i)' PROVE d \in PastCount(t, i)
          <6>1. d \in Operators /\ commands'[d].step = "counted"
                /\ commands'[d].binding[1] = t /\ commands'[d].binding[2] = i
            BY DEF PastCount
          <6>2. CASE d = c
            <7>1. CASE Room(commands[c].binding[1], commands[c].binding[2])
              <8>1. commands'[c].binding = commands[c].binding
                BY <7>1, <1>5, <1>before DEF BindCount, PolicyTypeOK, Command
              <8>2. QED BY <8>1, <7>1, <6>1, <6>2, <3>3
            <7>2. CASE ~Room(commands[c].binding[1], commands[c].binding[2])
              <8>1. commands'[c].step = "idle"
                BY <7>2, <1>5, <1>before DEF BindCount, PolicyTypeOK, IdleCommand
              <8>2. QED BY <8>1, <6>1, <6>2
            <7>3. QED BY <7>1, <7>2
          <6>3. CASE d # c
            <7>1. commands'[d] = commands[d]
              BY <6>3, <6>1, <1>5, <1>before DEF BindCount, PolicyTypeOK
            <7>2. QED BY <6>1, <7>1 DEF PastCount
          <6>4. QED BY <6>2, <6>3
        <5>2. QED BY <5>1
      <4>2. QED BY <3>1, <4>1, <1>before, FewerKeepLimit
    <3>4. QED BY <3>2, <3>3
  <2>3. QED BY <2>1, <2>2
<1>6. CASE BindInsert(c)
  <2> DEFINE b == commands[c].binding
  <2>1. /\ commands[c].step = "counted" /\ b \in Bindings
        /\ bindings' = IF Defined(b[1], b[3]) THEN bindings \cup {b} ELSE bindings
        /\ commands' = [commands EXCEPT ![c] = IdleCommand]
        /\ definitions' = definitions
    BY <1>6, <1>before DEF BindInsert, CommandsSound, Idle
  <2> HIDE DEF b
  <2>2. \A e \in bindings' : Defined(e[1], e[3])'
    BY <1>before, <2>1 DEF Defined
  <2>3. ASSUME NEW t \in Tenants, NEW i \in Identities PROVE WithinLimit(t, i)'
    <3>1. CASE <<t, i>> = <<b[1], b[2]>>
      <4>1. c \in PastCount(t, i) /\ PastCount(t, i)' = PastCount(t, i) \ {c}
        BY <2>1, <3>1, <1>before DEF PastCount, PolicyTypeOK, IdleCommand, b
      <4>2. BindingsFor(t, i)' \in SUBSET (BindingsFor(t, i) \cup {b[3]})
        BY <2>1, <3>1 DEF BindingsFor, Bindings
      <4>3. Cardinality(PastCount(t, i)') = Cardinality(PastCount(t, i)) - 1
        BY <4>1, CountsFinite, FS_RemoveElement
      <4>4. /\ IsFiniteSet(BindingsFor(t, i) \cup {b[3]})
            /\ Cardinality(BindingsFor(t, i) \cup {b[3]}) <= Cardinality(BindingsFor(t, i)) + 1
            /\ Cardinality(BindingsFor(t, i) \cup {b[3]}) \in Nat
        <5>1. IsFiniteSet(BindingsFor(t, i)) /\ Cardinality(BindingsFor(t, i)) \in Nat
          BY CountsFinite
        <5>2. /\ IsFiniteSet(BindingsFor(t, i) \cup {b[3]})
              /\ \/ Cardinality(BindingsFor(t, i) \cup {b[3]}) = Cardinality(BindingsFor(t, i))
                 \/ Cardinality(BindingsFor(t, i) \cup {b[3]}) = Cardinality(BindingsFor(t, i)) + 1
          BY <5>1, FS_AddElement
        <5>3. QED BY <5>1, <5>2, SMT
      <4>5. /\ Cardinality(BindingsFor(t, i)') <= Cardinality(BindingsFor(t, i) \cup {b[3]})
            /\ Cardinality(BindingsFor(t, i)') \in Nat
        BY <4>2, <4>4, FS_Subset, FS_CardinalityType
      <4>6. Cardinality(BindingsFor(t, i)') + Cardinality(PastCount(t, i)')
              < MaxBound + Cardinality(Operators)
        BY <4>3, <4>4, <4>5, <1>before, CountsFinite, MaxBoundAssumption DEF WithinLimit
      <4>7. QED BY <4>6 DEF WithinLimit
    <3>2. CASE <<t, i>> # <<b[1], b[2]>>
      <4>1. PastCount(t, i)' \subseteq PastCount(t, i)
        BY <2>1, <1>before DEF PastCount, PolicyTypeOK, IdleCommand
      <4>2. BindingsFor(t, i)' = BindingsFor(t, i)
        BY <2>1, <3>2 DEF BindingsFor, Bindings
      <4>3. QED BY <4>1, <4>2, <1>before, FewerKeepLimit
    <3>3. QED BY <3>1, <3>2
  <2>4. QED BY <2>2, <2>3
<1>7. CASE Abandon(c)
  <2>1. \A b \in bindings' : Defined(b[1], b[3])'
    BY <1>before, <1>7 DEF Abandon, Defined
  <2>2. \A u, i : BindingsFor(u, i)' = BindingsFor(u, i) /\ PastCount(u, i)' \subseteq PastCount(u, i)
    BY <1>before, <1>7 DEF Abandon, BindingsFor, PastCount, PolicyTypeOK, IdleCommand
  <2>3. QED BY <1>before, <2>1, <2>2, FewerKeepLimit
<1>8. QED BY <1>1, <1>2, <1>3, <1>4, <1>5, <1>6, <1>7 DEF PolicyStep

-----------------------------------------------------------------------------
(* What a value and a chain are made of. *)

(* Candidate k of the inheritance chain is the last segment under the      *)
(* prefix k segments shorter.                                              *)
LEMMA ChainAt ==
  ASSUME NEW path \in Paths
  PROVE  /\ Len(path) \in Nat \ {0} /\ path \in Seq(STRING)
         /\ InheritanceChain(path) \in Seq(Paths) /\ Len(InheritanceChain(path)) = Len(path)
         /\ \A k \in 1..Len(path) :
              LET candidate == InheritanceChain(path)[k]
              IN  /\ candidate \in Paths
                  /\ Len(candidate) = Len(path) - k + 1
                  /\ Last(candidate) = Last(path)
                  /\ Front(candidate) = SubSeq(path, 1, Len(path) - k)
<1> DEFINE n == Len(path)
           C == InheritanceChain(path)
<1>1. n \in Nat /\ n # 0 /\ path \in Seq(STRING) /\ Last(path) \in STRING
  BY PathsAssumption DEF Last
<1>2. C = [k \in 1..n |-> Append(SubSeq(path, 1, n - k), Last(path))]
  BY DEF InheritanceChain
<1> HIDE DEF C, n
<1>3. ASSUME NEW k \in 1..n
      PROVE  C[k] \in Paths /\ C[k] = Append(SubSeq(path, 1, n - k), Last(path))
  <2>1. C[k] = Append(SubSeq(path, 1, n - k), Last(path))
    BY <1>2
  <2>2. n - k + 1 \in 1..n /\ (n - k + 1) - 1 = n - k
    BY <1>1
  <2>3. Append(SubSeq(path, 1, (n - k + 1) - 1), Last(path)) \in Paths
    BY <2>2, PathsAssumption DEF n
  <2>4. QED BY <2>1, <2>2, <2>3
<1>4. ASSUME NEW k \in 1..n
      PROVE  /\ Len(C[k]) = n - k + 1 /\ Last(C[k]) = Last(path)
             /\ Front(C[k]) = SubSeq(path, 1, n - k)
  <2> DEFINE p == SubSeq(path, 1, n - k)
  <2>1. n - k \in Nat /\ n - k <= n /\ n - k \in 0..n
    BY <1>1
  <2>2. p \in Seq(STRING) /\ Len(p) = n - k
    BY <1>1, <2>1 DEF n
  <2> HIDE DEF p
  <2>3. /\ Append(p, Last(path)) \in Seq(STRING)
        /\ Len(Append(p, Last(path))) = n - k + 1
        /\ Append(p, Last(path))[n - k + 1] = Last(path)
    BY <1>1, <2>1, <2>2
  <2>4. SubSeq(Append(p, Last(path)), 1, n - k) = p
    BY <1>1, <2>1, <2>2
  <2>5. C[k] = Append(p, Last(path))
    BY <1>3 DEF p
  <2>6. (n - k + 1) - 1 = n - k
    BY <2>1
  <2>7. QED BY <2>3, <2>4, <2>5, <2>6 DEF Last, Front, p
<1>5. C \in Seq(Paths) /\ Len(C) = n
  <2>1. C \in [1..n -> Paths]
    BY <1>2, <1>3
  <2>2. QED BY <1>1, <2>1
<1>6. QED BY <1>1, <1>3, <1>4, <1>5 DEF C, n

(* strings.ReplaceAll puts only the plaintext into a value. *)
LEMMA FilledParts ==
  ASSUME NEW value \in Seq(Part), NEW reference, NEW plaintext \in Seq(Part)
  PROVE  /\ Substitute(value, reference, plaintext) \in Seq(Part)
         /\ ToSet(Substitute(value, reference, plaintext))
              \subseteq ToSet(value) \cup ToSet(plaintext)
<1> DEFINE s == [k \in DOMAIN value |-> IF value[k] = reference THEN plaintext ELSE <<value[k]>>]
<1>1. DOMAIN value = 1..Len(value) /\ Len(value) \in Nat
  OBVIOUS
<1>2. ASSUME NEW k \in DOMAIN value
      PROVE  s[k] \in Seq(Part) /\ ToSet(s[k]) \subseteq ToSet(value) \cup ToSet(plaintext)
  <2>1. value[k] \in Part /\ value[k] \in ToSet(value)
    BY DEF ToSet
  <2>2. <<value[k]>> \in Seq(Part) /\ ToSet(<<value[k]>>) = {value[k]}
    BY <2>1 DEF ToSet
  <2>3. CASE value[k] = reference
    BY <2>3
  <2>4. CASE value[k] # reference
    BY <2>4, <2>1, <2>2
  <2>5. QED BY <2>3, <2>4
<1>3. s \in Seq(Seq(Part)) /\ DOMAIN s = DOMAIN value
  <2>1. s \in [1..Len(value) -> Seq(Part)]
    BY <1>1, <1>2
  <2>2. QED BY <1>1, <2>1
<1>4. Substitute(value, reference, plaintext) = FlattenSeq(s)
  BY DEF Substitute
<1> HIDE DEF s
<1>5. FlattenSeq(s) \in Seq(Part) /\ ToSet(FlattenSeq(s)) = UNION {ToSet(s[j]) : j \in DOMAIN s}
  BY <1>3, PartsOfFlattening
<1>6. UNION {ToSet(s[j]) : j \in DOMAIN s} \subseteq ToSet(value) \cup ToSet(plaintext)
  BY <1>2, <1>3
<1>7. QED BY <1>4, <1>5, <1>6

SecretReferences == {Reference(s) : s \in DOMAIN Secrets}

(* What a stored value refers to are secrets. *)
LEMMA ReferencesOfWritten ==
  ASSUME NEW value \in Seq(Written)
  PROVE  References(value) \in Seq(SecretReferences)
<1> DEFINE s == [k \in DOMAIN value |-> IF value[k][1] = "reference" THEN <<value[k]>> ELSE <<>>]
<1>1. DOMAIN value = 1..Len(value) /\ Len(value) \in Nat
  OBVIOUS
<1>2. ASSUME NEW k \in DOMAIN value PROVE s[k] \in Seq(SecretReferences)
  <2>1. value[k] \in Written
    OBVIOUS
  <2>2. CASE value[k][1] = "reference"
    <3>1. value[k] # Text
      BY <2>2 DEF Text
    <3>2. value[k] \in SecretReferences
      BY <2>1, <3>1 DEF Written, SecretReferences
    <3>3. QED BY <2>2, <3>2
  <2>3. CASE value[k][1] # "reference"
    BY <2>3
  <2>4. QED BY <2>2, <2>3
<1>3. s \in Seq(Seq(SecretReferences))
  <2>1. s \in [1..Len(value) -> Seq(SecretReferences)]
    BY <1>1, <1>2
  <2>2. QED BY <1>1, <2>1
<1>4. References(value) = FlattenSeq(s)
  BY DEF References
<1> HIDE DEF s
<1>5. QED BY <1>3, <1>4, PartsOfFlattening

-----------------------------------------------------------------------------
(* Requests. *)

(* The caller is in the tenant and was allowed what it asks for. *)
Entitled(q, al) ==
  /\ q.tenant = Home[q.identity]
  /\ <<Subject(q), q.op>> \in al

(* The caller was allowed each secret whose text the value holds. *)
TextEntitled(q, al) ==
  \A s \in DOMAIN Secrets :
    TextOf(s) \in ToSet(q.value) => <<s, "read">> \in al /\ s[2] = Home[q.identity]

(* A read that resolves references has one in hand, and reveals it only    *)
(* when the caller was allowed it.                                         *)
Pending(q, al) ==
  /\ q.step \in {"found", "revealing"} =>
       q.op = "read" /\ q.references \in Seq(SecretReferences) /\ q.references # <<>>
  /\ q.step = "revealing" =>
       LET target == Head(q.references)[2]
       IN <<target, "read">> \in al /\ target[2] = Home[q.identity]

(* The candidates a read has left are the last of the chain, and those     *)
(* before them were absent.                                                *)
Descent(q, ab) ==
  q.op = "read" =>
    /\ q.path \in Paths
    /\ \E m \in 1..Len(q.path) :
         /\ q.chain = SubSeq(InheritanceChain(q.path), m, Len(q.path))
         /\ \A k \in 1..(m-1) : InheritanceChain(q.path)[k] \in ab

Sound(q, al, ab) ==
  q.step # "idle" =>
    Entitled(q, al) /\ TextEntitled(q, al) /\ Pending(q, al) /\ Descent(q, ab)

(* What every request under way relies on. *)
RequestsSound == \A r \in Requests : Sound(requests[r], allowed[r], absent[r])

(* What was allowed or absent since a request began stays so. *)
LEMMA SoundGrows ==
  ASSUME NEW q, NEW al, NEW ab, NEW al2, NEW ab2,
         Sound(q, al, ab), al \subseteq al2, ab \subseteq ab2
  PROVE  Sound(q, al2, ab2)
<1> SUFFICES ASSUME q.step # "idle"
             PROVE  Entitled(q, al2) /\ TextEntitled(q, al2) /\ Pending(q, al2) /\ Descent(q, ab2)
  BY DEF Sound
<1>1. Entitled(q, al) /\ TextEntitled(q, al) /\ Pending(q, al) /\ Descent(q, ab)
  BY DEF Sound
<1>2. Entitled(q, al2) /\ TextEntitled(q, al2)
  BY <1>1 DEF Entitled, TextEntitled
<1>3. Pending(q, al2)
  BY <1>1 DEF Pending
<1>4. Descent(q, ab2)
  BY <1>1 DEF Descent
<1>5. QED BY <1>2, <1>3, <1>4

(* Request r becomes q, which is as sound as what r then remembers. *)
Comes(r, q) ==
  /\ requests' = [requests EXCEPT ![r] = q]
  /\ q \in Request \cup {NoRequest}
  /\ Sound(q, allowed[r] \cup AllowedNow(q), absent[r] \cup AbsentNow(q))

(* A request that ends relies on nothing. *)
LEMMA EndComes ==
  ASSUME NEW r \in Requests, Ends(r)
  PROVE  Comes(r, NoRequest)
BY DEF Ends, Becomes, Comes, Sound, NoRequest

(* permitted: what the handler goes on with, the policies allow at that    *)
(* moment.                                                                 *)
LEMMA PermitComes ==
  ASSUME NEW r \in Requests, NEW op \in Operations, NEW i \in Identities, NEW t \in Named,
         NEW p \in PathsOf(op), Permit(r, op, i, t, p)
  PROVE  \E q : Comes(r, q)
<1> DEFINE q == [step |-> "permitted", op |-> op, identity |-> i, tenant |-> t,
                 path |-> p, chain |-> InheritanceChain(p), value |-> <<>>,
                 references |-> <<>>, listed |-> {}]
<1>2. requests' = [requests EXCEPT ![r] = q] /\ Authorize(i, t, Subject(q), op)
  BY DEF Permit, Becomes
<1>3. /\ q.step = "permitted" /\ q.op = op /\ q.identity = i /\ q.tenant = t /\ q.path = p
      /\ q.chain = InheritanceChain(p) /\ q.value = <<>> /\ q.references = <<>> /\ q.listed = {}
  OBVIOUS
<1>4. q \in Request
  <2>1. CASE p \in Paths
    BY <2>1, ChainAt DEF Request, ListPrefixes
  <2>2. CASE p = <<>>
    <3>1. InheritanceChain(p) \in Seq(Paths)
      BY <2>2, EmptySeq DEF InheritanceChain
    <3>2. QED BY <2>2, <3>1 DEF Request, ListPrefixes
  <2>3. QED BY <2>1, <2>2 DEF PathsOf, ListPrefixes
<1> HIDE DEF q
<1>5. Entitled(q, allowed[r] \cup AllowedNow(q))
  <2>1. <<Subject(q), op>> \in Needs(q)
    BY <1>3 DEF Needs
  <2>2. <<Subject(q), op>> \in AllowedNow(q)
    BY <1>2, <1>3, <2>1 DEF AllowedNow
  <2>3. Home[i] = t
    BY <1>2 DEF Authorize
  <2>4. QED BY <1>3, <2>2, <2>3 DEF Entitled
<1>6. TextEntitled(q, allowed[r] \cup AllowedNow(q))
  BY <1>3 DEF TextEntitled, ToSet
<1>7. Pending(q, allowed[r] \cup AllowedNow(q))
  BY <1>3 DEF Pending
<1>8. Descent(q, absent[r] \cup AbsentNow(q))
  <2> SUFFICES ASSUME op = "read"
               PROVE  Descent(q, absent[r] \cup AbsentNow(q))
    BY <1>3 DEF Descent
  <2>0. p \in Paths
    BY DEF PathsOf
  <2>1. 1 \in 1..Len(p) /\ 1..(1-1) = {}
    BY <2>0, ChainAt
  <2>2. InheritanceChain(p) = SubSeq(InheritanceChain(p), 1, Len(p))
    BY <2>0, ChainAt, SubSeqFull
  <2>3. QED BY <1>3, <2>0, <2>1, <2>2 DEF Descent
<1>9. QED BY <1>2, <1>4, <1>5, <1>6, <1>7, <1>8 DEF Comes, Sound

(* The text of a secret is nothing a client wrote, and is of one secret. *)
LEMMA TextIsNotWritten ==
  ASSUME NEW s
  PROVE  TextOf(s) \notin Written /\ \A u : TextOf(s) = TextOf(u) => s = u
BY DEF TextOf, Written, Text, Reference

(* What is in a sequence is in the set it is a sequence over. *)
LEMMA WrittenParts ==
  ASSUME NEW S, NEW value \in Seq(S)
  PROVE  ToSet(value) \subseteq S
BY DEF ToSet

(* Store.Resolve: a value that is found holds no text of a secret yet, and *)
(* a candidate that is passed over is absent at that moment.               *)
LEMMA ReadCandidateComes ==
  ASSUME TypeOK, RequestsSound, NEW r \in Requests, ReadCandidate(r)
  PROVE  \E q : Comes(r, q)
<1> DEFINE q == requests[r]
           from == Head(q.chain)
           found == parameters[<<q.tenant, from>>]
           path == q.path
           n == Len(path)
           C == InheritanceChain(path)
<1>1. q \in Request /\ q.step = "permitted" /\ q.op = "read"
  BY DEF ReadCandidate, TypeOK, NoRequest
<1>2. Entitled(q, allowed[r]) /\ TextEntitled(q, allowed[r]) /\ Descent(q, absent[r])
  BY <1>1 DEF RequestsSound, Sound
<1>3. /\ q.tenant \in Named /\ path \in Paths /\ q.identity \in Identities
      /\ q.chain \in Seq(Paths)
  BY <1>1, <1>2 DEF Request, Descent
<1>4. /\ n \in Nat \ {0} /\ C \in Seq(Paths) /\ Len(C) = n
      /\ \A k \in 1..n : C[k] \in Paths /\ Len(C[k]) = n - k + 1 /\ Last(C[k]) = Last(path)
  BY <1>3, ChainAt
<1> HIDE DEF C
<1>5. PICK m \in 1..n : q.chain = SubSeq(C, m, n) /\ \A k \in 1..(m-1) : C[k] \in absent[r]
  BY <1>1, <1>2 DEF Descent, C
<1>6. from = C[m] /\ (Tail(q.chain) # <<>> => m < n) /\ Tail(q.chain) = SubSeq(C, m+1, n)
  BY <1>4, <1>5
<1>7. CASE found # None
  <2> DEFINE refs == References(found)
             q2 == [q EXCEPT !.step = IF refs = <<>> THEN "done" ELSE "found",
                             !.value = found, !.references = refs]
  <2>1. found \in Seq(Written)
    <3>1. parameters \in [Named \X Paths -> Values \cup {None}] /\ from \in Paths
      BY <1>4, <1>6 DEF TypeOK
    <3>2. QED BY <3>1, <1>3, <1>7, ValuesAssumption
  <2>2. refs \in Seq(SecretReferences)
    BY <2>1, ReferencesOfWritten
  <2>3. found \in Seq(Part) /\ refs \in Seq(Part)
    BY <2>1, <2>2 DEF Part, Written, SecretReferences
  <2> HIDE DEF refs, found, q
  <2>4. q2 \in Request
    BY <1>1, <2>3 DEF Request
  <2>5. /\ q2.step = IF refs = <<>> THEN "done" ELSE "found"
        /\ q2.op = q.op /\ q2.identity = q.identity /\ q2.tenant = q.tenant /\ q2.path = q.path
        /\ q2.chain = q.chain /\ q2.value = found /\ q2.references = refs
    BY <1>1 DEF Request
  <2>6. requests' = [requests EXCEPT ![r] = q2]
    BY <1>7 DEF ReadCandidate, Becomes, Resolving, q, refs, found
  <2> HIDE DEF q2
  <2>7. Entitled(q2, allowed[r])
    BY <1>2, <2>5 DEF Entitled, Subject
  <2>8. TextEntitled(q2, allowed[r])
    BY <2>1, <2>5, WrittenParts, TextIsNotWritten DEF TextEntitled
  <2>9. Pending(q2, allowed[r])
    BY <1>1, <2>2, <2>5 DEF Pending
  <2>10. Descent(q2, absent[r])
    BY <1>2, <2>5 DEF Descent
  <2>11. Sound(q2, allowed[r], absent[r])
    BY <2>7, <2>8, <2>9, <2>10 DEF Sound
  <2>12. Sound(q2, allowed[r] \cup AllowedNow(q2), absent[r] \cup AbsentNow(q2))
    BY <2>11, SoundGrows
  <2>13. QED BY <2>4, <2>6, <2>12 DEF Comes
<1>8. CASE found = None /\ Tail(q.chain) # <<>>
  <2> DEFINE q2 == [q EXCEPT !.chain = Tail(q.chain)]
  <2>1. Tail(q.chain) \in Seq(Paths)
    BY <1>3, <1>8
  <2> HIDE DEF found, q
  <2>2. q2 \in Request
    BY <1>1, <2>1 DEF Request
  <2>3. /\ q2.step = q.step /\ q2.op = q.op /\ q2.identity = q.identity /\ q2.tenant = q.tenant
        /\ q2.path = q.path /\ q2.chain = Tail(q.chain) /\ q2.value = q.value
    BY <1>1 DEF Request
  <2>4. requests' = [requests EXCEPT ![r] = q2]
    BY <1>8 DEF ReadCandidate, Becomes, q, found
  <2> HIDE DEF q2
  <2>5. Entitled(q2, allowed[r]) /\ TextEntitled(q2, allowed[r]) /\ Pending(q2, allowed[r])
    BY <1>1, <1>2, <2>3 DEF Entitled, Subject, TextEntitled, Pending
  <2>6. C[m] \in AbsentNow(q2)
    <3>1. C[m] \in Paths /\ Last(C[m]) = Last(q2.path)
      BY <1>4, <2>3
    <3>2. Len(C[m]) <= Len(q2.path)
      BY <1>4, <2>3
    <3>3. parameters[<<q2.tenant, C[m]>>] = None
      BY <1>6, <1>8, <2>3 DEF found
    <3>4. QED BY <3>1, <3>2, <3>3, <1>1, <2>3 DEF AbsentNow
  <2>7. Descent(q2, absent[r] \cup AbsentNow(q2))
    <3>0. n \in Nat /\ m \in 1..n /\ m < n
      BY <1>4, <1>6, <1>8
    <3> HIDE DEF n
    <3>1. m+1 \in 1..n /\ \A k \in 1..((m+1)-1) : k \in 1..(m-1) \/ k = m
      BY <3>0
    <3>2. \A k \in 1..((m+1)-1) : C[k] \in absent[r] \cup AbsentNow(q2)
      BY <3>1, <2>6, <1>5
    <3>3. QED BY <3>1, <3>2, <2>3, <1>3, <1>6 DEF Descent, C, n
  <2>8. /\ Entitled(q2, allowed[r] \cup AllowedNow(q2))
        /\ TextEntitled(q2, allowed[r] \cup AllowedNow(q2))
        /\ Pending(q2, allowed[r] \cup AllowedNow(q2))
    BY <1>1, <2>3, <2>5 DEF Entitled, TextEntitled, Pending
  <2>9. QED BY <2>2, <2>4, <2>7, <2>8 DEF Comes, Sound
<1>9. CASE found = None /\ Tail(q.chain) = <<>>
  <2>1. Ends(r)
    BY <1>9 DEF ReadCandidate
  <2>2. QED BY <2>1, EndComes
<1>10. QED BY <1>7, <1>8, <1>9

(* Service.Resolve goes on with a reference only when the policies allow   *)
(* the caller its target at that moment, in the tenant of the caller.      *)
LEMMA AuthorizeReferenceComes ==
  ASSUME TypeOK, RequestsSound, NEW r \in Requests, AuthorizeReference(r)
  PROVE  \E q : Comes(r, q)
<1> DEFINE q == requests[r]
           target == Head(q.references)[2]
           q2 == [q EXCEPT !.step = "revealing"]
<1>1. q \in Request /\ q.step = "found"
  BY DEF AuthorizeReference, TypeOK, NoRequest
<1>2. /\ Entitled(q, allowed[r]) /\ TextEntitled(q, allowed[r]) /\ Pending(q, allowed[r])
      /\ Descent(q, absent[r])
  BY <1>1 DEF RequestsSound, Sound
<1>3. CASE Acceptable(q.tenant, target) /\ Authorize(q.identity, q.tenant, target, "read")
           /\ requests' = [requests EXCEPT ![r] = q2]
  <2>1. q.op = "read" /\ q.references \in Seq(SecretReferences) /\ q.references # <<>>
    BY <1>1, <1>2 DEF Pending
  <2>2. Head(q.references) \in SecretReferences
    BY <2>1
  <2>3. target \in DOMAIN Secrets
    BY <2>2 DEF SecretReferences, Reference
  <2> HIDE DEF q
  <2>4. q2 \in Request
    BY <1>1 DEF Request
  <2>5. /\ q2.step = "revealing"
        /\ q2.op = q.op /\ q2.identity = q.identity /\ q2.tenant = q.tenant /\ q2.path = q.path
        /\ q2.chain = q.chain /\ q2.value = q.value /\ q2.references = q.references
    BY <1>1 DEF Request
  <2> HIDE DEF q2
  <2>6. <<target, "read">> \in AllowedNow(q2)
    <3>1. <<target, "read">> \in Needs(q2)
      BY <2>1, <2>3, <2>5 DEF Needs
    <3>2. QED BY <3>1, <1>3, <2>5 DEF AllowedNow
  <2>7. target[2] = Home[q.identity]
    BY <1>2, <1>3 DEF Acceptable, Entitled
  <2>8. /\ Entitled(q2, allowed[r] \cup AllowedNow(q2))
        /\ TextEntitled(q2, allowed[r] \cup AllowedNow(q2))
    BY <1>2, <2>5 DEF Entitled, TextEntitled, Subject
  <2>9. Pending(q2, allowed[r] \cup AllowedNow(q2))
    BY <2>1, <2>5, <2>6, <2>7 DEF Pending
  <2>10. Descent(q2, absent[r] \cup AbsentNow(q2))
    BY <1>2, <2>5 DEF Descent
  <2>11. QED BY <1>3, <2>4, <2>8, <2>9, <2>10 DEF Comes, Sound
<1>4. CASE Ends(r)
  BY <1>4, EndComes
<1>5. QED BY <1>3, <1>4 DEF AuthorizeReference, Becomes

(* Service.Resolve: a replacement brings in the text of the secret just    *)
(* authorised and of no other, although that text may hold references.     *)
LEMMA RevealComes ==
  ASSUME TypeOK, RequestsSound, NEW r \in Requests, Reveal(r)
  PROVE  \E q : Comes(r, q)
<1> DEFINE q == requests[r]
           reference == Head(q.references)
           target == reference[2]
           plaintext == Secrets[target]
           value == Substitute(q.value, reference, plaintext)
           rest == Tail(q.references)
           q2 == [q EXCEPT !.step = IF rest = <<>> THEN "done" ELSE "found",
                           !.value = value, !.references = rest]
<1>1. q \in Request /\ q.step = "revealing"
  BY DEF Reveal, TypeOK, NoRequest
<1>2. /\ Entitled(q, allowed[r]) /\ TextEntitled(q, allowed[r]) /\ Pending(q, allowed[r])
      /\ Descent(q, absent[r])
  BY <1>1 DEF RequestsSound, Sound
<1>3. CASE plaintext # None
  <2>1. /\ q.op = "read" /\ q.references \in Seq(SecretReferences) /\ q.references # <<>>
        /\ <<target, "read">> \in allowed[r] /\ target[2] = Home[q.identity]
    BY <1>1, <1>2 DEF Pending
  <2>2. reference \in SecretReferences /\ rest \in Seq(SecretReferences)
    BY <2>1
  <2>3. target \in DOMAIN Secrets
    BY <2>2 DEF SecretReferences, Reference
  <2>4. plaintext \in Seq(Written \cup {TextOf(target)})
    BY <1>3, <2>3, SecretsAssumption
  <2>5. q.value \in Seq(Part) /\ plaintext \in Seq(Part) /\ rest \in Seq(Part)
    <3>1. q.value \in Seq(Part)
      BY <1>1 DEF Request
    <3>2. Written \cup {TextOf(target)} \subseteq Part /\ SecretReferences \subseteq Part
      BY <2>3 DEF Part, Written, SecretReferences
    <3> HIDE DEF q, plaintext, rest, target, reference
    <3>3. QED BY <3>1, <3>2, <2>2, <2>4, SeqMonotonic
  <2>6. value \in Seq(Part) /\ ToSet(value) \subseteq ToSet(q.value) \cup ToSet(plaintext)
    BY <2>5, FilledParts
  <2>7. requests' = [requests EXCEPT ![r] = q2]
    BY <1>3 DEF Reveal, Becomes, Resolving
  <2> HIDE DEF q, value, rest, target, plaintext, reference
  <2>8. q2 \in Request
    BY <1>1, <2>5, <2>6 DEF Request
  <2>9. /\ q2.step = IF rest = <<>> THEN "done" ELSE "found"
        /\ q2.op = q.op /\ q2.identity = q.identity /\ q2.tenant = q.tenant /\ q2.path = q.path
        /\ q2.chain = q.chain /\ q2.value = value /\ q2.references = rest
    BY <1>1 DEF Request
  <2> HIDE DEF q2
  <2>10. Entitled(q2, allowed[r])
    BY <1>2, <2>9 DEF Entitled, Subject
  <2>11. TextEntitled(q2, allowed[r])
    <3>1. ASSUME NEW s \in DOMAIN Secrets, TextOf(s) \in ToSet(value)
          PROVE  <<s, "read">> \in allowed[r] /\ s[2] = Home[q.identity]
      <4>1. CASE TextOf(s) \in ToSet(q.value)
        BY <4>1, <1>2 DEF TextEntitled
      <4>2. CASE TextOf(s) \in ToSet(plaintext)
        <5>1. TextOf(s) \in Written \cup {TextOf(target)}
          BY <4>2, <2>4, WrittenParts
        <5>2. s = target
          BY <5>1, TextIsNotWritten
        <5>3. QED BY <5>2, <2>1
      <4>3. QED BY <3>1, <4>1, <4>2, <2>6
    <3>2. QED BY <3>1, <2>9 DEF TextEntitled
  <2>12. Pending(q2, allowed[r])
    BY <2>1, <2>2, <2>9 DEF Pending
  <2>13. Descent(q2, absent[r])
    BY <1>2, <2>9 DEF Descent
  <2>14. Sound(q2, allowed[r], absent[r])
    BY <2>10, <2>11, <2>12, <2>13 DEF Sound
  <2>15. Sound(q2, allowed[r] \cup AllowedNow(q2), absent[r] \cup AbsentNow(q2))
    BY <2>14, SoundGrows
  <2>16. QED BY <2>7, <2>8, <2>15 DEF Comes
<1>4. CASE plaintext = None
  <2>1. Ends(r)
    BY <1>4 DEF Reveal
  <2>2. QED BY <2>1, EndComes
<1>5. QED BY <1>3, <1>4

(* A request that is done is about what it was about. *)
Finished(q, done) ==
  /\ done.step = "done"
  /\ done.op = q.op /\ done.identity = q.identity /\ done.tenant = q.tenant
  /\ done.path = q.path /\ done.chain = q.chain /\ done.value = q.value

(* A handler that is done with its statement keeps what it was permitted   *)
(* on.                                                                     *)
LEMMA DoneComes ==
  ASSUME TypeOK, RequestsSound, NEW r \in Requests, requests[r].step = "permitted",
         NEW done \in Request, Finished(requests[r], done),
         requests' = [requests EXCEPT ![r] = done]
  PROVE  \E q : Comes(r, q)
<1> DEFINE q == requests[r]
<1>1. Entitled(q, allowed[r]) /\ TextEntitled(q, allowed[r]) /\ Descent(q, absent[r])
  BY DEF RequestsSound, Sound
<1> HIDE DEF q
<1>2. Entitled(done, allowed[r]) /\ TextEntitled(done, allowed[r]) /\ Pending(done, allowed[r])
  BY <1>1 DEF Finished, Entitled, Subject, TextEntitled, Pending, q
<1>3. Descent(done, absent[r])
  BY <1>1 DEF Finished, Descent, q
<1>4. Sound(done, allowed[r], absent[r])
  BY <1>2, <1>3 DEF Sound
<1>5. Sound(done, allowed[r] \cup AllowedNow(done), absent[r] \cup AbsentNow(done))
  BY <1>4, SoundGrows
<1>6. QED BY <1>5 DEF Comes

(* Each step of a handler leaves its request sound and the parameters      *)
(* typed.                                                                  *)
LEMMA HandleComes ==
  ASSUME TypeOK, RequestsSound, NEW r \in Requests, Handle(r)
  PROVE  /\ \E q : Comes(r, q)
         /\ parameters' \in [Named \X Paths -> Values \cup {None}]
         /\ writes' \in 0..MaxWrites
<1> DEFINE q == requests[r]
<1>before. /\ parameters \in [Named \X Paths -> Values \cup {None}] /\ writes \in 0..MaxWrites
           /\ MaxWrites \in Nat
           /\ q.step = "permitted" => q \in Request
  BY ReferencesAssumption DEF TypeOK, NoRequest
<1>same. ASSUME UNCHANGED <<parameters, writes>>
         PROVE  parameters' \in [Named \X Paths -> Values \cup {None}] /\ writes' \in 0..MaxWrites
  BY <1>same, <1>before
<1>1. ASSUME NEW op \in Operations, NEW i \in Identities, NEW t \in Named, NEW p \in PathsOf(op),
             Permit(r, op, i, t, p)
      PROVE  (\E d : Comes(r, d)) /\ UNCHANGED <<parameters, writes>>
  BY <1>1, PermitComes DEF Permit
<1>2. CASE ReadCandidate(r)
  BY <1>2, <1>same, ReadCandidateComes DEF ReadCandidate
<1>3. CASE AuthorizeReference(r)
  BY <1>3, <1>same, AuthorizeReferenceComes DEF AuthorizeReference
<1>4. CASE Reveal(r)
  BY <1>4, <1>same, RevealComes DEF Reveal
<1>done. ASSUME q \in Request
         PROVE  LET done == [q EXCEPT !.step = "done"]
                IN  done \in Request /\ Finished(q, done)
  <2> HIDE DEF q
  <2> QED BY <1>done DEF Request, Finished
<1>5. ASSUME NEW v \in Values, Write(r, v)
      PROVE  /\ \E d : Comes(r, d)
             /\ parameters' \in [Named \X Paths -> Values \cup {None}] /\ writes' \in 0..MaxWrites
  <2>1. /\ q \in Request /\ q.step = "permitted" /\ writes < MaxWrites
        /\ requests' = [requests EXCEPT ![r] = [q EXCEPT !.step = "done"]]
        /\ parameters' = [parameters EXCEPT ![<<q.tenant, q.path>>] = v] /\ writes' = writes + 1
    BY <1>before, <1>5 DEF Write, Becomes
  <2>2. \E d : Comes(r, d)
    BY <2>1, <1>done, DoneComes
  <2>3. parameters' \in [Named \X Paths -> Values \cup {None}]
    BY <2>1, <1>before, <1>5
  <2>4. writes' \in 0..MaxWrites
    BY <2>1, <1>before
  <2>5. QED BY <2>2, <2>3, <2>4
<1>6. CASE DeleteParameter(r)
  <2>1. CASE Ends(r) /\ UNCHANGED <<parameters, writes>>
    BY <2>1, <1>same, EndComes
  <2>2. CASE /\ q \in Request /\ q.step = "permitted" /\ writes < MaxWrites
             /\ requests' = [requests EXCEPT ![r] = [q EXCEPT !.step = "done"]]
             /\ parameters' = [parameters EXCEPT ![<<q.tenant, q.path>>] = None]
             /\ writes' = writes + 1
    <3>1. \E d : Comes(r, d)
      BY <2>2, <1>done, DoneComes
    <3>2. parameters' \in [Named \X Paths -> Values \cup {None}]
      BY <2>2, <1>before
    <3>3. writes' \in 0..MaxWrites
      BY <2>2, <1>before
    <3>4. QED BY <3>1, <3>2, <3>3
  <2>3. QED BY <1>before, <1>6, <2>1, <2>2 DEF DeleteParameter, Becomes
<1>7. CASE Listing(r)
  <2> DEFINE under == {p \in Paths : IsPrefix(q.path, p) /\ parameters[<<q.tenant, p>>] # None}
             done == [q EXCEPT !.step = "done", !.listed = under]
  <2>1. /\ q \in Request /\ q.step = "permitted" /\ requests' = [requests EXCEPT ![r] = done]
        /\ UNCHANGED <<parameters, writes>>
    BY <1>before, <1>7 DEF Listing, Becomes
  <2>2. under \in SUBSET Paths
    OBVIOUS
  <2>3. done \in Request /\ Finished(q, done)
    <3> HIDE DEF q, under
    <3> QED BY <2>1, <2>2 DEF Request, Finished
  <2>4. \E d : Comes(r, d)
    <3> HIDE DEF done
    <3> QED BY <2>1, <2>3, DoneComes
  <2>5. QED BY <2>1, <2>4, <1>same
<1>8. CASE End(r)
  BY <1>8, <1>same, EndComes DEF End
<1>9. QED BY <1>same, <1>1, <1>2, <1>3, <1>4, <1>5, <1>6, <1>7, <1>8 DEF Handle

(* The inductive invariant. *)
Inv == TypeOK /\ CommandsSound /\ BindingsSound /\ RequestsSound

(* A fresh process over an empty database satisfies the invariant. *)
LEMMA InitInv == Init => Inv
<1> SUFFICES ASSUME Init PROVE Inv
  OBVIOUS
<1>1. PolicyInv
  BY PolicyInitially DEF Init
<1>2. TypeOK
  BY <1>1, ReferencesAssumption DEF Init, TypeOK, PolicyInv
<1>3. RequestsSound
  BY DEF Init, RequestsSound, Sound, NoRequest
<1>4. QED BY <1>1, <1>2, <1>3 DEF Inv, PolicyInv

(* Every step of a handler or an operator command keeps the invariant. *)
LEMMA StepInv == Inv /\ [Next]_vars => Inv'
<1> SUFFICES ASSUME Inv, [Next]_vars PROVE Inv'
  OBVIOUS
<1>before. TypeOK /\ CommandsSound /\ BindingsSound /\ RequestsSound /\ PolicyInv
  BY DEF Inv, PolicyInv, TypeOK
<1>1. ASSUME NEW r \in Requests, Handle(r), UNCHANGED policyVars, Remember
      PROVE  Inv'
  <2>1. PICK q : Comes(r, q)
    BY <1>before, <1>1, HandleComes
  <2>2. PolicyInv'
    <3>same. UNCHANGED <<definitions, bindings, commands>>
      BY <1>1 DEF policyVars
    <3>1. PolicyTypeOK' /\ CommandsSound'
      <4>1. PolicyTypeOK'
        BY <1>before, <3>same DEF TypeOK, PolicyTypeOK
      <4>2. CommandsSound'
        BY <1>before, <3>same DEF CommandsSound, Idle
      <4>3. QED BY <4>1, <4>2
    <3>2. BindingsSound'
      BY <1>before, <1>1 DEF policyVars, BindingsSound, Defined, BindingsFor, PastCount
    <3>3. QED BY <3>1, <3>2 DEF PolicyInv
  <2>3. TypeOK'
    <3>1. requests' \in [Requests -> Request \cup {NoRequest}]
      BY <1>before, <2>1 DEF Comes, TypeOK
    <3>2. QED BY <1>before, <1>1, <2>2, <3>1, HandleComes DEF TypeOK, PolicyInv
  <2>4. RequestsSound'
    <3>1. ASSUME NEW s \in Requests PROVE Sound(requests'[s], allowed'[s], absent'[s])
      <4>1. CASE requests'[s].step = "idle"
        BY <4>1 DEF Sound
      <4>2. CASE requests'[s].step # "idle"
        <5>1. /\ allowed'[s] = allowed[s] \cup AllowedNow(requests'[s])
              /\ absent'[s] = absent[s] \cup AbsentNow(requests'[s])
          BY <4>2, <1>1 DEF Remember
        <5>2. CASE s = r
          <6>1. requests'[s] = q
            BY <5>2, <2>1, <1>before DEF Comes, TypeOK
          <6>2. QED BY <6>1, <5>1, <5>2, <2>1 DEF Comes
        <5>3. CASE s # r
          <6>1. requests'[s] = requests[s]
            BY <5>3, <2>1, <1>before DEF Comes, TypeOK
          <6>2. Sound(requests[s], allowed[s], absent[s])
            BY <1>before DEF RequestsSound
          <6>3. allowed[s] \subseteq allowed'[s] /\ absent[s] \subseteq absent'[s]
            BY <5>1
          <6>4. Sound(requests[s], allowed'[s], absent'[s])
            BY <6>2, <6>3, SoundGrows
          <6>5. QED BY <6>1, <6>4
        <5>4. QED BY <5>2, <5>3
      <4>3. QED BY <4>1, <4>2
    <3>2. QED BY <3>1 DEF RequestsSound
  <2>5. QED BY <2>2, <2>3, <2>4 DEF Inv, PolicyInv
<1>2. ASSUME NEW c \in Operators, Operate(c), Remember
      PROVE  Inv'
  <2>1. PolicyStep(c) /\ UNCHANGED <<parameters, requests>>
    BY <1>2 DEF Operate, handlerVars
  <2>2. PolicyTypeOK' /\ CommandsSound' /\ BindingsSound'
    BY <1>before, <2>1, PolicyTypes, BindingsStep DEF PolicyInv
  <2>3. writes' \in 0..MaxWrites
    <3>1. writes \in 0..MaxWrites /\ MaxWrites \in Nat
      BY <1>before, ReferencesAssumption DEF TypeOK
    <3>2. (writes' = writes \/ writes' = writes + 1) /\ writes' <= MaxWrites
      BY <1>2 DEF Operate
    <3>3. QED BY <3>1, <3>2
  <2>4. TypeOK'
    BY <1>before, <2>1, <2>2, <2>3 DEF TypeOK
  <2>5. RequestsSound'
    <3>1. ASSUME NEW s \in Requests PROVE Sound(requests'[s], allowed'[s], absent'[s])
      <4>1. CASE requests'[s].step = "idle"
        BY <4>1 DEF Sound
      <4>2. CASE requests'[s].step # "idle"
        <5>1. allowed[s] \subseteq allowed'[s] /\ absent[s] \subseteq absent'[s]
          BY <4>2, <1>2 DEF Remember
        <5>2. Sound(requests[s], allowed[s], absent[s])
          BY <1>before DEF RequestsSound
        <5>3. Sound(requests[s], allowed'[s], absent'[s])
          BY <5>1, <5>2, SoundGrows
        <5>4. QED BY <5>3, <2>1
      <4>3. QED BY <4>1, <4>2
    <3>2. QED BY <3>1 DEF RequestsSound
  <2>6. QED BY <2>2, <2>4, <2>5 DEF Inv
<1>3. CASE UNCHANGED vars
  <2>1. TypeOK' /\ CommandsSound'
    BY <1>before, <1>3 DEF vars, policyVars, handlerVars, TypeOK, PolicyTypeOK,
                               CommandsSound, Idle, Bindings
  <2>2. BindingsSound'
    BY <1>before, <1>3 DEF vars, policyVars, BindingsSound, Defined, BindingsFor, PastCount
  <2>3. RequestsSound'
    BY <1>before, <1>3 DEF vars, handlerVars, RequestsSound
  <2>4. QED BY <2>1, <2>2, <2>3 DEF Inv
<1>4. QED BY <1>1, <1>2, <1>3 DEF Next, Step

(***************************************************************************)
(* Whatever requests and operator commands interleave, the invariant       *)
(* holds.                                                                  *)
(***************************************************************************)
THEOREM Invariance == Spec => []Inv
<1>1. QED BY InitInv, StepInv, PTL DEF Spec

(* A request that is done was entitled to what it did and to each secret   *)
(* in its answer.                                                          *)
LEMMA AllowedFromSound == Inv => AnsweredWasAllowed
<1> SUFFICES ASSUME Inv, NEW r \in Requests, requests[r].step = "done"
             PROVE  Entitled(requests[r], allowed[r]) /\ TextEntitled(requests[r], allowed[r])
  BY DEF AnsweredWasAllowed, Entitled, TextEntitled
<1> QED BY DEF Inv, RequestsSound, Sound

(* What Front is of a sequence. *)
LEMMA FrontOf ==
  ASSUME NEW s \in Seq(STRING), Len(s) # 0
  PROVE  /\ Front(s) \in Seq(STRING) /\ Len(Front(s)) = Len(s) - 1
         /\ \A j \in 1..(Len(s) - 1) : Front(s)[j] = s[j]
<1> DEFINE n == Len(s) - 1
<1>1. n \in Nat /\ n \in 0..Len(s) /\ n <= Len(s)
  OBVIOUS
<1>2. Front(s) = SubSeq(s, 1, n)
  BY DEF Front
<1> HIDE DEF n
<1>3. SubSeq(s, 1, n) \in Seq(STRING) /\ Len(SubSeq(s, 1, n)) = n
  BY <1>1
<1>4. \A j \in 1..n : SubSeq(s, 1, n)[j] = s[j]
  BY <1>1
<1>5. QED BY <1>2, <1>3, <1>4 DEF n

(* A candidate nearer than the one that answered stands before it in the   *)
(* chain, so the read has passed it over.                                  *)
LEMMA NearestFromSound == Inv => ResolvesNearest
<1> SUFFICES ASSUME Inv, NEW r \in Requests, requests[r].step = "done", requests[r].op = "read"
             PROVE  LET q == requests[r]
                        from == Head(q.chain)
                    IN /\ Last(from) = Last(q.path) /\ IsPrefix(Front(from), q.path)
                       /\ \A p \in Paths :
                         (/\ Last(p) = Last(q.path) /\ IsPrefix(Front(p), q.path)
                          /\ Len(p) > Len(from) /\ Len(p) <= Len(q.path))
                         => p \in absent[r]
  BY DEF ResolvesNearest
<1> DEFINE q == requests[r]
           path == q.path
           from == Head(q.chain)
           n == Len(path)
           C == InheritanceChain(path)
<1>1. q \in Request /\ Descent(q, absent[r])
  BY DEF Inv, RequestsSound, Sound, TypeOK, NoRequest
<1>2. path \in Paths
  BY <1>1 DEF Descent
<1>3. /\ n \in Nat \ {0} /\ path \in Seq(STRING) /\ C \in Seq(Paths) /\ Len(C) = n
      /\ \A k \in 1..n : /\ C[k] \in Paths /\ Len(C[k]) = n - k + 1 /\ Last(C[k]) = Last(path)
                         /\ Front(C[k]) = SubSeq(path, 1, n - k)
  BY <1>2, ChainAt
<1>4. PICK m \in 1..n : q.chain = SubSeq(C, m, n) /\ \A k \in 1..(m-1) : C[k] \in absent[r]
  BY <1>1 DEF Descent
<1> HIDE DEF C
<1>5. from = C[m]
  BY <1>3, <1>4
<1>6. Last(from) = Last(path) /\ Len(from) = n - m + 1 /\ Front(from) = SubSeq(path, 1, n - m)
  BY <1>3, <1>5
<1> HIDE DEF from, q
<1>7. IsPrefix(Front(from), path)
  <2>1. n - m \in 0..n
    BY <1>3
  <2>2. SubSeq(path, 1, n - m) \in Seq(STRING) /\ Len(SubSeq(path, 1, n - m)) = n - m
    BY <1>3, <2>1
  <2>3. SubSeq(SubSeq(path, 1, n - m), 1, n - m) = SubSeq(path, 1, n - m)
    BY <2>2, SubSeqFull
  <2>4. QED BY <1>6, <2>1, <2>2, <2>3 DEF IsPrefix
<1>8. ASSUME NEW p \in Paths, Last(p) = Last(path), IsPrefix(Front(p), path),
             Len(p) > Len(from), Len(p) <= n
      PROVE  p \in absent[r]
  <2> DEFINE l == Len(p)
             k == n - l + 1
  <2>1. p \in Seq(STRING) /\ l \in Nat /\ l # 0 /\ l <= n
    BY <1>8, PathsAssumption
  <2>2. k \in 1..n /\ k \in 1..(m-1) /\ n - k = l - 1 /\ n - k + 1 = l
    BY <2>1, <1>3, <1>6, <1>8
  <2>3. Front(p) \in Seq(STRING) /\ Len(Front(p)) = l - 1
    BY <2>1, FrontOf
  <2>4. Front(p) = SubSeq(path, 1, l - 1)
    <3>1. SubSeq(Front(p), 1, l - 1) = SubSeq(path, 1, l - 1)
      BY <1>8, <2>3 DEF IsPrefix
    <3>2. SubSeq(Front(p), 1, l - 1) = Front(p)
      BY <2>3, SubSeqFull
    <3>3. QED BY <3>1, <3>2
  <2>5. C[k] = p
    <3>1. C[k] \in Seq(STRING) /\ Len(C[k]) = l /\ Last(C[k]) = Last(p) /\ Front(C[k]) = Front(p)
      BY <1>3, <1>8, <2>2, <2>4, PathsAssumption
    <3> HIDE DEF k
    <3>2. C[k][l] = p[l]
      BY <3>1 DEF Last
    <3>3. ASSUME NEW j \in 1..(l-1) PROVE C[k][j] = p[j]
      <4>1. Front(C[k])[j] = C[k][j] /\ Front(p)[j] = p[j]
        BY <2>1, <3>1, FrontOf
      <4>2. QED BY <4>1, <3>1
    <3>4. \A j \in 1..l : C[k][j] = p[j]
      BY <2>1, <3>2, <3>3
    <3>5. QED BY <2>1, <3>1, <3>4, SeqEqual
  <2>6. QED BY <2>2, <2>5, <1>4
<1>9. QED BY <1>6, <1>7, <1>8 DEF q, from

-----------------------------------------------------------------------------
(* The theorems. *)

(***************************************************************************)
(* The tables and the requests keep their types.                           *)
(***************************************************************************)
THEOREM TypeCorrect == Spec => []TypeOK
<1>1. Inv => TypeOK
  BY DEF Inv
<1>2. QED BY <1>1, Invariance, PTL

(***************************************************************************)
(* Everything a request did or is about to answer, its caller was allowed  *)
(* at some time since it began, in the caller's own tenant, however the    *)
(* policies change while its references are resolved one by one.           *)
(***************************************************************************)
THEOREM OnlyAllowedIsAnswered == Spec => []AnsweredWasAllowed
<1>1. QED BY AllowedFromSound, Invariance, PTL

(***************************************************************************)
(* An answer comes from the nearest candidate: each nearer one was absent  *)
(* at some time since the request began (Store.Resolve).                   *)
(***************************************************************************)
THEOREM NearestIsResolved == Spec => []ResolvesNearest
<1>1. QED BY NearestFromSound, Invariance, PTL

(***************************************************************************)
(* A binding names a policy that is defined, and Bind exceeds its limit by *)
(* at most the processes that were past the count together, less one.      *)
(***************************************************************************)
THEOREM BindingsStaySound == Spec => []BindingsSound
<1>1. Inv => BindingsSound
  BY DEF Inv
<1>2. QED BY <1>1, Invariance, PTL

(* What BindingsSound means for one operator process. *)
LimitHolds ==
  \A t \in Tenants, i \in Identities : Cardinality(BindingsFor(t, i)) <= MaxBound

(***************************************************************************)
(* The limit of Bind is exact while operators run one command at a time.   *)
(***************************************************************************)
THEOREM OneOperatorKeepsLimit == Cardinality(Operators) = 1 => (Spec => []LimitHolds)
<1> SUFFICES ASSUME Cardinality(Operators) = 1 PROVE Spec => []LimitHolds
  OBVIOUS
<1>1. ASSUME Inv PROVE LimitHolds
  <2>1. ASSUME NEW t \in Tenants, NEW i \in Identities
        PROVE  Cardinality(BindingsFor(t, i)) <= MaxBound
    <3>1. Cardinality(BindingsFor(t, i)) + Cardinality(PastCount(t, i)) < MaxBound + 1
      BY <1>1 DEF Inv, BindingsSound
    <3>2. QED BY <3>1, CountsFinite, MaxBoundAssumption
  <2>2. QED BY <2>1 DEF LimitHolds
<1>2. QED BY <1>1, Invariance, PTL

(***************************************************************************)
(* On the lists TLC enumerates, Set.Evaluate decides as the rules state.   *)
(***************************************************************************)
THEOREM DecisionsAsStated == Spec => []DecidesAsStated
<1>1. ASSUME NEW rules \in BoundedSeq(Rules, 3)
      PROVE  rules \in Seq(Rule) /\ \A k \in DOMAIN rules : ValidRule(rules[k])
  <2>1. PICK m \in 0..3 : rules \in [1..m -> Rules]
    BY DEF BoundedSeq, SeqOf
  <2>2. \A k \in 1..m : rules[k] \in Rule /\ ValidRule(rules[k])
    BY <2>1, RulesAssumption
  <2>3. rules \in [1..m -> Rule] /\ DOMAIN rules = 1..m
    BY <2>1, <2>2
  <2>4. rules \in Seq(Rule)
    BY <2>3
  <2>5. QED BY <2>2, <2>3, <2>4
<1>2. DecidesAsStated
  BY <1>1, EvaluateDecides DEF DecidesAsStated
<1>3. QED BY <1>2, PTL

(* The rules of the policies bound to an identity. *)
BoundRules(i) ==
  UNION {ToSet(definitions[<<Home[i], n>>]) : n \in BindingsFor(Home[i], i)}

(* What SetFor collects are the rules of the policies bound to the caller. *)
LEMMA CollectedRules ==
  ASSUME TypeOK, BindingsSound, NEW i \in Identities
  PROVE  /\ SetFor(i) \in Seq(Rule)
         /\ \A k \in DOMAIN SetFor(i) : ValidRule(SetFor(i)[k])
         /\ ToSet(SetFor(i)) = BoundRules(i)
<1> DEFINE Valids == {rule \in Rule : ValidRule(rule)}
           bound(k) == <<Home[i], i, Names[k]>> \in bindings
           s == [k \in DOMAIN Names |->
                   IF bound(k) THEN definitions[<<Home[i], Names[k]>>] ELSE <<>>]
<1>1. /\ DOMAIN Names = 1..Len(Names) /\ Len(Names) \in Nat
      /\ Home[i] \in Tenants /\ \A k \in DOMAIN Names : Names[k] \in PolicyNames
  BY NamesAssumption, HomeAssumption DEF PolicyNames
<1>2. ASSUME NEW k \in DOMAIN Names, bound(k)
      PROVE  definitions[<<Home[i], Names[k]>>] \in Seq(Valids)
  <2> DEFINE rules == definitions[<<Home[i], Names[k]>>]
  <2>1. rules # None
    BY <1>2 DEF BindingsSound, Defined
  <2>2. rules \in Stored
    BY <1>1, <2>1 DEF TypeOK, PolicyTypeOK
  <2>3. rules \in Seq(Rule) /\ \A j \in DOMAIN rules : ValidRule(rules[j])
    BY <2>2, DocumentsAssumption DEF Stored, Valid
  <2> HIDE DEF rules
  <2>4. /\ DOMAIN rules = 1..Len(rules) /\ Len(rules) \in Nat
        /\ \A j \in 1..Len(rules) : rules[j] \in Valids
    BY <2>3
  <2>5. rules \in [1..Len(rules) -> Valids]
    BY <2>3, <2>4
  <2>6. rules \in Seq(Valids)
    <3> HIDE DEF Valids
    <3> QED BY <2>4, <2>5
  <2>7. QED BY <2>6 DEF rules
<1> HIDE DEF Valids
<1>3. \A k \in DOMAIN Names : s[k] \in Seq(Valids)
  BY <1>2
<1>4. s \in Seq(Seq(Valids)) /\ DOMAIN s = DOMAIN Names
  <2>1. s \in [1..Len(Names) -> Seq(Valids)]
    BY <1>1, <1>3
  <2>2. QED BY <1>1, <2>1
<1>5. SetFor(i) = FlattenSeq(s)
  BY DEF SetFor
<1>6. ToSet(<<>>) = {}
  BY DEF ToSet
<1>7. UNION {ToSet(s[k]) : k \in DOMAIN s} = BoundRules(i)
  <2> USE DEF BoundRules
  <2>1. ASSUME NEW k \in DOMAIN s, NEW rule \in ToSet(s[k])
        PROVE  \E n \in BindingsFor(Home[i], i) : rule \in ToSet(definitions[<<Home[i], n>>])
    <3>1. bound(k) /\ s[k] = definitions[<<Home[i], Names[k]>>]
      BY <1>4, <1>6, <2>1
    <3>2. Names[k] \in BindingsFor(Home[i], i)
      BY <3>1, <1>1, <1>4 DEF BindingsFor
    <3> HIDE DEF s
    <3>3. QED BY <2>1, <3>1, <3>2
  <2>2. ASSUME NEW n \in BindingsFor(Home[i], i), NEW rule \in ToSet(definitions[<<Home[i], n>>])
        PROVE  \E k \in DOMAIN s : rule \in ToSet(s[k])
    <3>1. PICK k \in DOMAIN Names : n = Names[k] /\ bound(k)
      BY DEF BindingsFor, PolicyNames
    <3>2. s[k] = definitions[<<Home[i], n>>]
      BY <3>1
    <3> HIDE DEF s
    <3>3. QED BY <3>1, <3>2, <2>2, <1>4
  <2> HIDE DEF s
  <2>3. UNION {ToSet(s[k]) : k \in DOMAIN s} \subseteq BoundRules(i)
    <3>1. ASSUME NEW x \in UNION {ToSet(s[k]) : k \in DOMAIN s}
          PROVE  x \in BoundRules(i)
      <4>1. PICK k \in DOMAIN s : x \in ToSet(s[k])
        OBVIOUS
      <4>2. QED BY <4>1, <2>1
    <3>2. QED BY <3>1
  <2>4. BoundRules(i) \subseteq UNION {ToSet(s[k]) : k \in DOMAIN s}
    BY <2>2
  <2>5. QED BY <2>3, <2>4
<1> HIDE DEF s
<1>8. SetFor(i) \in Seq(Valids) /\ ToSet(SetFor(i)) = UNION {ToSet(s[k]) : k \in DOMAIN s}
  BY <1>4, <1>5, PartsOfFlattening
<1>9. SetFor(i) \in Seq(Rule) /\ \A k \in DOMAIN SetFor(i) : ValidRule(SetFor(i)[k])
  <2>1. \A k \in DOMAIN SetFor(i) : SetFor(i)[k] \in Valids
    BY <1>8
  <2>2. Valids \subseteq Rule
    BY DEF Valids
  <2>3. SetFor(i) \in Seq(Rule)
    BY <1>8, <2>2, SeqMonotonic
  <2>4. QED BY <2>1, <2>3 DEF Valids
<1>10. QED BY <1>7, <1>8, <1>9

(* An authorisation is what the rules of the policies bound to the caller  *)
(* state; and a denial in one of them holds against all the others.        *)
GrantedByOne(i, t, path, capability) ==
  \E n \in BindingsFor(t, i) : \E rule \in ToSet(definitions[<<t, n>>]) :
    Matches(rule, path) /\ capability \in rule.capabilities

DeniedByNone(i, t, path) ==
  \A n \in BindingsFor(t, i) : \A rule \in ToSet(definitions[<<t, n>>]) :
    Matches(rule, path) => "deny" \notin rule.capabilities

AuthorizesAsBound ==
  \A i \in Identities, t \in Named, path \in Seq(STRING), capability \in Capabilities :
    /\ Authorize(i, t, path, capability) <=>
         Home[i] = t /\ AllowedByRules(SetFor(i), path, capability)
    /\ Authorize(i, t, path, capability) =>
         /\ GrantedByOne(i, t, path, capability)
         /\ DeniedByNone(i, t, path)

(***************************************************************************)
(* In every state operators can bring the tables into, Manager.Authorize   *)
(* decides by the rules of the policies bound to the caller in its own     *)
(* tenant: some bound policy grants what it allows, and none denies it.    *)
(***************************************************************************)
THEOREM BoundPoliciesDecide == Spec => []AuthorizesAsBound
<1>1. ASSUME Inv, NEW i \in Identities, NEW t \in Named, NEW path \in Seq(STRING),
             NEW capability \in Capabilities
      PROVE  /\ Authorize(i, t, path, capability) <=>
                  Home[i] = t /\ AllowedByRules(SetFor(i), path, capability)
             /\ Authorize(i, t, path, capability) =>
                  /\ GrantedByOne(i, t, path, capability)
                  /\ DeniedByNone(i, t, path)
  <2> DEFINE rules == SetFor(i)
  <2>1. /\ rules \in Seq(Rule) /\ \A k \in DOMAIN rules : ValidRule(rules[k])
        /\ ToSet(rules) = BoundRules(i)
    BY <1>1, CollectedRules DEF Inv
  <2> HIDE DEF rules
  <2>2. Evaluate(rules, path, capability) <=> AllowedByRules(rules, path, capability)
    BY <2>1, EvaluateDecides
  <2>3. ASSUME Home[i] = t, Evaluate(rules, path, capability)
        PROVE  GrantedByOne(i, t, path, capability) /\ DeniedByNone(i, t, path)
    <3>1. PICK k \in DOMAIN rules : Matches(rules[k], path) /\ capability \in rules[k].capabilities
      BY <2>2, <2>3 DEF AllowedByRules, Decides
    <3>2. rules[k] \in ToSet(rules)
      BY DEF ToSet
    <3>3. PICK n \in BindingsFor(t, i) : rules[k] \in ToSet(definitions[<<t, n>>])
      BY <2>1, <2>3, <3>2 DEF BoundRules
    <3>4. GrantedByOne(i, t, path, capability)
      BY <3>1, <3>3 DEF GrantedByOne
    <3>5. ASSUME NEW m \in BindingsFor(t, i), NEW rule \in ToSet(definitions[<<t, m>>]),
                 Matches(rule, path)
          PROVE  "deny" \notin rule.capabilities
      <4>1. rule \in ToSet(rules)
        BY <2>1, <2>3 DEF BoundRules
      <4>2. PICK l \in DOMAIN rules : rule = rules[l]
        BY <4>1 DEF ToSet
      <4>3. QED BY <4>2, <2>3, <3>5 DEF Evaluate, Denied
    <3>6. QED BY <3>4, <3>5 DEF DeniedByNone
  <2>4. QED BY <2>2, <2>3 DEF Authorize, rules
<1>2. Inv => AuthorizesAsBound
  BY <1>1 DEF AuthorizesAsBound
<1>3. QED BY <1>2, Invariance, PTL

(* Who may have changed a parameter. *)
WriterEntitled(key) ==
  \E r \in Requests :
    LET q == requests[r]
    IN /\ <<q.tenant, q.path>> = key
       /\ q.op = IF parameters'[key] = None THEN "delete" ELSE "write"
       /\ q.tenant = Home[q.identity]
       /\ <<PolicyPath(q.tenant, q.path), q.op>> \in allowed[r]

WritesWereAllowed ==
  [][\A key \in Named \X Paths :
       parameters'[key] # parameters[key] => WriterEntitled(key)]_vars

(***************************************************************************)
(* A parameter changes only by a request whose caller is in its tenant and *)
(* was allowed to write or delete it since the request began: no reader,   *)
(* no operator command and no request for another path touches it.         *)
(***************************************************************************)
THEOREM OnlyEntitledWrites == Spec => WritesWereAllowed
<1>1. ASSUME Inv, Next, NEW key \in Named \X Paths, parameters'[key] # parameters[key]
      PROVE  WriterEntitled(key)
  <2>1. PICK r \in Requests : Handle(r)
    BY <1>1 DEF Next, Step, Operate, handlerVars
  <2> DEFINE q == requests[r]
  <2>2. /\ parameters \in [Named \X Paths -> Values \cup {None}]
        /\ q.step = "permitted" => Entitled(q, allowed[r])
    BY <1>1 DEF Inv, TypeOK, RequestsSound, Sound
  <2>3. /\ q.step = "permitted" /\ <<q.tenant, q.path>> = key
        /\ q.op = IF parameters'[key] = None THEN "delete" ELSE "write"
    <3>1. ASSUME NEW v \in Values, Write(r, v) PROVE <2>3
      <4>1. v # None
        BY ValuesAssumption
      <4>2. QED BY <4>1, <3>1, <1>1, <2>2 DEF Write
    <3>2. CASE DeleteParameter(r)
      BY <3>2, <1>1, <2>2 DEF DeleteParameter
    <3>3. (\E v \in Values : Write(r, v)) \/ DeleteParameter(r)
      BY <1>1, <2>1 DEF Handle, Permit, ReadCandidate, AuthorizeReference, Reveal, Listing, End
    <3>4. QED BY <3>1, <3>2, <3>3
  <2>4. Subject(q) = PolicyPath(q.tenant, q.path)
    BY <2>3 DEF Subject
  <2>5. QED BY <2>2, <2>3, <2>4 DEF Entitled, WriterEntitled
<1>2. Inv /\ [Next]_vars =>
        [\A key \in Named \X Paths :
           parameters'[key] # parameters[key] => WriterEntitled(key)]_vars
  BY <1>1
<1>3. QED BY <1>2, Invariance, PTL DEF Spec, WritesWereAllowed

=============================================================================
