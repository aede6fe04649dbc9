------------------------- MODULE MatchmakingProofs -------------------------
(***************************************************************************)
(* What the draws of Matchmaking return, for every list of entries, every  *)
(* set of scored games and every number of teams.                          *)
(*                                                                         *)
(* A draw, and a sum over the games of a team, are recursive functions.    *)
(* That they exist (Recursion) and what they return (DrawsFacts,           *)
(* SumTakes) is proved by descent: of the arguments that break a claim     *)
(* take one of the least measure; the step below it does not break it.     *)
(***************************************************************************)
EXTENDS Matchmaking, SequenceTheorems, FunctionTheorems, FiniteSetTheorems,
        WellFoundedInduction, TLAPS

-----------------------------------------------------------------------------
(* Descent and recursion.                                                  *)

\* Of the elements of a set with a measure in Nat one has the least.
LEMMA Descent ==
  ASSUME NEW S, NEW m \in [S -> Nat], NEW Bad \in SUBSET S, Bad # {}
  PROVE  \E x \in Bad : \A y \in Bad : m[x] <= m[y]
<1> DEFINE N == {m[x] : x \in Bad}
<1>1. N \subseteq Nat /\ N # {}
  OBVIOUS
<1>2. \E n \in N : \A k \in N : ~ (<<k, n>> \in OpToRel(<, Nat))
  <2> HIDE DEF N
  <2> QED BY <1>1, WFMin, NatLessThanWellFounded
<1>3. PICK n \in N : \A k \in N : ~ (<<k, n>> \in OpToRel(<, Nat))
  BY <1>2
<1>4. \A k \in N : ~ (k < n)
  BY <1>1, <1>3 DEF OpToRel
<1>5. PICK x \in Bad : m[x] = n
  OBVIOUS
<1>6. \A y \in Bad : m[x] <= m[y]
  BY <1>4, <1>5
<1> QED BY <1>6

\* f follows the recursion on its domain D.
Follows(f, D, B, base, smaller, op) ==
  \A x \in D : f[x] = IF x \in B THEN base[x] ELSE op[x][f[smaller[x]]]

\* A recursion that goes down in a measure defines a function.
LEMMA Recursion ==
  ASSUME NEW S, NEW T, NEW m \in [S -> Nat], NEW B \in SUBSET S, NEW base \in [B -> T],
         NEW smaller \in [S \ B -> S], NEW op \in [S \ B -> [T -> T]],
         \A x \in S \ B : m[smaller[x]] < m[x]
  PROVE  \E f \in [S -> T] : Follows(f, S, B, base, smaller, op)
<1> DEFINE Below(n) == {x \in S : m[x] < n}
           Partial(n) == {f \in [Below(n) -> T] : Follows(f, Below(n), B, base, smaller, op)}
           N == {n \in Nat : Partial(n) = {}}
<1>1. \A n \in Nat : Partial(n) # {}
  <2>1. SUFFICES ASSUME N # {} PROVE FALSE
    BY <2>1
  <2>2. PICK n \in N : \A k \in N : n <= k
    <3> DEFINE id == [k \in Nat |-> k]
    <3>1. id \in [Nat -> Nat] /\ N \in SUBSET Nat
      OBVIOUS
    <3>2. \E n \in N : \A k \in N : id[n] <= id[k]
      <4> HIDE DEF N, id
      <4> QED BY <2>1, <3>1, Descent
    <3> QED BY <3>1, <3>2
  <2>3. CASE n = 0
    <3>1. Below(0) = {}
      OBVIOUS
    <3>2. [x \in {} |-> CHOOSE t \in T : TRUE] \in Partial(0)
      BY <3>1 DEF Follows
    <3> QED BY <2>3, <3>2
  <2>4. CASE n > 0
    <3>1. n - 1 \in Nat /\ n - 1 \notin N
      <4>1. n \in Nat /\ n - 1 \in Nat /\ ~ (n <= n - 1)
        BY <2>4
      <4> HIDE DEF N
      <4> QED BY <2>2, <4>1
    <3>2. PICK f \in [Below(n - 1) -> T] : Follows(f, Below(n - 1), B, base, smaller, op)
      BY <3>1
    <3> DEFINE g == [x \in Below(n) |-> IF x \in Below(n - 1) THEN f[x]
                                        ELSE IF x \in B THEN base[x] ELSE op[x][f[smaller[x]]]]
    <3>3. ASSUME NEW x \in Below(n), x \notin B PROVE smaller[x] \in Below(n - 1)
      BY <3>1, <3>3
    <3>4. \A x \in Below(n - 1) : x \in Below(n)
      BY <3>1
    <3>5. g \in [Below(n) -> T]
      BY <3>2, <3>3
    <3>6. ASSUME NEW x \in Below(n)
          PROVE  g[x] = IF x \in B THEN base[x] ELSE op[x][g[smaller[x]]]
      <4>1. CASE x \in B
        BY <3>2, <3>4, <4>1 DEF Follows
      <4>2. CASE x \notin B
        <5>1. smaller[x] \in Below(n - 1) /\ smaller[x] \in Below(n)
          BY <3>3, <3>4, <4>2
        <5>2. g[smaller[x]] = f[smaller[x]]
          BY <5>1
        <5>3. g[x] = op[x][f[smaller[x]]]
          BY <3>2, <4>2 DEF Follows
        <5> QED BY <4>2, <5>2, <5>3
      <4> QED BY <4>1, <4>2
    <3>7. g \in Partial(n)
      <4> HIDE DEF g
      <4> QED BY <3>5, <3>6 DEF Follows
    <3> QED BY <3>7, <2>2
  <2> QED BY <2>2, <2>3, <2>4
<1>2. ASSUME NEW j \in Nat, NEW k \in Nat, NEW f \in Partial(j), NEW g \in Partial(k),
             NEW y \in Below(j) \cap Below(k)
      PROVE  f[y] = g[y]
  <2> DEFINE Bad == {x \in Below(j) \cap Below(k) : f[x] # g[x]}
  <2>1. SUFFICES ASSUME Bad # {} PROVE FALSE
    BY <2>1
  <2>2. PICK x \in Bad : \A z \in Bad : m[x] <= m[z]
    <3>1. Bad \in SUBSET S
      OBVIOUS
    <3> HIDE DEF Bad
    <3> QED BY <2>1, <3>1, Descent
  <2>3. x \notin B
    BY <2>2 DEF Follows
  <2>4. smaller[x] \in Below(j) \cap Below(k) /\ m[smaller[x]] < m[x] /\ m[x] \in Nat /\ m[smaller[x]] \in Nat
    BY <2>3
  <2>5. f[smaller[x]] = g[smaller[x]]
    BY <2>2, <2>4
  <2>6. f[x] = g[x]
    BY <2>3, <2>5 DEF Follows
  <2> QED BY <2>6
<1> DEFINE F == [x \in S |-> (CHOOSE f \in Partial(m[x] + 1) : TRUE)[x]]
<1>3. ASSUME NEW x \in S, NEW k \in Nat, NEW f \in Partial(k), x \in Below(k)
      PROVE  F[x] = f[x]
  <2>1. m[x] + 1 \in Nat /\ x \in Below(m[x] + 1)
    OBVIOUS
  <2>2. Partial(m[x] + 1) # {}
    BY <1>1, <2>1
  <2>3. (CHOOSE g \in Partial(m[x] + 1) : TRUE) \in Partial(m[x] + 1)
    <3> HIDE DEF Partial
    <3> QED BY <2>2
  <2> HIDE DEF Partial, Below
  <2> QED BY <1>2, <1>3, <2>1, <2>3
<1>4. ASSUME NEW x \in S
      PROVE  F[x] \in T /\ F[x] = IF x \in B THEN base[x] ELSE op[x][F[smaller[x]]]
  <2>1. m[x] + 1 \in Nat /\ x \in Below(m[x] + 1)
    OBVIOUS
  <2>2. PICK f \in Partial(m[x] + 1) : TRUE
    BY <1>1, <2>1
  <2>3. F[x] = f[x]
    <3> HIDE DEF F, Partial, Below
    <3> QED BY <1>3, <2>1
  <2>4. x \notin B => smaller[x] \in Below(m[x] + 1)
    BY <2>1
  <2>5. x \notin B => F[smaller[x]] = f[smaller[x]]
    <3> HIDE DEF F, Partial, Below
    <3> QED BY <1>3, <2>1, <2>4
  <2> HIDE DEF F
  <2> QED BY <2>1, <2>3, <2>4, <2>5 DEF Follows
<1>5. F \in [S -> T]
  <2> HIDE DEF Partial
  <2>1. F = [x \in S |-> F[x]]
    OBVIOUS
  <2> HIDE DEF F
  <2> QED BY <1>4, <2>1
<1> QED
  <2> HIDE DEF F
  <2> QED BY <1>4, <1>5 DEF Follows

-----------------------------------------------------------------------------
(* The recursion of Drawing.                                               *)

\* The list without two of its entries, and where the others stood.
Rest(rest, c) == RemoveAt(RemoveAt(rest, c[2]), c[1])
Stood(c, k) == IF k < c[1] THEN k ELSE IF k + 1 < c[2] THEN k + 1 ELSE k + 2

\* RemoveAt (the community modules') takes one entry out and closes the gap.
LEMMA RemoveAtFacts ==
  ASSUME NEW X, NEW s \in Seq(X), NEW i \in 1..Len(s)
  PROVE  /\ RemoveAt(s, i) \in Seq(X)
         /\ Len(RemoveAt(s, i)) = Len(s) - 1
         /\ \A k \in 1..(Len(s) - 1) : RemoveAt(s, i)[k] = IF k < i THEN s[k] ELSE s[k + 1]
<1> DEFINE a == SubSeq(s, 1, i - 1)
           b == SubSeq(s, i + 1, Len(s))
<1>1. a \in Seq(X) /\ Len(a) = i - 1 /\ \A k \in 1..(i - 1) : a[k] = s[k]
  OBVIOUS
<1>2. b \in Seq(X) /\ Len(b) = Len(s) - i /\ \A k \in 1..(Len(s) - i) : b[k] = s[i + k]
  OBVIOUS
<1>3. RemoveAt(s, i) = a \o b
  BY DEF RemoveAt
<1> HIDE DEF a, b
<1>4. a \o b \in Seq(X) /\ Len(a \o b) = Len(s) - 1
  <2>1. a \o b \in Seq(X)
    BY <1>1, <1>2
  <2>2. Len(a \o b) = Len(a) + Len(b)
    BY <1>1, <1>2, ConcatProperties
  <2> QED BY <1>1, <1>2, <2>1, <2>2
<1>5. ASSUME NEW k \in 1..(Len(s) - 1)
      PROVE  (a \o b)[k] = IF k < i THEN s[k] ELSE s[k + 1]
  <2>1. CASE k < i
    BY <1>1, <1>2, <2>1
  <2>2. CASE ~ (k < i)
    <3>1. (a \o b)[k] = b[k - (i - 1)] /\ k - (i - 1) \in 1..(Len(s) - i)
      BY <1>1, <1>2, <2>2
    <3> QED BY <1>2, <2>2, <3>1
  <2> QED BY <2>1, <2>2
<1> QED BY <1>3, <1>4, <1>5

\* Taking a pair out leaves the other entries, each once.
LEMMA RestFacts ==
  ASSUME NEW X, NEW s \in Seq(X), NEW c \in Positions(s)
  PROVE  /\ Rest(s, c) \in Seq(X) /\ Len(Rest(s, c)) = Len(s) - 2
         /\ \A k \in 1..(Len(s) - 2) :
              /\ Rest(s, c)[k] = s[Stood(c, k)]
              /\ Stood(c, k) \in 1..Len(s) \ {c[1], c[2]}
         /\ \A k, l \in 1..(Len(s) - 2) : k # l => Stood(c, k) # Stood(c, l)
<1>1. c[1] \in 1..Len(s) /\ c[2] \in 1..Len(s) /\ c[1] < c[2]
  BY DEF Positions
<1> DEFINE t == RemoveAt(s, c[2])
<1>2. t \in Seq(X) /\ Len(t) = Len(s) - 1
      /\ \A k \in 1..(Len(s) - 1) : t[k] = IF k < c[2] THEN s[k] ELSE s[k + 1]
  BY <1>1, RemoveAtFacts
<1>3. c[1] \in 1..Len(t)
  BY <1>1, <1>2
<1> HIDE DEF t
<1>4. /\ RemoveAt(t, c[1]) \in Seq(X)
      /\ Len(RemoveAt(t, c[1])) = Len(t) - 1
      /\ \A k \in 1..(Len(t) - 1) : RemoveAt(t, c[1])[k] = IF k < c[1] THEN t[k] ELSE t[k + 1]
  BY <1>2, <1>3, RemoveAtFacts
<1>5. Rest(s, c) = RemoveAt(t, c[1])
  BY DEF Rest, t
<1>6. Rest(s, c) \in Seq(X) /\ Len(Rest(s, c)) = Len(s) - 2
  BY <1>2, <1>4, <1>5
<1>7. ASSUME NEW k \in 1..(Len(s) - 2)
      PROVE  Rest(s, c)[k] = s[Stood(c, k)] /\ Stood(c, k) \in 1..Len(s) \ {c[1], c[2]}
  <2>1. Rest(s, c)[k] = IF k < c[1] THEN t[k] ELSE t[k + 1]
    BY <1>2, <1>4, <1>5
  <2>2. t[k] = (IF k < c[2] THEN s[k] ELSE s[k + 1])
        /\ t[k + 1] = (IF k + 1 < c[2] THEN s[k + 1] ELSE s[k + 1 + 1])
    BY <1>2
  <2>3. k + 1 + 1 = k + 2
    OBVIOUS
  <2> QED BY <1>1, <2>1, <2>2, <2>3 DEF Stood
<1>8. \A k, l \in 1..(Len(s) - 2) : k # l => Stood(c, k) # Stood(c, l)
  BY <1>1 DEF Stood
<1> QED BY <1>6, <1>7, <1>8

\* The pairs of positions that the two generators choose exist.
Picks(pick, X) == \A rest \in Seq(X) : Len(rest) >= 2 => pick[rest] \in Positions(rest)

PairAt(rest, c) == <<rest[c[1]], rest[c[2]]>>

\* d is what Drawing's recursive function is defined to be.
Draws(d, X, pick) ==
  d = [rest \in Seq(X) |-> IF Len(rest) < 2 THEN <<>>
                           ELSE <<PairAt(rest, pick[rest])>> \o d[Rest(rest, pick[rest])]]

\* Drawing's recursive function exists.
LEMMA DrawingIsDefined ==
  ASSUME NEW entries, NEW pick, Picks(pick, ToSet(entries))
  PROVE  \E d : Draws(d, ToSet(entries), pick) /\ Drawing(entries, pick) = d[entries]
<1> DEFINE X == ToSet(entries)
           S == Seq(X)
           T == Seq(X \X X)
           m == [rest \in S |-> Len(rest)]
           B == {rest \in S : Len(rest) < 2}
           base == [rest \in B |-> <<>>]
           smaller == [rest \in S \ B |-> Rest(rest, pick[rest])]
           op == [rest \in S \ B |-> [t \in T |-> <<PairAt(rest, pick[rest])>> \o t]]
<1>1. ASSUME NEW rest \in S \ B
      PROVE  /\ Rest(rest, pick[rest]) \in S
             /\ Len(Rest(rest, pick[rest])) = Len(rest) - 2
             /\ PairAt(rest, pick[rest]) \in X \X X
  <2>1. rest \in Seq(X) /\ Len(rest) >= 2
    OBVIOUS
  <2>2. pick[rest] \in Positions(rest)
    BY <2>1 DEF Picks
  <2>3. pick[rest][1] \in 1..Len(rest) /\ pick[rest][2] \in 1..Len(rest)
    BY <2>2 DEF Positions
  <2> HIDE DEF X
  <2>4. rest[pick[rest][1]] \in X /\ rest[pick[rest][2]] \in X
    BY <2>1, <2>3
  <2> QED BY <2>1, <2>2, <2>4, RestFacts DEF PairAt
<1> HIDE DEF X
<1>2. m \in [S -> Nat] /\ B \in SUBSET S /\ base \in [B -> T]
  OBVIOUS
<1>3. smaller \in [S \ B -> S]
  BY <1>1
<1>4. op \in [S \ B -> [T -> T]]
  <2>1. ASSUME NEW rest \in S \ B, NEW t \in T
        PROVE  <<PairAt(rest, pick[rest])>> \o t \in T
    BY <1>1, <2>1
  <2> HIDE DEF B, S, T
  <2> QED BY <2>1
<1>5. \A x \in S \ B : m[smaller[x]] < m[x]
  BY <1>1
<1>6. PICK f \in [S -> T] : Follows(f, S, B, base, smaller, op)
  <2> HIDE DEF S, T, m, B, base, smaller, op
  <2> QED BY <1>2, <1>3, <1>4, <1>5, Recursion
<1>7. ASSUME NEW x \in S
      PROVE  f[x] = IF Len(x) < 2 THEN <<>> ELSE <<PairAt(x, pick[x])>> \o f[Rest(x, pick[x])]
  <2>1. CASE x \in B
    BY <1>6, <2>1 DEF Follows
  <2>2. CASE x \notin B
    <3>1. f[x] = op[x][f[smaller[x]]]
      BY <1>6, <2>2 DEF Follows
    <3>2. smaller[x] = Rest(x, pick[x]) /\ f[Rest(x, pick[x])] \in T
      BY <1>1, <1>6, <2>2
    <3> QED BY <2>2, <3>1, <3>2
  <2> QED BY <2>1, <2>2
<1>8. f = [x \in S |-> f[x]]
  BY <1>6
<1>9. Draws(f, X, pick)
  BY <1>7, <1>8 DEF Draws
<1> DEFINE C == CHOOSE d : Draws(d, X, pick)
<1>10. Draws(C, X, pick)
  BY <1>9
<1>11. Drawing(entries, pick) = C[entries]
  BY DEF Drawing, Draws, Rest, PairAt, X
<1> QED BY <1>10, <1>11 DEF X

\* Every two positions of a list, and every two slots of a draw, are related by R.
Spread(R, s) == \A i, j \in DOMAIN s : i # j => <<s[i], s[j]>> \in R
DrawSpread(R, d) ==
  \A k, l \in DOMAIN d : \A a, b \in {1, 2} :
    k # l \/ a # b => <<d[k][a], d[l][b]>> \in R

\* d is a draw of the list: half as many pairs, of its entries, at different places.
Drawn(R, X, rest, d) ==
  /\ d \in Seq(X \X X)
  /\ Len(d) = Len(rest) \div 2
  /\ \A k \in 1..Len(d), a \in {1, 2} : \E i \in 1..Len(rest) : d[k][a] = rest[i]
  /\ Spread(R, rest) => DrawSpread(R, d)

\* One pair more on top of a draw of the rest is a draw.
LEMMA DrawnStep ==
  ASSUME NEW R, NEW X, NEW rest \in Seq(X), Len(rest) >= 2, NEW c \in Positions(rest),
         NEW e, Drawn(R, X, Rest(rest, c), e)
  PROVE  Drawn(R, X, rest, <<PairAt(rest, c)>> \o e)
<1> DEFINE n == Len(rest) - 2
           r == Rest(rest, c)
           d == <<PairAt(rest, c)>> \o e
<1>1. c[1] \in 1..Len(rest) /\ c[2] \in 1..Len(rest) /\ c[1] # c[2]
  BY DEF Positions
<1>2. /\ r \in Seq(X) /\ Len(r) = n /\ n \in Nat
      /\ \A k \in 1..n : r[k] = rest[Stood(c, k)] /\ Stood(c, k) \in 1..Len(rest) \ {c[1], c[2]}
      /\ \A k, l \in 1..n : k # l => Stood(c, k) # Stood(c, l)
  BY RestFacts
<1>3. PairAt(rest, c) \in X \X X /\ PairAt(rest, c)[1] = rest[c[1]] /\ PairAt(rest, c)[2] = rest[c[2]]
  BY <1>1 DEF PairAt
<1>4. e \in Seq(X \X X) /\ Len(e) = n \div 2 /\ Len(e) \in Nat
  BY <1>2 DEF Drawn
<1>5. /\ d \in Seq(X \X X) /\ Len(d) = Len(e) + 1 /\ d[1] = PairAt(rest, c)
      /\ \A k \in 1..Len(e) : d[k + 1] = e[k]
  <2>1. <<PairAt(rest, c)>> \in Seq(X \X X) /\ Len(<<PairAt(rest, c)>>) = 1
    BY <1>3
  <2>2. /\ d \in Seq(X \X X) /\ Len(d) = 1 + Len(e)
        /\ \A i \in 1..1 + Len(e) : d[i] = IF i <= 1 THEN <<PairAt(rest, c)>>[i] ELSE e[i - 1]
    BY <1>4, <2>1, ConcatProperties
  <2> HIDE DEF d
  <2>3. d[1] = PairAt(rest, c)
    BY <1>4, <2>2
  <2>4. ASSUME NEW k \in 1..Len(e) PROVE d[k + 1] = e[k]
    <3>1. k + 1 \in 1..1 + Len(e) /\ ~ (k + 1 <= 1) /\ k + 1 - 1 = k
      BY <1>4
    <3> QED BY <2>2, <3>1
  <2> QED BY <1>4, <2>2, <2>3, <2>4
<1> HIDE DEF d, r
<1>6. Len(d) = Len(rest) \div 2
  BY <1>2, <1>4, <1>5
<1>7. ASSUME NEW k \in 1..Len(d)
      PROVE  k = 1 \/ (k - 1 \in 1..Len(e) /\ d[k] = e[k - 1])
  BY <1>4, <1>5
<1>8. ASSUME NEW k \in 1..Len(e), NEW a \in {1, 2}
      PROVE  \E i \in 1..n : e[k][a] = r[i]
  BY <1>2 DEF Drawn, r
<1>9. ASSUME NEW k \in 1..Len(d), NEW a \in {1, 2}
      PROVE  \E i \in 1..Len(rest) : d[k][a] = rest[i]
  <2>1. CASE k = 1
    BY <1>1, <1>3, <1>5, <2>1
  <2>2. CASE k - 1 \in 1..Len(e) /\ d[k] = e[k - 1]
    <3>1. PICK i \in 1..n : e[k - 1][a] = r[i]
      BY <1>8, <2>2
    <3> QED BY <1>2, <2>2, <3>1
  <2> QED BY <1>7, <2>1, <2>2
<1>10. ASSUME Spread(R, rest) PROVE DrawSpread(R, d)
  <2>0. \A i, j \in 1..Len(rest) : i # j => <<rest[i], rest[j]>> \in R
    BY <1>10 DEF Spread
  <2>1. \A i, j \in 1..n : i # j => <<r[i], r[j]>> \in R
    BY <1>2, <2>0
  <2>2. DrawSpread(R, e)
    <3>1. Spread(R, r)
      BY <1>2, <2>1 DEF Spread
    <3> QED BY <3>1 DEF Drawn, r
  <2>3. ASSUME NEW k \in 1..Len(e), NEW a \in {1, 2}, NEW i \in {c[1], c[2]}
        PROVE  <<e[k][a], rest[i]>> \in R /\ <<rest[i], e[k][a]>> \in R
    <3>1. PICK j \in 1..n : e[k][a] = r[j]
      BY <1>8
    <3>2. r[j] = rest[Stood(c, j)] /\ Stood(c, j) \in 1..Len(rest) /\ Stood(c, j) # i
      BY <1>2
    <3> QED BY <1>1, <2>0, <3>1, <3>2
  <2>4. ASSUME NEW k \in 1..Len(d), NEW l \in 1..Len(d), NEW a \in {1, 2}, NEW b \in {1, 2},
               k # l \/ a # b
        PROVE  <<d[k][a], d[l][b]>> \in R
    <3>1. CASE k = 1 /\ l = 1
      BY <1>1, <1>3, <1>5, <2>0, <2>4, <3>1
    <3>2. CASE k = 1 /\ l - 1 \in 1..Len(e) /\ d[l] = e[l - 1]
      <4>1. d[k][a] = rest[c[a]] /\ c[a] \in {c[1], c[2]}
        BY <1>3, <1>5, <3>2
      <4> QED BY <2>3, <3>2, <4>1
    <3>3. CASE l = 1 /\ k - 1 \in 1..Len(e) /\ d[k] = e[k - 1]
      <4>1. d[l][b] = rest[c[b]] /\ c[b] \in {c[1], c[2]}
        BY <1>3, <1>5, <3>3
      <4> QED BY <2>3, <3>3, <4>1
    <3>4. CASE k - 1 \in 1..Len(e) /\ d[k] = e[k - 1] /\ l - 1 \in 1..Len(e) /\ d[l] = e[l - 1]
      <4>1. k - 1 # l - 1 \/ a # b
        BY <2>4
      <4>2. DOMAIN e = 1..Len(e)
        BY <1>4
      <4> QED BY <2>2, <3>4, <4>1, <4>2 DEF DrawSpread
    <3> QED BY <1>7, <3>1, <3>2, <3>3, <3>4
  <2>5. DOMAIN d = 1..Len(d)
    BY <1>5
  <2> QED BY <2>4, <2>5 DEF DrawSpread
<1>11. Drawn(R, X, rest, d)
  BY <1>5, <1>6, <1>9, <1>10 DEF Drawn
<1> QED BY <1>11 DEF d

\* Whatever pairs are picked, Drawing returns half as many pairs as there are
\* entries, and no entry twice.
LEMMA DrawsFacts ==
  ASSUME NEW R, NEW X, NEW pick, Picks(pick, X), NEW d, Draws(d, X, pick)
  PROVE  \A rest \in Seq(X) : Drawn(R, X, rest, d[rest])
<1> DEFINE S == Seq(X)
           m == [rest \in S |-> Len(rest)]
           Bad == {rest \in S : ~ Drawn(R, X, rest, d[rest])}
<1>3. SUFFICES ASSUME Bad # {} PROVE FALSE
  BY <1>3
<1>4. PICK rest \in Bad : \A y \in Bad : m[rest] <= m[y]
  <2>1. m \in [S -> Nat] /\ Bad \in SUBSET S
    OBVIOUS
  <2> HIDE DEF S, m, Bad
  <2> QED BY <1>3, <2>1, Descent
<1>7. rest \in Seq(X) /\ Len(rest) \in Nat
  BY <1>4
<1>5. CASE Len(rest) < 2
  <2>1. d[rest] = <<>>
    BY <1>4, <1>5 DEF Draws
  <2>3. Drawn(R, X, rest, <<>>)
    <3>1. Len(rest) \div 2 = 0
      <4>1. \A n \in Nat : n < 2 => n \div 2 = 0
        OBVIOUS
      <4> HIDE DEF Bad, S, m
      <4> QED BY <1>5, <1>7, <4>1
    <3>2. <<>> \in Seq(X \X X) /\ Len(<<>>) = 0 /\ DOMAIN <<>> = {}
      OBVIOUS
    <3> QED BY <3>1, <3>2 DEF Drawn, DrawSpread
  <2> QED BY <1>4, <2>1, <2>3
<1>6. CASE Len(rest) >= 2
  <2> DEFINE c == pick[rest]
  <2>1. rest \in Seq(X) /\ c \in Positions(rest)
    BY <1>4, <1>6 DEF Picks
  <2>2. d[rest] = <<PairAt(rest, c)>> \o d[Rest(rest, c)]
    <3> HIDE DEF Bad, m, c
    <3>1. d = [r \in Seq(X) |-> IF Len(r) < 2 THEN <<>>
                                ELSE <<PairAt(r, pick[r])>> \o d[Rest(r, pick[r])]]
      BY DEF Draws
    <3>2. ~ (Len(rest) < 2)
      BY <1>6, <1>7
    <3> QED BY <1>7, <3>1, <3>2 DEF c
  <2>3. Rest(rest, c) \in S /\ Len(Rest(rest, c)) = Len(rest) - 2
    BY <2>1, RestFacts
  <2>4. Rest(rest, c) \notin Bad
    <3>1. m[Rest(rest, c)] = Len(rest) - 2 /\ m[rest] = Len(rest) /\ Len(rest) \in Nat
      BY <2>1, <2>3
    <3>2. ~ (m[rest] <= m[Rest(rest, c)])
      BY <3>1
    <3> HIDE DEF Bad
    <3> QED BY <1>4, <3>2
  <2>5. Drawn(R, X, Rest(rest, c), d[Rest(rest, c)])
    BY <2>3, <2>4
  <2>6. Drawn(R, X, rest, d[rest])
    <3> HIDE DEF c
    <3> QED BY <1>6, <2>1, <2>2, <2>5, DrawnStep
  <2> QED BY <1>4, <2>6
<1> QED BY <1>5, <1>6, <1>7

\* It is the pair that is picked, then the draw of the others.
LEMMA DrawsUnfold ==
  ASSUME NEW X, NEW pick, Picks(pick, X), NEW d, Draws(d, X, pick), NEW rest \in Seq(X),
         Len(rest) >= 2
  PROVE  LET r == Rest(rest, pick[rest]) IN
         /\ pick[rest] \in Positions(rest) /\ r \in Seq(X) /\ Len(r) = Len(rest) - 2
         /\ Len(d[rest]) = Len(d[r]) + 1 /\ Len(d[r]) \in Nat
         /\ d[rest][1] = PairAt(rest, pick[rest])
         /\ \A k \in 1..Len(d[r]) : d[rest][k + 1] = d[r][k]
<1> DEFINE c == pick[rest]
           r == Rest(rest, c)
<1>1. c \in Positions(rest)
  BY DEF Picks
<1>2. r \in Seq(X) /\ Len(r) = Len(rest) - 2
  <2> HIDE DEF c
  <2> QED BY <1>1, RestFacts
<1>3. d[rest] = <<PairAt(rest, c)>> \o d[r]
  <2>1. d = [s \in Seq(X) |-> IF Len(s) < 2 THEN <<>>
                              ELSE <<PairAt(s, pick[s])>> \o d[Rest(s, pick[s])]]
    BY DEF Draws
  <2>2. ~ (Len(rest) < 2) /\ Len(rest) \in Nat
    OBVIOUS
  <2> QED BY <2>1, <2>2
<1>4. d[r] \in Seq(X \X X)
  <2>1. \A s \in Seq(X) : Drawn({}, X, s, d[s])
    BY DrawsFacts
  <2> HIDE DEF r
  <2> QED BY <1>2, <2>1 DEF Drawn
<1>5. PairAt(rest, c) \in X \X X
  <2>1. c[1] \in 1..Len(rest) /\ c[2] \in 1..Len(rest)
    BY <1>1 DEF Positions
  <2> HIDE DEF c
  <2> QED BY <2>1 DEF PairAt
<1> HIDE DEF r, c
<1>6. /\ Len(<<PairAt(rest, c)>> \o d[r]) = Len(d[r]) + 1 /\ Len(d[r]) \in Nat
      /\ (<<PairAt(rest, c)>> \o d[r])[1] = PairAt(rest, c)
      /\ \A k \in 1..Len(d[r]) : (<<PairAt(rest, c)>> \o d[r])[k + 1] = d[r][k]
  <2> DEFINE x == PairAt(rest, c)
             Y == X \X X
             t == d[r]
  <2>1. x \in Y /\ t \in Seq(Y)
    BY <1>4, <1>5
  <2> HIDE DEF x, Y, t
  <2>2. /\ Len(<<x>> \o t) = Len(t) + 1 /\ Len(t) \in Nat /\ (<<x>> \o t)[1] = x
        /\ \A k \in 1..Len(t) : (<<x>> \o t)[k + 1] = t[k]
    <3>1. <<x>> \in Seq(Y) /\ Len(<<x>>) = 1 /\ <<x>>[1] = x
      BY <2>1
    <3> QED BY <2>1, <3>1, ConcatProperties
  <2> QED BY <2>2 DEF x, t
<1> QED BY <1>1, <1>2, <1>3, <1>6 DEF r, c

-----------------------------------------------------------------------------
(* The pairs that are picked.                                              *)

\* The first of some pairs of positions comes before the others.
LEMMA FirstOfFacts ==
  ASSUME NEW pairs \in SUBSET (Nat \X Nat), pairs # {}
  PROVE  /\ FirstOf(pairs) \in pairs
         /\ \A d \in pairs : \/ FirstOf(pairs)[1] < d[1]
                             \/ FirstOf(pairs)[1] = d[1] /\ FirstOf(pairs)[2] <= d[2]
<1>1. PICK a \in pairs : \A d \in pairs : a[1] <= d[1]
  <2> DEFINE m == [c \in Nat \X Nat |-> c[1]]
  <2>1. m \in [Nat \X Nat -> Nat]
    OBVIOUS
  <2>2. \E x \in pairs : \A y \in pairs : m[x] <= m[y]
    <3> HIDE DEF m
    <3> QED BY <2>1, Descent
  <2> QED BY <2>2
<1> DEFINE low == {d \in pairs : d[1] = a[1]}
<1>2. PICK b \in low : \A d \in low : b[2] <= d[2]
  <2> DEFINE m == [c \in Nat \X Nat |-> c[2]]
  <2>1. m \in [Nat \X Nat -> Nat] /\ low \in SUBSET (Nat \X Nat) /\ low # {}
    BY <1>1
  <2>2. \E x \in low : \A y \in low : m[x] <= m[y]
    <3> HIDE DEF m, low
    <3> QED BY <2>1, Descent
  <2> QED BY <2>2
<1>3. ASSUME NEW d \in pairs PROVE b[1] < d[1] \/ (b[1] = d[1] /\ b[2] <= d[2])
  <2>1. b[1] = a[1] /\ a[1] <= d[1] /\ b[1] \in Nat /\ d[1] \in Nat
    BY <1>1, <1>2
  <2>2. d[1] = a[1] => b[2] <= d[2]
    BY <1>2
  <2> QED BY <2>1, <2>2
<1>4. b \in pairs
  BY <1>2
<1>5. \E c \in pairs : \A d \in pairs : c[1] < d[1] \/ (c[1] = d[1] /\ c[2] <= d[2])
  <2> HIDE DEF low
  <2> QED BY <1>3, <1>4
<1> HIDE DEF low
<1> QED BY <1>5 DEF FirstOf

\* What generateMatchups picks from the entries that are left.
Fresh(rest, played) == {c \in Positions(rest) : ~Met(rest[c[1]], rest[c[2]], played)}
Greedy(rest, played) ==
  FirstOf(IF Fresh(rest, played) = {} THEN Positions(rest) ELSE Fresh(rest, played))

\* It is a pair that has not met, if there is one; the head of the list plays, if it has
\* an opponent it has not met.
LEMMA GreedyFacts ==
  ASSUME NEW X, NEW rest \in Seq(X), Len(rest) >= 2, NEW played
  PROVE  /\ Greedy(rest, played) \in Positions(rest)
         /\ Fresh(rest, played) # {} => Greedy(rest, played) \in Fresh(rest, played)
         /\ (\E i \in 2..Len(rest) : ~Met(rest[1], rest[i], played)) => Greedy(rest, played)[1] = 1
         /\ ~Met(rest[1], rest[2], played) => Greedy(rest, played) = <<1, 2>>
<1> DEFINE c == Greedy(rest, played)
           F == Fresh(rest, played)
           pairs == IF F = {} THEN Positions(rest) ELSE F
<1>1. /\ Len(rest) \in Nat /\ <<1, 2>> \in Positions(rest) /\ F \in SUBSET Positions(rest)
      /\ Positions(rest) \in SUBSET (Nat \X Nat)
  BY DEF Positions, Fresh
<1>2. pairs \in SUBSET (Nat \X Nat) /\ pairs # {} /\ c = FirstOf(pairs)
  BY <1>1 DEF Greedy
<1>3. c \in pairs /\ \A d \in pairs : c[1] < d[1] \/ (c[1] = d[1] /\ c[2] <= d[2])
  <2> HIDE DEF pairs, c
  <2> QED BY <1>2, FirstOfFacts
<1>4. c \in Positions(rest) /\ (F # {} => c \in F)
  <2> HIDE DEF c, F
  <2> QED BY <1>1, <1>3
<1>a. c[1] \in 1..Len(rest) /\ c[2] \in 1..Len(rest) /\ c[1] < c[2] /\ c = <<c[1], c[2]>>
  <2> HIDE DEF c
  <2> QED BY <1>4 DEF Positions
<1>5. ASSUME NEW i \in 2..Len(rest), ~Met(rest[1], rest[i], played)
      PROVE  <<1, i>> \in pairs /\ c[1] = 1 /\ c[2] <= i
  <2>1. <<1, i>> \in F
    <3>1. <<1, i>> \in Positions(rest)
      BY <1>1 DEF Positions
    <3> QED BY <1>5, <3>1 DEF Fresh
  <2>2. <<1, i>> \in pairs
    <3> HIDE DEF F
    <3> QED BY <2>1
  <2>3. c[1] < 1 \/ (c[1] = 1 /\ c[2] <= i)
    <3>1. <<1, i>>[1] = 1 /\ <<1, i>>[2] = i
      OBVIOUS
    <3> HIDE DEF c, pairs
    <3> QED BY <1>3, <2>2, <3>1
  <2> HIDE DEF c, pairs
  <2> QED BY <1>1, <1>a, <2>2, <2>3
<1>6. ASSUME ~Met(rest[1], rest[2], played) PROVE c = <<1, 2>>
  <2>1. 2 \in 2..Len(rest)
    BY <1>1
  <2>2. c[1] = 1 /\ c[2] <= 2
    <3> HIDE DEF c, pairs
    <3> QED BY <1>5, <1>6, <2>1
  <2> HIDE DEF c
  <2> QED BY <1>1, <1>a, <2>2
<1> HIDE DEF c, F, pairs
<1> QED BY <1>4, <1>5, <1>6 DEF c, F

\* The best remaining team gets the first peer of its record that it has not met, else
\* the next in the ranking.
LEMMA OpponentFacts ==
  ASSUME NEW X, NEW played, NEW rest \in Seq(X), Len(rest) >= 2
  PROVE  LET peers == {i \in 2..Len(rest) :
                         /\ WinRecord(rest[i], played) = WinRecord(rest[1], played)
                         /\ ~Met(rest[1], rest[i], played)}
             o == Opponent(rest, played)
         IN /\ <<1, o>> \in Positions(rest)
            /\ peers = {} => o = 2
            /\ peers # {} => o \in peers /\ \A i \in peers : o <= i
<1> DEFINE peers == {i \in 2..Len(rest) :
                  /\ WinRecord(rest[i], played) = WinRecord(rest[1], played)
                  /\ ~Met(rest[1], rest[i], played)}
<1>1. peers \in SUBSET Nat /\ peers \subseteq 2..Len(rest)
  OBVIOUS
<1>2. Opponent(rest, played) = IF peers = {} THEN 2 ELSE Min(peers)
  BY DEF Opponent
<1> HIDE DEF peers
<1>3. peers # {} => Min(peers) \in peers /\ \A i \in peers : Min(peers) <= i
  <2>1. SUFFICES ASSUME peers # {} PROVE \E x \in peers : \A y \in peers : x <= y
    BY DEF Min
  <2> DEFINE m == [k \in Nat |-> k]
  <2>2. m \in [Nat -> Nat]
    OBVIOUS
  <2>3. \E x \in peers : \A y \in peers : m[x] <= m[y]
    <3> HIDE DEF m
    <3> QED BY <1>1, <2>1, <2>2, Descent
  <2> QED BY <1>1, <2>3
<1>4. Len(rest) \in Nat
  OBVIOUS
<1>5. Opponent(rest, played) \in 2..Len(rest)
  <2>1. 2 \in 2..Len(rest)
    BY <1>4
  <2> QED BY <1>1, <1>2, <1>3, <2>1
<1>6. <<1, Opponent(rest, played)>> \in Positions(rest)
  BY <1>4, <1>5 DEF Positions
<1> QED BY <1>2, <1>3, <1>6 DEF peers

-----------------------------------------------------------------------------
(* Sums over finite sets.                                                  *)

\* iter adds up the weights of a finite set's elements, in the order of MapThenSumSet.
Adds(iter, S, w) ==
  iter = [s \in SUBSET S |-> IF s = {} THEN 0
                             ELSE w[CHOOSE x \in s : TRUE] + iter[s \ {CHOOSE x \in s : TRUE}]]

\* The sum over a finite set exists ...
LEMMA SumExists ==
  ASSUME NEW S, IsFiniteSet(S), NEW w \in [S -> Int]
  PROVE  \E iter : Adds(iter, S, w)
<1> DEFINE P == SUBSET S
           m == [s \in P |-> Cardinality(s)]
           B == {{}}
           base == [s \in B |-> 0]
           one(s) == CHOOSE x \in s : TRUE
           smaller == [s \in P \ B |-> s \ {one(s)}]
           op == [s \in P \ B |-> [t \in Int |-> w[one(s)] + t]]
<1>1. ASSUME NEW s \in P PROVE IsFiniteSet(s) /\ Cardinality(s) \in Nat
  BY FS_Subset, FS_CardinalityType
<1>2. ASSUME NEW s \in P \ B
      PROVE  one(s) \in s /\ one(s) \in S /\ s \ {one(s)} \in P
  OBVIOUS
<1>3. m \in [P -> Nat] /\ B \in SUBSET P /\ base \in [B -> Int]
  <2>1. m \in [P -> Nat]
    BY <1>1
  <2> QED BY <2>1
<1>4. smaller \in [P \ B -> P]
  BY <1>2
<1>5. op \in [P \ B -> [Int -> Int]]
  <2>1. ASSUME NEW s \in P \ B PROVE w[one(s)] \in Int
    <3> HIDE DEF one, P, B
    <3> QED BY <1>2, <2>1
  <2> HIDE DEF one, P, B
  <2>2. ASSUME NEW s \in P \ B PROVE [t \in Int |-> w[one(s)] + t] \in [Int -> Int]
    BY <2>1, <2>2
  <2> QED BY <2>2
<1>6. \A s \in P \ B : m[smaller[s]] < m[s]
  <2>1. ASSUME NEW s \in P \ B PROVE m[smaller[s]] < m[s]
    <3>1. m[s] = Cardinality(s) /\ smaller[s] = s \ {one(s)} /\ m[smaller[s]] = Cardinality(s \ {one(s)})
      BY <1>2
    <3> HIDE DEF m, one, smaller, P, B
    <3>2. IsFiniteSet(s) /\ Cardinality(s) \in Nat /\ one(s) \in s
      BY <1>1, <1>2, <2>1
    <3>3. Cardinality(s \ {one(s)}) = Cardinality(s) - 1
      BY <3>2, FS_RemoveElement
    <3> QED BY <3>1, <3>2, <3>3
  <2> QED BY <2>1
<1>7. PICK f \in [P -> Int] : Follows(f, P, B, base, smaller, op)
  <2> HIDE DEF P, m, B, base, smaller, op
  <2> QED BY <1>3, <1>4, <1>5, <1>6, Recursion
<1>8. ASSUME NEW s \in P
      PROVE  f[s] = IF s = {} THEN 0 ELSE w[one(s)] + f[s \ {one(s)}]
  <2>1. CASE s = {}
    BY <1>7, <2>1 DEF Follows
  <2>2. CASE s # {}
    <3>1. f[s] = op[s][f[smaller[s]]]
      BY <1>7, <2>2 DEF Follows
    <3>2. smaller[s] = s \ {one(s)} /\ f[s \ {one(s)}] \in Int
      BY <1>2, <1>7, <2>2
    <3>3. op[s] = [t \in Int |-> w[one(s)] + t]
      BY <2>2
    <3> HIDE DEF op, smaller, one
    <3> QED BY <2>2, <3>1, <3>2, <3>3
  <2> QED BY <2>1, <2>2
<1>9. f = [s \in P |-> f[s]]
  BY <1>7
<1>10. f = [s \in P |-> IF s = {} THEN 0 ELSE w[one(s)] + f[s \ {one(s)}]]
  <2> HIDE DEF one, P
  <2> QED BY <1>8, <1>9
<1>11. Adds(f, S, w)
  BY <1>10 DEF Adds
<1> QED BY <1>11

\* ... and is an integer.
LEMMA SumIsInt ==
  ASSUME NEW S, IsFiniteSet(S), NEW w \in [S -> Int], NEW iter, Adds(iter, S, w)
  PROVE  iter[S] \in Int
<1> DEFINE P == SUBSET S
           m == [s \in P |-> Cardinality(s)]
           Bad == {s \in P : iter[s] \notin Int}
           one(s) == CHOOSE x \in s : TRUE
<1>1. SUFFICES ASSUME Bad # {} PROVE FALSE
  BY <1>1
<1>2. ASSUME NEW s \in P PROVE IsFiniteSet(s) /\ Cardinality(s) \in Nat
  BY FS_Subset, FS_CardinalityType
<1>3. PICK s \in Bad : \A r \in Bad : m[s] <= m[r]
  <2>1. m \in [P -> Nat] /\ Bad \in SUBSET P
    BY <1>2
  <2> HIDE DEF m, Bad, P
  <2> QED BY <1>1, <2>1, Descent
<1>4. iter[s] = IF s = {} THEN 0 ELSE w[one(s)] + iter[s \ {one(s)}]
  BY <1>3 DEF Adds
<1>5. s # {} /\ s \in P /\ iter[s] \notin Int
  BY <1>3, <1>4
<1>6. one(s) \in s /\ one(s) \in S /\ s \ {one(s)} \in P
  BY <1>5
<1>7. m[s \ {one(s)}] = m[s] - 1 /\ m[s] \in Nat
  <2>1. m[s] = Cardinality(s) /\ m[s \ {one(s)}] = Cardinality(s \ {one(s)})
    BY <1>5, <1>6
  <2>2. IsFiniteSet(s) /\ Cardinality(s) \in Nat
    BY <1>2, <1>5
  <2> HIDE DEF one, m
  <2> QED BY <1>6, <2>1, <2>2, FS_RemoveElement
<1>8. iter[s \ {one(s)}] \in Int
  <2>1. s \ {one(s)} \notin Bad
    <3> HIDE DEF m, Bad, one
    <3> QED BY <1>3, <1>7
  <2> HIDE DEF one
  <2> QED BY <1>6, <2>1
<1> HIDE DEF one
<1> QED BY <1>4, <1>5, <1>6, <1>8

\* Sums over the same elements agree, whatever larger sets they are part of.
LEMMA SumAgrees ==
  ASSUME NEW S, IsFiniteSet(S), NEW v, NEW f, Adds(f, S, v),
         NEW T, NEW w, NEW g, Adds(g, T, w),
         NEW U, U \in SUBSET S, U \in SUBSET T, \A x \in U : v[x] = w[x]
  PROVE  f[U] = g[U]
<1> DEFINE P == SUBSET U
           m == [s \in P |-> Cardinality(s)]
           Bad == {s \in P : f[s] # g[s]}
           one(s) == CHOOSE x \in s : TRUE
<1>1. SUFFICES ASSUME Bad # {} PROVE FALSE
  BY <1>1
<1>2. IsFiniteSet(U)
  BY FS_Subset
<1>3. ASSUME NEW s \in P PROVE IsFiniteSet(s) /\ Cardinality(s) \in Nat
  BY <1>2, FS_Subset, FS_CardinalityType
<1>4. PICK s \in Bad : \A r \in Bad : m[s] <= m[r]
  <2>1. m \in [P -> Nat] /\ Bad \in SUBSET P
    BY <1>3
  <2> HIDE DEF m, Bad, P
  <2> QED BY <1>1, <2>1, Descent
<1>5. /\ f[s] = IF s = {} THEN 0 ELSE v[one(s)] + f[s \ {one(s)}]
      /\ g[s] = IF s = {} THEN 0 ELSE w[one(s)] + g[s \ {one(s)}]
  <2>1. s \in SUBSET S /\ s \in SUBSET T
    BY <1>4
  <2> QED BY <2>1 DEF Adds
<1>6. s # {} /\ s \in P /\ f[s] # g[s]
  BY <1>4, <1>5
<1>7. one(s) \in s /\ one(s) \in U /\ s \ {one(s)} \in P
  BY <1>6
<1>8. m[s \ {one(s)}] = m[s] - 1 /\ m[s] \in Nat
  <2>1. m[s] = Cardinality(s) /\ m[s \ {one(s)}] = Cardinality(s \ {one(s)})
    BY <1>6, <1>7
  <2>2. IsFiniteSet(s) /\ Cardinality(s) \in Nat
    BY <1>3, <1>6
  <2> HIDE DEF one, m
  <2>3. Cardinality(s \ {one(s)}) = Cardinality(s) - 1
    BY <1>7, <2>2, FS_RemoveElement
  <2> QED BY <2>1, <2>2, <2>3
<1>9. f[s \ {one(s)}] = g[s \ {one(s)}]
  <2>1. s \ {one(s)} \notin Bad
    <3> HIDE DEF m, Bad, one
    <3> QED BY <1>4, <1>8
  <2> HIDE DEF one
  <2> QED BY <1>7, <2>1
<1>10. v[one(s)] = w[one(s)]
  <2> HIDE DEF one
  <2> QED BY <1>7
<1> HIDE DEF one
<1> QED BY <1>5, <1>6, <1>9, <1>10

\* The sum of the weights of a set's elements.
SumOver(S, w) == SumFunction([x \in S |-> w[x]])

\* It is what an iteration over any finite set with these elements adds up.
LEMMA SumIterates ==
  ASSUME NEW S, IsFiniteSet(S), NEW w, \A x \in S : w[x] \in Int
  PROVE  /\ \E iter : Adds(iter, S, w)
         /\ \A iter : Adds(iter, S, w) =>
              iter[S] \in Int /\ \A U \in SUBSET S : SumOver(U, w) = iter[U]
<1>1. ASSUME NEW U \in SUBSET S
      PROVE  \E iter : Adds(iter, U, w) /\ SumOver(U, w) = iter[U] /\ iter[U] \in Int
  <2> DEFINE v == [x \in U |-> w[x]]
             F(iter) == iter = [s \in SUBSET U |-> IF s = {} THEN 0
                  ELSE v[CHOOSE x \in s : TRUE] + iter[s \ {CHOOSE x \in s : TRUE}]]
  <2>1. IsFiniteSet(U) /\ v \in [U -> Int]
    BY FS_Subset
  <2>2. \E iter : Adds(iter, U, v)
    <3> HIDE DEF v
    <3> QED BY <2>1, SumExists
  <2>3. \A iter : F(iter) <=> Adds(iter, U, v)
    BY DEF Adds
  <2>4. DOMAIN v = U
    OBVIOUS
  <2>5. SumFunction(v) = (CHOOSE iter : F(iter))[U]
    <3> HIDE DEF v
    <3> QED BY <2>4 DEF SumFunction, SumFunctionOnSet, FoldFunctionOnSet, MapThenFoldSet
  <2>6. F(CHOOSE iter : F(iter))
    <3> HIDE DEF F
    <3> QED BY <2>2, <2>3
  <2> DEFINE C == CHOOSE iter : F(iter)
  <2>7. Adds(C, U, v)
    <3> HIDE DEF F
    <3> QED BY <2>3, <2>6
  <2>8. SumOver(U, w) = C[U]
    BY <2>5 DEF SumOver
  <2> HIDE DEF C
  <2>9. C[U] \in Int
    <3> HIDE DEF v
    <3> QED BY <2>1, <2>7, SumIsInt
  <2>10. Adds(C, U, w)
    <3>1. ASSUME NEW s \in SUBSET U, s # {}
          PROVE  v[CHOOSE x \in s : TRUE] = w[CHOOSE x \in s : TRUE]
      BY <3>1
    <3> HIDE DEF v
    <3> QED BY <2>7, <3>1 DEF Adds
  <2> QED BY <2>8, <2>9, <2>10
<1>2. \E iter : Adds(iter, S, w)
  BY <1>1
<1>3. ASSUME NEW f, Adds(f, S, w), NEW U \in SUBSET S
      PROVE  SumOver(U, w) = f[U] /\ f[U] \in Int
  <2>1. PICK g : Adds(g, U, w) /\ SumOver(U, w) = g[U] /\ g[U] \in Int
    BY <1>1
  <2>2. f[U] = g[U]
    BY <1>3, <2>1, SumAgrees
  <2> QED BY <2>1, <2>2
<1> QED BY <1>2, <1>3

\* A sum of whole numbers is a whole number.
LEMMA SumIsTyped ==
  ASSUME NEW S, IsFiniteSet(S), NEW w, \A x \in S : w[x] \in Int
  PROVE  SumOver(S, w) \in Int
  BY SumIterates

\* The sum over nothing is zero.
LEMMA SumOfNone ==
  ASSUME NEW w
  PROVE  SumOver({}, w) = 0
<1>1. IsFiniteSet({})
  BY FS_EmptySet
<1>2. PICK iter : Adds(iter, {}, w)
  BY <1>1, SumIterates
<1>3. iter[{}] = 0
  BY <1>2 DEF Adds
<1>4. SumOver({}, w) = iter[{}]
  BY <1>1, <1>2, SumIterates
<1> QED BY <1>3, <1>4

\* Any element can be taken out of a sum: the order does not matter.
LEMMA SumTakes ==
  ASSUME NEW S, IsFiniteSet(S), NEW w, \A x \in S : w[x] \in Int, NEW x \in S
  PROVE  SumOver(S, w) = w[x] + SumOver(S \ {x}, w)
<1>1. PICK f : Adds(f, S, w)
  BY SumIterates
<1>2. ASSUME NEW U \in SUBSET S
      PROVE  f[U] = SumOver(U, w) /\ f[U] \in Int /\ IsFiniteSet(U) /\ Cardinality(U) \in Nat
  <2>1. IsFiniteSet(U) /\ Cardinality(U) \in Nat /\ \A y \in U : w[y] \in Int
    BY FS_Subset, FS_CardinalityType
  <2> QED BY <1>1, <2>1, SumIterates, SumIsTyped
<1> DEFINE P == SUBSET S
           m == [s \in P |-> Cardinality(s)]
           Bad == {s \in P : \E y \in s : f[s] # w[y] + f[s \ {y}]}
           one(s) == CHOOSE y \in s : TRUE
<1>3. Bad = {}
  <2>1. SUFFICES ASSUME Bad # {} PROVE FALSE
    BY <2>1
  <2>2. PICK s \in Bad : \A r \in Bad : m[s] <= m[r]
    <3>1. m \in [P -> Nat] /\ Bad \in SUBSET P
      BY <1>2
    <3> HIDE DEF m, Bad, P
    <3> QED BY <2>1, <3>1, Descent
  <2>3. PICK y \in s : f[s] # w[y] + f[s \ {y}]
    BY <2>2
  <2> DEFINE z == one(s)
  <2>4. z \in s /\ s \in P /\ y \in S /\ z \in S
    BY <2>2, <2>3
  <2>5. f[s] = w[z] + f[s \ {z}]
    BY <1>1, <2>3, <2>4 DEF Adds
  <2> HIDE DEF z, one
  <2>6. z # y
    BY <2>3, <2>5
  <2>7. ASSUME NEW u \in s PROVE s \ {u} \in P /\ s \ {u} \notin Bad
    <3>1. s \ {u} \in P
      BY <2>4
    <3>2. m[s \ {u}] = Cardinality(s \ {u}) /\ m[s] = Cardinality(s)
      BY <2>4, <3>1
    <3>3. IsFiniteSet(s) /\ Cardinality(s) \in Nat
      BY <1>2, <2>4
    <3>4. Cardinality(s \ {u}) = Cardinality(s) - 1
      BY <3>3, FS_RemoveElement
    <3> HIDE DEF m, Bad
    <3> QED BY <2>2, <3>1, <3>2, <3>3, <3>4
  <2>8. f[s \ {z}] = w[y] + f[(s \ {z}) \ {y}]
    <3>1. y \in s \ {z}
      BY <2>6
    <3> QED BY <2>4, <2>7, <3>1
  <2>9. f[s \ {y}] = w[z] + f[(s \ {y}) \ {z}]
    <3>1. z \in s \ {y}
      BY <2>4, <2>6
    <3> QED BY <2>7, <3>1
  <2>10. (s \ {z}) \ {y} = (s \ {y}) \ {z} /\ (s \ {y}) \ {z} \in SUBSET S
    BY <2>4
  <2>11. f[(s \ {y}) \ {z}] \in Int /\ w[y] \in Int /\ w[z] \in Int
    BY <1>2, <2>4, <2>10
  <2>12. f[(s \ {z}) \ {y}] = f[(s \ {y}) \ {z}]
    BY <2>10
  <2> HIDE DEF Bad, P
  <2> QED BY <2>3, <2>5, <2>8, <2>9, <2>11, <2>12
<1>4. f[S] = w[x] + f[S \ {x}]
  BY <1>3
<1>5. S \in SUBSET S /\ S \ {x} \in SUBSET S
  OBVIOUS
<1> QED BY <1>2, <1>4, <1>5

\* The sum over two sets without a common element.
LEMMA SumSplits ==
  ASSUME NEW S, NEW T, IsFiniteSet(S), IsFiniteSet(T), S \cap T = {},
         NEW w, \A x \in S \cup T : w[x] \in Int
  PROVE  SumOver(S \cup T, w) = SumOver(S, w) + SumOver(T, w)
<1> DEFINE P == SUBSET T
           m == [s \in P |-> Cardinality(s)]
           Bad == {s \in P : SumOver(S \cup s, w) # SumOver(S, w) + SumOver(s, w)}
<1>1. ASSUME NEW s \in P
      PROVE  /\ IsFiniteSet(s) /\ Cardinality(s) \in Nat /\ IsFiniteSet(S \cup s)
             /\ \A x \in S \cup s : w[x] \in Int
             /\ SumOver(s, w) \in Int /\ SumOver(S \cup s, w) \in Int /\ SumOver(S, w) \in Int
  <2>1. IsFiniteSet(s) /\ Cardinality(s) \in Nat /\ IsFiniteSet(S \cup s)
    BY FS_Subset, FS_CardinalityType, FS_Union
  <2>2. \A x \in S \cup s : w[x] \in Int
    OBVIOUS
  <2>3. SumOver(s, w) \in Int /\ SumOver(S \cup s, w) \in Int /\ SumOver(S, w) \in Int
    BY <2>1, <2>2, SumIsTyped
  <2> QED BY <2>1, <2>2, <2>3
<1>2. Bad = {}
  <2>1. SUFFICES ASSUME Bad # {} PROVE FALSE
    BY <2>1
  <2>2. PICK s \in Bad : \A r \in Bad : m[s] <= m[r]
    <3>1. m \in [P -> Nat] /\ Bad \in SUBSET P
      BY <1>1
    <3> HIDE DEF m, Bad, P
    <3> QED BY <2>1, <3>1, Descent
  <2>3. s \in P /\ SumOver(S \cup s, w) # SumOver(S, w) + SumOver(s, w)
    BY <2>2
  <2>4. s # {}
    <3>1. SUFFICES ASSUME s = {} PROVE FALSE
      OBVIOUS
    <3>2. S \cup s = S
      BY <3>1
    <3>3. SumOver(S \cup s, w) = SumOver(S, w) /\ SumOver(s, w) = 0
      BY <3>1, <3>2, SumOfNone
    <3>4. SumOver(S, w) \in Int
      BY <1>1, <2>3
    <3> HIDE DEF Bad, P
    <3> QED BY <2>3, <3>3, <3>4
  <2>5. PICK x \in s : TRUE
    BY <2>4
  <2>6. s \ {x} \in P /\ s \ {x} \notin Bad
    <3>1. s \ {x} \in P
      BY <2>3
    <3>2. m[s \ {x}] = Cardinality(s \ {x}) /\ m[s] = Cardinality(s)
      BY <2>3, <3>1
    <3>3. IsFiniteSet(s) /\ Cardinality(s) \in Nat
      BY <1>1, <2>3
    <3>4. Cardinality(s \ {x}) = Cardinality(s) - 1
      BY <2>5, <3>3, FS_RemoveElement
    <3> HIDE DEF m, Bad, P
    <3> QED BY <2>2, <3>1, <3>2, <3>3, <3>4
  <2>7. SumOver(S \cup (s \ {x}), w) = SumOver(S, w) + SumOver(s \ {x}, w)
    BY <2>6
  <2>8. SumOver(s, w) = w[x] + SumOver(s \ {x}, w)
    BY <1>1, <2>3, <2>5, SumTakes
  <2>9. SumOver(S \cup s, w) = w[x] + SumOver(S \cup (s \ {x}), w)
    <3>1. (S \cup s) \ {x} = S \cup (s \ {x}) /\ x \in S \cup s
      BY <2>3, <2>5
    <3>2. IsFiniteSet(S \cup s) /\ \A y \in S \cup s : w[y] \in Int
      BY <1>1, <2>3
    <3> HIDE DEF Bad, P
    <3>3. SumOver(S \cup s, w) = w[x] + SumOver((S \cup s) \ {x}, w)
      BY <3>1, <3>2, SumTakes
    <3> QED BY <3>1, <3>3
  <2>10. w[x] \in Int /\ SumOver(S, w) \in Int /\ SumOver(s \ {x}, w) \in Int
    BY <1>1, <2>3, <2>5, <2>6
  <2> HIDE DEF Bad, P
  <2> QED BY <2>3, <2>7, <2>8, <2>9, <2>10
<1>3. T \in P
  OBVIOUS
<1> QED BY <1>2, <1>3

\* M measures the parts of U: two that share nothing weigh as much as both together.
Additive(M, U) ==
  /\ M \in [SUBSET U -> Int]
  /\ \A A, B \in SUBSET U : A \cap B = {} => M[A \cup B] = M[A] + M[B]

\* Nothing weighs nothing.
LEMMA NothingWeighsNothing ==
  ASSUME NEW U, NEW M, Additive(M, U)
  PROVE  M[{}] = 0
<1>1. {} \cup {} = {} /\ {} \cap {} = {} /\ {} \in SUBSET U
  OBVIOUS
<1>2. M[{}] = M[{}] + M[{}] /\ M[{}] \in Int
  BY <1>1 DEF Additive
<1> QED BY <1>2

\* Parts of which no two overlap.
Parts(T, n, U) ==
  /\ T \in [1..n -> SUBSET U]
  /\ \A i, j \in 1..n : i # j => T[i] \cap T[j] = {}

\* What the parts weigh adds up to what all of them weigh.
LEMMA SumOfParts ==
  ASSUME NEW U, NEW M, Additive(M, U), NEW n \in Nat, NEW T, Parts(T, n, U),
         NEW w, \A i \in 1..n : w[i] = M[T[i]]
  PROVE  SumOver(1..n, w) = M[UNION {T[i] : i \in 1..n}]
<1> DEFINE First(k) == UNION {T[i] : i \in 1..k}
           id == [k \in 0..n |-> k]
           Bad == {k \in 0..n : SumOver(1..k, w) # M[First(k)]}
<1>1. SUFFICES ASSUME Bad # {} PROVE FALSE
  <2>1. n \in 0..n
    OBVIOUS
  <2> QED BY <2>1
<1>2. PICK k \in Bad : \A l \in Bad : k <= l
  <2>1. id \in [0..n -> Nat] /\ Bad \in SUBSET (0..n)
    OBVIOUS
  <2>2. \E k \in Bad : \A l \in Bad : id[k] <= id[l]
    <3> HIDE DEF id, Bad
    <3> QED BY <1>1, <2>1, Descent
  <2> QED BY <2>2
<1>3. k \in 0..n /\ SumOver(1..k, w) # M[First(k)]
  BY <1>2
<1>4. M[{}] = 0
  BY NothingWeighsNothing
<1>5. k # 0
  <2>1. SUFFICES ASSUME k = 0 PROVE FALSE
    OBVIOUS
  <2>2. 1..k = {} /\ First(k) = {}
    BY <2>1
  <2>3. SumOver(1..k, w) = 0
    BY <2>2, SumOfNone
  <2> HIDE DEF First, Bad
  <2> QED BY <1>3, <1>4, <2>2, <2>3
<1>6. k - 1 \in 0..n /\ k - 1 \notin Bad
  <2>1. k - 1 \in 0..n /\ ~(k <= k - 1)
    BY <1>3, <1>5
  <2> HIDE DEF Bad
  <2> QED BY <1>2, <2>1
<1>7. SumOver(1..(k - 1), w) = M[First(k - 1)]
  BY <1>6
<1>8. k \in 1..n /\ \A i \in 1..k : i \in 1..n /\ w[i] \in Int
  <2>1. k \in 1..n /\ \A i \in 1..k : i \in 1..n
    BY <1>3, <1>5
  <2>2. \A i \in 1..n : T[i] \in SUBSET U
    BY DEF Parts
  <2> QED BY <2>1, <2>2 DEF Additive
<1>9. SumOver(1..k, w) = w[k] + SumOver(1..(k - 1), w)
  <2>1. k \in 1..k /\ (1..k) \ {k} = 1..(k - 1) /\ 1 \in Int /\ k \in Int
    BY <1>8
  <2>a. IsFiniteSet(1..k)
    BY <2>1, FS_Interval
  <2> HIDE DEF Bad
  <2>2. SumOver(1..k, w) = w[k] + SumOver((1..k) \ {k}, w)
    BY <1>8, <2>1, <2>a, SumTakes
  <2> QED BY <2>1, <2>2
<1>10. M[First(k)] = M[First(k - 1)] + M[T[k]]
  <2>1. \A i \in 1..(k - 1) : i \in 1..n /\ i # k
    BY <1>8
  <2>2. First(k - 1) \in SUBSET U /\ T[k] \in SUBSET U /\ First(k - 1) \cap T[k] = {}
    BY <1>8, <2>1 DEF Parts
  <2>3. First(k) = First(k - 1) \cup T[k]
    <3>1. 1..k = (1..(k - 1)) \cup {k}
      BY <1>8
    <3> QED BY <3>1
  <2> HIDE DEF First
  <2> QED BY <2>2, <2>3 DEF Additive
<1>11. M[First(k - 1)] \in Int /\ w[k] \in Int /\ w[k] = M[T[k]]
  <2>1. First(k - 1) \in SUBSET U
    <3>1. \A i \in 1..(k - 1) : i \in 1..n
      BY <1>8
    <3> QED BY <3>1 DEF Parts
  <2> HIDE DEF First
  <2> QED BY <1>8, <2>1 DEF Additive
<1> HIDE DEF First, Bad
<1> QED BY <1>3, <1>7, <1>9, <1>10, <1>11

\* The two sides of a game, for each of the games in s.
BothSides(s) == s \X {1, 2}

\* Measures that agree on the two sides of every game agree on all games.
LEMMA Balanced ==
  ASSUME NEW R, IsFiniteSet(R), NEW M, NEW N,
         Additive(M, BothSides(R)), Additive(N, BothSides(R)),
         \A g \in R : M[BothSides({g})] = N[BothSides({g})]
  PROVE  M[BothSides(R)] = N[BothSides(R)]
<1> DEFINE P == SUBSET R
           m == [s \in P |-> Cardinality(s)]
           Bad == {s \in P : M[BothSides(s)] # N[BothSides(s)]}
<1>1. SUFFICES ASSUME Bad # {} PROVE FALSE
  <2>1. R \in P
    OBVIOUS
  <2> QED BY <2>1
<1>2. ASSUME NEW s \in P PROVE IsFiniteSet(s) /\ Cardinality(s) \in Nat
  BY FS_Subset, FS_CardinalityType
<1>3. PICK s \in Bad : \A r \in Bad : m[s] <= m[r]
  <2>1. m \in [P -> Nat] /\ Bad \in SUBSET P
    BY <1>2
  <2> HIDE DEF m, Bad, P
  <2> QED BY <1>1, <2>1, Descent
<1>4. s \in P /\ M[BothSides(s)] # N[BothSides(s)]
  BY <1>3
<1>5. M[{}] = 0 /\ N[{}] = 0
  BY NothingWeighsNothing
<1>6. s # {}
  <2>1. SUFFICES ASSUME s = {} PROVE FALSE
    OBVIOUS
  <2>2. BothSides(s) = {}
    BY <2>1 DEF BothSides
  <2> HIDE DEF Bad
  <2> QED BY <1>4, <1>5, <2>2
<1>7. PICK g \in s : TRUE
  BY <1>6
<1>8. s \ {g} \in P /\ s \ {g} \notin Bad
  <2>1. s \ {g} \in P
    BY <1>4
  <2>2. m[s \ {g}] = Cardinality(s \ {g}) /\ m[s] = Cardinality(s)
    BY <1>4, <2>1
  <2>3. IsFiniteSet(s) /\ Cardinality(s) \in Nat
    BY <1>2, <1>4
  <2>4. Cardinality(s \ {g}) = Cardinality(s) - 1
    BY <1>7, <2>3, FS_RemoveElement
  <2> HIDE DEF m, Bad, P
  <2> QED BY <1>3, <2>1, <2>2, <2>3, <2>4
<1>9. M[BothSides(s \ {g})] = N[BothSides(s \ {g})] /\ M[BothSides({g})] = N[BothSides({g})]
  BY <1>4, <1>7, <1>8
<1>10. /\ BothSides(s) = BothSides(s \ {g}) \cup BothSides({g})
       /\ BothSides(s \ {g}) \cap BothSides({g}) = {}
       /\ BothSides(s \ {g}) \in SUBSET BothSides(R) /\ BothSides({g}) \in SUBSET BothSides(R)
  BY <1>4, <1>7 DEF BothSides
<1>11. /\ M[BothSides(s)] = M[BothSides(s \ {g})] + M[BothSides({g})]
       /\ N[BothSides(s)] = N[BothSides(s \ {g})] + N[BothSides({g})]
  <2> HIDE DEF Bad, P
  <2> QED BY <1>10 DEF Additive
<1> HIDE DEF Bad, P
<1> QED BY <1>4, <1>9, <1>11

\* Counting and summing are such measures.
LEMMA CountIsAdditive ==
  ASSUME NEW U, IsFiniteSet(U), NEW C \in SUBSET U
  PROVE  Additive([A \in SUBSET U |-> Cardinality(A \cap C)], U)
<1> DEFINE M == [A \in SUBSET U |-> Cardinality(A \cap C)]
<1>1. ASSUME NEW A \in SUBSET U PROVE IsFiniteSet(A \cap C) /\ Cardinality(A \cap C) \in Nat
  <2>1. A \cap C \in SUBSET U
    OBVIOUS
  <2> QED BY <2>1, FS_Subset, FS_CardinalityType
<1>2. ASSUME NEW A \in SUBSET U, NEW B \in SUBSET U, A \cap B = {}
      PROVE  M[A \cup B] = M[A] + M[B]
  <2>1. (A \cup B) \cap C = (A \cap C) \cup (B \cap C) /\ (A \cap C) \cap (B \cap C) = {}
    BY <1>2
  <2>2. IsFiniteSet(A \cap C) /\ IsFiniteSet(B \cap C) /\ Cardinality(A \cap C) \in Nat
        /\ Cardinality(B \cap C) \in Nat
    BY <1>1
  <2>3. Cardinality((A \cap C) \cup (B \cap C)) = Cardinality(A \cap C) + Cardinality(B \cap C)
    <3>1. Cardinality((A \cap C) \cup (B \cap C))
            = Cardinality(A \cap C) + Cardinality(B \cap C) - Cardinality((A \cap C) \cap (B \cap C))
      BY <2>2, FS_Union
    <3>2. Cardinality((A \cap C) \cap (B \cap C)) = 0
      BY <2>1, FS_EmptySet
    <3> QED BY <2>2, <3>1, <3>2
  <2>4. A \cup B \in SUBSET U
    OBVIOUS
  <2>5. M[A \cup B] = Cardinality((A \cup B) \cap C) /\ M[A] = Cardinality(A \cap C)
        /\ M[B] = Cardinality(B \cap C)
    BY <2>4
  <2> HIDE DEF M
  <2> QED BY <2>1, <2>3, <2>5
<1>3. M \in [SUBSET U -> Int]
  BY <1>1
<1> HIDE DEF M
<1>4. Additive(M, U)
  BY <1>2, <1>3 DEF Additive
<1> QED BY <1>4 DEF M

\* The sum over a set adds up over its parts.
LEMMA SumIsAdditive ==
  ASSUME NEW U, IsFiniteSet(U), NEW w, \A x \in U : w[x] \in Int
  PROVE  Additive([A \in SUBSET U |-> SumOver(A, w)], U)
<1> DEFINE M == [A \in SUBSET U |-> SumOver(A, w)]
<1>1. ASSUME NEW A \in SUBSET U PROVE IsFiniteSet(A) /\ SumOver(A, w) \in Int
  <2>1. IsFiniteSet(A) /\ \A x \in A : w[x] \in Int
    BY FS_Subset
  <2> QED BY <2>1, SumIsTyped
<1>2. ASSUME NEW A \in SUBSET U, NEW B \in SUBSET U, A \cap B = {}
      PROVE  M[A \cup B] = M[A] + M[B]
  <2>1. IsFiniteSet(A) /\ IsFiniteSet(B) /\ \A x \in A \cup B : w[x] \in Int
    BY <1>1
  <2>2. SumOver(A \cup B, w) = SumOver(A, w) + SumOver(B, w)
    BY <1>2, <2>1, SumSplits
  <2>3. A \cup B \in SUBSET U
    OBVIOUS
  <2> QED BY <2>2, <2>3
<1>3. M \in [SUBSET U -> Int]
  BY <1>1
<1> HIDE DEF M
<1>4. Additive(M, U)
  BY <1>2, <1>3 DEF Additive
<1> QED BY <1>4 DEF M

-----------------------------------------------------------------------------
(* The ranking.                                                            *)

\* A strict total order.
IsRanking(n, R) ==
  /\ R \in SUBSET ((1..n) \X (1..n))
  /\ \A i \in 1..n : <<i, i>> \notin R
  /\ \A i, j, k \in 1..n : <<i, j>> \in R /\ <<j, k>> \in R => <<i, k>> \in R
  /\ \A i, j \in 1..n : i # j => <<i, j>> \in R \/ <<j, i>> \in R

\* What stands above i.
Better(n, R, i) == {j \in 1..n : <<j, i>> \in R}

\* In a strict total order every rank is taken, by one element.
LEMMA RanksAreTaken ==
  ASSUME NEW n \in Nat, NEW R, IsRanking(n, R)
  PROVE  /\ \A r \in 1..n : \E i \in 1..n : Cardinality(Better(n, R, i)) = r - 1
         /\ \A i, j \in 1..n :
              /\ i # j => Cardinality(Better(n, R, i)) # Cardinality(Better(n, R, j))
              /\ <<i, j>> \in R => Cardinality(Better(n, R, i)) < Cardinality(Better(n, R, j))
<1> DEFINE A(i) == Better(n, R, i)
           f == [i \in 1..n |-> Cardinality(A(i))]
<1>1. IsFiniteSet(1..n) /\ Cardinality(1..n) = n
  BY FS_Interval
<1>2. ASSUME NEW i \in 1..n
      PROVE  IsFiniteSet(A(i)) /\ Cardinality(A(i)) \in 0..(n - 1)
  <2>1. A(i) \in SUBSET ((1..n) \ {i})
    BY DEF IsRanking, Better
  <2>2. IsFiniteSet((1..n) \ {i}) /\ Cardinality((1..n) \ {i}) = n - 1
    BY <1>1, FS_RemoveElement
  <2>3. IsFiniteSet(A(i)) /\ Cardinality(A(i)) <= n - 1
    <3> HIDE DEF A
    <3> QED BY <2>1, <2>2, FS_Subset
  <2>4. Cardinality(A(i)) \in Nat
    BY <2>3, FS_CardinalityType
  <2> QED BY <2>3, <2>4
<1>3. ASSUME NEW i \in 1..n, NEW j \in 1..n, <<i, j>> \in R
      PROVE  Cardinality(A(i)) < Cardinality(A(j))
  <2>1. A(i) \cup {i} \in SUBSET A(j) /\ i \notin A(i)
    BY <1>3 DEF IsRanking, Better
  <2> HIDE DEF A
  <2>2. IsFiniteSet(A(i)) /\ IsFiniteSet(A(j)) /\ Cardinality(A(i)) \in Nat /\ Cardinality(A(j)) \in Nat
    BY <1>2
  <2>3. Cardinality(A(i) \cup {i}) = Cardinality(A(i)) + 1
    BY <2>1, <2>2, FS_AddElement
  <2>4. Cardinality(A(i) \cup {i}) <= Cardinality(A(j))
    BY <2>1, <2>2, FS_Subset
  <2> QED BY <2>2, <2>3, <2>4
<1>4. ASSUME NEW i \in 1..n, NEW j \in 1..n, i # j
      PROVE  Cardinality(A(i)) # Cardinality(A(j))
  <2>1. <<i, j>> \in R \/ <<j, i>> \in R
    BY <1>4 DEF IsRanking
  <2>2. Cardinality(A(i)) \in Int /\ Cardinality(A(j)) \in Int
    BY <1>2
  <2> HIDE DEF A
  <2> QED BY <1>3, <2>1, <2>2
<1>5. f \in Injection(1..n, 0..(n - 1))
  <2>1. f \in [1..n -> 0..(n - 1)]
    BY <1>2
  <2>2. \A i, j \in 1..n : f[i] = f[j] => i = j
    BY <1>4
  <2> HIDE DEF f
  <2> QED BY <2>1, <2>2, Fun_IsInj
<1>6. IsFiniteSet(0..(n - 1)) /\ Cardinality(0..(n - 1)) = n
  BY FS_Interval
<1>7. f \in Surjection(1..n, 0..(n - 1))
  <2> HIDE DEF f
  <2> QED BY <1>1, <1>5, <1>6, FS_Injection
<1>8. ASSUME NEW r \in 1..n PROVE \E i \in 1..n : Cardinality(A(i)) = r - 1
  <2>1. r - 1 \in 0..(n - 1)
    OBVIOUS
  <2>2. \E i \in 1..n : f[i] = r - 1
    <3> HIDE DEF f
    <3> QED BY <1>7, <2>1 DEF Surjection
  <2> QED BY <2>2
<1> QED BY <1>3, <1>4, <1>8

\* What the ranking needs of the games it looks at.
IsScored(played) ==
  /\ IsFiniteSet(played)
  /\ \A g \in played : g.score[1] \in Int /\ g.score[2] \in Int

\* A team's points are sums over its games,
LEMMA PointsAreSums ==
  ASSUME NEW played, IsScored(played), NEW t
  PROVE  LET S == GamesOf(t, played)
             own == [g \in S |-> Own(t, g)]
             other == [g \in S |-> Other(t, g)]
         IN /\ IsFiniteSet(S) /\ \A g \in S : own[g] \in Int /\ other[g] \in Int
            /\ PointsFor(t, played) = SumOver(S, own)
            /\ PointsAgainst(t, played) = SumOver(S, other)
<1> DEFINE S == GamesOf(t, played)
           own == [g \in S |-> Own(t, g)]
           other == [g \in S |-> Other(t, g)]
<1>1. IsFiniteSet(S) /\ S \subseteq played
  BY FS_Subset DEF IsScored, GamesOf
<1>2. \A g \in S : own[g] \in Int /\ other[g] \in Int
  BY <1>1 DEF IsScored, Own, Other
<1>3. PointsFor(t, played) = SumOver(S, own)
  <2> DEFINE F(iter) == iter = [s \in SUBSET S |-> IF s = {} THEN 0
                  ELSE Own(t, CHOOSE x \in s : TRUE) + iter[s \ {CHOOSE x \in s : TRUE}]]
  <2>1. ASSUME NEW iter PROVE F(iter) <=> Adds(iter, S, own)
    <3>1. ASSUME NEW s \in SUBSET S, s # {}
          PROVE  own[CHOOSE x \in s : TRUE] = Own(t, CHOOSE x \in s : TRUE)
      BY <3>1
    <3> HIDE DEF S, own
    <3> QED BY <3>1 DEF Adds
  <2>2. PointsFor(t, played) = (CHOOSE iter : F(iter))[S]
    BY DEF PointsFor, MapThenSumSet, MapThenFoldSet
  <2>3. \E iter : Adds(iter, S, own)
    <3> HIDE DEF S, own
    <3> QED BY <1>1, <1>2, SumIterates
  <2>4. Adds(CHOOSE iter : F(iter), S, own)
    <3>1. F(CHOOSE iter : F(iter))
      <4> HIDE DEF F
      <4> QED BY <2>1, <2>3
    <3> HIDE DEF F
    <3> QED BY <2>1, <3>1
  <2> HIDE DEF F, S, own
  <2> QED BY <1>1, <1>2, <2>2, <2>4, SumIterates
<1>4. PointsAgainst(t, played) = SumOver(S, other)
  <2> DEFINE F(iter) == iter = [s \in SUBSET S |-> IF s = {} THEN 0
                  ELSE Other(t, CHOOSE x \in s : TRUE) + iter[s \ {CHOOSE x \in s : TRUE}]]
  <2>1. ASSUME NEW iter PROVE F(iter) <=> Adds(iter, S, other)
    <3>1. ASSUME NEW s \in SUBSET S, s # {}
          PROVE  other[CHOOSE x \in s : TRUE] = Other(t, CHOOSE x \in s : TRUE)
      BY <3>1
    <3> HIDE DEF S, other
    <3> QED BY <3>1 DEF Adds
  <2>2. PointsAgainst(t, played) = (CHOOSE iter : F(iter))[S]
    BY DEF PointsAgainst, MapThenSumSet, MapThenFoldSet
  <2>3. \E iter : Adds(iter, S, other)
    <3> HIDE DEF S, other
    <3> QED BY <1>1, <1>2, SumIterates
  <2>4. Adds(CHOOSE iter : F(iter), S, other)
    <3>1. F(CHOOSE iter : F(iter))
      <4> HIDE DEF F
      <4> QED BY <2>1, <2>3
    <3> HIDE DEF F
    <3> QED BY <2>1, <3>1
  <2> HIDE DEF F, S, other
  <2> QED BY <1>1, <1>2, <2>2, <2>4, SumIterates
<1> QED BY <1>1, <1>2, <1>3, <1>4

\* so they are integers,
LEMMA PointsAreInt ==
  ASSUME NEW played, IsScored(played), NEW t
  PROVE  PointsFor(t, played) \in Int /\ PointsAgainst(t, played) \in Int
  BY PointsAreSums, SumIsTyped

\* and so is a team's record.
LEMMA WinRecordIsInt ==
  ASSUME NEW played, IsScored(played), NEW t
  PROVE  WinRecord(t, played) \in Int
<1> DEFINE S == GamesOf(t, played)
           won == {g \in S : Own(t, g) > Other(t, g)}
           lost == {g \in S : Own(t, g) < Other(t, g)}
<1>1. IsFiniteSet(S)
  BY FS_Subset DEF IsScored, GamesOf
<1>2. won \in SUBSET S /\ lost \in SUBSET S
  OBVIOUS
<1>3. WinRecord(t, played) = Cardinality(won) - Cardinality(lost)
  BY DEF WinRecord
<1> HIDE DEF S, won, lost
<1>4. Cardinality(won) \in Nat /\ Cardinality(lost) \in Nat
  BY <1>1, <1>2, FS_Subset, FS_CardinalityType
<1> QED BY <1>3, <1>4

\* Keys are compared from the left; the last component tells any two apart.
Above(a, b) == \E d \in 1..4 : a[d] > b[d] /\ \A e \in 1..(d - 1) : a[e] = b[e]
Keys == Int \X Int \X Int \X Int

\* One key is above another by its first component that differs,
LEMMA AboveUnfolds ==
  ASSUME NEW a \in Keys, NEW b \in Keys
  PROVE  Above(a, b) <=>
           \/ a[1] > b[1]
           \/ a[1] = b[1] /\ a[2] > b[2]
           \/ a[1] = b[1] /\ a[2] = b[2] /\ a[3] > b[3]
           \/ a[1] = b[1] /\ a[2] = b[2] /\ a[3] = b[3] /\ a[4] > b[4]
<1>1. 1..4 = {1, 2, 3, 4} /\ 1..(1 - 1) = {} /\ 1..(2 - 1) = {1} /\ 1..(3 - 1) = {1, 2}
      /\ 1..(4 - 1) = {1, 2, 3}
  OBVIOUS
<1> QED BY <1>1 DEF Above

\* which is a strict total order on keys that do not agree in the last one.
LEMMA AboveOrders ==
  /\ \A a \in Keys : ~ Above(a, a)
  /\ \A a, b, c \in Keys : Above(a, b) /\ Above(b, c) => Above(a, c)
  /\ \A a, b \in Keys : a[4] # b[4] => Above(a, b) \/ Above(b, a)
<1>1. ASSUME NEW a \in Keys PROVE ~ Above(a, a)
  BY AboveUnfolds DEF Keys
<1>2. ASSUME NEW a \in Keys, NEW b \in Keys, NEW c \in Keys, Above(a, b), Above(b, c)
      PROVE  Above(a, c)
  BY <1>2, AboveUnfolds DEF Keys
<1>3. ASSUME NEW a \in Keys, NEW b \in Keys, a[4] # b[4]
      PROVE  Above(a, b) \/ Above(b, a)
  BY <1>3, AboveUnfolds DEF Keys
<1> QED BY <1>1, <1>2, <1>3

\* What RanksAbove compares.
Key(entries, played, k) ==
  <<WinRecord(entries[k], played),
    PointsFor(entries[k], played) - PointsAgainst(entries[k], played),
    PointsFor(entries[k], played), -k>>

\* A team that has not played has no record and no points; one that has played once, the
\* result of that game.
LEMMA RecordOfOne ==
  ASSUME NEW played, IsScored(played), NEW t
  PROVE  /\ GamesOf(t, played) = {} =>
              WinRecord(t, played) = 0 /\ PointsFor(t, played) = 0 /\ PointsAgainst(t, played) = 0
         /\ \A g \in played : GamesOf(t, played) = {g} =>
              /\ PointsFor(t, played) = Own(t, g) /\ PointsAgainst(t, played) = Other(t, g)
              /\ Own(t, g) > Other(t, g) => WinRecord(t, played) = 1
              /\ Own(t, g) < Other(t, g) => WinRecord(t, played) = -1
              /\ Own(t, g) = Other(t, g) => WinRecord(t, played) = 0
<1> DEFINE S == GamesOf(t, played)
           own == [g \in S |-> Own(t, g)]
           other == [g \in S |-> Other(t, g)]
           won == {g \in S : Own(t, g) > Other(t, g)}
           lost == {g \in S : Own(t, g) < Other(t, g)}
<1>1. /\ IsFiniteSet(S) /\ \A g \in S : own[g] \in Int /\ other[g] \in Int
      /\ PointsFor(t, played) = SumOver(S, own)
      /\ PointsAgainst(t, played) = SumOver(S, other)
  BY PointsAreSums
<1>2. WinRecord(t, played) = Cardinality(won) - Cardinality(lost)
  BY DEF WinRecord
<1>3. Cardinality({}) = 0 /\ \A g : Cardinality({g}) = 1
  BY FS_EmptySet, FS_Singleton
<1>4. ASSUME S = {}
      PROVE  WinRecord(t, played) = 0 /\ PointsFor(t, played) = 0 /\ PointsAgainst(t, played) = 0
  <2>1. won = {} /\ lost = {}
    BY <1>4
  <2> HIDE DEF S, own, other, won, lost
  <2>2. SumOver(S, own) = 0 /\ SumOver(S, other) = 0
    BY <1>4, SumOfNone
  <2> QED BY <1>1, <1>2, <1>3, <2>1, <2>2
<1>5. ASSUME NEW g \in played, S = {g}
      PROVE  /\ PointsFor(t, played) = Own(t, g) /\ PointsAgainst(t, played) = Other(t, g)
             /\ Own(t, g) > Other(t, g) => WinRecord(t, played) = 1
             /\ Own(t, g) < Other(t, g) => WinRecord(t, played) = -1
             /\ Own(t, g) = Other(t, g) => WinRecord(t, played) = 0
  <2>1. /\ g \in S /\ own[g] = Own(t, g) /\ other[g] = Other(t, g)
        /\ Own(t, g) \in Int /\ Other(t, g) \in Int
    BY <1>1, <1>5
  <2>2. /\ Own(t, g) > Other(t, g) => won = {g} /\ lost = {}
        /\ Own(t, g) < Other(t, g) => won = {} /\ lost = {g}
        /\ Own(t, g) = Other(t, g) => won = {} /\ lost = {}
    BY <1>5, <2>1
  <2> HIDE DEF S, own, other, won, lost
  <2>3. SumOver(S, own) = own[g] + SumOver(S \ {g}, own) /\ SumOver(S, other) = other[g] + SumOver(S \ {g}, other)
    BY <1>1, <2>1, SumTakes
  <2>4. SumOver(S \ {g}, own) = 0 /\ SumOver(S \ {g}, other) = 0
    <3>1. S \ {g} = {}
      BY <1>5
    <3> QED BY <3>1, SumOfNone
  <2>5. PointsFor(t, played) = Own(t, g) /\ PointsAgainst(t, played) = Other(t, g)
    BY <1>1, <2>1, <2>3, <2>4
  <2>6. /\ won = {g} => Cardinality(won) = 1
        /\ won = {} => Cardinality(won) = 0
        /\ lost = {g} => Cardinality(lost) = 1
        /\ lost = {} => Cardinality(lost) = 0
    BY <1>3
  <2> QED BY <1>2, <2>2, <2>5, <2>6
<1> QED BY <1>4, <1>5

\* The entries, each once, in some order.
Reorders(perm, ranked, entries) ==
  /\ perm \in [1..Len(entries) -> 1..Len(entries)]
  /\ \A r \in 1..Len(entries) : ranked[r] = entries[perm[r]]
  /\ \A r, s \in 1..Len(entries) : r # s => perm[r] # perm[s]

\* The ranking is the list of entries in another order, that of their keys.
LEMMA RankedFacts ==
  ASSUME NEW X, NEW entries \in Seq(X), NEW played, IsScored(played)
  PROVE  /\ Ranked(entries, played) \in Seq(X)
         /\ Len(Ranked(entries, played)) = Len(entries)
         /\ \A k \in 1..Len(entries) :
              Key(entries, played, k) \in Keys /\ Key(entries, played, k)[4] = -k
         /\ \E perm : /\ Reorders(perm, Ranked(entries, played), entries)
                      /\ \A r, s \in 1..Len(entries) : r < s =>
                           Above(Key(entries, played, perm[r]), Key(entries, played, perm[s]))
<1> DEFINE n == Len(entries)
           R == {p \in (1..n) \X (1..n) : RanksAbove(entries, played, p[1], p[2])}
<1>1. ASSUME NEW i \in 1..n, NEW j \in 1..n
      PROVE  RanksAbove(entries, played, i, j)
               <=> Above(Key(entries, played, i), Key(entries, played, j))
  BY DEF RanksAbove, Above, Key
<1>2. ASSUME NEW i \in 1..n
      PROVE  Key(entries, played, i) \in Keys /\ Key(entries, played, i)[4] = - i
  <2>1. WinRecord(entries[i], played) \in Int /\ PointsFor(entries[i], played) \in Int
        /\ PointsAgainst(entries[i], played) \in Int
    BY WinRecordIsInt, PointsAreInt
  <2>2. -i \in Int
    OBVIOUS
  <2> QED BY <2>1, <2>2 DEF Key, Keys
<1>3. IsRanking(n, R)
  <2>1. \A i, j \in 1..n : <<i, j>> \in R <=> Above(Key(entries, played, i), Key(entries, played, j))
    BY <1>1
  <2>2. R \in SUBSET ((1..n) \X (1..n))
    OBVIOUS
  <2>3. \A i, j \in 1..n : i # j => -i # -j
    OBVIOUS
  <2> HIDE DEF R
  <2> QED BY <1>2, <2>1, <2>2, <2>3, AboveOrders DEF IsRanking
<1>4. n \in Nat
  OBVIOUS
<1>5. ASSUME NEW i \in 1..n
      PROVE  {j \in 1..Len(entries) : RanksAbove(entries, played, j, i)} = Better(n, R, i)
  BY DEF Better
<1> DEFINE at(r) == CHOOSE i \in 1..n :
               Cardinality({j \in 1..Len(entries) : RanksAbove(entries, played, j, i)}) = r - 1
           perm == [r \in 1..n |-> at(r)]
<1>6. ASSUME NEW r \in 1..n
      PROVE  at(r) \in 1..n /\ Cardinality(Better(n, R, at(r))) = r - 1
  <2>1. \E i \in 1..n : Cardinality(Better(n, R, i)) = r - 1
    <3> HIDE DEF n, R
    <3> QED BY <1>3, <1>4, RanksAreTaken
  <2>2. \E i \in 1..n : Cardinality({j \in 1..Len(entries) : RanksAbove(entries, played, j, i)}) = r - 1
    BY <1>5, <2>1
  <2>3. at(r) \in 1..n
        /\ Cardinality({j \in 1..Len(entries) : RanksAbove(entries, played, j, at(r))}) = r - 1
    BY <2>2
  <2> HIDE DEF at, n, R
  <2> QED BY <1>5, <2>3
<1>7. perm \in [1..n -> 1..n]
  <2> HIDE DEF at
  <2> QED BY <1>6
<1>8. ASSUME NEW r \in 1..n, NEW s \in 1..n, r # s PROVE perm[r] # perm[s]
  <2>1. perm[r] = at(r) /\ perm[s] = at(s)
    OBVIOUS
  <2>2. Cardinality(Better(n, R, at(r))) = r - 1 /\ Cardinality(Better(n, R, at(s))) = s - 1
    BY <1>6
  <2>3. r - 1 # s - 1
    BY <1>8
  <2> HIDE DEF at, perm, R
  <2> QED BY <2>1, <2>2, <2>3
<1>a. ASSUME NEW r \in 1..n, NEW s \in 1..n, r < s
      PROVE  Above(Key(entries, played, perm[r]), Key(entries, played, perm[s]))
  <2>1. /\ perm[r] = at(r) /\ Cardinality(Better(n, R, at(r))) = r - 1 /\ at(r) \in 1..n
        /\ perm[s] = at(s) /\ Cardinality(Better(n, R, at(s))) = s - 1 /\ at(s) \in 1..n
    BY <1>6
  <2>2. \A i, j \in 1..n :
          <<i, j>> \in R <=> Above(Key(entries, played, i), Key(entries, played, j))
    BY <1>1
  <2> HIDE DEF at, perm, R
  <2>3. at(r) # at(s) /\ ~(Cardinality(Better(n, R, at(s))) < Cardinality(Better(n, R, at(r))))
    BY <1>a, <2>1
  <2>4. <<at(r), at(s)>> \in R \/ <<at(s), at(r)>> \in R
    BY <1>3, <2>1, <2>3 DEF IsRanking
  <2>5. <<at(s), at(r)>> \notin R
    BY <1>3, <1>4, <2>1, <2>3, RanksAreTaken
  <2> QED BY <2>1, <2>2, <2>4, <2>5
<1>9. Ranked(entries, played) = [r \in 1..n |-> entries[at(r)]]
  BY DEF Ranked
<1>10. Ranked(entries, played) = [r \in 1..n |-> entries[perm[r]]]
  <2> HIDE DEF at
  <2> QED BY <1>9
<1> HIDE DEF perm, R, at
<1>11. \A r \in 1..n : Ranked(entries, played)[r] = entries[perm[r]] /\ entries[perm[r]] \in X
  BY <1>7, <1>10
<1>12. Ranked(entries, played) \in Seq(X) /\ Len(Ranked(entries, played)) = n
  <2>1. Ranked(entries, played) \in [1..n -> X]
    BY <1>10, <1>11
  <2> QED BY <1>4, <2>1
<1> QED BY <1>2, <1>7, <1>8, <1>a, <1>11, <1>12 DEF Reorders

-----------------------------------------------------------------------------
(* The two draws.                                                          *)

\* The order of the ranking does not matter for what a draw is.
LEMMA DrawnInOrder ==
  ASSUME NEW R, NEW X, NEW entries \in Seq(X), NEW ranked \in Seq(X),
         Len(ranked) = Len(entries),
         NEW perm, Reorders(perm, ranked, entries),
         NEW d, NEW Y \in SUBSET X, Drawn(R, Y, ranked, d)
  PROVE  Drawn(R, X, entries, d)
<1> DEFINE n == Len(entries)
<1>0. /\ perm \in [1..n -> 1..n]
      /\ \A r \in 1..n : ranked[r] = entries[perm[r]]
      /\ \A r, s \in 1..n : r # s => perm[r] # perm[s]
  BY DEF Reorders
<1>1. Spread(R, entries) => Spread(R, ranked)
  <2>1. DOMAIN entries = 1..n /\ DOMAIN ranked = 1..n
    OBVIOUS
  <2>2. SUFFICES ASSUME Spread(R, entries), NEW i \in 1..n, NEW j \in 1..n, i # j
                 PROVE  <<ranked[i], ranked[j]>> \in R
    BY <2>1 DEF Spread
  <2>3. perm[i] \in 1..n /\ perm[j] \in 1..n /\ perm[i] # perm[j]
    BY <1>0, <2>2
  <2>4. <<entries[perm[i]], entries[perm[j]]>> \in R
    BY <2>1, <2>2, <2>3 DEF Spread
  <2> QED BY <1>0, <2>2, <2>4
<1>2. d \in Seq(X \X X)
  <2>1. d \in Seq(Y \X Y) /\ Y \X Y \subseteq X \X X
    BY DEF Drawn
  <2> QED BY <2>1, SeqMonotonic
<1>3. ASSUME NEW k \in 1..Len(d), NEW a \in {1, 2}
      PROVE  \E i \in 1..Len(entries) : d[k][a] = entries[i]
  <2>1. PICK r \in 1..Len(ranked) : d[k][a] = ranked[r]
    BY DEF Drawn
  <2> QED BY <1>0, <2>1
<1> QED BY <1>1, <1>2, <1>3 DEF Drawn

\* generateMatchups' draw, unfolded once.
LEMMA MatchupsUnfold ==
  ASSUME NEW X, NEW entries \in Seq(X), NEW played
  PROVE  \E Y, pick, d :
           /\ Y \in SUBSET X
           /\ entries \in Seq(Y) /\ Picks(pick, Y) /\ Draws(d, Y, pick)
           /\ \A rest \in Seq(Y) : pick[rest] = Greedy(rest, played)
           /\ Matchups(entries, played) = d[entries]
<1> DEFINE Y == ToSet(entries)
           pick == [rest \in Seq(Y) |->
             LET fresh == {c \in Positions(rest) : ~Met(rest[c[1]], rest[c[2]], played)} IN
             FirstOf(IF fresh = {} THEN Positions(rest) ELSE fresh)]
<1>1. entries \in Seq(Y) /\ Y \in SUBSET X
  <2>1. DOMAIN entries = 1..Len(entries) /\ Len(entries) \in Nat
    OBVIOUS
  <2>2. \A i \in 1..Len(entries) : entries[i] \in Y
    BY <2>1 DEF ToSet
  <2>3. Y \in SUBSET X
    BY <2>1 DEF ToSet
  <2> HIDE DEF Y
  <2>4. entries \in [1..Len(entries) -> Y]
    BY <2>1, <2>2
  <2>5. entries \in Seq(Y)
    BY <2>1, <2>4, IsASeq
  <2> QED BY <2>3, <2>5
<1>2. Picks(pick, Y)
  <2> HIDE DEF Y
  <2>1. \A rest \in Seq(Y) : Len(rest) >= 2 => Greedy(rest, played) \in Positions(rest)
    BY GreedyFacts
  <2> QED BY <2>1 DEF Picks, Greedy, Fresh
<1>3. Drawing(entries, pick) = Matchups(entries, played)
  BY DEF Matchups
<1>4. \A rest \in Seq(Y) : pick[rest] = Greedy(rest, played)
  <2> HIDE DEF Y
  <2> QED BY DEF Greedy, Fresh
<1>5. \E d : Draws(d, Y, pick) /\ Drawing(entries, pick) = d[entries]
  <2> HIDE DEF pick
  <2> QED BY <1>2, DrawingIsDefined
<1>6. PICK d : Draws(d, Y, pick) /\ Matchups(entries, played) = d[entries]
  BY <1>3, <1>5
<1> HIDE DEF Y, pick
<1> QED BY <1>1, <1>2, <1>4, <1>6

\* generateMatchups gives every team one game; of an odd number one sits out.
LEMMA MatchupsFacts ==
  ASSUME NEW R, NEW X, NEW entries \in Seq(X), NEW played
  PROVE  Drawn(R, X, entries, Matchups(entries, played))
<1>1. PICK Y, pick, d :
           /\ Y \in SUBSET X
           /\ entries \in Seq(Y) /\ Picks(pick, Y) /\ Draws(d, Y, pick)
           /\ Matchups(entries, played) = d[entries]
  BY MatchupsUnfold
<1>2. Drawn(R, Y, entries, Matchups(entries, played))
  BY <1>1, DrawsFacts
<1> DEFINE id == [r \in 1..Len(entries) |-> r]
<1>3. Reorders(id, entries, entries)
  BY DEF Reorders
<1> HIDE DEF id
<1> QED BY <1>1, <1>2, <1>3, DrawnInOrder

\* With no games played the list is paired off from its head.
LEMMA MatchupsFromHead ==
  ASSUME NEW X, NEW entries \in Seq(X), NEW played,
         \A a, b \in X : ~Met(a, b, played)
  PROVE  \A k \in 1..Len(Matchups(entries, played)) :
           /\ 2 * k <= Len(entries)
           /\ Matchups(entries, played)[k] = <<entries[2 * k - 1], entries[2 * k]>>
<1>1. PICK Y, pick, d :
           /\ Y \in SUBSET X
           /\ entries \in Seq(Y) /\ Picks(pick, Y) /\ Draws(d, Y, pick)
           /\ \A rest \in Seq(Y) : pick[rest] = Greedy(rest, played)
           /\ Matchups(entries, played) = d[entries]
  BY MatchupsUnfold
<1> DEFINE S == Seq(Y)
           m == [rest \in S |-> Len(rest)]
           Fine(rest) == \A k \in 1..Len(d[rest]) :
             2 * k <= Len(rest) /\ d[rest][k] = <<rest[2 * k - 1], rest[2 * k]>>
           Bad == {rest \in S : ~Fine(rest)}
<1>2. SUFFICES ASSUME Bad # {} PROVE FALSE
  BY <1>1, <1>2
<1>3. PICK rest \in Bad : \A y \in Bad : m[rest] <= m[y]
  <2>1. m \in [S -> Nat] /\ Bad \in SUBSET S
    OBVIOUS
  <2> HIDE DEF S, m, Bad
  <2> QED BY <1>2, <2>1, Descent
<1>4. rest \in Seq(Y) /\ Len(rest) \in Nat /\ ~Fine(rest)
  BY <1>3
<1>5. Len(rest) >= 2
  <2>1. SUFFICES ASSUME Len(rest) < 2 PROVE FALSE
    BY <1>4
  <2>2. d[rest] = <<>>
    BY <1>1, <1>4, <2>1 DEF Draws
  <2>3. Len(d[rest]) = 0
    BY <2>2
  <2>4. 1..0 = {}
    OBVIOUS
  <2> QED BY <1>4, <2>3, <2>4
<1> DEFINE r == Rest(rest, <<1, 2>>)
<1>6. pick[rest] = <<1, 2>>
  <2>1. 1 \in 1..Len(rest) /\ 2 \in 1..Len(rest)
    BY <1>4, <1>5
  <2>2. rest[1] \in X /\ rest[2] \in X
    BY <1>1, <1>4, <2>1
  <2>3. ~Met(rest[1], rest[2], played)
    BY <2>2
  <2> HIDE DEF Bad, S, m, Fine
  <2>4. Greedy(rest, played) = <<1, 2>>
    BY <1>4, <1>5, <2>3, GreedyFacts
  <2> QED BY <1>1, <1>4, <2>4
<1> HIDE DEF Bad, S, m
<1>7. /\ r \in Seq(Y) /\ Len(r) = Len(rest) - 2
      /\ Len(d[rest]) = Len(d[r]) + 1 /\ Len(d[r]) \in Nat
      /\ d[rest][1] = PairAt(rest, <<1, 2>>)
      /\ \A k \in 1..Len(d[r]) : d[rest][k + 1] = d[r][k]
  <2>1. LET t == Rest(rest, pick[rest]) IN
        /\ t \in Seq(Y) /\ Len(t) = Len(rest) - 2
        /\ Len(d[rest]) = Len(d[t]) + 1 /\ Len(d[t]) \in Nat
        /\ d[rest][1] = PairAt(rest, pick[rest])
        /\ \A k \in 1..Len(d[t]) : d[rest][k + 1] = d[t][k]
    <3> HIDE DEF Fine
    <3> QED BY <1>1, <1>4, <1>5, DrawsUnfold
  <2> QED BY <1>6, <2>1
<1>8. \A k \in 1..(Len(rest) - 2) : r[k] = rest[k + 2]
  <2>1. <<1, 2>> \in Positions(rest)
    BY <1>4, <1>5 DEF Positions
  <2>2. \A k \in 1..(Len(rest) - 2) : Rest(rest, <<1, 2>>)[k] = rest[Stood(<<1, 2>>, k)]
    <3> HIDE DEF Fine
    <3> QED BY <1>4, <2>1, RestFacts
  <2>3. \A k \in 1..(Len(rest) - 2) : Stood(<<1, 2>>, k) = k + 2
    BY <1>4 DEF Stood
  <2> QED BY <2>2, <2>3
<1>9. Fine(r)
  <2>1. m[r] = Len(rest) - 2 /\ m[rest] = Len(rest)
    BY <1>4, <1>7 DEF m, S
  <2>2. r \notin Bad
    <3> HIDE DEF r, Fine
    <3> QED BY <1>3, <1>4, <2>1
  <2> QED BY <1>7, <2>2 DEF Bad, S
<1> HIDE DEF r
<1>10. ASSUME NEW k \in 1..Len(d[rest])
       PROVE  2 * k <= Len(rest) /\ d[rest][k] = <<rest[2 * k - 1], rest[2 * k]>>
  <2>1. CASE k = 1
    BY <1>5, <1>7, <2>1 DEF PairAt
  <2>2. CASE k # 1
    <3> DEFINE l == k - 1
    <3>1. l \in 1..Len(d[r]) /\ l + 1 = k
      BY <1>7, <2>2
    <3> HIDE DEF l
    <3>2. 2 * l <= Len(r) /\ d[r][l] = <<r[2 * l - 1], r[2 * l]>> /\ d[rest][k] = d[r][l]
      BY <1>7, <1>9, <3>1
    <3>3. /\ 2 * l - 1 \in 1..(Len(rest) - 2) /\ 2 * l \in 1..(Len(rest) - 2)
          /\ 2 * l - 1 + 2 = 2 * k - 1 /\ 2 * l + 2 = 2 * k /\ 2 * k <= Len(rest)
      <4>1. l \in Nat \ {0} /\ k = l + 1 /\ 2 * l <= Len(rest) - 2
        BY <1>4, <1>7, <3>1, <3>2
      <4>2. \A a, n \in Nat : a # 0 /\ 2 * a <= n - 2 =>
              /\ 2 * a - 1 \in 1..(n - 2) /\ 2 * a \in 1..(n - 2)
              /\ 2 * a - 1 + 2 = 2 * (a + 1) - 1 /\ 2 * a + 2 = 2 * (a + 1) /\ 2 * (a + 1) <= n
        <5>1. ASSUME NEW a \in Nat, NEW n \in Nat, a # 0, 2 * a <= n - 2
              PROVE  /\ 2 * a - 1 \in 1..(n - 2) /\ 2 * a \in 1..(n - 2)
                     /\ 2 * a - 1 + 2 = 2 * (a + 1) - 1 /\ 2 * a + 2 = 2 * (a + 1)
                     /\ 2 * (a + 1) <= n
          <6>1. 2 * a \in Nat /\ 2 * a >= 2 /\ 2 * (a + 1) = 2 * a + 2
            BY <5>1
          <6> QED BY <5>1, <6>1
        <5> QED BY <5>1
      <4> HIDE DEF Fine, l
      <4> QED BY <1>4, <4>1, <4>2
    <3>4. r[2 * l - 1] = rest[2 * k - 1] /\ r[2 * l] = rest[2 * k]
      BY <1>8, <3>3
    <3> QED BY <3>2, <3>3, <3>4
  <2> QED BY <2>1, <2>2
<1> QED BY <1>4, <1>10

\* The first pair of generateMatchups has not met, if any two entries have not; and it
\* is the head of the list with somebody, if the head has an opponent it has not met.
LEMMA FirstMatchup ==
  ASSUME NEW X, NEW entries \in Seq(X), Len(entries) >= 2, NEW played
  PROVE  \E c \in Positions(entries) :
           /\ Matchups(entries, played)[1] = PairAt(entries, c)
           /\ Met(entries[c[1]], entries[c[2]], played) =>
                \A e \in Positions(entries) : Met(entries[e[1]], entries[e[2]], played)
           /\ (\E i \in 2..Len(entries) : ~Met(entries[1], entries[i], played)) => c[1] = 1
<1>1. PICK Y, pick, d :
           /\ Y \in SUBSET X
           /\ entries \in Seq(Y) /\ Picks(pick, Y) /\ Draws(d, Y, pick)
           /\ \A rest \in Seq(Y) : pick[rest] = Greedy(rest, played)
           /\ Matchups(entries, played) = d[entries]
  BY MatchupsUnfold
<1>2. d[entries][1] = PairAt(entries, pick[entries])
  BY <1>1, DrawsUnfold
<1>3. pick[entries] = Greedy(entries, played)
  BY <1>1
<1>4. /\ Greedy(entries, played) \in Positions(entries)
      /\ Fresh(entries, played) # {} => Greedy(entries, played) \in Fresh(entries, played)
      /\ (\E i \in 2..Len(entries) : ~Met(entries[1], entries[i], played)) => Greedy(entries, played)[1] = 1
  BY GreedyFacts
<1> DEFINE c == Greedy(entries, played)
<1> HIDE DEF c
<1>5. Met(entries[c[1]], entries[c[2]], played) =>
                \A e \in Positions(entries) : Met(entries[e[1]], entries[e[2]], played)
  BY <1>4 DEF c, Fresh
<1> QED BY <1>1, <1>2, <1>3, <1>4, <1>5 DEF c

\* What generateTournamentMatchups picks from the entries that are left.
Best(rest, played) == <<1, Opponent(rest, played)>>

\* generateTournamentMatchups' draw, unfolded once.
LEMMA TournamentUnfold ==
  ASSUME NEW X, NEW entries \in Seq(X), NEW played, IsScored(played)
  PROVE  \E Y, pick, d :
           /\ Y \in SUBSET X
           /\ Ranked(entries, played) \in Seq(Y) /\ Picks(pick, Y) /\ Draws(d, Y, pick)
           /\ \A rest \in Seq(Y) : pick[rest] = Best(rest, played)
           /\ TournamentMatchups(entries, played) = d[Ranked(entries, played)]
<1> DEFINE ranked == Ranked(entries, played)
           Y == ToSet(ranked)
           Z == ToSet(entries)
           pick == [rest \in Seq(Z) |-> <<1, Opponent(rest, played)>>]
<1>1. PICK perm : Reorders(perm, ranked, entries)
  BY RankedFacts
<1>2. ranked \in Seq(X) /\ Len(ranked) = Len(entries) /\ Len(entries) \in Nat
      /\ DOMAIN entries = 1..Len(entries)
  BY RankedFacts
<1>3. DOMAIN ranked = 1..Len(ranked) /\ ranked \in [1..Len(ranked) -> X]
  <2> HIDE DEF ranked
  <2> QED BY <1>2
<1> HIDE DEF ranked
<1>4. Y \in SUBSET Z /\ Y \in SUBSET X
  BY <1>1, <1>2, <1>3 DEF ToSet, Reorders
<1>5. ranked \in Seq(Y)
  <2>1. \A i \in 1..Len(ranked) : ranked[i] \in Y
    BY <1>3 DEF ToSet
  <2> HIDE DEF Y
  <2>2. ranked \in [1..Len(ranked) -> Y]
    BY <1>3, <2>1
  <2> QED BY <1>2, <2>2, IsASeq
<1>6. \A rest \in Seq(Y) : pick[rest] = Best(rest, played)
  <2>1. Seq(Y) \subseteq Seq(Z)
    BY <1>4, SeqMonotonic
  <2> HIDE DEF Y, Z
  <2> QED BY <2>1 DEF Best
<1>7. Picks(pick, Y)
  <2>1. \A rest \in Seq(Y) : Len(rest) >= 2 => <<1, Opponent(rest, played)>> \in Positions(rest)
    BY OpponentFacts
  <2> HIDE DEF Y, pick
  <2> QED BY <1>6, <2>1 DEF Picks, Best
<1>8. Drawing(ranked, pick) = TournamentMatchups(entries, played)
  BY DEF TournamentMatchups, ranked
<1>9. \E d : Draws(d, Y, pick) /\ Drawing(ranked, pick) = d[ranked]
  <2> HIDE DEF pick
  <2> QED BY <1>7, DrawingIsDefined
<1>10. PICK d : Draws(d, Y, pick) /\ TournamentMatchups(entries, played) = d[ranked]
  BY <1>8, <1>9
<1> HIDE DEF Y, pick
<1> QED BY <1>4, <1>5, <1>6, <1>7, <1>10 DEF ranked

\* It gives every team one game, too.
LEMMA TournamentMatchupsFacts ==
  ASSUME NEW R, NEW X, NEW entries \in Seq(X), NEW played, IsScored(played)
  PROVE  Drawn(R, X, entries, TournamentMatchups(entries, played))
<1> DEFINE ranked == Ranked(entries, played)
<1>1. PICK perm : Reorders(perm, ranked, entries)
  BY RankedFacts
<1>2. ranked \in Seq(X) /\ Len(ranked) = Len(entries)
  BY RankedFacts
<1>3. PICK Y, pick, d :
           /\ Y \in SUBSET X
           /\ ranked \in Seq(Y) /\ Picks(pick, Y) /\ Draws(d, Y, pick)
           /\ TournamentMatchups(entries, played) = d[ranked]
  BY TournamentUnfold
<1> HIDE DEF ranked
<1>4. Drawn(R, Y, ranked, TournamentMatchups(entries, played))
  BY <1>3, DrawsFacts
<1> QED BY <1>1, <1>2, <1>3, <1>4, DrawnInOrder

\* Its first pair is the best team and the opponent chosen for it.
LEMMA FirstTournamentMatchup ==
  ASSUME NEW X, NEW entries \in Seq(X), Len(entries) >= 2, NEW played, IsScored(played)
  PROVE  LET ranked == Ranked(entries, played) IN
         TournamentMatchups(entries, played)[1] = <<ranked[1], ranked[Opponent(ranked, played)]>>
<1>1. PICK Y, pick, d :
           /\ Y \in SUBSET X
           /\ Ranked(entries, played) \in Seq(Y) /\ Picks(pick, Y) /\ Draws(d, Y, pick)
           /\ \A rest \in Seq(Y) : pick[rest] = Best(rest, played)
           /\ TournamentMatchups(entries, played) = d[Ranked(entries, played)]
  BY TournamentUnfold
<1>2. Len(Ranked(entries, played)) >= 2
  BY RankedFacts
<1> DEFINE ranked == Ranked(entries, played)
<1> HIDE DEF ranked
<1>3. d[ranked][1] = PairAt(ranked, pick[ranked])
  BY <1>1, <1>2, DrawsUnfold DEF ranked
<1>4. pick[ranked] = Best(ranked, played)
  BY <1>1 DEF ranked
<1> QED BY <1>1, <1>3, <1>4 DEF ranked, PairAt, Best
=============================================================================
