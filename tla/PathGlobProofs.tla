--------------------------- MODULE PathGlobProofs ---------------------------
(***************************************************************************)
(* What Match computes, for every pattern and every path.  The functions   *)
(* of PathGlob are recursive from the end of the pattern to its beginning; *)
(* the proofs go the same way, by induction over positions.  A set takes   *)
(* the place of the formula that an induction is about.                    *)
(***************************************************************************)
EXTENDS PathGlob, SequenceTheorems, WellFoundedInduction, TLAPS

-----------------------------------------------------------------------------
(* Induction.                                                              *)

LEMMA LeastOf ==
  ASSUME NEW T \in SUBSET Nat, T # {}
  PROVE  \E m \in T : \A k \in T : m <= k
<1> DEFINE Less == OpToRel(<, Nat)
<1>1. IsWellFoundedOn(Less, Nat)
  BY NatLessThanWellFounded
<1>2. \A k, m \in T : k < m => <<k, m>> \in Less
  BY DEF OpToRel
<1> HIDE DEF Less
<1>3. PICK m \in T : \A k \in T : <<k, m>> \notin Less
  BY <1>1, WFMin
<1>4. \A k \in T : ~ (k < m)
  BY <1>2, <1>3, Zenon
<1> QED
  BY <1>4

LEMMA GreatestOf ==
  ASSUME NEW n \in Nat, NEW T \in SUBSET (0 .. n), T # {}
  PROVE  \E m \in T : \A k \in T : k <= m
<1> DEFINE U == {n - k : k \in T}
<1>1. U \in SUBSET Nat /\ U # {}
  <2>1. PICK t \in T : TRUE
    OBVIOUS
  <2>2. n - t \in U
    BY <2>1
  <2>3. U \subseteq Nat
    OBVIOUS
  <2> QED
    BY <2>2, <2>3
<1>2. PICK u \in U : \A k \in U : u <= k
  <2> HIDE DEF U
  <2> QED
    BY <1>1, LeastOf
<1>3. n - u \in T /\ \A k \in T : u <= n - k
  BY <1>2
<1> QED
  BY <1>1, <1>2, <1>3

LEMMA Backwards ==
  ASSUME NEW n \in Nat, NEW S,
         \A i \in 1 .. n : (\A j \in i + 1 .. n : j \in S) => i \in S
  PROVE  1 .. n \subseteq S
<1>1. SUFFICES ASSUME (1 .. n) \ S # {} PROVE FALSE
  OBVIOUS
<1> DEFINE T == (1 .. n) \ S
<1>2. T \in SUBSET (0 .. n) /\ T # {}
  BY <1>1
<1>3. PICK m \in T : \A k \in T : k <= m
  <2> HIDE DEF T
  <2> QED
    BY <1>2, GreatestOf
<1> QED
  BY <1>3

LEMMA Forwards ==
  ASSUME NEW S, 0 \in S, \A i \in Nat : i \in S => i + 1 \in S
  PROVE  Nat \subseteq S
<1>1. SUFFICES ASSUME Nat \ S # {} PROVE FALSE
  OBVIOUS
<1>2. PICK m \in Nat \ S : \A k \in Nat \ S : m <= k
  BY <1>1, LeastOf
<1>3. m - 1 \in S /\ m - 1 \in Nat
  BY <1>2
<1> QED
  BY <1>2, <1>3

\* A definition whose value at i depends on the values at greater arguments.
LooksAhead(D, n, A) ==
  /\ A # {}
  /\ D \in [1 .. n -> [[1 .. n -> A] -> A]]
  /\ \A i \in 1 .. n : \A f, g \in [1 .. n -> A] :
       (\A j \in i + 1 .. n : f[j] = g[j]) => D[i][f] = D[i][g]

\* A function that agrees with it exists.
LEMMA Recursion ==
  ASSUME NEW n \in Nat \ {0}, NEW A, NEW D, LooksAhead(D, n, A)
  PROVE  \E f \in [1 .. n -> A] : \A i \in 1 .. n : f[i] = D[i][f]
<1> DEFINE Up(m) == \E f \in [1 .. n -> A] : \A i \in 1 .. n : i > n - m => f[i] = D[i][f]
           S == {m \in Nat : m <= n => Up(m)}
<1>1. 0 \in S
  <2>1. PICK a \in A : TRUE
    BY DEF LooksAhead
  <2>2. [i \in 1 .. n |-> a] \in [1 .. n -> A]
    OBVIOUS
  <2>3. \A i \in 1 .. n : ~ (i > n - 0)
    OBVIOUS
  <2>4. Up(0)
    BY <2>2, <2>3
  <2> QED
    BY <2>4
<1>2. ASSUME NEW m \in Nat, m \in S PROVE m + 1 \in S
  <2>1. SUFFICES ASSUME m + 1 <= n PROVE Up(m + 1)
    OBVIOUS
  <2>2. PICK f \in [1 .. n -> A] : \A i \in 1 .. n : i > n - m => f[i] = D[i][f]
    BY <1>2, <2>1
  <2> DEFINE g == [f EXCEPT ![n - m] = D[n - m][f]]
  <2>3. n - m \in 1 .. n /\ D[n - m][f] \in A
    BY <2>1 DEF LooksAhead
  <2>4. g \in [1 .. n -> A] /\ g[n - m] = D[n - m][f]
        /\ \A j \in 1 .. n : j # n - m => g[j] = f[j]
    BY <2>3
  <2> HIDE DEF g
  <2>5. ASSUME NEW i \in 1 .. n, i > n - (m + 1) PROVE g[i] = D[i][g]
    <3>1. \A j \in i + 1 .. n : f[j] = g[j]
      BY <2>4, <2>5
    <3>2. D[i][f] = D[i][g]
      BY <2>4, <3>1 DEF LooksAhead
    <3> QED
      BY <2>2, <2>4, <2>5, <3>2
  <2> QED
    BY <2>4, <2>5
<1> HIDE DEF S
<1>3. n \in S
  BY <1>1, <1>2, Forwards
<1> QED
  BY <1>3 DEF S

-----------------------------------------------------------------------------
(* The recursive functions have the values that their definitions give.    *)

Positions(name) == 1 .. Len(name) + 1

Wildcards == {"*", "?", "**", "**/"}

LEMMA BeforeStar ==
  ASSUME NEW name, Len(name) \in Nat, NEW to \in SUBSET Positions(name), NEW spelling,
         NEW k \in Int
  PROVE  k \in Before(name, to, "*", spelling) <=>
           \E m \in to : k \in 1 .. m /\ \A i \in k .. m - 1 : name[i] # "/"
BY DEF Before

LEMMA BeforeOne ==
  ASSUME NEW name, Len(name) \in Nat, NEW to \in SUBSET Positions(name), NEW spelling,
         NEW k \in Int
  PROVE  k \in Before(name, to, "?", spelling) <=>
           k \in 1 .. Len(name) /\ k + 1 \in to /\ name[k] # "/"
<1>1. Before(name, to, "?", spelling) = {m - 1 : m \in {n \in to : n > 1 /\ name[n - 1] # "/"}}
  BY DEF Before
<1>2. ASSUME k \in Before(name, to, "?", spelling)
      PROVE  k \in 1 .. Len(name) /\ k + 1 \in to /\ name[k] # "/"
  <2>1. PICK m \in to : m > 1 /\ name[m - 1] # "/" /\ k = m - 1
    BY <1>1, <1>2
  <2> QED
    BY <2>1 DEF Positions
<1>3. ASSUME k \in 1 .. Len(name), k + 1 \in to, name[k] # "/"
      PROVE  k \in Before(name, to, "?", spelling)
  <2> DEFINE m == k + 1
  <2>1. m \in to /\ m > 1 /\ k = m - 1
    BY <1>3
  <2>2. name[m - 1] # "/"
    BY <1>3, <2>1
  <2> HIDE DEF m
  <2> QED
    BY <1>1, <2>1, <2>2
<1> QED
  BY <1>2, <1>3

LEMMA BeforeText ==
  ASSUME NEW name, Len(name) \in Nat, NEW to \in SUBSET Positions(name), NEW spelling,
         NEW k \in Int
  PROVE  k \in Before(name, to, "**", spelling) <=> \E m \in to : k \in 1 .. m
BY DEF Before

LEMMA BeforeDirs ==
  ASSUME NEW name, Len(name) \in Nat, NEW to \in SUBSET Positions(name), NEW spelling,
         NEW k \in Int
  PROVE  k \in Before(name, to, "**/", spelling) <=>
           k \in to \/ \E m \in to : k \in 1 .. m - 1 /\ name[m - 1] = "/"
<1>1. \A m \in to : k \in 1 .. m - 1 => m > 1
  BY DEF Positions
<1> QED
  BY <1>1 DEF Before

LEMMA BeforeChar ==
  ASSUME NEW name, Len(name) \in Nat, NEW to \in SUBSET Positions(name), NEW spelling,
         NEW k \in Int,
         NEW token, token \notin Wildcards, Len(spelling[token]) \in Nat
  PROVE  k \in Before(name, to, token, spelling) <=>
           Reads(name, k, spelling[token]) /\ k + Len(spelling[token]) \in to
<1> DEFINE text == spelling[token]
<1>1. Before(name, to, token, spelling)
        = {m - Len(text) : m \in {n \in to : Reads(name, n - Len(text), text)}}
  BY DEF Before, Wildcards
<1>2. ASSUME k \in Before(name, to, token, spelling)
      PROVE  Reads(name, k, text) /\ k + Len(text) \in to
  <2>1. PICK m \in to : Reads(name, m - Len(text), text) /\ k = m - Len(text)
    BY <1>1, <1>2
  <2>2. k + Len(text) = m
    BY <2>1 DEF Positions
  <2> QED
    BY <2>1, <2>2
<1>3. ASSUME Reads(name, k, text), k + Len(text) \in to
      PROVE  k \in Before(name, to, token, spelling)
  <2>1. k = (k + Len(text)) - Len(text)
    OBVIOUS
  <2> HIDE DEF text
  <2> QED
    BY <1>1, <1>3, <2>1
<1> QED
  BY <1>2, <1>3

LEMMA BeforeTyped ==
  ASSUME NEW name, Len(name) \in Nat, NEW to \in SUBSET Positions(name), NEW spelling,
         NEW token, token \in Wildcards \/ Len(spelling[token]) \in Nat
  PROVE  Before(name, to, token, spelling) \in SUBSET Positions(name)
<1>1. CASE token \in Wildcards
  BY <1>1 DEF Before, Positions, Wildcards
<1>2. CASE token \notin Wildcards
  <2> DEFINE text == spelling[token]
  <2>1. Before(name, to, token, spelling)
          = {m - Len(text) : m \in {n \in to : Reads(name, n - Len(text), text)}}
    BY <1>2 DEF Before, Wildcards
  <2>2. \A k : Reads(name, k, text) => k \in Positions(name)
    <3>1. Len(text) \in Nat
      BY <1>2
    <3> HIDE DEF text
    <3>2. 1 .. Len(name) + 1 - Len(text) \subseteq 1 .. Len(name) + 1
      BY <3>1
    <3> QED
      BY <3>2 DEF Reads, Positions
  <2> HIDE DEF text
  <2> QED
    BY <2>1, <2>2
<1> QED
  BY <1>1, <1>2

\* What MatchesFrom needs of its tokens: each leaves a rest that is shorter.
Readable(tokens, name, spelling) ==
  /\ Len(tokens) \in Nat /\ Len(name) \in Nat
  /\ \A i \in 1 .. Len(tokens) :
       /\ i + Width(tokens[i]) \in i + 1 .. Len(tokens) + 1
       /\ tokens[i] \in Wildcards \/ Len(spelling[tokens[i]]) \in Nat

LEMMA MatchesFromIs ==
  ASSUME NEW tokens, NEW name, NEW spelling, Readable(tokens, name, spelling)
  PROVE  LET from == MatchesFrom(tokens, name, spelling) IN
         /\ from[Len(tokens) + 1] = {Len(name) + 1}
         /\ \A i \in 1 .. Len(tokens) :
              from[i] = Before(name, from[i + Width(tokens[i])], tokens[i], spelling)
<1> DEFINE n == Len(tokens) + 1
           A == SUBSET Positions(name)
           Value(i, f) == IF i > Len(tokens) THEN {Len(name) + 1}
                          ELSE Before(name, f[i + Width(tokens[i])], tokens[i], spelling)
           D == [i \in 1 .. n |-> [f \in [1 .. n -> A] |-> Value(i, f)]]
           from == MatchesFrom(tokens, name, spelling)
<1>1. n \in Nat /\ n # 0 /\ Len(tokens) \in Nat /\ Len(name) \in Nat
  BY DEF Readable
<1>2. \A i \in 1 .. n : i <= Len(tokens) => i + Width(tokens[i]) \in i + 1 .. n
  BY <1>1 DEF Readable
<1>3. ASSUME NEW i \in 1 .. n, NEW f \in [1 .. n -> A] PROVE Value(i, f) \in A
  <2>1. CASE i > Len(tokens)
    BY <1>1, <2>1 DEF Positions
  <2>2. CASE ~ (i > Len(tokens))
    <3>1. i \in 1 .. Len(tokens) /\ f[i + Width(tokens[i])] \in A
      BY <1>1, <1>2, <2>2
    <3> QED
      BY <1>1, <2>2, <3>1, BeforeTyped DEF Readable
  <2> QED
    BY <2>1, <2>2
<1>4. ASSUME NEW i \in 1 .. n, NEW f \in [1 .. n -> A], NEW g \in [1 .. n -> A],
             \A j \in i + 1 .. n : f[j] = g[j]
      PROVE  Value(i, f) = Value(i, g)
  <2>1. CASE i > Len(tokens)
    BY <2>1
  <2>2. CASE ~ (i > Len(tokens))
    <3>1. f[i + Width(tokens[i])] = g[i + Width(tokens[i])]
      BY <1>1, <1>2, <1>4, <2>2
    <3> QED
      BY <3>1, <2>2
  <2> QED
    BY <2>1, <2>2
<1>5. \E f : f = [i \in 1 .. n |-> Value(i, f)]
  <2> HIDE DEF Value, A, n
  <2>1. D \in [1 .. n -> [[1 .. n -> A] -> A]]
    BY <1>3
  <2>2. ASSUME NEW i \in 1 .. n, NEW f \in [1 .. n -> A] PROVE D[i][f] = Value(i, f)
    BY <2>2
  <2> HIDE DEF D
  <2>3. LooksAhead(D, n, A)
    <3>1. ASSUME NEW i \in 1 .. n, NEW f \in [1 .. n -> A], NEW g \in [1 .. n -> A],
                 \A j \in i + 1 .. n : f[j] = g[j]
          PROVE  D[i][f] = D[i][g]
      <4>1. Value(i, f) = Value(i, g)
        BY <1>4, <3>1
      <4> QED
        BY <2>2, <4>1
    <3>2. A # {}
      BY DEF A
    <3> QED
      BY <2>1, <3>1, <3>2 DEF LooksAhead
  <2>4. n \in Nat \ {0}
    BY <1>1
  <2>5. PICK f \in [1 .. n -> A] : \A i \in 1 .. n : f[i] = D[i][f]
    BY <2>4, <2>3, Recursion
  <2>6. \A i \in 1 .. n : f[i] = Value(i, f)
    BY <2>2, <2>5
  <2>7. f = [i \in 1 .. n |-> Value(i, f)]
    BY <2>6
  <2> QED
    BY <2>7
<1>6. from = CHOOSE f : f = [i \in 1 .. n |-> Value(i, f)]
  BY DEF MatchesFrom
<1>7. from = [i \in 1 .. n |-> Value(i, from)]
  <2> HIDE DEF Value, n, from
  <2> QED
    BY <1>5, <1>6
<1>8. \A i \in 1 .. n : from[i] = Value(i, from)
  <2> HIDE DEF Value, from
  <2> QED
    BY <1>7, Zenon
<1> HIDE DEF from
<1>9. from[Len(tokens) + 1] = {Len(name) + 1}
      /\ \A i \in 1 .. Len(tokens) :
           from[i] = Before(name, from[i + Width(tokens[i])], tokens[i], spelling)
  BY <1>1, <1>8
<1> QED
  BY <1>9 DEF from

LEMMA LeastIs ==
  ASSUME NEW T \in SUBSET Nat, T # {}
  PROVE  Min(T) \in T /\ \A k \in T : Min(T) <= k
BY LeastOf DEF Min

LEMMA GreatestIs ==
  ASSUME NEW n \in Nat, NEW T \in SUBSET (0 .. n), T # {}
  PROVE  Max(T) \in T /\ \A k \in T : k <= Max(T)
<1>1. \E m \in T : \A k \in T : m >= k
  BY GreatestOf
<1>2. Max(T) \in T /\ \A k \in T : Max(T) >= k
  BY <1>1 DEF Max
<1> QED
  BY <1>2

LEMMA SegmentEndIs ==
  ASSUME NEW s, Len(s) \in Nat, NEW i \in 1 .. Len(s) + 1
  PROVE  /\ SegmentEnd(s, i) \in i .. Len(s) + 1
         /\ SegmentEnd(s, i) = Len(s) + 1 \/ s[SegmentEnd(s, i)] = "/"
         /\ \A k \in i .. SegmentEnd(s, i) - 1 : s[k] # "/"
<1> DEFINE T == {k \in i .. Len(s) + 1 : k = Len(s) + 1 \/ s[k] = "/"}
<1>1. T \in SUBSET Nat /\ Len(s) + 1 \in T
  OBVIOUS
<1>2. SegmentEnd(s, i) \in T /\ \A k \in T : SegmentEnd(s, i) <= k
  <2>1. SegmentEnd(s, i) = Min(T)
    BY DEF SegmentEnd
  <2> HIDE DEF T
  <2> QED
    BY <1>1, <2>1, LeastIs
<1>3. \A k \in i .. Len(s) + 1 : s[k] = "/" => SegmentEnd(s, i) <= k
  BY <1>2
<1> QED
  BY <1>2, <1>3

LEMMA BeforeInIs ==
  ASSUME NEW s, Len(s) \in Nat, NEW to \in SUBSET Positions(s), NEW c
  PROVE  /\ BeforeIn(s, to, c) \in SUBSET Positions(s)
         /\ \A k \in Int :
              k \in BeforeIn(s, to, c) <=>
                IF c = "*" THEN \E m \in to : k \in 1 .. m
                ELSE k \in 1 .. Len(s) /\ k + 1 \in to /\ c \in {"?", s[k]}
<1>1. CASE c = "*"
  BY <1>1 DEF BeforeIn, Positions
<1>2. CASE c # "*"
  <2> DEFINE from == {n \in to : n > 1 /\ c \in {"?", s[n - 1]}}
             one == BeforeIn(s, to, c)
  <2>1. one = {m - 1 : m \in from}
    BY <1>2 DEF BeforeIn
  <2>2. \A m \in from : m \in 1 .. Len(s) + 1 /\ m > 1 /\ c \in {"?", s[m - 1]} /\ m \in to
    BY DEF Positions
  <2>3. ASSUME NEW k \in Int, k \in one
        PROVE  k \in 1 .. Len(s) /\ k + 1 \in to /\ c \in {"?", s[k]}
    <3> HIDE DEF from, one
    <3>1. PICK m \in from : k = m - 1
      BY <2>1, <2>3
    <3> QED
      BY <2>2, <3>1
  <2>4. ASSUME NEW k \in 1 .. Len(s), k + 1 \in to, c \in {"?", s[k]} PROVE k \in one
    <3> DEFINE m == k + 1
    <3>1. m \in to /\ m > 1 /\ k = m - 1
      BY <2>4
    <3>2. c \in {"?", s[m - 1]}
      BY <2>4, <3>1
    <3> HIDE DEF m
    <3>3. m \in from
      BY <3>1, <3>2
    <3> HIDE DEF from, one
    <3> QED
      BY <2>1, <3>1, <3>3
  <2>5. one \in SUBSET Positions(s)
    <3> HIDE DEF from, one
    <3> QED
      BY <2>1, <2>2 DEF Positions
  <2> HIDE DEF one
  <2>6. \A k \in Int : k \in one <=> k \in 1 .. Len(s) /\ k + 1 \in to /\ c \in {"?", s[k]}
    BY <2>3, <2>4
  <2> QED
    BY <1>2, <2>5, <2>6 DEF one
<1> QED
  BY <1>1, <1>2

LEMMA SegmentFitsFromIs ==
  ASSUME NEW p, Len(p) \in Nat, NEW s, Len(s) \in Nat
  PROVE  LET fits == SegmentFitsFrom(p, s) IN
         /\ fits[Len(p) + 1] = {Len(s) + 1}
         /\ \A i \in 1 .. Len(p) : fits[i] = BeforeIn(s, fits[i + 1], p[i])
<1> DEFINE n == Len(p) + 1
           A == SUBSET Positions(s)
           Step(i, to) == BeforeIn(s, to, p[i])
           Value(i, f) == IF i > Len(p) THEN {Len(s) + 1} ELSE Step(i, f[i + 1])
           D == [i \in 1 .. n |-> [f \in [1 .. n -> A] |-> Value(i, f)]]
           fits == SegmentFitsFrom(p, s)
<1>1. n \in Nat \ {0}
  OBVIOUS
<1>2. \A i \in 1 .. n : i <= Len(p) => i + 1 \in 1 .. n
  OBVIOUS
<1>3. ASSUME NEW i, NEW to \in A PROVE Step(i, to) \in A
  BY BeforeInIs
<1>4. ASSUME NEW i \in 1 .. n, NEW f \in [1 .. n -> A] PROVE Value(i, f) \in A
  <2> HIDE DEF Step
  <2>1. CASE i > Len(p)
    BY <2>1 DEF Positions
  <2>2. CASE ~ (i > Len(p))
    <3>1. f[i + 1] \in A
      BY <2>2
    <3> QED
      BY <1>3, <2>2, <3>1
  <2> QED
    BY <2>1, <2>2
<1>5. ASSUME NEW i \in 1 .. n, NEW f \in [1 .. n -> A], NEW g \in [1 .. n -> A],
             \A j \in i + 1 .. n : f[j] = g[j]
      PROVE  Value(i, f) = Value(i, g)
  <2> HIDE DEF Step
  <2>1. i <= Len(p) => f[i + 1] = g[i + 1]
    BY <1>5
  <2> QED
    BY <2>1
<1>6. \E f : f = [i \in 1 .. n |-> Value(i, f)]
  <2> HIDE DEF Value, A, n
  <2>1. D \in [1 .. n -> [[1 .. n -> A] -> A]]
    BY <1>4
  <2>2. ASSUME NEW i \in 1 .. n, NEW f \in [1 .. n -> A] PROVE D[i][f] = Value(i, f)
    BY <2>2
  <2> HIDE DEF D
  <2>3. LooksAhead(D, n, A)
    <3>1. ASSUME NEW i \in 1 .. n, NEW f \in [1 .. n -> A], NEW g \in [1 .. n -> A],
                 \A j \in i + 1 .. n : f[j] = g[j]
          PROVE  D[i][f] = D[i][g]
      <4>1. Value(i, f) = Value(i, g)
        BY <1>5, <3>1
      <4> QED
        BY <2>2, <4>1
    <3>2. A # {}
      BY DEF A
    <3> QED
      BY <2>1, <3>1, <3>2 DEF LooksAhead
  <2>4. PICK f \in [1 .. n -> A] : \A i \in 1 .. n : f[i] = D[i][f]
    BY <1>1, <2>3, Recursion
  <2>5. \A i \in 1 .. n : f[i] = Value(i, f)
    BY <2>2, <2>4
  <2>6. f = [i \in 1 .. n |-> Value(i, f)]
    BY <2>5
  <2> QED
    BY <2>6
<1>7. fits = CHOOSE f : f = [i \in 1 .. n |-> Value(i, f)]
  BY DEF SegmentFitsFrom
<1>8. fits = [i \in 1 .. n |-> Value(i, fits)]
  <2> HIDE DEF Value, n, fits
  <2> QED
    BY <1>6, <1>7
<1>9. \A i \in 1 .. n : fits[i] = Value(i, fits)
  <2> HIDE DEF Value, fits
  <2> QED
    BY <1>8, Zenon
<1> HIDE DEF fits
<1>10. /\ fits[Len(p) + 1] = {Len(s) + 1}
       /\ \A i \in 1 .. Len(p) : fits[i] = Step(i, fits[i + 1])
  <2> HIDE DEF Step
  <2> QED
    BY <1>1, <1>9
<1> QED
  BY <1>10 DEF fits

LEMMA StartsIs ==
  ASSUME NEW s, Len(s) \in Nat, DOMAIN s = 1 .. Len(s)
  PROVE  /\ Starts(s) \subseteq 1 .. Len(s) + 1
         /\ \A k \in 1 .. Len(s) + 1 : k \in Starts(s) <=> k = 1 \/ s[k - 1] = "/"
BY DEF Starts

LEMMA FitsFromIs ==
  ASSUME NEW p, Len(p) \in Nat, NEW s, Len(s) \in Nat, DOMAIN s = 1 .. Len(s)
  PROVE  LET fits == FitsFrom(p, s) IN
         /\ fits[Len(p) + 2] = {Len(s) + 2}
         /\ \A i \in 1 .. Len(p) + 1 :
              /\ fits[i] \subseteq Starts(s)
              /\ Segment(p, i) = AnyDirs => \A k \in Starts(s) :
                   k \in fits[i] <=> \E m \in fits[SegmentEnd(p, i) + 1] : k <= m
              /\ Segment(p, i) # AnyDirs => \A k \in Starts(s) :
                   k \in fits[i] <=>
                     /\ 1 \in SegmentFitsFrom(Segment(p, i), Segment(s, k))[1]
                     /\ SegmentEnd(s, k) + 1 \in fits[SegmentEnd(p, i) + 1]
<1> DEFINE n == Len(p) + 2
           A == SUBSET Int
           Step(i, to) ==
             IF Segment(p, i) = AnyDirs
             THEN UNION {{k \in Starts(s) : k <= m} : m \in to}
             ELSE {k \in Starts(s) :
                     /\ 1 \in SegmentFitsFrom(Segment(p, i), Segment(s, k))[1]
                     /\ SegmentEnd(s, k) + 1 \in to}
           Value(i, f) ==
             IF i > Len(p) + 1 THEN {Len(s) + 2} ELSE Step(i, f[SegmentEnd(p, i) + 1])
           D == [i \in 1 .. n |-> [f \in [1 .. n -> A] |-> Value(i, f)]]
           fits == FitsFrom(p, s)
<1>1. n \in Nat \ {0}
  OBVIOUS
<1>2. \A i \in 1 .. n : i <= Len(p) + 1 => SegmentEnd(p, i) + 1 \in i + 1 .. n
  BY SegmentEndIs
<1>3. ASSUME NEW i, NEW to \in A PROVE Step(i, to) \in A
  BY StartsIs
<1>4. ASSUME NEW i \in 1 .. n, NEW f \in [1 .. n -> A] PROVE Value(i, f) \in A
  <2> HIDE DEF Step
  <2>1. CASE i > Len(p) + 1
    BY <2>1
  <2>2. CASE ~ (i > Len(p) + 1)
    <3>1. f[SegmentEnd(p, i) + 1] \in A
      BY <1>2, <2>2
    <3> QED
      BY <1>3, <2>2, <3>1
  <2> QED
    BY <2>1, <2>2
<1>5. ASSUME NEW i \in 1 .. n, NEW f \in [1 .. n -> A], NEW g \in [1 .. n -> A],
             \A j \in i + 1 .. n : f[j] = g[j]
      PROVE  Value(i, f) = Value(i, g)
  <2> HIDE DEF Step
  <2>1. i <= Len(p) + 1 => f[SegmentEnd(p, i) + 1] = g[SegmentEnd(p, i) + 1]
    BY <1>2, <1>5
  <2> QED
    BY <2>1
<1>6. \E f : f = [i \in 1 .. n |-> Value(i, f)]
  <2> HIDE DEF Value, A, n
  <2>1. D \in [1 .. n -> [[1 .. n -> A] -> A]]
    BY <1>4
  <2>2. ASSUME NEW i \in 1 .. n, NEW f \in [1 .. n -> A] PROVE D[i][f] = Value(i, f)
    BY <2>2
  <2> HIDE DEF D
  <2>3. LooksAhead(D, n, A)
    <3>1. ASSUME NEW i \in 1 .. n, NEW f \in [1 .. n -> A], NEW g \in [1 .. n -> A],
                 \A j \in i + 1 .. n : f[j] = g[j]
          PROVE  D[i][f] = D[i][g]
      <4>1. Value(i, f) = Value(i, g)
        BY <1>5, <3>1
      <4> QED
        BY <2>2, <4>1
    <3>2. A # {}
      BY DEF A
    <3> QED
      BY <2>1, <3>1, <3>2 DEF LooksAhead
  <2>4. PICK f \in [1 .. n -> A] : \A i \in 1 .. n : f[i] = D[i][f]
    BY <1>1, <2>3, Recursion
  <2>5. \A i \in 1 .. n : f[i] = Value(i, f)
    BY <2>2, <2>4
  <2>6. f = [i \in 1 .. n |-> Value(i, f)]
    BY <2>5
  <2> QED
    BY <2>6
<1>7. fits = CHOOSE f : f = [i \in 1 .. n |-> Value(i, f)]
  BY DEF FitsFrom
<1>8. fits = [i \in 1 .. n |-> Value(i, fits)]
  <2> HIDE DEF Value, n, fits
  <2> QED
    BY <1>6, <1>7
<1>9. \A i \in 1 .. n : fits[i] = Value(i, fits)
  <2> HIDE DEF Value, fits
  <2> QED
    BY <1>8, Zenon
<1> HIDE DEF fits
<1>10. /\ fits[Len(p) + 2] = {Len(s) + 2}
       /\ \A i \in 1 .. Len(p) + 1 : fits[i] = Step(i, fits[SegmentEnd(p, i) + 1])
  <2> HIDE DEF Step
  <2> QED
    BY <1>1, <1>9
<1>11. ASSUME NEW i, NEW to
       PROVE  /\ Step(i, to) \subseteq Starts(s)
              /\ Segment(p, i) = AnyDirs => \A k \in Starts(s) :
                   k \in Step(i, to) <=> \E m \in to : k <= m
              /\ Segment(p, i) # AnyDirs => \A k \in Starts(s) :
                   k \in Step(i, to) <=>
                     /\ 1 \in SegmentFitsFrom(Segment(p, i), Segment(s, k))[1]
                     /\ SegmentEnd(s, k) + 1 \in to
  OBVIOUS
<1>12. ASSUME NEW i \in 1 .. Len(p) + 1
       PROVE  /\ fits[i] \subseteq Starts(s)
              /\ Segment(p, i) = AnyDirs => \A k \in Starts(s) :
                   k \in fits[i] <=> \E m \in fits[SegmentEnd(p, i) + 1] : k <= m
              /\ Segment(p, i) # AnyDirs => \A k \in Starts(s) :
                   k \in fits[i] <=>
                     /\ 1 \in SegmentFitsFrom(Segment(p, i), Segment(s, k))[1]
                     /\ SegmentEnd(s, k) + 1 \in fits[SegmentEnd(p, i) + 1]
  <2>1. fits[i] = Step(i, fits[SegmentEnd(p, i) + 1])
    BY <1>10
  <2> HIDE DEF Step
  <2> QED
    BY <1>11, <2>1
<1> QED
  BY <1>10, <1>12 DEF fits

LEMMA MatchesFromTyped ==
  ASSUME NEW tokens, NEW name, NEW spelling, Readable(tokens, name, spelling)
  PROVE  \A i \in 1 .. Len(tokens) + 1 :
           MatchesFrom(tokens, name, spelling)[i] \in SUBSET Positions(name)
<1> DEFINE n == Len(tokens) + 1
           from == MatchesFrom(tokens, name, spelling)
           S == {i \in 1 .. n : from[i] \in SUBSET Positions(name)}
<1>1. /\ from[n] = {Len(name) + 1}
      /\ \A i \in 1 .. Len(tokens) :
           from[i] = Before(name, from[i + Width(tokens[i])], tokens[i], spelling)
  BY MatchesFromIs
<1>2. Len(name) \in Nat /\ Len(tokens) \in Nat
  BY DEF Readable
<1> HIDE DEF from
<1>3. ASSUME NEW i \in 1 .. n, \A j \in i + 1 .. n : j \in S PROVE i \in S
  <2>1. CASE i = n
    BY <1>1, <1>2, <2>1 DEF Positions
  <2>2. CASE i # n
    <3>1. i \in 1 .. Len(tokens) /\ i + Width(tokens[i]) \in i + 1 .. n
      BY <1>2, <2>2 DEF Readable
    <3>2. from[i + Width(tokens[i])] \in SUBSET Positions(name)
      BY <1>3, <3>1
    <3>3. tokens[i] \in Wildcards \/ Len(spelling[tokens[i]]) \in Nat
      BY <3>1 DEF Readable
    <3>4. from[i] \in SUBSET Positions(name)
      BY <1>1, <1>2, <3>1, <3>2, <3>3, BeforeTyped
    <3> QED
      BY <3>4
  <2> QED
    BY <2>1, <2>2
<1>4. 1 .. n \subseteq S
  <2>1. n \in Nat
    BY <1>2
  <2> HIDE DEF S, n
  <2> QED
    BY <1>3, <2>1, Backwards
<1> QED
  BY <1>4 DEF from

LEMMA SegmentFitsIs ==
  ASSUME NEW p, Len(p) \in Nat, NEW s, Len(s) \in Nat
  PROVE  LET fits == SegmentFitsFrom(p, s) IN
         /\ \A i \in 1 .. Len(p) + 1 : fits[i] \in SUBSET Positions(s)
         /\ fits[Len(p) + 1] = {Len(s) + 1}
         /\ \A i \in 1 .. Len(p) : \A k \in Int :
              k \in fits[i] <=>
                IF p[i] = "*" THEN \E m \in fits[i + 1] : k \in 1 .. m
                ELSE k \in 1 .. Len(s) /\ k + 1 \in fits[i + 1] /\ p[i] \in {"?", s[k]}
<1> DEFINE last == Len(p) + 1
           fits == SegmentFitsFrom(p, s)
           S == {i \in 1 .. last : fits[i] \in SUBSET Positions(s)}
<1>1. /\ fits[last] = {Len(s) + 1}
      /\ \A i \in 1 .. Len(p) : fits[i] = BeforeIn(s, fits[i + 1], p[i])
  BY SegmentFitsFromIs
<1> HIDE DEF fits
<1>2. ASSUME NEW i \in 1 .. last, \A j \in i + 1 .. last : j \in S PROVE i \in S
  <2>1. CASE i = last
    BY <1>1, <2>1 DEF Positions
  <2>2. CASE i # last
    <3>1. i \in 1 .. Len(p) /\ fits[i + 1] \in SUBSET Positions(s)
      BY <1>2, <2>2
    <3>2. BeforeIn(s, fits[i + 1], p[i]) \in SUBSET Positions(s)
      BY <3>1, BeforeInIs
    <3>3. fits[i] \in SUBSET Positions(s)
      BY <1>1, <3>1, <3>2
    <3> QED
      BY <3>3
  <2> QED
    BY <2>1, <2>2
<1>3. 1 .. last \subseteq S
  <2>1. last \in Nat
    OBVIOUS
  <2> HIDE DEF S, last
  <2> QED
    BY <1>2, <2>1, Backwards
<1>4. ASSUME NEW i \in 1 .. Len(p), NEW k \in Int
      PROVE  k \in fits[i] <=>
               IF p[i] = "*" THEN \E m \in fits[i + 1] : k \in 1 .. m
               ELSE k \in 1 .. Len(s) /\ k + 1 \in fits[i + 1] /\ p[i] \in {"?", s[k]}
  <2>1. fits[i + 1] \in SUBSET Positions(s) /\ fits[i] = BeforeIn(s, fits[i + 1], p[i])
    BY <1>1, <1>3
  <2> QED
    BY <2>1, BeforeInIs
<1> QED
  BY <1>1, <1>3, <1>4 DEF fits

-----------------------------------------------------------------------------
(* Within a segment both languages of Match go character by character.     *)

LEMMA SegmentIs ==
  ASSUME NEW X, NEW s \in Seq(X), NEW i \in 1 .. Len(s) + 1
  PROVE  /\ Segment(s, i) \in Seq(X)
         /\ Len(Segment(s, i)) = SegmentEnd(s, i) - i
         /\ \A k \in 1 .. SegmentEnd(s, i) - i : Segment(s, i)[k] = s[i + k - 1]
<1>1. SegmentEnd(s, i) \in i .. Len(s) + 1
  BY SegmentEndIs
<1> QED
  BY <1>1, SubSeqProperties DEF Segment

LEMMA CharsAreOne ==
  \A c \in Chars : Width(c) = 1 /\ (c \in Wildcards => c \in {"*", "?"})
BY CharsAssumption DEF Width, Wildcards

\* What a character of the pattern may be in the name: itself, or nothing at all.
Literal(c, spelling) == c \in {"*", "?"} \/ spelling[c] = <<c>>

Unread(c, name, spelling) ==
  Len(spelling[c]) \in Nat /\ \A k \in Int : ~ Reads(name, k, spelling[c])

\* q is the rest of the segment of the name from k on.
RestOfSegment(name, k, q) ==
  /\ Len(name) \in Nat /\ k \in Positions(name)
  /\ Len(q) = SegmentEnd(name, k) - k
  /\ \A x \in 1 .. Len(q) : q[x] = name[k + x - 1]

\* The same positions, counted in the name and in the segment.
Within(k, q, at, fit) == \A x \in Positions(q) : k + x - 1 \in at => x \in fit

Covers(k, q, at, fit) == \A x \in Positions(q) : x \in fit => k + x - 1 \in at

LEMMA RestIs ==
  ASSUME NEW name, NEW k, NEW q, RestOfSegment(name, k, q)
  PROVE  LET l == SegmentEnd(name, k) IN
         /\ k \in 1 .. Len(name) + 1 /\ l \in k .. Len(name) + 1 /\ Len(q) \in Nat
         /\ l = Len(name) + 1 \/ name[l] = "/"
         /\ \A m \in k .. l - 1 : name[m] # "/"
         /\ \A x \in Positions(q) :
              /\ k + x - 1 \in k .. l /\ k + x - 1 \in Positions(name)
              /\ x \in 1 .. Len(q) <=> k + x - 1 < l
              /\ x \in 1 .. Len(q) => q[x] = name[k + x - 1] /\ x + 1 \in Positions(q)
BY SegmentEndIs DEF RestOfSegment, Positions

LEMMA StarStep ==
  ASSUME NEW name, NEW k, NEW q, RestOfSegment(name, k, q), NEW spelling,
         NEW to \in SUBSET Positions(name), NEW fit \in SUBSET Positions(q)
  PROVE  LET at == Before(name, to, "*", spelling)
             here == BeforeIn(q, fit, "*") IN
         /\ Within(k, q, to, fit) => Within(k, q, at, here)
         /\ Covers(k, q, to, fit) => Covers(k, q, at, here)
<1> DEFINE at == Before(name, to, "*", spelling)
           here == BeforeIn(q, fit, "*")
           l == SegmentEnd(name, k)
<1>1. /\ k \in 1 .. Len(name) + 1 /\ l \in k .. Len(name) + 1 /\ Len(q) \in Nat
      /\ l = Len(name) + 1 \/ name[l] = "/"
      /\ \A m \in k .. l - 1 : name[m] # "/"
      /\ Len(name) \in Nat /\ Len(q) = l - k
  BY RestIs DEF RestOfSegment
<1>2. \A y \in Int : y \in at <=> \E m \in to : y \in 1 .. m /\ \A i \in y .. m - 1 : name[i] # "/"
  BY <1>1, BeforeStar
<1>3. \A x \in Int : x \in here <=> \E m \in fit : x \in 1 .. m
  BY <1>1, BeforeInIs
<1> HIDE DEF at, here, l
<1>4. ASSUME Within(k, q, to, fit), NEW x \in Positions(q), k + x - 1 \in at PROVE x \in here
  <2>1. k + x - 1 \in k .. l /\ x \in Int /\ x >= 1
    BY <1>1 DEF Positions
  <2>2. PICK m \in to : k + x - 1 \in 1 .. m /\ \A i \in k + x - 1 .. m - 1 : name[i] # "/"
    BY <1>1, <1>2, <1>4, <2>1
  <2>3. m \in 1 .. Len(name) + 1 /\ m <= l
    BY <1>1, <2>1, <2>2 DEF Positions
  <2> DEFINE z == m - k + 1
  <2>4. z \in Positions(q) /\ k + z - 1 = m /\ x \in 1 .. z
    BY <1>1, <2>1, <2>2, <2>3 DEF Positions
  <2>5. z \in fit
    BY <1>4, <2>4 DEF Within
  <2> HIDE DEF z
  <2> QED
    BY <1>3, <2>1, <2>4, <2>5
<1>5. ASSUME Covers(k, q, to, fit), NEW x \in Positions(q), x \in here PROVE k + x - 1 \in at
  <2>1. k + x - 1 \in k .. l /\ x \in Int /\ x >= 1 /\ k + x - 1 \in Int
    BY <1>1 DEF Positions
  <2>2. PICK z \in fit : x \in 1 .. z
    BY <1>3, <1>5, <2>1
  <2> DEFINE m == k + z - 1
  <2>3. z \in 1 .. Len(q) + 1 /\ m \in to
    BY <1>5, <2>2 DEF Covers, Positions
  <2>4. m \in k .. l /\ k + x - 1 \in 1 .. m
    BY <1>1, <2>1, <2>2, <2>3
  <2> HIDE DEF m
  <2>5. \A i \in k + x - 1 .. m - 1 : name[i] # "/"
    BY <1>1, <2>1, <2>4
  <2> QED
    BY <1>2, <2>1, <2>3, <2>4, <2>5
<1> QED
  BY <1>4, <1>5 DEF Within, Covers, at, here

\* A character other than "*" leads one position on, if it is in the name.
LEMMA CharStep ==
  ASSUME NEW name, NEW k, NEW q, RestOfSegment(name, k, q), NEW c \in Chars \ {"/", "*"},
         NEW to \in SUBSET Positions(name), NEW fit \in SUBSET Positions(q), NEW at,
         \A y \in Positions(name) :
           y \in at <=> y <= Len(name) /\ y + 1 \in to /\ name[y] # "/" /\ c \in {"?", name[y]}
  PROVE  LET here == BeforeIn(q, fit, c) IN
         /\ Within(k, q, to, fit) => Within(k, q, at, here)
         /\ Covers(k, q, to, fit) => Covers(k, q, at, here)
<1> DEFINE here == BeforeIn(q, fit, c)
           l == SegmentEnd(name, k)
<1>1. /\ k \in 1 .. Len(name) + 1 /\ l \in k .. Len(name) + 1 /\ Len(q) \in Nat
      /\ l = Len(name) + 1 \/ name[l] = "/"
      /\ \A m \in k .. l - 1 : name[m] # "/"
      /\ Len(name) \in Nat
  BY RestIs DEF RestOfSegment
<1>2. \A x \in Int : x \in here <=> x \in 1 .. Len(q) /\ x + 1 \in fit /\ c \in {"?", q[x]}
  BY <1>1, BeforeInIs
<1>3. \A x \in Positions(q) :
        /\ k + x - 1 \in k .. l /\ k + x - 1 \in Positions(name) /\ x \in Int
        /\ x \in 1 .. Len(q) <=> k + x - 1 < l
        /\ x \in 1 .. Len(q) => q[x] = name[k + x - 1] /\ x + 1 \in Positions(q)
        /\ k + (x + 1) - 1 = (k + x - 1) + 1
  BY <1>1, RestIs DEF Positions
<1> HIDE DEF here, l
<1>4. ASSUME Within(k, q, to, fit), NEW x \in Positions(q), k + x - 1 \in at PROVE x \in here
  <2> DEFINE y == k + x - 1
  <2>1. y \in Positions(name) /\ y \in k .. l
    BY <1>3
  <2>2. y <= Len(name) /\ y + 1 \in to /\ name[y] # "/" /\ c \in {"?", name[y]}
    BY <1>4, <2>1
  <2>3. y < l
    BY <1>1, <2>1, <2>2
  <2>4. x \in 1 .. Len(q) /\ q[x] = name[y] /\ x + 1 \in fit
    BY <1>3, <1>4, <2>2, <2>3 DEF Within
  <2> QED
    BY <1>2, <2>2, <2>4
<1>5. ASSUME Covers(k, q, to, fit), NEW x \in Positions(q), x \in here PROVE k + x - 1 \in at
  <2> DEFINE y == k + x - 1
  <2>1. x \in 1 .. Len(q) /\ x + 1 \in fit /\ c \in {"?", q[x]}
    BY <1>2, <1>3, <1>5
  <2>2. y \in Positions(name) /\ y \in k .. l /\ y < l /\ q[x] = name[y] /\ y + 1 \in to
    BY <1>3, <1>5, <2>1 DEF Covers
  <2>3. y <= Len(name) /\ name[y] # "/"
    BY <1>1, <2>2
  <2> QED
    BY <2>1, <2>2, <2>3
<1> QED
  BY <1>4, <1>5 DEF Within, Covers, here

LEMMA SegmentStep ==
  ASSUME NEW name, NEW k, NEW q, RestOfSegment(name, k, q), NEW spelling,
         NEW c \in Chars \ {"/"}, Literal(c, spelling) \/ Unread(c, name, spelling),
         NEW to \in SUBSET Positions(name), NEW fit \in SUBSET Positions(q)
  PROVE  LET at == Before(name, to, c, spelling)
             here == BeforeIn(q, fit, c) IN
         /\ Within(k, q, to, fit) => Within(k, q, at, here)
         /\ Literal(c, spelling) => (Covers(k, q, to, fit) => Covers(k, q, at, here))
<1> DEFINE at == Before(name, to, c, spelling)
           here == BeforeIn(q, fit, c)
<1>1. Len(name) \in Nat /\ Positions(name) \subseteq Int
  BY DEF RestOfSegment, Positions
<1>2. CASE c = "*"
  BY <1>2, StarStep
<1>3. CASE c = "?"
  <2>1. \A y \in Positions(name) : y \in at <=> y \in 1 .. Len(name) /\ y + 1 \in to /\ name[y] # "/"
    BY <1>1, <1>3, BeforeOne
  <2> HIDE DEF at
  <2>2. \A y \in Positions(name) :
          y \in at <=> y <= Len(name) /\ y + 1 \in to /\ name[y] # "/" /\ c \in {"?", name[y]}
    BY <1>1, <1>3, <2>1 DEF Positions
  <2>3. /\ Within(k, q, to, fit) => Within(k, q, at, here)
        /\ Covers(k, q, to, fit) => Covers(k, q, at, here)
    BY <1>3, <2>2, CharStep
  <2> QED
    BY <2>3 DEF at
<1>4. CASE c \notin {"*", "?"}
  <2>1. c \notin Wildcards
    BY <1>4, CharsAreOne
  <2>2. CASE Literal(c, spelling)
    <3>1. spelling[c] = <<c>> /\ Len(spelling[c]) = 1
      BY <1>4, <2>2 DEF Literal
    <3>2. ASSUME NEW y \in Positions(name) PROVE y \in at <=> Reads(name, y, <<c>>) /\ y + 1 \in to
      <4>1. y \in Int /\ Len(spelling[c]) \in Nat
        BY <1>1, <3>1
      <4>2. y \in at <=> Reads(name, y, spelling[c]) /\ y + Len(spelling[c]) \in to
        BY <1>1, <2>1, <4>1, BeforeChar
      <4> HIDE DEF at
      <4> QED
        BY <3>1, <4>2
    <3>3. \A y \in Positions(name) : Reads(name, y, <<c>>) <=> y <= Len(name) /\ name[y] = c
      BY <1>1 DEF Reads, Positions
    <3> HIDE DEF at
    <3>4. \A y \in Positions(name) :
            y \in at <=> y <= Len(name) /\ y + 1 \in to /\ name[y] # "/" /\ c \in {"?", name[y]}
      BY <1>4, <3>2, <3>3
    <3>5. /\ Within(k, q, to, fit) => Within(k, q, at, here)
          /\ Covers(k, q, to, fit) => Covers(k, q, at, here)
      BY <1>4, <3>4, CharStep
    <3> QED
      BY <3>5 DEF at
  <2>3. CASE ~ Literal(c, spelling)
    <3>1. Unread(c, name, spelling)
      BY <2>3
    <3>2. \A y \in Positions(name) : y \notin at
      BY <1>1, <2>1, <3>1, BeforeChar DEF Unread
    <3>3. \A x \in Positions(q) : k + x - 1 \in Positions(name)
      BY RestIs
    <3>4. Within(k, q, at, here)
      BY <3>2, <3>3 DEF Within
    <3> QED
      BY <2>3, <3>4
  <2> QED
    BY <2>2, <2>3
<1> QED
  BY <1>2, <1>3, <1>4

\* The tokens from b on are those of a segment p of the pattern.
SegmentAt(tokens, b, p, name, spelling) ==
  /\ p \in Seq(Chars) /\ b \in Nat \ {0} /\ b + Len(p) <= Len(tokens) + 1
  /\ \A j \in 1 .. Len(p) :
       /\ tokens[b + j - 1] = p[j] /\ p[j] # "/"
       /\ Literal(p[j], spelling) \/ Unread(p[j], name, spelling)

\* If what follows the segment matches only at a slash or the end, the segment
\* matches whole segments of the name, those that fit it.
LEMMA InSegment ==
  ASSUME NEW tokens, NEW name, NEW spelling, Readable(tokens, name, spelling),
         NEW p, NEW b, SegmentAt(tokens, b, p, name, spelling),
         NEW k, NEW q, RestOfSegment(name, k, q),
         \A m \in MatchesFrom(tokens, name, spelling)[b + Len(p)] :
           m = Len(name) + 1 \/ name[m] = "/"
  PROVE  LET from == MatchesFrom(tokens, name, spelling)
             fits == SegmentFitsFrom(p, q)[1]
             rest == from[b + Len(p)] IN
         /\ k \in from[b] => 1 \in fits /\ SegmentEnd(name, k) \in rest
         /\ (\A j \in 1 .. Len(p) : Literal(p[j], spelling)) =>
              (1 \in fits /\ SegmentEnd(name, k) \in rest => k \in from[b])
<1> DEFINE from == MatchesFrom(tokens, name, spelling)
           fits == SegmentFitsFrom(p, q)
           l == SegmentEnd(name, k)
           last == Len(p) + 1
           ends == l \in from[b + Len(p)]
           fit(j) == IF ends THEN fits[j] ELSE {}
           exact == \A j \in 1 .. Len(p) : Literal(p[j], spelling)
           S == {j \in 1 .. last : /\ Within(k, q, from[b + j - 1], fit(j))
                                   /\ exact => Covers(k, q, from[b + j - 1], fit(j))}
<1>1. /\ \A i \in 1 .. Len(tokens) :
           from[i] = Before(name, from[i + Width(tokens[i])], tokens[i], spelling)
      /\ \A i \in 1 .. Len(tokens) + 1 : from[i] \in SUBSET Positions(name)
  BY MatchesFromIs, MatchesFromTyped
<1>2. /\ k \in 1 .. Len(name) + 1 /\ l \in k .. Len(name) + 1 /\ Len(q) \in Nat
      /\ l = Len(name) + 1 \/ name[l] = "/"
      /\ \A m \in k .. l - 1 : name[m] # "/"
      /\ Len(name) \in Nat /\ Len(q) = l - k
  BY RestIs DEF RestOfSegment
<1>3. /\ \A i \in 1 .. last : fits[i] \in SUBSET Positions(q)
      /\ fits[last] = {Len(q) + 1}
      /\ \A i \in 1 .. Len(p) : fits[i] = BeforeIn(q, fits[i + 1], p[i])
  <2>1. Len(p) \in Nat
    BY DEF SegmentAt
  <2> QED
    BY <1>2, <2>1, SegmentFitsIs, SegmentFitsFromIs
<1>4. /\ Len(p) \in Nat /\ b \in Nat \ {0} /\ Len(tokens) \in Nat /\ b + Len(p) <= Len(tokens) + 1
      /\ \A j \in 1 .. Len(p) : p[j] \in Chars \ {"/"} /\ tokens[b + j - 1] = p[j]
                                /\ (Literal(p[j], spelling) \/ Unread(p[j], name, spelling))
  BY DEF SegmentAt, Readable
<1>5. \A m \in from[b + Len(p)] : m = Len(name) + 1 \/ name[m] = "/"
  OBVIOUS
<1>6. \A c : BeforeIn(q, {}, c) = {}
  BY DEF BeforeIn
<1> HIDE DEF from, fits, l
<1>7. ASSUME NEW i \in 1 .. last, \A j \in i + 1 .. last : j \in S PROVE i \in S
  <2>1. CASE i = last
    <3>1. b + i - 1 = b + Len(p) /\ i = Len(p) + 1
      BY <1>4, <2>1
    <3>2. \A x \in Positions(q) : k + x - 1 \in from[b + Len(p)] => k + x - 1 = l
      BY <1>2, <1>5 DEF Positions
    <3>3. \A x \in Positions(q) : k + x - 1 = l <=> x = Len(q) + 1
      BY <1>2 DEF Positions
    <3>4. fit(last) = IF ends THEN {Len(q) + 1} ELSE {}
      BY <1>3
    <3>5. Within(k, q, from[b + Len(p)], fit(last)) /\ Covers(k, q, from[b + Len(p)], fit(last))
      <4> HIDE DEF fit, last
      <4>1. CASE ends
        BY <3>2, <3>3, <3>4, <4>1 DEF Within, Covers
      <4>2. CASE ~ ends
        BY <3>2, <3>3, <3>4, <4>2 DEF Within, Covers
      <4> QED
        BY <4>1, <4>2
    <3> HIDE DEF fit
    <3> QED
      BY <2>1, <3>1, <3>5
  <2>2. CASE i # last
    <3>1. i \in 1 .. Len(p) /\ i + 1 \in i + 1 .. last /\ i + 1 \in 1 .. last
      BY <1>4, <2>2
    <3>2. b + (i + 1) - 1 = b + i - 1 + 1 /\ b + i - 1 \in 1 .. Len(tokens) /\ b + i \in 1 .. Len(tokens) + 1
          /\ b + i - 1 + 1 = b + i
      BY <1>4, <3>1
    <3>3. Within(k, q, from[b + i], fit(i + 1)) /\ (exact => Covers(k, q, from[b + i], fit(i + 1)))
      <4> HIDE DEF fit, exact
      <4> QED
        BY <1>7, <3>1, <3>2
    <3>4. from[b + i - 1] = Before(name, from[b + i], p[i], spelling)
      <4>1. tokens[b + i - 1] = p[i] /\ p[i] \in Chars
        BY <1>4, <3>1
      <4>2. Width(p[i]) = 1
        BY <4>1, CharsAreOne
      <4> QED
        BY <1>1, <3>2, <4>1, <4>2
    <3>5. fit(i) = BeforeIn(q, fit(i + 1), p[i]) /\ fit(i + 1) \in SUBSET Positions(q)
      BY <1>3, <1>6, <3>1
    <3>6. /\ p[i] \in Chars \ {"/"} /\ (exact => Literal(p[i], spelling))
          /\ Literal(p[i], spelling) \/ Unread(p[i], name, spelling)
          /\ from[b + i] \in SUBSET Positions(name)
      BY <1>1, <1>4, <3>1, <3>2
    <3> HIDE DEF fit, exact
    <3>7. /\ Within(k, q, from[b + i - 1], fit(i))
          /\ Literal(p[i], spelling) =>
               (Covers(k, q, from[b + i], fit(i + 1)) => Covers(k, q, from[b + i - 1], fit(i)))
      BY <3>3, <3>4, <3>5, <3>6, SegmentStep
    <3> QED
      BY <3>3, <3>6, <3>7
  <2> QED
    BY <2>1, <2>2
<1>8. 1 \in S
  <2>1. last \in Nat /\ 1 \in 1 .. last
    BY <1>4
  <2> HIDE DEF S, last
  <2> QED
    BY <1>7, <2>1, Backwards
<1>9. b + 1 - 1 = b /\ k + 1 - 1 = k /\ 1 \in Positions(q)
  BY <1>2, <1>4 DEF Positions
<1>10. (k \in from[b] => 1 \in fit(1)) /\ (exact => (1 \in fit(1) => k \in from[b]))
  <2> HIDE DEF fit, exact
  <2> QED
    BY <1>8, <1>9 DEF Within, Covers
<1>11. /\ k \in from[b] => 1 \in fits[1] /\ l \in from[b + Len(p)]
       /\ exact => (1 \in fits[1] /\ l \in from[b + Len(p)] => k \in from[b])
  BY <1>10
<1> QED
  BY <1>11 DEF from, fits, l

-----------------------------------------------------------------------------
(* Segment by segment: either a segment is read as InSegment says, or it   *)
(* is "**" and one token stands for it and the slash behind it.            *)

ReadByChar(p, i, tokens, name, spelling) ==
  /\ SegmentAt(tokens, i, Segment(p, i), name, spelling)
  /\ SegmentEnd(p, i) <= Len(p) => tokens[SegmentEnd(p, i)] = "/"

ReadAsDirs(p, i, tokens) ==
  /\ Segment(p, i) = AnyDirs
  /\ tokens[i] = IF SegmentEnd(p, i) = Len(p) + 1 THEN "**" ELSE "**/"

BySegment(p, tokens, name, spelling) ==
  /\ Readable(tokens, name, spelling) /\ Len(tokens) = Len(p) /\ spelling["/"] = <<"/">>
  /\ \A i \in Starts(p) : ReadByChar(p, i, tokens, name, spelling) \/ ReadAsDirs(p, i, tokens)

\* Nothing of the pattern is lost.
Exactly(p, tokens, spelling) ==
  /\ \A j \in 1 .. Len(p) : Literal(p[j], spelling)
  /\ \A i \in Starts(p) : Segment(p, i) = AnyDirs => ReadAsDirs(p, i, tokens)

\* Behind the end of a segment both go on with the next one.
LEMMA NextSegment ==
  ASSUME NEW X, NEW Y, NEW p \in Seq(X), NEW name \in Seq(Y), NEW tokens, NEW spelling,
         BySegment(p, tokens, name, spelling),
         NEW e \in 1 .. Len(p) + 1, e <= Len(p) => tokens[e] = "/",
         NEW exact \in BOOLEAN,
         \A m \in Starts(name) : e <= Len(p) =>
           /\ m \in MatchesFrom(tokens, name, spelling)[e + 1] => m \in FitsFrom(p, name)[e + 1]
           /\ exact /\ m \in FitsFrom(p, name)[e + 1] => m \in MatchesFrom(tokens, name, spelling)[e + 1],
         NEW m \in Positions(name)
  PROVE  LET from == MatchesFrom(tokens, name, spelling)
             fits == FitsFrom(p, name) IN
         /\ m \in from[e] => (m = Len(name) + 1 \/ name[m] = "/") /\ m + 1 \in fits[e + 1]
         /\ exact /\ m + 1 \in fits[e + 1] /\ (m = Len(name) + 1 \/ name[m] = "/") => m \in from[e]
<1> DEFINE from == MatchesFrom(tokens, name, spelling)
           fits == FitsFrom(p, name)
<1>1. /\ Len(p) \in Nat /\ Len(name) \in Nat /\ DOMAIN name = 1 .. Len(name)
      /\ Readable(tokens, name, spelling) /\ Len(tokens) = Len(p) /\ spelling["/"] = <<"/">>
      /\ m \in 1 .. Len(name) + 1
  BY DEF BySegment, Positions
<1>2. /\ from[Len(tokens) + 1] = {Len(name) + 1}
      /\ \A i \in 1 .. Len(tokens) :
           from[i] = Before(name, from[i + Width(tokens[i])], tokens[i], spelling)
      /\ \A i \in 1 .. Len(tokens) + 1 : from[i] \in SUBSET Positions(name)
  BY <1>1, MatchesFromIs, MatchesFromTyped
<1>3. /\ fits[Len(p) + 2] = {Len(name) + 2}
      /\ \A i \in 1 .. Len(p) + 1 : fits[i] \subseteq Starts(name)
  BY <1>1, FitsFromIs
<1>4. /\ Starts(name) \subseteq 1 .. Len(name) + 1
      /\ \A k \in 1 .. Len(name) + 1 : k \in Starts(name) <=> k = 1 \/ name[k - 1] = "/"
  BY <1>1, StartsIs
<1> HIDE DEF from, fits
<1>5. CASE e = Len(p) + 1
  <2>1. from[e] = {Len(name) + 1} /\ fits[e + 1] = {Len(name) + 2}
    BY <1>1, <1>2, <1>3, <1>5
  <2>2. m \in from[e] <=> m + 1 \in fits[e + 1]
    BY <1>1, <2>1
  <2>3. m \in from[e] => m = Len(name) + 1
    BY <2>1
  <2> QED
    BY <2>2, <2>3 DEF from, fits
<1>6. CASE e <= Len(p)
  <2>1. e \in 1 .. Len(tokens) /\ tokens[e] = "/" /\ e + 1 \in 1 .. Len(tokens) + 1
        /\ e + 1 \in 1 .. Len(p) + 1
    BY <1>1, <1>6
  <2>2. "/" \in Chars /\ "/" \notin Wildcards /\ Width("/") = 1 /\ Len(<<"/">>) = 1
    BY CharsAssumption, CharsAreOne
  <2>3. from[e] = Before(name, from[e + 1], "/", spelling) /\ from[e + 1] \in SUBSET Positions(name)
    BY <1>2, <2>1, <2>2
  <2>4. m \in from[e] <=> Reads(name, m, <<"/">>) /\ m + 1 \in from[e + 1]
    <3>1. m \in Int /\ Len(spelling["/"]) \in Nat
      BY <1>1, <2>2
    <3>2. m \in Before(name, from[e + 1], "/", spelling)
            <=> Reads(name, m, spelling["/"]) /\ m + Len(spelling["/"]) \in from[e + 1]
      BY <1>1, <2>2, <2>3, <3>1, BeforeChar
    <3> QED
      BY <1>1, <2>2, <2>3, <3>2
  <2>5. Reads(name, m, <<"/">>) <=> m <= Len(name) /\ name[m] = "/"
    BY <1>1 DEF Reads
  <2>6. m <= Len(name) /\ name[m] = "/" => m + 1 \in Starts(name)
    BY <1>1, <1>4
  <2>7. m + 1 \in fits[e + 1] => m <= Len(name)
    BY <1>1, <1>3, <1>4, <2>1
  <2>8. m + 1 \in Starts(name) =>
          /\ m + 1 \in from[e + 1] => m + 1 \in fits[e + 1]
          /\ exact /\ m + 1 \in fits[e + 1] => m + 1 \in from[e + 1]
    BY <1>6 DEF from, fits
  <2>9. m \in from[e] => (m = Len(name) + 1 \/ name[m] = "/") /\ m + 1 \in fits[e + 1]
    BY <2>4, <2>5, <2>6, <2>8
  <2>10. exact /\ m + 1 \in fits[e + 1] /\ (m = Len(name) + 1 \/ name[m] = "/") => m \in from[e]
    BY <1>1, <2>4, <2>5, <2>6, <2>7, <2>8
  <2> QED
    BY <2>9, <2>10 DEF from, fits
<1> QED
  BY <1>1, <1>5, <1>6

\* What a language read by segments matches from the start of a segment on, is
\* what fits from there.
LEMMA SegmentsMatch ==
  ASSUME NEW X, NEW Y, NEW p \in Seq(X), NEW name \in Seq(Y), NEW tokens, NEW spelling,
         BySegment(p, tokens, name, spelling)
  PROVE  LET from == MatchesFrom(tokens, name, spelling)
             fits == FitsFrom(p, name) IN
         /\ 1 \in from[1] => 1 \in fits[1]
         /\ Exactly(p, tokens, spelling) => (1 \in fits[1] => 1 \in from[1])
<1> DEFINE from == MatchesFrom(tokens, name, spelling)
           fits == FitsFrom(p, name)
           exact == Exactly(p, tokens, spelling)
           last == Len(p) + 1
           Same(i) == \A k \in Starts(name) : /\ k \in from[i] => k \in fits[i]
                                              /\ exact /\ k \in fits[i] => k \in from[i]
           S == {i \in 1 .. last : i \in Starts(p) => Same(i)}
<1>1. /\ Len(p) \in Nat /\ Len(name) \in Nat
      /\ DOMAIN name = 1 .. Len(name) /\ DOMAIN p = 1 .. Len(p)
      /\ Readable(tokens, name, spelling) /\ Len(tokens) = Len(p)
  BY DEF BySegment
<1>2. /\ from[Len(tokens) + 1] = {Len(name) + 1}
      /\ \A i \in 1 .. Len(tokens) :
           from[i] = Before(name, from[i + Width(tokens[i])], tokens[i], spelling)
      /\ \A i \in 1 .. Len(tokens) + 1 : from[i] \in SUBSET Positions(name)
  BY <1>1, MatchesFromIs, MatchesFromTyped
<1>3. /\ fits[Len(p) + 2] = {Len(name) + 2}
      /\ \A i \in 1 .. last :
           /\ fits[i] \subseteq Starts(name)
           /\ Segment(p, i) = AnyDirs => \A k \in Starts(name) :
                k \in fits[i] <=> \E m \in fits[SegmentEnd(p, i) + 1] : k <= m
           /\ Segment(p, i) # AnyDirs => \A k \in Starts(name) :
                k \in fits[i] <=>
                  /\ 1 \in SegmentFitsFrom(Segment(p, i), Segment(name, k))[1]
                  /\ SegmentEnd(name, k) + 1 \in fits[SegmentEnd(p, i) + 1]
  BY <1>1, FitsFromIs
<1>4. /\ Starts(name) \subseteq 1 .. Len(name) + 1
      /\ \A k \in 1 .. Len(name) + 1 : k \in Starts(name) <=> k = 1 \/ name[k - 1] = "/"
      /\ Starts(p) \subseteq 1 .. Len(p) + 1
      /\ \A k \in 1 .. Len(p) + 1 : k \in Starts(p) <=> k = 1 \/ p[k - 1] = "/"
  BY <1>1, StartsIs
<1> HIDE DEF from, fits, exact
<1>5. ASSUME NEW i \in 1 .. last, \A j \in i + 1 .. last : j \in S, i \in Starts(p) PROVE Same(i)
  <2> DEFINE e == SegmentEnd(p, i)
  <2>1. /\ e \in i .. Len(p) + 1
        /\ e = Len(p) + 1 \/ p[e] = "/"
        /\ Len(Segment(p, i)) = e - i
    BY <1>1, SegmentEndIs, SegmentIs
  <2>0. Segment(p, i) = AnyDirs => e = i + 2 /\ i \in 1 .. Len(p)
    <3>1. Len(AnyDirs) = 2 /\ i \in 1 .. Len(p) + 1
      BY DEF AnyDirs
    <3>2. Segment(p, i) = AnyDirs => e - i = 2
      BY <2>1, <3>1
    <3>3. e \in i .. Len(p) + 1
      BY <2>1
    <3> HIDE DEF e
    <3> QED
      BY <1>1, <3>1, <3>2, <3>3
  <2>2. e <= Len(p) => Same(e + 1)
    <3> HIDE DEF e, Same
    <3>1. SUFFICES ASSUME e <= Len(p) PROVE Same(e + 1)
      OBVIOUS
    <3>2. e + 1 \in i + 1 .. last /\ e + 1 \in Starts(p)
      BY <1>1, <1>4, <2>1, <3>1
    <3> QED
      BY <1>5, <3>2
  <2>3. CASE ReadByChar(p, i, tokens, name, spelling)
    <3>1. SegmentAt(tokens, i, Segment(p, i), name, spelling) /\ i + Len(Segment(p, i)) = e
      BY <1>1, <2>1, <2>3 DEF ReadByChar
    <3>2. \A m \in Positions(name) :
            /\ m \in from[e] => (m = Len(name) + 1 \/ name[m] = "/") /\ m + 1 \in fits[e + 1]
            /\ exact /\ m + 1 \in fits[e + 1] /\ (m = Len(name) + 1 \/ name[m] = "/") => m \in from[e]
      <4>1. e \in 1 .. Len(p) + 1 /\ (e <= Len(p) => tokens[e] = "/")
        BY <1>1, <2>1, <2>3 DEF ReadByChar
      <4>2. exact \in BOOLEAN
        BY DEF exact, Exactly
      <4> HIDE DEF e
      <4> QED
        BY <1>1, <2>2, <4>1, <4>2, NextSegment DEF from, fits
    <3> SUFFICES ASSUME NEW k \in Starts(name)
                 PROVE  /\ k \in from[i] => k \in fits[i]
                        /\ exact /\ k \in fits[i] => k \in from[i]
      OBVIOUS
    <3> DEFINE l == SegmentEnd(name, k)
               q == Segment(name, k)
               w == 1 \in SegmentFitsFrom(Segment(p, i), q)[1]
    <3>3. /\ l \in k .. Len(name) + 1 /\ (l = Len(name) + 1 \/ name[l] = "/")
          /\ k \in 1 .. Len(name) + 1 /\ RestOfSegment(name, k, q) /\ l \in Positions(name)
      <4>1. k \in 1 .. Len(name) + 1
        BY <1>4
      <4>2. /\ Len(q) = SegmentEnd(name, k) - k
            /\ \A x \in 1 .. SegmentEnd(name, k) - k : q[x] = name[k + x - 1]
        BY <4>1, SegmentIs
      <4>3. l \in k .. Len(name) + 1 /\ (l = Len(name) + 1 \/ name[l] = "/")
        BY <1>1, <4>1, SegmentEndIs
      <4> HIDE DEF q
      <4> QED
        BY <1>1, <4>1, <4>2, <4>3 DEF RestOfSegment, Positions
    <3>4. \A m \in from[e] : m = Len(name) + 1 \/ name[m] = "/"
      BY <1>1, <1>2, <2>1, <3>2
    <3>5. /\ k \in from[i] => w /\ l \in from[e]
          /\ (\A j \in 1 .. Len(Segment(p, i)) : Literal(Segment(p, i)[j], spelling)) =>
               (w /\ l \in from[e] => k \in from[i])
      <4> HIDE DEF e
      <4>1. \A m \in MatchesFrom(tokens, name, spelling)[i + Len(Segment(p, i))] :
              m = Len(name) + 1 \/ name[m] = "/"
        BY <3>1, <3>4 DEF from
      <4> HIDE DEF q
      <4>2. /\ k \in MatchesFrom(tokens, name, spelling)[i] => w /\ l \in MatchesFrom(tokens, name, spelling)[i + Len(Segment(p, i))]
            /\ (\A j \in 1 .. Len(Segment(p, i)) : Literal(Segment(p, i)[j], spelling)) =>
                 (w /\ l \in MatchesFrom(tokens, name, spelling)[i + Len(Segment(p, i))]
                    => k \in MatchesFrom(tokens, name, spelling)[i])
        BY <1>1, <3>1, <3>3, <4>1, InSegment
      <4> HIDE DEF w, l
      <4> QED
        BY <3>1, <4>2 DEF from
    <3>6. exact => \A j \in 1 .. Len(Segment(p, i)) : Literal(Segment(p, i)[j], spelling)
      <4>1. /\ Len(Segment(p, i)) = e - i
            /\ \A x \in 1 .. e - i : Segment(p, i)[x] = p[i + x - 1]
        BY <1>1, SegmentIs
      <4>2. \A x \in 1 .. e - i : i + x - 1 \in 1 .. Len(p)
        BY <1>1, <2>1
      <4> HIDE DEF e
      <4> QED
        BY <4>1, <4>2 DEF exact, Exactly
    <3>7. CASE Segment(p, i) = AnyDirs
      <4>1. \A x \in Starts(name) : x \in fits[i] <=> \E m \in fits[e + 1] : x <= m
        BY <1>3, <3>7
      <4>2. k \in from[i] => k \in fits[i]
        <5>1. SUFFICES ASSUME k \in from[i] PROVE k \in fits[i]
          OBVIOUS
        <5>2. l + 1 \in fits[e + 1] /\ k <= l + 1
          BY <3>2, <3>3, <3>5, <5>1
        <5> HIDE DEF l, e
        <5> QED
          BY <4>1, <5>2
      <4>3. exact => ReadAsDirs(p, i, tokens)
        BY <1>5, <3>7 DEF exact, Exactly
      <4>4. ~ ReadAsDirs(p, i, tokens)
        <5>1. tokens[i] = "*"
          <6>1. 1 \in 1 .. Len(AnyDirs) /\ AnyDirs[1] = "*" /\ i + 1 - 1 = i
            BY DEF AnyDirs
          <6>2. tokens[i + 1 - 1] = AnyDirs[1]
            BY <3>1, <3>7, <6>1 DEF SegmentAt
          <6> QED
            BY <6>1, <6>2
        <5> QED
          BY <5>1 DEF ReadAsDirs
      <4> QED
        BY <4>2, <4>3, <4>4
    <3>8. CASE Segment(p, i) # AnyDirs
      <4>1. k \in fits[i] <=> w /\ l + 1 \in fits[e + 1]
        BY <1>3, <3>8
      <4> HIDE DEF w, l, e
      <4> QED
        BY <3>2, <3>3, <3>5, <3>6, <4>1
    <3> QED
      BY <3>7, <3>8
  <2>4. CASE ReadAsDirs(p, i, tokens)
    <3>1. /\ Segment(p, i) = AnyDirs /\ Len(AnyDirs) = 2
          /\ tokens[i] = IF e = Len(p) + 1 THEN "**" ELSE "**/"
      BY <2>4 DEF ReadAsDirs, AnyDirs
    <3>2. e = i + 2 /\ i \in 1 .. Len(p)
      BY <2>0, <3>1
    <3>3. \A x \in Starts(name) : x \in fits[i] <=> \E m \in fits[e + 1] : x <= m
      BY <1>3, <3>1
    <3>4. CASE e = Len(p) + 1
      <4>1. fits[e + 1] = {Len(name) + 2} /\ from[e] = {Len(name) + 1}
        BY <1>1, <1>2, <1>3, <3>4
      <4>2. tokens[i] = "**" /\ Width("**") = 2
        BY <3>1, <3>4 DEF Width
      <4>3. from[i] = Before(name, from[e], "**", spelling)
        BY <1>1, <1>2, <3>2, <4>2
      <4>4. \A k \in Starts(name) : k \in fits[i] /\ k \in from[i]
        <5> TAKE k \in Starts(name)
        <5>1. k \in 1 .. Len(name) + 1
          BY <1>4
        <5>2. k <= Len(name) + 2 /\ Len(name) + 1 \in from[e] /\ from[e] \in SUBSET Positions(name)
          BY <1>1, <4>1, <5>1 DEF Positions
        <5>3. k \in Before(name, from[e], "**", spelling)
          BY <1>1, <5>1, <5>2, BeforeText
        <5>4. k \in fits[i]
          BY <3>3, <4>1, <5>2
        <5> QED
          BY <4>3, <5>3, <5>4
      <4> QED
        BY <4>4
    <3>5. CASE e # Len(p) + 1
      <4>1. e <= Len(p) /\ e + 1 = i + 3 /\ e + 1 \in 1 .. Len(p) + 1
        BY <1>1, <2>1, <3>2, <3>5
      <4>2. tokens[i] = "**/" /\ Width("**/") = 3
        BY <3>1, <3>5 DEF Width
      <4>3. from[i] = Before(name, from[e + 1], "**/", spelling) /\ from[e + 1] \in SUBSET Positions(name)
        BY <1>1, <1>2, <3>2, <4>1, <4>2
      <4>4. fits[e + 1] \subseteq Starts(name) /\ Same(e + 1)
        BY <1>3, <2>2, <4>1
      <4> SUFFICES ASSUME NEW k \in Starts(name)
                   PROVE  /\ k \in from[i] => k \in fits[i]
                          /\ exact /\ k \in fits[i] => k \in from[i]
        OBVIOUS
      <4>5. k \in 1 .. Len(name) + 1
        BY <1>4
      <4>6. k \in from[i] <=> k \in from[e + 1]
                              \/ \E m \in from[e + 1] : k \in 1 .. m - 1 /\ name[m - 1] = "/"
        BY <1>1, <4>3, <4>5, BeforeDirs
      <4>7. ASSUME k \in from[i] PROVE k \in fits[i]
        <5>1. PICK m \in from[e + 1] : k = m \/ (k \in 1 .. m - 1 /\ name[m - 1] = "/")
          BY <4>6, <4>7
        <5>2. m \in Starts(name) /\ k <= m
          BY <1>4, <4>3, <4>5, <5>1 DEF Positions
        <5>3. m \in fits[e + 1]
          BY <4>4, <5>1, <5>2
        <5> HIDE DEF e
        <5> QED
          BY <3>3, <5>2, <5>3
      <4>8. ASSUME exact, k \in fits[i] PROVE k \in from[i]
        <5>1. PICK m \in fits[e + 1] : k <= m
          BY <3>3, <4>8
        <5>2. m \in Starts(name) /\ m \in 1 .. Len(name) + 1 /\ m \in from[e + 1]
          BY <1>4, <4>4, <4>8, <5>1
        <5>3. k = m \/ (k \in 1 .. m - 1 /\ name[m - 1] = "/")
          BY <1>4, <4>5, <5>1, <5>2
        <5> HIDE DEF e
        <5> QED
          BY <4>6, <5>2, <5>3
      <4> QED
        BY <4>7, <4>8
    <3> QED
      BY <3>4, <3>5
  <2> QED
    BY <1>5, <2>3, <2>4 DEF BySegment
<1>6. 1 \in S
  <2>1. last \in Nat /\ 1 \in 1 .. last
    BY <1>1
  <2>2. \A i \in 1 .. last : (\A j \in i + 1 .. last : j \in S) => i \in S
    <3> HIDE DEF Same
    <3> QED
      BY <1>5
  <2> HIDE DEF S, last
  <2> QED
    BY <2>1, <2>2, Backwards
<1>7. 1 \in Starts(p) /\ 1 \in Starts(name)
  BY DEF Starts
<1>8. /\ 1 \in from[1] => 1 \in fits[1]
      /\ exact => (1 \in fits[1] => 1 \in from[1])
  BY <1>6, <1>7
<1> QED
  BY <1>8 DEF from, fits, exact

-----------------------------------------------------------------------------
(* The two languages of Match are read by segments.                        *)

LEMMA TrimIs ==
  ASSUME NEW X, NEW s \in Seq(X)
  PROVE  /\ Trim(s) \in Seq(X)
         /\ \E a \in Nat : /\ a + Len(Trim(s)) <= Len(s)
                           /\ \A j \in 1 .. Len(Trim(s)) : Trim(s)[j] = s[a + j]
                           /\ \A i \in 1 .. Len(s) : i \notin a + 1 .. a + Len(Trim(s)) => s[i] = "/"
         /\ Len(Trim(s)) > 0 => Trim(s)[1] # "/" /\ Trim(s)[Len(Trim(s))] # "/"
         /\ Len(s) > 0 /\ s[1] # "/" /\ s[Len(s)] # "/" => Trim(s) = s
<1> DEFINE inner == {i \in DOMAIN s : s[i] # "/"}
<1>1. /\ Len(s) \in Nat /\ DOMAIN s = 1 .. Len(s)
      /\ inner \in SUBSET Nat /\ inner \in SUBSET (0 .. Len(s)) /\ inner \subseteq 1 .. Len(s)
  OBVIOUS
<1>2. Trim(s) = IF inner = {} THEN <<>> ELSE SubSeq(s, Min(inner), Max(inner))
  BY DEF Trim
<1>3. CASE inner = {}
  <2>1. Trim(s) = <<>> /\ Len(Trim(s)) = 0 /\ \A i \in 1 .. Len(s) : s[i] = "/"
    BY <1>2, <1>3
  <2>2. Trim(s) \in Seq(X)
    BY <2>1
  <2>3. 0 \in Nat /\ 0 + Len(Trim(s)) <= Len(s) /\ \A j \in 1 .. Len(Trim(s)) : Trim(s)[j] = s[0 + j]
    BY <2>1
  <2>4. ~ (Len(s) > 0 /\ s[1] # "/")
    BY <1>1, <2>1
  <2> QED
    BY <2>1, <2>2, <2>3, <2>4
<1>4. CASE inner # {}
  <2> DEFINE f == Min(inner)
             g == Max(inner)
  <2>1. f \in inner /\ g \in inner /\ \A i \in inner : f <= i /\ i <= g
    <3> HIDE DEF inner
    <3> QED
      BY <1>1, <1>4, LeastIs, GreatestIs
  <2>2. f \in 1 .. Len(s) /\ g \in 1 .. Len(s) /\ f <= g
    <3> HIDE DEF inner
    <3> QED
      BY <1>1, <2>1
  <2>3. \A i \in 1 .. Len(s) : i < f \/ i > g => s[i] = "/"
    <3>1. \A i \in 1 .. Len(s) : s[i] # "/" => i \in inner
      OBVIOUS
    <3> HIDE DEF inner, f, g
    <3> QED
      BY <2>1, <2>2, <3>1
  <2>4. Trim(s) = SubSeq(s, f, g)
    BY <1>2, <1>4
  <2>0. s[f] # "/" /\ s[g] # "/"
    <3> HIDE DEF f, g
    <3> QED
      BY <2>1
  <2> HIDE DEF inner, f, g
  <2>5. /\ Trim(s) \in Seq(X) /\ Len(Trim(s)) = g - f + 1
        /\ \A j \in 1 .. g - f + 1 : Trim(s)[j] = s[f + j - 1]
    BY <2>2, <2>4, SubSeqProperties
  <2>6. /\ f - 1 \in Nat /\ f - 1 + Len(Trim(s)) <= Len(s)
        /\ \A j \in 1 .. Len(Trim(s)) : Trim(s)[j] = s[f - 1 + j]
    BY <1>1, <2>2, <2>5
  <2>7. \A i \in 1 .. Len(s) : i \notin f - 1 + 1 .. f - 1 + Len(Trim(s)) => s[i] = "/"
    BY <1>1, <2>2, <2>3, <2>5
  <2>8. ASSUME Len(s) > 0, s[1] # "/", s[Len(s)] # "/" PROVE Trim(s) = s
    <3>0. 1 \in 1 .. Len(s) /\ Len(s) \in 1 .. Len(s)
      BY <1>1, <2>8
    <3>1. f = 1 /\ g = Len(s)
      <4>1. ~ (1 < f \/ 1 > g) /\ ~ (Len(s) < f \/ Len(s) > g)
        BY <2>3, <2>8, <3>0
      <4> QED
        BY <2>2, <4>1
    <3>2. Len(Trim(s)) = Len(s) /\ \A j \in 1 .. Len(s) : Trim(s)[j] = s[j]
      BY <1>1, <2>5, <3>1
    <3> QED
      BY <1>1, <2>5, <3>2
  <2> QED
    <3>1. 1 \in 1 .. g - f + 1 /\ g - f + 1 \in 1 .. g - f + 1 /\ f + 1 - 1 = f /\ f + (g - f + 1) - 1 = g
      BY <2>2
    <3>2. Trim(s)[1] = s[f] /\ Trim(s)[g - f + 1] = s[g]
      BY <2>5, <3>1
    <3>3. Trim(s)[1] # "/" /\ Trim(s)[Len(Trim(s))] # "/"
      BY <2>0, <2>5, <3>2
    <3> QED
      BY <2>5, <2>6, <2>7, <2>8, <3>3
<1> QED
  BY <1>3, <1>4

LEMMA NamesAre ==
  ASSUME NEW name \in Names
  PROVE  LET Y == {name[i] : i \in DOMAIN name} IN
         /\ name \in Seq(Y) /\ Len(name) \in Nat /\ Len(name) > 0
         /\ name[1] # "/" /\ name[Len(name)] # "/" /\ Trim(name) = name
<1> DEFINE Y == {name[i] : i \in DOMAIN name}
<1>1. name \in Seq(Y) /\ name # <<>> /\ name[1] # "/" /\ name[Len(name)] # "/"
  BY NamesAssumption
<1> HIDE DEF Y
<1>2. Len(name) \in Nat /\ Len(name) > 0
  BY <1>1
<1>3. Trim(name) = name
  BY <1>1, <1>2, TrimIs
<1> QED
  BY <1>1, <1>2, <1>3 DEF Y

LEMMA SlashIs ==
  /\ "/" \in Chars /\ "/" \notin Wildcards
  /\ Utf8["/"] = <<"/">> /\ Itself["/"] = <<"/">>
  /\ \A c \in Chars : Itself[c] = <<c>> /\ Len(Itself[c]) = 1 /\ Len(Utf8[c]) \in Nat \ {0}
BY CharsAssumption, Utf8Assumption DEF Wildcards, Itself

\* path.Match takes the pattern as it is.
LEMMA AsItIs ==
  ASSUME NEW p \in Seq(Chars), NEW name, Len(name) \in Nat
  PROVE  /\ BySegment(p, p, name, Itself)
         /\ (\A i \in Starts(p) : Segment(p, i) # AnyDirs) => Exactly(p, p, Itself)
<1>1. Len(p) \in Nat /\ DOMAIN p = 1 .. Len(p) /\ \A j \in 1 .. Len(p) : p[j] \in Chars
  OBVIOUS
<1>2. \A j \in 1 .. Len(p) : Literal(p[j], Itself)
  BY <1>1, SlashIs DEF Literal
<1>3. Readable(p, name, Itself)
  BY <1>1, SlashIs, CharsAreOne DEF Readable
<1>4. ASSUME NEW i \in Starts(p) PROVE ReadByChar(p, i, p, name, Itself)
  <2>1. i \in 1 .. Len(p) + 1
    BY <1>1, StartsIs
  <2> DEFINE e == SegmentEnd(p, i)
             q == Segment(p, i)
  <2>2. /\ e \in i .. Len(p) + 1 /\ (e = Len(p) + 1 \/ p[e] = "/")
        /\ \A k \in i .. e - 1 : p[k] # "/"
    BY <1>1, <2>1, SegmentEndIs
  <2>3. q \in Seq(Chars) /\ Len(q) = e - i /\ \A j \in 1 .. e - i : q[j] = p[i + j - 1]
    BY <2>1, SegmentIs
  <2> HIDE DEF e, q
  <2>4. \A j \in 1 .. Len(q) : p[i + j - 1] = q[j] /\ q[j] # "/" /\ Literal(q[j], Itself)
    <3> TAKE j \in 1 .. Len(q)
    <3>1. i + j - 1 \in i .. e - 1 /\ i + j - 1 \in 1 .. Len(p) /\ q[j] = p[i + j - 1]
      BY <1>1, <2>1, <2>2, <2>3
    <3> QED
      BY <1>2, <2>2, <3>1
  <2>5. SegmentAt(p, i, q, name, Itself)
    BY <1>1, <2>1, <2>2, <2>3, <2>4 DEF SegmentAt
  <2> QED
    BY <1>1, <2>2, <2>5 DEF ReadByChar, e, q
<1> QED
  BY <1>2, <1>3, <1>4, SlashIs DEF BySegment, Exactly

LEMMA RegexpIs ==
  ASSUME NEW p \in Seq(Chars), NEW name, Len(name) \in Nat
  PROVE  LET t == globRegex(p) IN
         /\ Len(t) = Len(p)
         /\ \A i \in 1 .. Len(p) : t[i] = IF p[i] = "*" THEN Stars(p, i) ELSE p[i]
         /\ Readable(t, name, Utf8)
<1> DEFINE t == globRegex(p)
           n == Len(p)
<1>1. n \in Nat /\ DOMAIN p = 1 .. n /\ \A j \in 1 .. n : p[j] \in Chars
  OBVIOUS
<1>2. t = [i \in 1 .. n |-> IF p[i] = "*" THEN Stars(p, i) ELSE p[i]]
  BY DEF globRegex
<1>3. DOMAIN t = 1 .. n /\ \A i \in 1 .. n : t[i] = IF p[i] = "*" THEN Stars(p, i) ELSE p[i]
  BY <1>2
<1>4. Len(t) = n
  BY <1>1, <1>2
<1> HIDE DEF t
<1>5. ASSUME NEW i \in 1 .. n
      PROVE  /\ i + Width(t[i]) \in i + 1 .. n + 1
             /\ t[i] \in Wildcards \/ Len(Utf8[t[i]]) \in Nat
  <2>1. CASE p[i] = "*"
    BY <1>1, <1>3, <2>1 DEF Stars, Width, Wildcards
  <2>2. CASE p[i] # "*"
    BY <1>1, <1>3, <2>2, SlashIs, CharsAreOne
  <2> QED
    BY <2>1, <2>2
<1>6. Readable(t, name, Utf8)
  BY <1>1, <1>4, <1>5 DEF Readable
<1> QED
  BY <1>3, <1>4, <1>6 DEF t

\* The regular expression takes "**" for a segment and the slash behind it.
LEMMA AsRegexp ==
  ASSUME NEW p \in Seq(Chars), NEW name, Len(name) \in Nat,
         \A i \in Starts(p) : DoubleStars(Segment(p, i)) # {} => Segment(p, i) = AnyDirs,
         \A j \in 1 .. Len(p) : Literal(p[j], Utf8) \/ Unread(p[j], name, Utf8)
  PROVE  /\ BySegment(p, globRegex(p), name, Utf8)
         /\ (\A j \in 1 .. Len(p) : Literal(p[j], Utf8)) => Exactly(p, globRegex(p), Utf8)
<1> DEFINE t == globRegex(p)
           n == Len(p)
<1>1. n \in Nat /\ DOMAIN p = 1 .. n /\ \A j \in 1 .. n : p[j] \in Chars
  OBVIOUS
<1>2. /\ Len(t) = n /\ Readable(t, name, Utf8)
      /\ \A i \in 1 .. n : t[i] = IF p[i] = "*" THEN Stars(p, i) ELSE p[i]
  BY RegexpIs
<1> HIDE DEF t
<1>3. ASSUME NEW i \in Starts(p)
      PROVE  IF Segment(p, i) = AnyDirs THEN ReadAsDirs(p, i, t) ELSE ReadByChar(p, i, t, name, Utf8)
  <2>1. i \in 1 .. Len(p) + 1
    BY <1>1, StartsIs
  <2> DEFINE e == SegmentEnd(p, i)
             q == Segment(p, i)
  <2>2. /\ e \in i .. Len(p) + 1 /\ (e = Len(p) + 1 \/ p[e] = "/")
        /\ \A k \in i .. e - 1 : p[k] # "/"
    BY <1>1, <2>1, SegmentEndIs
  <2>3. q \in Seq(Chars) /\ Len(q) = e - i /\ \A j \in 1 .. e - i : q[j] = p[i + j - 1]
    BY <2>1, SegmentIs
  <2>4. DoubleStars(q) # {} => q = AnyDirs
    OBVIOUS
  <2> HIDE DEF e, q, n
  <2>5. CASE q = AnyDirs
    <3>1. Len(AnyDirs) = 2 /\ AnyDirs[1] = "*" /\ AnyDirs[2] = "*"
      BY DEF AnyDirs
    <3>2. e - i = 2
      BY <2>3, <2>5, <3>1
    <3>3. e = i + 2 /\ 1 \in 1 .. e - i /\ 2 \in 1 .. e - i /\ i + 1 - 1 = i /\ i + 2 - 1 = i + 1
      BY <2>1, <2>2, <3>2
    <3>4. p[i] = "*" /\ p[i + 1] = "*"
      BY <2>3, <2>5, <3>1, <3>3
    <3>5. i \in 1 .. n /\ i # Len(p)
      <4>1. e <= Len(p) + 1 /\ Len(p) \in Nat
        BY <1>1, <2>2 DEF n
      <4> QED
        BY <2>1, <3>3, <4>1 DEF n
    <3>6. t[i] = IF i + 1 < Len(p) /\ p[i + 2] = "/" THEN "**/" ELSE "**"
      BY <1>2, <3>4, <3>5 DEF Stars
    <3>7. i + 1 < Len(p) /\ p[i + 2] = "/" <=> e # Len(p) + 1
      BY <1>1, <2>1, <2>2, <3>3 DEF n
    <3>8. t[i] = IF e = Len(p) + 1 THEN "**" ELSE "**/"
      BY <3>6, <3>7
    <3> QED
      BY <2>5, <3>8 DEF ReadAsDirs, e, q
  <2>6. CASE q # AnyDirs
    <3>1. \A j \in 1 .. Len(q) - 1 : ~ (q[j] = "*" /\ q[j + 1] = "*")
      BY <2>4, <2>6 DEF DoubleStars
    <3>2. ASSUME NEW j \in 1 .. Len(q)
          PROVE  /\ t[i + j - 1] = q[j] /\ q[j] # "/"
                 /\ Literal(q[j], Utf8) \/ Unread(q[j], name, Utf8)
      <4> DEFINE m == i + j - 1
      <4>1. m \in i .. e - 1 /\ m \in 1 .. n /\ q[j] = p[m]
        BY <1>1, <2>1, <2>2, <2>3 DEF n
      <4>2. m + 1 \in i .. e - 1 => j \in 1 .. Len(q) - 1 /\ q[j + 1] = p[m + 1]
        <5>1. SUFFICES ASSUME m + 1 \in i .. e - 1 PROVE j \in 1 .. Len(q) - 1 /\ q[j + 1] = p[m + 1]
          OBVIOUS
        <5>2. j \in 1 .. Len(q) - 1 /\ j + 1 \in 1 .. e - i /\ i + (j + 1) - 1 = m + 1
          BY <1>1, <2>1, <2>2, <2>3, <5>1 DEF n
        <5>3. q[j + 1] = p[i + (j + 1) - 1]
          BY <2>3, <5>2
        <5> QED
          BY <5>2, <5>3
      <4>3. m + 1 \in i .. e - 1 \/ m + 1 = e
        BY <2>1, <2>2, <4>1
      <4> HIDE DEF m
      <4>4. p[m] = "*" => m = Len(p) \/ p[m + 1] # "*"
        <5>1. CASE m + 1 \in i .. e - 1
          BY <3>1, <4>1, <4>2, <5>1
        <5>2. CASE m + 1 = e
          <6>1. e = Len(p) + 1 => m = Len(p)
            <7>1. m \in Int /\ Len(p) \in Int
              BY <1>1, <4>1 DEF n
            <7>2. \A x, y \in Int : x + 1 = y + 1 => x = y
              OBVIOUS
            <7> QED
              BY <5>2, <7>1, <7>2
          <6>2. p[e] = "/" => p[m + 1] # "*"
            BY <5>2
          <6> QED
            BY <2>2, <6>1, <6>2
        <5> QED
          BY <4>3, <5>1, <5>2
      <4>5. t[m] = p[m]
        BY <1>2, <4>1, <4>4 DEF Stars
      <4>6. p[m] # "/" /\ (Literal(p[m], Utf8) \/ Unread(p[m], name, Utf8))
        BY <2>2, <4>1 DEF n
      <4>7. t[m] = q[j] /\ q[j] # "/" /\ (Literal(q[j], Utf8) \/ Unread(q[j], name, Utf8))
        BY <4>1, <4>5, <4>6
      <4> QED
        BY <4>7 DEF m
    <3>3. SegmentAt(t, i, q, name, Utf8)
      BY <1>1, <1>2, <2>1, <2>2, <2>3, <3>2 DEF SegmentAt, n
    <3>4. e <= Len(p) => t[e] = "/"
      BY <1>1, <1>2, <2>1, <2>2 DEF n
    <3> QED
      BY <2>6, <3>3, <3>4 DEF ReadByChar, e, q
  <2> QED
    BY <2>5, <2>6 DEF q
<1>4. BySegment(p, t, name, Utf8)
  BY <1>2, <1>3, SlashIs DEF BySegment
<1>5. (\A j \in 1 .. Len(p) : Literal(p[j], Utf8)) => Exactly(p, t, Utf8)
  BY <1>3 DEF Exactly
<1> QED
  BY <1>4, <1>5 DEF t

LEMMA RegexpLetters ==
  ASSUME NEW text \in Seq(Chars), NEW name, Len(name) \in Nat, DOMAIN name = 1 .. Len(name),
         ~ Garbled(text, name)
  PROVE  /\ \A j \in 1 .. Len(Trim(text)) :
              Literal(Trim(text)[j], Utf8) \/ Unread(Trim(text)[j], name, Utf8)
         /\ Wide(text) = {} => \A j \in 1 .. Len(Trim(text)) : Literal(Trim(text)[j], Utf8)
<1> DEFINE p == Trim(text)
<1>1. PICK a \in Nat : /\ a + Len(p) <= Len(text)
                       /\ \A j \in 1 .. Len(p) : p[j] = text[a + j]
  BY TrimIs
<1>2. p \in Seq(Chars) /\ Len(p) \in Nat /\ DOMAIN text = 1 .. Len(text) /\ Len(text) \in Nat
  BY TrimIs
<1> HIDE DEF p
<1> SUFFICES ASSUME NEW j \in 1 .. Len(p)
             PROVE  /\ Literal(p[j], Utf8) \/ Unread(p[j], name, Utf8)
                    /\ Wide(text) = {} => Literal(p[j], Utf8)
  BY DEF p
<1>3. a + j \in DOMAIN text /\ text[a + j] = p[j] /\ p[j] \in Chars
  BY <1>1, <1>2
<1>4. CASE Len(Utf8[p[j]]) = 1
  <2>1. Utf8[p[j]] = <<p[j]>>
    BY <1>3, <1>4, Utf8Assumption
  <2> QED
    BY <2>1 DEF Literal
<1>5. CASE Len(Utf8[p[j]]) # 1
  <2> DEFINE bytes == Utf8[p[j]]
  <2>1. Len(bytes) \in Nat \ {0} /\ Len(bytes) # 1
    BY <1>3, <1>5, SlashIs
  <2>2. a + j \in Wide(text)
    <3>1. Utf8[text[a + j]] = bytes
      BY <1>3
    <3> HIDE DEF bytes
    <3>2. Len(bytes) > 1
      <4>1. \A n \in Nat \ {0} : n # 1 => n > 1
        OBVIOUS
      <4> QED
        BY <2>1, <4>1, Zenon
    <3>3. Len(Utf8[text[a + j]]) > 1
      BY <3>1, <3>2, Zenon
    <3> QED
      BY <1>3, <3>3 DEF Wide
  <2>3. \A k \in DOMAIN name : ~ Reads(name, k, bytes)
    BY <1>3, <2>2 DEF Garbled
  <2> HIDE DEF bytes
  <2>4. \A k \in Int : Reads(name, k, bytes) => k \in DOMAIN name
    <3>1. 1 .. Len(name) + 1 - Len(bytes) \subseteq 1 .. Len(name)
      BY <2>1
    <3> QED
      BY <3>1 DEF Reads
  <2>5. Unread(p[j], name, Utf8)
    BY <2>1, <2>3, <2>4 DEF Unread, bytes
  <2> QED
    BY <2>2, <2>5
<1> QED
  BY <1>4, <1>5

LEMMA NoDirs ==
  ASSUME NEW text \in Seq(Chars), DoubleStars(text) = {}
  PROVE  \A i \in Starts(Trim(text)) : Segment(Trim(text), i) # AnyDirs
<1> DEFINE p == Trim(text)
<1>1. PICK a \in Nat : /\ a + Len(p) <= Len(text)
                       /\ \A j \in 1 .. Len(p) : p[j] = text[a + j]
  BY TrimIs
<1>2. p \in Seq(Chars) /\ Len(p) \in Nat /\ DOMAIN p = 1 .. Len(p) /\ Len(text) \in Nat
  BY TrimIs
<1> HIDE DEF p
<1> SUFFICES ASSUME NEW i \in Starts(p), Segment(p, i) = AnyDirs PROVE FALSE
  BY DEF p
<1> DEFINE e == SegmentEnd(p, i)
<1>3. i \in 1 .. Len(p) + 1
  BY <1>2, StartsIs
<1>4. e \in i .. Len(p) + 1 /\ Len(Segment(p, i)) = e - i
      /\ \A j \in 1 .. e - i : Segment(p, i)[j] = p[i + j - 1]
  <2>1. e \in i .. Len(p) + 1
    BY <1>2, <1>3, SegmentEndIs
  <2>2. /\ Len(Segment(p, i)) = SegmentEnd(p, i) - i
        /\ \A j \in 1 .. SegmentEnd(p, i) - i : Segment(p, i)[j] = p[i + j - 1]
    BY <1>2, <1>3, SegmentIs
  <2> QED
    BY <2>1, <2>2
<1>5. Len(AnyDirs) = 2 /\ AnyDirs[1] = "*" /\ AnyDirs[2] = "*"
  BY DEF AnyDirs
<1> HIDE DEF e
<1>6. e - i = 2
  BY <1>4, <1>5
<1>7. 1 \in 1 .. e - i /\ 2 \in 1 .. e - i /\ i + 1 - 1 = i /\ i + 2 - 1 = i + 1
      /\ i \in 1 .. Len(p) /\ i + 1 \in 1 .. Len(p)
  BY <1>2, <1>3, <1>4, <1>6
<1>8. p[i] = "*" /\ p[i + 1] = "*"
  BY <1>4, <1>5, <1>7
<1>9. text[a + i] = "*" /\ text[a + (i + 1)] = "*" /\ a + i \in 1 .. Len(text) - 1
      /\ a + (i + 1) = a + i + 1
  BY <1>1, <1>2, <1>7, <1>8
<1>10. a + i \in DoubleStars(text)
  BY <1>9 DEF DoubleStars
<1> QED
  BY <1>10

LEMMA MatchIsFits ==
  ASSUME NEW text \in Seq(Chars), Regular(text), NEW name \in Names, ~ Garbled(text, name)
  PROVE  /\ Match(text, name) => Fits(text, name)
         /\ Wide(text) = {} \/ DoubleStars(text) = {} => (Fits(text, name) => Match(text, name))
<1> DEFINE p == Trim(text)
           Y == {name[i] : i \in DOMAIN name}
           verbatim == 1 \in MatchesFrom(p, name, Itself)[1]
           regexp == 1 \in MatchesFrom(globRegex(p), name, Utf8)[1]
           fits == 1 \in FitsFrom(p, name)[1]
<1>1. name \in Seq(Y) /\ Len(name) \in Nat /\ Len(name) > 0 /\ Trim(name) = name
      /\ DOMAIN name = 1 .. Len(name)
  <2>1. name \in Seq(Y) /\ Len(name) \in Nat /\ Len(name) > 0 /\ Trim(name) = name
    BY NamesAre
  <2> HIDE DEF Y
  <2> QED
    BY <2>1
<1>2. p \in Seq(Chars)
  BY TrimIs
<1>3. /\ Match(text, name) <=> text # <<>> /\ (verbatim \/ regexp)
      /\ Fits(text, name) <=> fits
  BY <1>1 DEF Match, Fits
<1>4. \A i \in Starts(p) : DoubleStars(Segment(p, i)) # {} => Segment(p, i) = AnyDirs
  BY DEF Regular
<1>5. /\ \A j \in 1 .. Len(p) : Literal(p[j], Utf8) \/ Unread(p[j], name, Utf8)
      /\ Wide(text) = {} => \A j \in 1 .. Len(p) : Literal(p[j], Utf8)
  BY <1>1, RegexpLetters
<1>6. DoubleStars(text) = {} => \A i \in Starts(p) : Segment(p, i) # AnyDirs
  BY NoDirs
<1>7. text = <<>> => ~ verbatim
  <2>1. SUFFICES ASSUME text = <<>> PROVE ~ verbatim
    OBVIOUS
  <2>2. p = <<>>
    BY <2>1 DEF Trim
  <2>3. Readable(<<>>, name, Itself) /\ Len(<<>>) + 1 = 1
    BY <1>1 DEF Readable
  <2>4. MatchesFrom(<<>>, name, Itself)[1] = {Len(name) + 1}
    BY <2>3, MatchesFromIs
  <2> QED
    BY <1>1, <2>2, <2>4
<1>8. text = <<>> => ~ regexp
  <2>1. SUFFICES ASSUME text = <<>> PROVE ~ regexp
    OBVIOUS
  <2>2. p = <<>>
    BY <2>1 DEF Trim
  <2>3. globRegex(p) = <<>>
    BY <2>2 DEF globRegex
  <2>4. Readable(<<>>, name, Utf8) /\ Len(<<>>) + 1 = 1
    BY <1>1 DEF Readable
  <2>5. MatchesFrom(<<>>, name, Utf8)[1] = {Len(name) + 1}
    BY <2>4, MatchesFromIs
  <2> QED
    BY <1>1, <2>3, <2>5
<1> HIDE DEF p, Y
<1>9. verbatim => fits
  <2>1. BySegment(p, p, name, Itself)
    BY <1>1, <1>2, AsItIs
  <2> QED
    BY <1>1, <1>2, <2>1, SegmentsMatch
<1>10. regexp => fits
  <2>1. BySegment(p, globRegex(p), name, Utf8)
    BY <1>1, <1>2, <1>4, <1>5, AsRegexp
  <2> QED
    BY <1>1, <1>2, <2>1, SegmentsMatch
<1>11. DoubleStars(text) = {} /\ fits => verbatim
  <2>1. SUFFICES ASSUME DoubleStars(text) = {}, fits PROVE verbatim
    OBVIOUS
  <2>2. BySegment(p, p, name, Itself) /\ Exactly(p, p, Itself)
    BY <1>1, <1>2, <1>6, <2>1, AsItIs
  <2> QED
    BY <1>1, <1>2, <2>1, <2>2, SegmentsMatch
<1>12. Wide(text) = {} /\ fits => regexp
  <2>1. SUFFICES ASSUME Wide(text) = {}, fits PROVE regexp
    OBVIOUS
  <2>2. BySegment(p, globRegex(p), name, Utf8) /\ Exactly(p, globRegex(p), Utf8)
    BY <1>1, <1>2, <1>4, <1>5, <2>1, AsRegexp
  <2> QED
    BY <1>1, <1>2, <2>1, <2>2, SegmentsMatch
<1> QED
  BY <1>3, <1>7, <1>8, <1>9, <1>10, <1>11, <1>12

-----------------------------------------------------------------------------
(* A second star.                                                          *)

LEMMA BeforeGrows ==
  ASSUME NEW name, NEW to, NEW more, to \subseteq more, NEW token, NEW spelling
  PROVE  Before(name, to, token, spelling) \subseteq Before(name, more, token, spelling)
<1>1. CASE token = "*"
  BY <1>1 DEF Before
<1>2. CASE token = "?"
  <2> DEFINE led(T) == {n \in T : n > 1 /\ name[n - 1] # "/"}
  <2>1. led(to) \subseteq led(more)
    OBVIOUS
  <2>2. \A T : Before(name, T, token, spelling) = {m - 1 : m \in led(T)}
    BY <1>2 DEF Before
  <2> HIDE DEF led
  <2> QED
    BY <2>1, <2>2
<1>3. CASE token = "**"
  BY <1>3 DEF Before
<1>4. CASE token = "**/"
  BY <1>4 DEF Before
<1>5. CASE token \notin Wildcards
  <2> DEFINE text == spelling[token]
             led(T) == {n \in T : Reads(name, n - Len(text), text)}
  <2>1. led(to) \subseteq led(more)
    OBVIOUS
  <2>2. \A T : Before(name, T, token, spelling) = {m - Len(text) : m \in led(T)}
    BY <1>5 DEF Before, Wildcards
  <2> HIDE DEF text, led
  <2> QED
    BY <2>1, <2>2
<1> QED
  BY <1>1, <1>2, <1>3, <1>4, <1>5 DEF Wildcards

LEMMA StarHolds ==
  ASSUME NEW name, Len(name) \in Nat, NEW to \in SUBSET Positions(name), NEW spelling
  PROVE  to \subseteq Before(name, to, "*", spelling)
<1> SUFFICES ASSUME NEW k \in to PROVE k \in Before(name, to, "*", spelling)
  OBVIOUS
<1>1. k \in Int /\ k \in 1 .. k /\ \A i \in k .. k - 1 : name[i] # "/"
  BY DEF Positions
<1> QED
  BY <1>1, BeforeStar

LEMMA StarReaches ==
  ASSUME NEW name, Len(name) \in Nat, NEW to \in SUBSET Positions(name), NEW spelling,
         NEW k \in Before(name, to, "*", spelling)
  PROVE  k \in Int /\ \E m \in to : k \in 1 .. m
<1>1. PICK m \in to : k \in 1 .. m
  BY DEF Before
<1> QED
  BY <1>1 DEF Positions

\* The tokens t are those of s with the one at d, a "*", doubled.
Doubled(s, t, d) ==
  /\ Len(t) = Len(s) + 1 /\ d \in 1 .. Len(s) /\ s[d] = "*"
  /\ \A i \in 1 .. d - 1 : t[i] = s[i] /\ i + Width(s[i]) <= d
  /\ \A i \in d + 1 .. Len(s) : t[i + 1] = s[i]
  /\ \/ t[d] = "*" /\ t[d + 1] = "*"
     \/ t[d] = "**"
     \/ t[d] = "**/" /\ d < Len(s) /\ s[d + 1] = "/"

LEMMA DoubledMatchMore ==
  ASSUME NEW s, NEW t, NEW name, NEW spelling,
         Readable(s, name, spelling), Readable(t, name, spelling), spelling["/"] = <<"/">>,
         NEW d, Doubled(s, t, d)
  PROVE  MatchesFrom(s, name, spelling)[1] \subseteq MatchesFrom(t, name, spelling)[1]
<1> DEFINE W == MatchesFrom(s, name, spelling)
           V == MatchesFrom(t, name, spelling)
           last == Len(s) + 1
           now(i) == IF i <= d THEN i ELSE i + 1
           S == {i \in 1 .. last : W[i] \subseteq V[now(i)]}
<1>1. /\ Len(s) \in Nat /\ Len(t) = Len(s) + 1 /\ d \in 1 .. Len(s) /\ s[d] = "*" /\ Len(name) \in Nat
      /\ \A i \in 1 .. d - 1 : t[i] = s[i] /\ i + Width(s[i]) <= d
      /\ \A i \in d + 1 .. Len(s) : t[i + 1] = s[i]
      /\ \/ t[d] = "*" /\ t[d + 1] = "*"
         \/ t[d] = "**"
         \/ t[d] = "**/" /\ d < Len(s) /\ s[d + 1] = "/"
  BY DEF Readable, Doubled
<1>2. /\ W[last] = {Len(name) + 1}
      /\ \A i \in 1 .. Len(s) : W[i] = Before(name, W[i + Width(s[i])], s[i], spelling)
      /\ \A i \in 1 .. last : W[i] \in SUBSET Positions(name)
  BY MatchesFromIs, MatchesFromTyped
<1>3. /\ V[last + 1] = {Len(name) + 1}
      /\ \A i \in 1 .. last : V[i] = Before(name, V[i + Width(t[i])], t[i], spelling)
      /\ \A i \in 1 .. last + 1 : V[i] \in SUBSET Positions(name)
  <2>1. Len(t) = last
    BY <1>1
  <2> QED
    BY <2>1, MatchesFromIs, MatchesFromTyped
<1>4. \A i \in 1 .. Len(s) : i + Width(s[i]) \in i + 1 .. last
  BY DEF Readable
<1>5. Width("*") = 1 /\ Width("**") = 2 /\ Width("**/") = 3 /\ Width("/") = 1
  BY DEF Width
<1> HIDE DEF W, V
<1>6. ASSUME NEW i \in 1 .. last, \A j \in i + 1 .. last : j \in S PROVE i \in S
  <2>1. CASE i = last
    <3>1. now(i) = last + 1 /\ last \in Nat
      BY <1>1, <2>1
    <3> HIDE DEF now
    <3>2. W[i] \subseteq V[now(i)]
      BY <1>2, <1>3, <2>1, <3>1
    <3> QED
      BY <3>2
  <2>2. CASE i < d
    <3>1. i \in 1 .. d - 1 /\ i \in 1 .. Len(s) /\ i \in 1 .. last /\ now(i) = i
      BY <1>1, <2>2
    <3> DEFINE j == i + Width(s[i])
    <3>2. t[i] = s[i] /\ j \in i + 1 .. last /\ j <= d /\ j \in 1 .. last
      BY <1>1, <1>4, <3>1
    <3>3. now(j) = j /\ j \in S
      <4> HIDE DEF j
      <4>1. j \in S
        BY <1>6, <3>2
      <4>2. now(j) = j
        BY <3>2
      <4> QED
        BY <4>1, <4>2
    <3>4. W[j] \subseteq V[j]
      BY <3>3
    <3>5. W[i] = Before(name, W[j], s[i], spelling) /\ V[i] = Before(name, V[j], s[i], spelling)
      BY <1>2, <1>3, <3>1, <3>2
    <3> HIDE DEF j, now
    <3>6. W[i] \subseteq V[now(i)]
      BY <3>1, <3>4, <3>5, BeforeGrows
    <3> QED
      BY <3>6
  <2>3. CASE i = d
    <3>1. i \in 1 .. Len(s) /\ now(i) = i /\ d + 1 \in i + 1 .. last /\ now(d + 1) = d + 2
          /\ d \in 1 .. last /\ d + 1 \in 1 .. last /\ d + 2 \in 1 .. last + 1 /\ d + 1 + 1 = d + 2
      BY <1>1, <2>3
    <3>2. W[d + 1] \subseteq V[d + 2]
      <4>1. d + 1 \in S
        BY <1>6, <3>1
      <4> QED
        BY <3>1, <4>1
    <3>3. W[d] = Before(name, W[d + 1], "*", spelling)
      BY <1>1, <1>2, <1>5, <2>3, <3>1
    <3>4. CASE t[d] = "*" /\ t[d + 1] = "*"
      <4>1. V[d] = Before(name, V[d + 1], "*", spelling) /\ V[d + 1] = Before(name, V[d + 2], "*", spelling)
        BY <1>3, <1>5, <3>1, <3>4
      <4>2. W[d] \subseteq V[d + 1]
        BY <3>2, <3>3, <4>1, BeforeGrows
      <4>3. V[d + 1] \subseteq V[d]
        BY <1>1, <1>3, <3>1, <4>1, StarHolds
      <4> QED
        BY <2>3, <3>1, <4>2, <4>3
    <3>5. CASE t[d] = "**"
      <4>1. V[d] = Before(name, V[d + 2], "**", spelling)
        BY <1>3, <1>5, <3>1, <3>5
      <4>2. ASSUME NEW k \in W[d] PROVE k \in V[d]
        <5>1. W[d + 1] \in SUBSET Positions(name) /\ V[d + 2] \in SUBSET Positions(name)
          BY <1>2, <1>3, <3>1
        <5>2. k \in Int /\ \E m \in W[d + 1] : k \in 1 .. m
          BY <1>1, <3>3, <4>2, <5>1, StarReaches
        <5>3. \E m \in V[d + 2] : k \in 1 .. m
          BY <3>2, <5>2
        <5> QED
          BY <1>1, <4>1, <5>1, <5>2, <5>3, BeforeText
      <4> QED
        BY <2>3, <3>1, <4>2
    <3>6. CASE t[d] = "**/" /\ d < Len(s) /\ s[d + 1] = "/"
      <4>1. V[d] = Before(name, V[d + 3], "**/", spelling)
        BY <1>3, <1>5, <3>1, <3>6
      <4>2. /\ d + 1 \in 1 .. Len(s) /\ d + 2 \in i + 1 .. last /\ now(d + 2) = d + 3
            /\ d + 2 \in 1 .. last /\ d + 3 \in 1 .. last + 1
        BY <1>1, <2>3, <3>6
      <4>3. W[d + 2] \subseteq V[d + 3]
        <5>1. d + 2 \in S
          BY <1>6, <4>2
        <5> QED
          BY <4>2, <5>1
      <4>4. W[d + 1] = Before(name, W[d + 2], "/", spelling)
        BY <1>2, <1>5, <3>1, <3>6, <4>2
      <4>5. ASSUME NEW k \in W[d] PROVE k \in V[d]
        <5>1. /\ W[d + 1] \in SUBSET Positions(name)
              /\ W[d + 2] \in SUBSET Positions(name) /\ V[d + 3] \in SUBSET Positions(name)
          BY <1>2, <1>3, <3>1, <4>2
        <5>2. k \in Int /\ \E m \in W[d + 1] : k \in 1 .. m
          BY <1>1, <3>3, <4>5, <5>1, StarReaches
        <5>3. PICK m \in W[d + 1] : k \in 1 .. m
          BY <5>2
        <5>4. m \in Int /\ m \in 1 .. Len(name) + 1
          BY <1>1, <5>1, <5>3 DEF Positions
        <5>5. Reads(name, m, <<"/">>) /\ m + 1 \in W[d + 2]
          <6>1. "/" \notin Wildcards /\ Len(spelling["/"]) = 1 /\ Len(spelling["/"]) \in Nat
            BY SlashIs
          <6>2. Reads(name, m, spelling["/"]) /\ m + Len(spelling["/"]) \in W[d + 2]
            BY <1>1, <4>4, <5>1, <5>2, <5>3, <5>4, <6>1, BeforeChar
          <6> QED
            BY <6>1, <6>2
        <5>6. name[m] = "/"
          BY <1>1, <5>4, <5>5 DEF Reads
        <5> DEFINE e == m + 1
        <5>7. e \in V[d + 3] /\ k \in 1 .. e - 1 /\ name[e - 1] = "/"
          BY <4>3, <5>2, <5>3, <5>4, <5>5, <5>6
        <5> HIDE DEF e
        <5> QED
          BY <1>1, <4>1, <5>1, <5>7, BeforeDirs
      <4> QED
        BY <2>3, <3>1, <4>5
    <3> QED
      BY <1>1, <3>4, <3>5, <3>6
  <2>4. CASE d < i /\ i < last
    <3>1. i \in d + 1 .. Len(s) /\ i \in 1 .. Len(s) /\ i + 1 \in 1 .. last /\ now(i) = i + 1
      BY <1>1, <2>4
    <3> DEFINE j == i + Width(s[i])
    <3>2. t[i + 1] = s[i] /\ j \in i + 1 .. last /\ i + 1 + Width(s[i]) = j + 1
      <4>1. Width(s[i]) \in Int
        BY DEF Width
      <4> QED
        BY <1>1, <1>4, <3>1, <4>1
    <3>3. now(j) = j + 1 /\ j \in S
      <4> HIDE DEF j
      <4>1. j \in S
        BY <1>6, <3>2
      <4>2. now(j) = j + 1
        BY <1>1, <2>4, <3>2
      <4> QED
        BY <4>1, <4>2
    <3>4. W[j] \subseteq V[j + 1]
      BY <3>3
    <3>5. W[i] = Before(name, W[j], s[i], spelling) /\ V[i + 1] = Before(name, V[j + 1], s[i], spelling)
      BY <1>2, <1>3, <3>1, <3>2
    <3> HIDE DEF j, now
    <3>6. W[i] \subseteq V[now(i)]
      BY <3>1, <3>4, <3>5, BeforeGrows
    <3> QED
      BY <3>6
  <2>5. i = last \/ i < d \/ i = d \/ (d < i /\ i < last)
    BY <1>1
  <2> QED
    BY <2>1, <2>2, <2>3, <2>4, <2>5
<1>7. 1 \in S
  <2>1. last \in Nat /\ 1 \in 1 .. last
    BY <1>1
  <2> HIDE DEF S, last
  <2> QED
    BY <1>6, <2>1, Backwards
<1>8. now(1) = 1
  BY <1>1
<1>9. W[1] \subseteq V[1]
  BY <1>7, <1>8
<1> QED
  BY <1>9 DEF W, V

LEMMA InsertAtIs ==
  ASSUME NEW X, NEW s \in Seq(X), NEW i \in 1 .. Len(s), NEW c \in X, s[i] = c
  PROVE  LET t == InsertAt(s, i, c) IN
         /\ t \in Seq(X) /\ Len(t) = Len(s) + 1
         /\ \A k \in 1 .. Len(s) + 1 : t[k] = IF k <= i THEN s[k] ELSE s[k - 1]
<1> DEFINE u == SubSeq(s, 1, i - 1)
           v == SubSeq(s, i, Len(s))
           t == InsertAt(s, i, c)
<1>1. u \in Seq(X) /\ Len(u) = i - 1 /\ \A k \in 1 .. i - 1 : u[k] = s[k]
  <2>1. /\ u \in Seq(X) /\ Len(u) = (i - 1) - 1 + 1
        /\ \A k \in 1 .. (i - 1) - 1 + 1 : u[k] = s[1 + k - 1]
    BY SubSeqProperties
  <2> HIDE DEF u
  <2> QED
    BY <2>1
<1>2. v \in Seq(X) /\ Len(v) = Len(s) - i + 1 /\ \A k \in 1 .. Len(s) - i + 1 : v[k] = s[i + k - 1]
  BY SubSeqProperties
<1>3. t = (u \o <<c>>) \o v
  BY DEF InsertAt
<1> HIDE DEF t, u, v
<1>4. u \o <<c>> \in Seq(X) /\ Len(u \o <<c>>) = i
      /\ \A k \in 1 .. i : (u \o <<c>>)[k] = s[k]
  <2>1. u \o <<c>> = Append(u, c)
    BY <1>1
  <2>2. Append(u, c) \in Seq(X) /\ Len(Append(u, c)) = i
        /\ \A k \in 1 .. i - 1 : Append(u, c)[k] = u[k]
        /\ Append(u, c)[i] = c
    BY <1>1
  <2> QED
    BY <1>1, <2>1, <2>2
<1> DEFINE w == u \o <<c>>
<1>5. w \in Seq(X) /\ Len(w) = i /\ t = w \o v /\ \A k \in 1 .. i : w[k] = s[k]
  BY <1>3, <1>4
<1> HIDE DEF w
<1>6. t \in Seq(X) /\ Len(t) = Len(s) + 1
      /\ \A k \in 1 .. Len(s) + 1 : t[k] = IF k <= i THEN w[k] ELSE v[k - i]
  <2>1. /\ t \in Seq(X) /\ Len(t) = Len(w) + Len(v)
        /\ \A k \in 1 .. Len(w) + Len(v) : t[k] = IF k <= Len(w) THEN w[k] ELSE v[k - Len(w)]
    BY <1>2, <1>5, ConcatProperties, Zenon
  <2>2. Len(w) + Len(v) = Len(s) + 1
    BY <1>2, <1>5
  <2> QED
    BY <1>5, <2>1, <2>2
<1>7. ASSUME NEW k \in 1 .. Len(s) + 1 PROVE t[k] = IF k <= i THEN s[k] ELSE s[k - 1]
  <2>1. t[k] = IF k <= i THEN w[k] ELSE v[k - i]
    BY <1>6
  <2>2. CASE k <= i
    BY <1>5, <2>1, <2>2
  <2>3. CASE ~ (k <= i)
    <3>1. k - i \in 1 .. Len(s) - i + 1 /\ i + (k - i) - 1 = k - 1
      BY <2>3
    <3>2. v[k - i] = s[k - 1]
      BY <1>2, <3>1
    <3> QED
      BY <2>1, <2>3, <3>2
  <2> QED
    BY <2>2, <2>3
<1> QED
  BY <1>6, <1>7 DEF t

\* q is p with the character at d doubled.
Stretched(p, q, d) ==
  /\ d \in 1 .. Len(p) /\ Len(q) = Len(p) + 1
  /\ \A k \in 1 .. Len(p) + 1 : q[k] = IF k <= d THEN p[k] ELSE p[k - 1]

LEMMA TrimStretched ==
  ASSUME NEW X, NEW s \in Seq(X), NEW t \in Seq(X), NEW i, Stretched(s, t, i), s[i] = "*"
  PROVE  \E a \in Nat : /\ Stretched(Trim(s), Trim(t), i - a) /\ Trim(s)[i - a] = "*"
                        /\ a + Len(Trim(s)) <= Len(s)
                        /\ \A j \in 1 .. Len(Trim(s)) : Trim(s)[j] = s[a + j]
<1> DEFINE p == Trim(s)
           q == Trim(t)
<1>1. PICK a \in Nat : /\ a + Len(p) <= Len(s)
                       /\ \A j \in 1 .. Len(p) : p[j] = s[a + j]
                       /\ \A k \in 1 .. Len(s) : k \notin a + 1 .. a + Len(p) => s[k] = "/"
  BY TrimIs
<1>2. PICK b \in Nat : /\ b + Len(q) <= Len(t)
                       /\ \A j \in 1 .. Len(q) : q[j] = t[b + j]
                       /\ \A k \in 1 .. Len(t) : k \notin b + 1 .. b + Len(q) => t[k] = "/"
  BY TrimIs
<1>3. /\ p \in Seq(X) /\ q \in Seq(X)
      /\ Len(p) > 0 => p[1] # "/" /\ p[Len(p)] # "/"
      /\ Len(q) > 0 => q[1] # "/" /\ q[Len(q)] # "/"
  BY TrimIs
<1> HIDE DEF p, q
<1>4. /\ i \in 1 .. Len(s) /\ Len(t) = Len(s) + 1 /\ Len(s) \in Nat /\ Len(p) \in Nat /\ Len(q) \in Nat
      /\ \A k \in 1 .. Len(s) + 1 : t[k] = IF k <= i THEN s[k] ELSE s[k - 1]
  BY <1>3 DEF Stretched
<1>5. i \in a + 1 .. a + Len(p)
  BY <1>1, <1>4
<1>6. /\ a + 1 \in 1 .. i /\ s[a + 1] # "/"
      /\ a + Len(p) \in i .. Len(s) /\ s[a + Len(p)] # "/"
  <2>1. 1 \in 1 .. Len(p) /\ Len(p) \in 1 .. Len(p) /\ Len(p) > 0
    BY <1>4, <1>5
  <2>2. p[1] = s[a + 1] /\ p[Len(p)] = s[a + Len(p)]
    BY <1>1, <2>1
  <2> QED
    BY <1>1, <1>3, <1>4, <1>5, <2>1, <2>2
<1>7. t[a + 1] # "/" /\ t[a + Len(p) + 1] # "/"
  <2>1. a + 1 \in 1 .. Len(s) + 1 /\ a + 1 <= i
    BY <1>4, <1>6
  <2>2. a + Len(p) + 1 \in 1 .. Len(s) + 1 /\ ~ (a + Len(p) + 1 <= i) /\ a + Len(p) + 1 - 1 = a + Len(p)
    BY <1>4, <1>6
  <2> QED
    BY <1>4, <1>6, <2>1, <2>2
<1>8. a + 1 \in b + 1 .. b + Len(q) /\ a + Len(p) + 1 \in b + 1 .. b + Len(q)
  <2>1. a + 1 \in 1 .. Len(t) /\ a + Len(p) + 1 \in 1 .. Len(t)
    BY <1>4, <1>6
  <2> QED
    BY <1>2, <1>7, <2>1
<1>9. t[b + 1] # "/" /\ t[b + Len(q)] # "/" /\ b + 1 \in 1 .. Len(t) /\ b + Len(q) \in 1 .. Len(t)
  <2>1. 1 \in 1 .. Len(q) /\ Len(q) \in 1 .. Len(q) /\ Len(q) > 0
    BY <1>4, <1>8
  <2>2. q[1] = t[b + 1] /\ q[Len(q)] = t[b + Len(q)]
    BY <1>2, <2>1
  <2> QED
    BY <1>2, <1>3, <1>4, <2>1, <2>2
<1>10. b = a
  <2>1. b + 1 <= i /\ b + 1 \in 1 .. Len(s) /\ b + 1 \in 1 .. Len(s) + 1
    BY <1>4, <1>6, <1>8
  <2>2. s[b + 1] # "/"
    BY <1>4, <1>9, <2>1
  <2>3. b + 1 \in a + 1 .. a + Len(p)
    BY <1>1, <2>1, <2>2
  <2> QED
    BY <1>8, <2>3
<1>11. Len(q) = Len(p) + 1
  <2> DEFINE z == b + Len(q)
  <2>1. z > i /\ z \in 1 .. Len(s) + 1 /\ z - 1 \in 1 .. Len(s)
    BY <1>4, <1>6, <1>8, <1>9
  <2>2. t[z] # "/"
    BY <1>9
  <2> HIDE DEF z
  <2>3. s[z - 1] # "/"
    BY <1>4, <2>1, <2>2
  <2>4. z - 1 \in a + 1 .. a + Len(p)
    BY <1>1, <2>1, <2>3
  <2> QED
    BY <1>4, <1>8, <1>10, <2>4 DEF z
<1>12. ASSUME NEW k \in 1 .. Len(p) + 1
       PROVE  q[k] = IF k <= i - a THEN p[k] ELSE p[k - 1]
  <2>1. a + k \in 1 .. Len(s) + 1 /\ q[k] = t[a + k]
    BY <1>2, <1>4, <1>6, <1>10, <1>11
  <2>2. CASE k <= i - a
    <3>1. a + k <= i /\ k \in 1 .. Len(p)
      BY <1>4, <1>5, <2>2
    <3>2. t[a + k] = s[a + k] /\ p[k] = s[a + k]
      BY <1>1, <1>4, <2>1, <3>1
    <3> QED
      BY <2>1, <2>2, <3>2
  <2>3. CASE ~ (k <= i - a)
    <3>1. ~ (a + k <= i) /\ k - 1 \in 1 .. Len(p) /\ a + k - 1 = a + (k - 1)
      BY <1>4, <1>5, <2>3
    <3>2. t[a + k] = s[a + k - 1] /\ p[k - 1] = s[a + (k - 1)]
      BY <1>1, <1>4, <2>1, <3>1
    <3> QED
      BY <2>1, <2>3, <3>1, <3>2
  <2> QED
    BY <2>2, <2>3
<1>13. i - a \in 1 .. Len(p) /\ a + (i - a) = i
  BY <1>4, <1>5
<1>14. p[i - a] = "*"
  BY <1>1, <1>13
<1> QED
  BY <1>1, <1>11, <1>12, <1>13, <1>14 DEF Stretched, p, q

LEMMA DoubledVerbatim ==
  ASSUME NEW p \in Seq(Chars), NEW q, NEW d, Stretched(p, q, d), p[d] = "*"
  PROVE  Doubled(p, q, d)
<1>1. /\ Len(p) \in Nat /\ d \in 1 .. Len(p) /\ Len(q) = Len(p) + 1
      /\ \A k \in 1 .. Len(p) + 1 : q[k] = IF k <= d THEN p[k] ELSE p[k - 1]
  BY DEF Stretched
<1>2. \A k \in 1 .. d - 1 : q[k] = p[k] /\ k + Width(p[k]) <= d
  <2> TAKE k \in 1 .. d - 1
  <2>1. k \in 1 .. Len(p) /\ k \in 1 .. Len(p) + 1 /\ k <= d /\ k + 1 <= d
    BY <1>1
  <2>2. Width(p[k]) = 1
    BY <2>1, CharsAreOne
  <2> QED
    BY <1>1, <2>1, <2>2
<1>3. \A k \in d + 1 .. Len(p) : q[k + 1] = p[k]
  <2> TAKE k \in d + 1 .. Len(p)
  <2>1. k + 1 \in 1 .. Len(p) + 1 /\ ~ (k + 1 <= d) /\ k + 1 - 1 = k
    BY <1>1
  <2> QED
    BY <1>1, <2>1
<1>4. q[d] = "*" /\ q[d + 1] = "*"
  <2>1. d \in 1 .. Len(p) + 1 /\ d + 1 \in 1 .. Len(p) + 1 /\ d <= d /\ ~ (d + 1 <= d) /\ d + 1 - 1 = d
    BY <1>1
  <2> QED
    BY <1>1, <2>1
<1> QED
  BY <1>1, <1>2, <1>3, <1>4 DEF Doubled

LEMMA DoubledRegexp ==
  ASSUME NEW p \in Seq(Chars), NEW q \in Seq(Chars), NEW d, Stretched(p, q, d), p[d] = "*",
         d > 1 => p[d - 1] # "*", d < Len(p) => p[d + 1] # "*"
  PROVE  Doubled(globRegex(p), globRegex(q), d)
<1> DEFINE s == globRegex(p)
           t == globRegex(q)
<1>1. /\ Len(p) \in Nat /\ d \in 1 .. Len(p) /\ Len(q) = Len(p) + 1
      /\ \A k \in 1 .. Len(p) + 1 : q[k] = IF k <= d THEN p[k] ELSE p[k - 1]
  BY DEF Stretched
<1>2. /\ Len(s) = Len(p) /\ \A i \in 1 .. Len(p) : s[i] = IF p[i] = "*" THEN Stars(p, i) ELSE p[i]
      /\ Len(t) = Len(q) /\ \A i \in 1 .. Len(q) : t[i] = IF q[i] = "*" THEN Stars(q, i) ELSE q[i]
  <2>1. Len(<<>>) \in Nat
    OBVIOUS
  <2> QED
    BY <2>1, RegexpIs
<1> HIDE DEF s, t
<1>3. \A k \in 1 .. d : q[k] = p[k]
  BY <1>1
<1>4. \A k \in d .. Len(p) : q[k + 1] = p[k]
  <2> TAKE k \in d .. Len(p)
  <2>1. k + 1 \in 1 .. Len(p) + 1 /\ ~ (k + 1 <= d) /\ k + 1 - 1 = k
    BY <1>1
  <2> QED
    BY <1>1, <2>1
<1>5. ASSUME NEW k \in 1 .. d - 1 PROVE t[k] = s[k] /\ k + Width(s[k]) <= d
  <2>1. k \in 1 .. Len(p) /\ k \in 1 .. Len(q) /\ k \in 1 .. d /\ k + 1 \in 1 .. d
    BY <1>1
  <2>2. q[k] = p[k] /\ q[k + 1] = p[k + 1] /\ k # Len(p) /\ k # Len(q)
    BY <1>1, <1>3, <2>1
  <2>3. CASE p[k] # "*"
    <3>1. s[k] = p[k] /\ t[k] = p[k]
      BY <1>2, <2>1, <2>2, <2>3
    <3>2. Width(p[k]) = 1
      BY <2>1, CharsAreOne
    <3> QED
      BY <2>1, <3>1, <3>2
  <2>4. CASE p[k] = "*" /\ p[k + 1] # "*"
    <3>1. s[k] = "*" /\ t[k] = "*"
      BY <1>2, <2>1, <2>2, <2>4 DEF Stars
    <3> QED
      BY <2>1, <3>1 DEF Width
  <2>5. CASE p[k] = "*" /\ p[k + 1] = "*"
    <3>1. k + 1 # d
      <4>1. k + 1 = d => d > 1 /\ d - 1 = k
        BY <2>1
      <4> QED
        BY <2>5, <4>1
    <3>2. k + 2 \in 1 .. d /\ k + 1 < Len(p) /\ k + 1 < Len(q)
      BY <1>1, <2>1, <3>1
    <3>3. q[k + 2] = p[k + 2]
      BY <1>3, <3>2
    <3>4. s[k] = (IF p[k + 2] = "/" THEN "**/" ELSE "**") /\ t[k] = s[k]
      BY <1>2, <2>1, <2>2, <2>5, <3>2, <3>3 DEF Stars
    <3>5. CASE p[k + 2] = "/"
      <4>1. k + 2 # d
        BY <3>5
      <4>2. k + 3 <= d
        <5>1. k \in Int /\ d \in Int /\ k + 2 <= d
          BY <1>1, <3>2
        <5> QED
          BY <4>1, <5>1
      <4>3. s[k] = "**/" /\ Width("**/") = 3
        BY <3>4, <3>5 DEF Width
      <4> QED
        BY <3>4, <4>2, <4>3
    <3>6. CASE p[k + 2] # "/"
      <4>1. s[k] = "**" /\ Width("**") = 2
        BY <3>4, <3>6 DEF Width
      <4> QED
        BY <3>2, <3>4, <4>1
    <3> QED
      BY <3>5, <3>6
  <2> QED
    BY <2>3, <2>4, <2>5
<1>6. ASSUME NEW k \in d + 1 .. Len(p) PROVE t[k + 1] = s[k]
  <2>1. k \in 1 .. Len(p) /\ k + 1 \in 1 .. Len(q) /\ k \in d .. Len(p)
    BY <1>1
  <2>2. q[k + 1] = p[k]
    BY <1>4, <2>1
  <2>3. Stars(q, k + 1) = Stars(p, k)
    <3>1. k + 1 = Len(q) <=> k = Len(p)
      <4>1. k \in Int /\ Len(p) \in Int /\ Len(q) = Len(p) + 1
        BY <1>1
      <4>2. \A x, y \in Int : x + 1 = y + 1 <=> x = y
        OBVIOUS
      <4> QED
        BY <4>1, <4>2
    <3>2. k # Len(p) => q[k + 1 + 1] = p[k + 1]
      <4>1. k # Len(p) => k + 1 \in d .. Len(p)
        BY <1>1, <2>1
      <4> QED
        BY <1>4, <4>1
    <3>3. k + 1 + 1 < Len(q) <=> k + 1 < Len(p)
      BY <1>1, <2>1
    <3>4. k + 1 < Len(p) => q[k + 1 + 2] = p[k + 2]
      <4>1. k + 1 < Len(p) => k + 2 \in d .. Len(p) /\ k + 2 + 1 = k + 1 + 2
        BY <1>1, <2>1
      <4> QED
        BY <1>4, <4>1
    <3> QED
      BY <3>1, <3>2, <3>3, <3>4 DEF Stars
  <2> QED
    BY <1>2, <2>1, <2>2, <2>3
<1>7. s[d] = "*"
  <2>1. d = Len(p) \/ p[d + 1] # "*"
    BY <1>1
  <2> QED
    BY <1>1, <1>2, <2>1 DEF Stars
<1>8. t[d] = "**" \/ (t[d] = "**/" /\ d < Len(s) /\ s[d + 1] = "/")
  <2>1. d \in 1 .. d /\ d \in d .. Len(p) /\ d \in 1 .. Len(q) /\ d # Len(q)
    BY <1>1
  <2>2. q[d] = "*" /\ q[d + 1] = "*"
    BY <1>3, <1>4, <2>1
  <2>3. t[d] = IF d + 1 < Len(q) /\ q[d + 2] = "/" THEN "**/" ELSE "**"
    BY <1>2, <2>1, <2>2 DEF Stars
  <2>4. ASSUME d + 1 < Len(q), q[d + 2] = "/" PROVE d < Len(s) /\ s[d + 1] = "/"
    <3>1. d < Len(p) /\ d + 1 \in d .. Len(p) /\ d + 1 \in 1 .. Len(p) /\ d + 1 + 1 = d + 2
      BY <1>1, <2>4
    <3>2. p[d + 1] = "/"
      BY <1>4, <2>4, <3>1
    <3> QED
      BY <1>2, <3>1, <3>2
  <2> QED
    BY <2>3, <2>4
<1> QED
  BY <1>1, <1>2, <1>5, <1>6, <1>7, <1>8 DEF Doubled, s, t

LEMMA MoreStars ==
  ASSUME NEW text \in Seq(Chars), NEW i \in 1 .. Len(text), text[i] = "*",
         {i - 1, i} \cap DoubleStars(text) = {}, NEW name \in Names, Match(text, name)
  PROVE  Match(InsertAt(text, i, "*"), name)
<1> DEFINE more == InsertAt(text, i, "*")
           p == Trim(text)
           q == Trim(more)
<1>1. Trim(name) = name /\ Len(name) \in Nat
  BY NamesAre
<1>2. more \in Seq(Chars) /\ Stretched(text, more, i)
  <2>1. "*" \in Chars
    BY CharsAssumption
  <2> QED
    BY <2>1, InsertAtIs DEF Stretched
<1> HIDE DEF more
<1>3. PICK a \in Nat : /\ Stretched(p, q, i - a) /\ p[i - a] = "*"
                       /\ a + Len(p) <= Len(text)
                       /\ \A j \in 1 .. Len(p) : p[j] = text[a + j]
  BY <1>2, TrimStretched
<1> DEFINE d == i - a
<1>4. p \in Seq(Chars) /\ q \in Seq(Chars)
  BY <1>2, TrimIs
<1>5. Match(text, name) <=> text # <<>> /\ \/ 1 \in MatchesFrom(p, name, Itself)[1]
                                           \/ 1 \in MatchesFrom(globRegex(p), name, Utf8)[1]
  BY <1>1 DEF Match
<1>6. Match(more, name) <=> more # <<>> /\ \/ 1 \in MatchesFrom(q, name, Itself)[1]
                                           \/ 1 \in MatchesFrom(globRegex(q), name, Utf8)[1]
  BY <1>1 DEF Match
<1> HIDE DEF p, q
<1>7. d \in 1 .. Len(p) /\ a + d = i /\ Len(p) \in Nat /\ Len(text) \in Nat
  BY <1>3, <1>4 DEF Stretched
<1>8. (d > 1 => p[d - 1] # "*") /\ (d < Len(p) => p[d + 1] # "*")
  <2>1. ASSUME d > 1, p[d - 1] = "*" PROVE FALSE
    <3>1. d - 1 \in 1 .. Len(p) /\ a + (d - 1) = i - 1 /\ i - 1 \in 1 .. Len(text) - 1 /\ i - 1 + 1 = i
      BY <1>7, <2>1
    <3>2. text[i - 1] = "*"
      BY <1>3, <2>1, <3>1
    <3>3. i - 1 \in DoubleStars(text)
      BY <3>1, <3>2 DEF DoubleStars
    <3> QED
      BY <3>3
  <2>2. ASSUME d < Len(p), p[d + 1] = "*" PROVE FALSE
    <3>1. d + 1 \in 1 .. Len(p) /\ a + (d + 1) = i + 1 /\ i \in 1 .. Len(text) - 1
      BY <1>3, <1>7, <2>2
    <3>2. text[i + 1] = "*"
      BY <1>3, <2>2, <3>1
    <3>3. i \in DoubleStars(text)
      BY <3>1, <3>2 DEF DoubleStars
    <3> QED
      BY <3>3
  <2> QED
    BY <2>1, <2>2
<1>9. Stretched(p, q, d) /\ p[d] = "*"
  BY <1>3
<1> HIDE DEF d
<1>10. MatchesFrom(p, name, Itself)[1] \subseteq MatchesFrom(q, name, Itself)[1]
  <2>1. Readable(p, name, Itself) /\ Readable(q, name, Itself)
    BY <1>1, <1>4, AsItIs DEF BySegment
  <2>2. Doubled(p, q, d)
    BY <1>4, <1>9, DoubledVerbatim
  <2> QED
    BY <2>1, <2>2, SlashIs, DoubledMatchMore
<1>11. MatchesFrom(globRegex(p), name, Utf8)[1] \subseteq MatchesFrom(globRegex(q), name, Utf8)[1]
  <2>1. Readable(globRegex(p), name, Utf8) /\ Readable(globRegex(q), name, Utf8)
    BY <1>1, <1>4, RegexpIs
  <2>2. Doubled(globRegex(p), globRegex(q), d)
    BY <1>4, <1>8, <1>9, DoubledRegexp
  <2> QED
    BY <2>1, <2>2, SlashIs, DoubledMatchMore
<1>12. more # <<>>
  <2>1. Len(more) = Len(text) + 1
    BY <1>2 DEF Stretched
  <2> QED
    BY <1>7, <2>1
<1> QED
  BY <1>5, <1>6, <1>10, <1>11, <1>12 DEF more

-----------------------------------------------------------------------------
(* The theorems.                                                           *)

LEMMA PatternIs == Spec => [](pattern \in Seq(Chars))
<1>1. Init => pattern \in Seq(Chars)
  BY DEF Init
<1>2. pattern \in Seq(Chars) /\ [Next]_pattern => (pattern \in Seq(Chars))'
  BY DEF Next
<1> QED
  BY <1>1, <1>2, PTL DEF Spec

\* Whatever the characters, their bytes, the paths and the length of a pattern:
\* Match, which looks at no segments and tries two languages, accepts only paths
\* whose segments fit, and all of them unless the pattern mixes "**" with
\* characters of several bytes.
THEOREM GlobMatchesSegments == Spec => []MatchesSegments
<1>1. pattern \in Seq(Chars) => MatchesSegments
  BY MatchIsFits DEF MatchesSegments
<1> QED
  BY <1>1, PatternIs, PTL

\* A second star never hides a file, whatever follows it.
THEOREM GlobMoreStarsMatchMore == Spec => []MoreStarsMatchMore
<1>1. pattern \in Seq(Chars) => MoreStarsMatchMore
  <2> SUFFICES ASSUME pattern \in Seq(Chars), NEW i \in DOMAIN pattern, pattern[i] = "*",
                      {i - 1, i} \cap DoubleStars(pattern) = {},
                      NEW name \in Names, Match(pattern, name)
               PROVE  Match(InsertAt(pattern, i, "*"), name)
    BY DEF MoreStarsMatchMore
  <2>1. i \in 1 .. Len(pattern)
    OBVIOUS
  <2> QED
    BY <2>1, MoreStars
<1> QED
  BY <1>1, PatternIs, PTL
=============================================================================
