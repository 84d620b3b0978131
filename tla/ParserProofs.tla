---------------------------- MODULE ParserProofs ----------------------------
(***************************************************************************)
(* Theorems about Parser, for every file: however broken it is, what the   *)
(* parser recovers from hides no declaration that begins a line outside of *)
(* brackets, and a file without errors has its brackets closed in order.   *)
(*                                                                         *)
(* The invariant relates three things.  A task under way knows the bracket *)
(* it opened, and while nothing is wrong exactly these are open in front   *)
(* of the cursor.  Once something is, they are as long as a declaration to *)
(* be taken is still ahead: where it begins no bracket is open, so until   *)
(* then no bracket closes another than the innermost one, and recovery,    *)
(* which stops at the closing bracket of its own task, stops in front of   *)
(* it.  And the cursor is never at such a declaration but where it is      *)
(* about to be taken: no task passes a line end outside of brackets.       *)
(***************************************************************************)
EXTENDS Parser, SequenceTheorems, FiniteSetTheorems, WellFoundedInduction, TLAPS

Bracket == Opening \cup Closing

TokensOK == /\ tokens \in Seq(Token) /\ tokens # <<>>
            /\ \A i \in 1..Len(tokens) : tokens[i] = "eof" <=> i = Len(tokens)

\* What closes an open bracket.
Level == Closing \cup {"bad"}

L(n) == Len(Open[n])
-----------------------------------------------------------------------------
\* A set of numbers that is not empty has a least one.
LEMMA NatLeast ==
    ASSUME NEW S \in SUBSET Nat, S # {}
    PROVE  \E m \in S : \A k \in S : m <= k
<1> DEFINE R == { ss \in Nat \X Nat : ss[1] < ss[2] }
<1>1. IsWellFoundedOn(R, Nat)
  BY NatLessThanWellFounded DEF OpToRel
<1> HIDE DEF R
<1>2. PICK x \in S : \A y \in S : ~(<<y, x>> \in R)
  BY <1>1, WFMin
<1>3. \A y \in S : ~(y < x)
  BY <1>2 DEF R
<1> QED BY <1>3

IsOpen(g, m) == g = [n \in 0..m |-> IF n = 0 THEN <<>> ELSE Behind(g[n - 1], tokens[n])]

\* The recursive definition of Open has a solution.
LEMMA OpenExists ==
    ASSUME TokensOK
    PROVE  \E g : IsOpen(g, Len(tokens))
<1> DEFINE S == { m \in 0..Len(tokens) : ~ \E g : IsOpen(g, m) }
<1>1. Len(tokens) \in Nat
  BY DEF TokensOK
<1>2. SUFFICES ASSUME S # {} PROVE FALSE
  BY <1>1
<1>3. S \in SUBSET Nat
  BY <1>1
<1>4. PICK m \in S : \A k \in S : m <= k
  BY <1>2, <1>3, NatLeast
<1>5. m # 0
  <2>1. IsOpen([n \in 0..0 |-> <<>>], 0)
    BY DEF IsOpen
  <2> QED BY <2>1
<1>6. PICK g : IsOpen(g, m - 1)
  BY <1>1, <1>4, <1>5
<1> DEFINE h == [n \in 0..m |-> IF n < m THEN g[n] ELSE Behind(g[m - 1], tokens[m])]
<1>7. IsOpen(h, m)
  <2>1. \A n \in 0..(m - 1) : g[n] = IF n = 0 THEN <<>> ELSE Behind(g[n - 1], tokens[n])
    BY <1>6 DEF IsOpen
  <2>2. \A n \in 0..m : h[n] = IF n = 0 THEN <<>> ELSE Behind(h[n - 1], tokens[n])
    BY <1>1, <1>5, <2>1
  <2> QED BY <2>2 DEF IsOpen
<1> QED BY <1>1, <1>7

\* What the brackets open behind n tokens are.
LEMMA OpenIs ==
    ASSUME TokensOK
    PROVE  \A n \in 0..Len(tokens) :
               Open[n] = IF n = 0 THEN <<>> ELSE Behind(Open[n - 1], tokens[n])
<1>1. IsOpen(Open, Len(tokens))
  BY OpenExists DEF Open, IsOpen
<1> QED BY <1>1 DEF IsOpen

\* A sequence without its last element.
LEMMA AllButLast ==
    ASSUME NEW S, NEW q \in Seq(S), q # <<>>
    PROVE  /\ Len(q) \in Nat /\ Len(q) > 0
           /\ SubSeq(q, 1, Len(q) - 1) \in Seq(S) /\ Len(SubSeq(q, 1, Len(q) - 1)) = Len(q) - 1
           /\ \A l \in 1..(Len(q) - 1) : SubSeq(q, 1, Len(q) - 1)[l] = q[l]
<1> DEFINE n == Len(q) - 1
<1>1. Len(q) \in Nat /\ Len(q) > 0 /\ n \in Nat /\ \A i \in 1..n : q[i] \in S
  OBVIOUS
<1> HIDE DEF n
<1>2. /\ SubSeq(q, 1, n) \in Seq(S)
      /\ Len(SubSeq(q, 1, n)) = IF 1 <= n THEN n - 1 + 1 ELSE 0
      /\ \A i \in 1..(n - 1 + 1) : SubSeq(q, 1, n)[i] = q[1 + i - 1]
  BY <1>1, SubSeqProperties
<1>3. Len(SubSeq(q, 1, n)) = n /\ \A i \in 1..n : SubSeq(q, 1, n)[i] = q[i]
  BY <1>1, <1>2
<1> QED BY <1>1, <1>2, <1>3 DEF n

\* A bracket opens a level, closes the innermost one, or stays for ever.
LEMMA BehindIs ==
    ASSUME NEW o \in Seq(Level), NEW k
    PROVE  /\ Behind(o, k) \in Seq(Level)
           /\ k \in Opening => Behind(o, k) = Append(o, Closer(k))
           /\ k \notin Bracket => Behind(o, k) = o
           /\ k \in Closing => \/ /\ o # <<>> /\ o[Len(o)] = k
                                  /\ Behind(o, k) = SubSeq(o, 1, Len(o) - 1)
                               \/ Behind(o, k) = Append(o, "bad")
<1>1. CASE k \in Opening
  <2>1. Closer(k) \in Level
    BY <1>1 DEF Closer, Opening, Closing, Level
  <2>2. Append(o, Closer(k)) \in Seq(Level)
    BY <2>1
  <2>3. k \notin Closing
    BY <1>1 DEF Opening, Closing
  <2> QED BY <1>1, <2>2, <2>3 DEF Behind, Bracket
<1>2. CASE k \in Closing
  <2>1. k \notin Opening /\ k \in Bracket
    BY <1>2 DEF Opening, Closing, Bracket
  <2>2. CASE o # <<>> /\ o[Len(o)] = k
    <3>1. SubSeq(o, 1, Len(o) - 1) \in Seq(Level)
      BY <2>2
    <3> QED BY <1>2, <2>1, <2>2, <3>1 DEF Behind
  <2>3. CASE ~(o # <<>> /\ o[Len(o)] = k)
    <3>1. "bad" \in Level
      BY DEF Level
    <3>2. Append(o, "bad") \in Seq(Level)
      BY <3>1
    <3> QED BY <1>2, <2>1, <2>3, <3>2 DEF Behind
  <2> QED BY <2>2, <2>3
<1>3. CASE k \notin Opening /\ k \notin Closing
  BY <1>3 DEF Behind, Bracket
<1> QED BY <1>1, <1>2, <1>3

LEMMA OpenType ==
    ASSUME TokensOK
    PROVE  \A n \in 0..Len(tokens) : Open[n] \in Seq(Level)
<1> DEFINE S == { n \in 0..Len(tokens) : Open[n] \notin Seq(Level) }
<1>1. Len(tokens) \in Nat
  BY DEF TokensOK
<1>2. SUFFICES ASSUME S # {} PROVE FALSE
  OBVIOUS
<1>3. S \in SUBSET Nat
  BY <1>1
<1>4. PICK m \in S : \A k \in S : m <= k
  BY <1>2, <1>3, NatLeast
<1>5. m # 0
  <2>1. Open[0] = <<>>
    BY <1>1, OpenIs
  <2>2. <<>> \in Seq(Level)
    BY EmptySeq
  <2> QED BY <1>4, <2>1, <2>2
<1>6. Open[m - 1] \in Seq(Level) /\ Open[m] = Behind(Open[m - 1], tokens[m])
  BY <1>1, <1>4, <1>5, OpenIs
<1> QED BY <1>1, <1>4, <1>5, <1>6, BehindIs

\* What one more token makes of the open brackets.
LEMMA OpenStep ==
    ASSUME TokensOK, NEW n \in 1..Len(tokens)
    PROVE  /\ L(n) \in Nat /\ L(n - 1) \in Nat
           /\ Open[n] \in Seq(Level) /\ Open[n - 1] \in Seq(Level)
           /\ tokens[n] \in Opening => /\ L(n) = L(n - 1) + 1
                                       /\ Open[n][L(n)] = Closer(tokens[n])
           /\ tokens[n] \notin Bracket => Open[n] = Open[n - 1]
           /\ tokens[n] \in Closing => \/ /\ L(n - 1) > 0 /\ Open[n - 1][L(n - 1)] = tokens[n]
                                          /\ L(n) = L(n - 1) - 1
                                       \/ L(n) = L(n - 1) + 1 /\ Open[n][L(n)] = "bad"
           /\ \A l \in 1..L(n - 1) : l <= L(n) => Open[n][l] = Open[n - 1][l]
<1>1. Len(tokens) \in Nat
  BY DEF TokensOK
<1> DEFINE o == Open[n - 1]
           k == tokens[n]
<1>2. o \in Seq(Level) /\ Open[n] \in Seq(Level) /\ Open[n] = Behind(o, k)
  BY <1>1, OpenIs, OpenType
<1> HIDE DEF o, k
<1>3. /\ k \in Opening => Open[n] = Append(o, Closer(k))
      /\ k \notin Bracket => Open[n] = o
      /\ k \in Closing => \/ /\ o # <<>> /\ o[Len(o)] = k
                             /\ Open[n] = SubSeq(o, 1, Len(o) - 1)
                          \/ Open[n] = Append(o, "bad")
  BY <1>2, BehindIs
<1>4. \A x : /\ Len(Append(o, x)) = Len(o) + 1 /\ Append(o, x)[Len(o) + 1] = x
             /\ \A l \in 1..Len(o) : Append(o, x)[l] = o[l]
  BY <1>2
<1>5. o # <<>> => /\ Len(SubSeq(o, 1, Len(o) - 1)) = Len(o) - 1 /\ Len(o) > 0
                  /\ \A l \in 1..(Len(o) - 1) : SubSeq(o, 1, Len(o) - 1)[l] = o[l]
  BY <1>2, AllButLast
<1>6. L(n - 1) = Len(o) /\ Len(o) \in Nat /\ L(n) \in Nat
  BY <1>2 DEF L, o
<1>7. k \in Opening \/ k \in Closing \/ k \notin Bracket
  BY DEF Bracket
<1>8. k \in Opening => k \notin Closing /\ k \in Bracket
  BY DEF Opening, Closing, Bracket
<1>9. k \in Closing => k \in Bracket
  BY DEF Bracket
<1>10. CASE k \in Opening
  <2>1. Open[n] = Append(o, Closer(k)) /\ L(n) = Len(o) + 1
    BY <1>3, <1>4, <1>10 DEF L
  <2>2. Open[n][L(n)] = Closer(k) /\ \A l \in 1..Len(o) : Open[n][l] = o[l]
    BY <1>4, <2>1
  <2> QED BY <1>2, <1>6, <1>8, <1>10, <2>1, <2>2 DEF k, o
<1>11. CASE k \notin Bracket
  BY <1>2, <1>3, <1>6, <1>8, <1>9, <1>11 DEF L, k, o
<1>12. CASE k \in Closing /\ Open[n] = Append(o, "bad")
  BY <1>2, <1>4, <1>6, <1>8, <1>9, <1>12 DEF L, k, o
<1>13. CASE k \in Closing /\ o # <<>> /\ o[Len(o)] = k /\ Open[n] = SubSeq(o, 1, Len(o) - 1)
  BY <1>2, <1>5, <1>6, <1>8, <1>9, <1>13 DEF L, k, o
<1> QED BY <1>3, <1>7, <1>10, <1>11, <1>12, <1>13
-----------------------------------------------------------------------------
(* Brackets between two places.  `n` is a place in front of token n.       *)

\* The bracket opened at o is open in front of token n.
Still(o, n) == \A m \in o..(n - 1) : L(m) >= L(o)

\* The brackets opened at O are open in front of token n.
Holds(O, n) == \A o \in O : o \in 1..(n - 1) /\ tokens[o] \in Opening /\ Still(o, n)

\* No others are.
Fit(O, n) == \A l \in 1..L(n - 1) : \E o \in O : L(o) = l

\* No bracket in front of token n closes another than the innermost one.
Sane(n) == \A i \in 0..(n - 1) : \A l \in 1..L(i) : Open[i][l] # "bad"

\* What is opened between two places is closed there, on one line.
Smooth(n, m) == /\ \A i \in n..(m - 1) : L(i) >= L(n - 1)
                /\ Open[m - 1] = Open[n - 1]

\* While a bracket is open, the levels up to its own stay as they are.
LEMMA PrefixStays ==
    ASSUME TokensOK, NEW n \in 1..(Len(tokens) + 1), NEW o \in 1..(n - 1), Still(o, n)
    PROVE  \A m \in o..(n - 1) : \A l \in 1..L(o) : Open[m][l] = Open[o][l]
<1>1. Len(tokens) \in Nat
  BY DEF TokensOK
<1> DEFINE S == { m \in o..(n - 1) : \E l \in 1..L(o) : Open[m][l] # Open[o][l] }
<1>2. SUFFICES ASSUME S # {} PROVE FALSE
  OBVIOUS
<1>3. S \in SUBSET Nat
  BY <1>1
<1>4. PICK m \in S : \A k \in S : m <= k
  BY <1>2, <1>3, NatLeast
<1>5. m \in o..(n - 1) /\ m # o /\ m \in 1..Len(tokens)
  BY <1>1, <1>4
<1>6. m - 1 \in o..(n - 1) /\ ~(m <= m - 1)
  BY <1>1, <1>5
<1>7. m - 1 \notin S
  BY <1>4, <1>6
<1>8. \A l \in 1..L(o) : Open[m - 1][l] = Open[o][l]
  BY <1>6, <1>7
<1>9. /\ L(m) \in Nat /\ L(m - 1) \in Nat /\ L(o) \in Nat
      /\ \A l \in 1..L(m - 1) : l <= L(m) => Open[m][l] = Open[m - 1][l]
  BY <1>1, <1>5, OpenStep
<1>10. L(m) >= L(o) /\ L(m - 1) >= L(o)
  BY <1>5, <1>6 DEF Still
<1>11. \A l \in 1..L(o) : Open[m][l] = Open[o][l]
  BY <1>8, <1>9, <1>10, SMTT(30)
<1> QED BY <1>4, <1>11

\* What closes no open bracket is never taken away.
LEMMA BadStays ==
    ASSUME TokensOK, NEW i \in 0..Len(tokens), NEW l \in 1..L(i), Open[i][l] = "bad"
    PROVE  \A j \in i..Len(tokens) : l \in 1..L(j) /\ Open[j][l] = "bad"
<1>1. Len(tokens) \in Nat
  BY DEF TokensOK
<1> DEFINE S == { j \in i..Len(tokens) : ~(l \in 1..L(j) /\ Open[j][l] = "bad") }
<1>2. SUFFICES ASSUME S # {} PROVE FALSE
  OBVIOUS
<1>3. S \in SUBSET Nat
  BY <1>1
<1>4. PICK m \in S : \A k \in S : m <= k
  BY <1>2, <1>3, NatLeast
<1>5. m \in i..Len(tokens) /\ m # i /\ m \in 1..Len(tokens)
  BY <1>1, <1>4
<1>6. m - 1 \in i..Len(tokens) /\ ~(m <= m - 1)
  BY <1>1, <1>5
<1>7. m - 1 \notin S
  BY <1>4, <1>6
<1>8. l \in 1..L(m - 1) /\ Open[m - 1][l] = "bad"
  BY <1>6, <1>7
<1>9. /\ L(m) \in Nat /\ L(m - 1) \in Nat
      /\ \A k \in 1..L(m - 1) : k <= L(m) => Open[m][k] = Open[m - 1][k]
      /\ tokens[m] \in Opening => L(m) = L(m - 1) + 1
      /\ tokens[m] \notin Bracket => Open[m] = Open[m - 1]
      /\ tokens[m] \in Closing => \/ Open[m - 1][L(m - 1)] = tokens[m] /\ L(m) = L(m - 1) - 1
                                  \/ L(m) = L(m - 1) + 1
  BY <1>1, <1>5, OpenStep
<1>10. tokens[m] \in Closing => tokens[m] # "bad"
  BY DEF Closing
<1>11. tokens[m] \notin Bracket => L(m) = L(m - 1)
  BY <1>9 DEF L
<1>12. l <= L(m)
  BY <1>8, <1>9, <1>10, <1>11 DEF Bracket
<1>13. l \in 1..L(m) /\ Open[m][l] = "bad"
  BY <1>8, <1>9, <1>12
<1> QED BY <1>4, <1>13

\* Where no bracket is open, all before were closed in order.
LEMMA SaneBefore ==
    ASSUME TokensOK, NEW p \in 1..Len(tokens), Open[p - 1] = <<>>, NEW n \in 1..p
    PROVE  Sane(n)
<1>1. Len(tokens) \in Nat
  BY DEF TokensOK
<1> SUFFICES ASSUME NEW i \in 0..(n - 1), NEW l \in 1..L(i), Open[i][l] = "bad"
             PROVE  FALSE
  BY DEF Sane
<1>2. i \in 0..Len(tokens) /\ p - 1 \in i..Len(tokens)
  BY <1>1
<1>3. l \in 1..L(p - 1)
  BY <1>2, BadStays
<1>4. L(p - 1) = 0
  BY DEF L
<1> QED BY <1>3, <1>4

\* Tokens that are no brackets change nothing.
LEMMA FlatIsSmooth ==
    ASSUME TokensOK, NEW n \in 1..Len(tokens), NEW m \in n..Len(tokens),
           \A i \in n..(m - 1) : tokens[i] \notin Bracket
    PROVE  /\ \A i \in (n - 1)..(m - 1) : Open[i] = Open[n - 1]
           /\ Smooth(n, m)
<1>1. Len(tokens) \in Nat
  BY DEF TokensOK
<1> DEFINE S == { i \in (n - 1)..(m - 1) : Open[i] # Open[n - 1] }
<1>2. S = {}
  <2>1. SUFFICES ASSUME S # {} PROVE FALSE
    OBVIOUS
  <2>2. S \in SUBSET Nat
    BY <1>1
  <2>3. PICK k \in S : \A x \in S : k <= x
    BY <2>1, <2>2, NatLeast
  <2>4. k \in n..(m - 1) /\ k \in 1..Len(tokens)
    BY <1>1, <2>3
  <2>5. k - 1 \in (n - 1)..(m - 1) /\ ~(k <= k - 1)
    BY <1>1, <2>4
  <2>6. k - 1 \notin S
    BY <2>3, <2>5
  <2>7. Open[k] = Open[k - 1]
    BY <2>4, OpenStep
  <2> QED BY <2>3, <2>5, <2>6, <2>7
<1>3. \A i \in (n - 1)..(m - 1) : Open[i] = Open[n - 1]
  BY <1>2
<1> HIDE DEF S
<1>4. m - 1 \in (n - 1)..(m - 1) /\ \A i \in n..(m - 1) : i \in (n - 1)..(m - 1)
  BY <1>1
<1>5. \A i \in n..(m - 1) : L(i) = L(n - 1)
  BY <1>3, <1>4 DEF L
<1>6. L(n - 1) \in Nat
  BY OpenStep
<1> QED BY <1>3, <1>4, <1>5, <1>6 DEF Smooth

\* Of two open brackets the one further on has the higher level.
LEMMA Higher ==
    ASSUME TokensOK, NEW n \in 1..(Len(tokens) + 1), NEW O, Holds(O, n),
           NEW o \in O, NEW x \in O, x < o
    PROVE  /\ L(x) \in Nat /\ L(o) \in Nat /\ L(o - 1) \in Nat
           /\ L(x) < L(o) /\ L(o) = L(o - 1) + 1 /\ L(x) <= L(o - 1)
<1>1. Len(tokens) \in Nat
  BY DEF TokensOK
<1>2. /\ o \in 1..(n - 1) /\ x \in 1..(n - 1) /\ tokens[o] \in Opening
      /\ \A m \in x..(n - 1) : L(m) >= L(x)
  BY DEF Holds, Still
<1>3. o \in 1..Len(tokens) /\ x \in 1..Len(tokens) /\ o - 1 \in x..(n - 1)
  BY <1>1, <1>2
<1>4. L(o) = L(o - 1) + 1 /\ L(o) \in Nat /\ L(o - 1) \in Nat /\ L(x) \in Nat
  BY <1>2, <1>3, OpenStep
<1>5. L(o - 1) >= L(x)
  BY <1>2, <1>3
<1> QED BY <1>4, <1>5

LEMMA HoldsSmooth ==
    ASSUME TokensOK, NEW n \in 1..Len(tokens), NEW m \in n..Len(tokens), Smooth(n, m), NEW O
    PROVE  /\ Holds(O, n) => Holds(O, m)
           /\ Fit(O, n) => Fit(O, m)
<1>1. Len(tokens) \in Nat
  BY DEF TokensOK
<1>2. Fit(O, n) => Fit(O, m)
  BY DEF Fit, Smooth, L
<1>3. ASSUME Holds(O, n), NEW o \in O
      PROVE  o \in 1..(m - 1) /\ tokens[o] \in Opening /\ Still(o, m)
  <2>1. o \in 1..(n - 1) /\ tokens[o] \in Opening /\ \A k \in o..(n - 1) : L(k) >= L(o)
    BY <1>3 DEF Holds, Still
  <2>2. n - 1 \in o..(n - 1) /\ o \in 1..(m - 1) /\ o \in 1..Len(tokens)
    BY <1>1, <2>1
  <2>3. L(n - 1) >= L(o) /\ L(n - 1) \in Nat /\ L(o) \in Nat
    BY <1>1, <2>1, <2>2, OpenStep
  <2>4. ASSUME NEW k \in o..(m - 1) PROVE L(k) >= L(o)
    <3>1. k \in 1..Len(tokens) /\ (k \in o..(n - 1) \/ k \in n..(m - 1))
      BY <1>1, <2>2, <2>4
    <3>2. L(k) \in Nat
      BY <3>1, OpenStep
    <3>3. CASE k \in n..(m - 1)
      BY <2>3, <3>2, <3>3 DEF Smooth
    <3> QED BY <2>1, <3>1, <3>3
  <2> QED BY <2>1, <2>2, <2>4 DEF Still
<1> QED BY <1>2, <1>3 DEF Holds

\* An opening bracket is passed.
LEMMA HoldsOpen ==
    ASSUME TokensOK, NEW n \in 1..(Len(tokens) - 1), tokens[n] \in Opening, NEW O
    PROVE  /\ Holds(O, n) => Holds(O \cup {n}, n + 1)
           /\ Fit(O, n) => Fit(O \cup {n}, n + 1)
<1>1. Len(tokens) \in Nat /\ n \in 1..Len(tokens) /\ (n + 1) - 1 = n
  BY DEF TokensOK
<1>2. L(n) = L(n - 1) + 1 /\ L(n) \in Nat /\ L(n - 1) \in Nat
  BY <1>1, OpenStep
<1>3. Fit(O, n) => Fit(O \cup {n}, n + 1)
  BY <1>1, <1>2 DEF Fit
<1>4. ASSUME Holds(O, n), NEW o \in O
      PROVE  o \in 1..n /\ tokens[o] \in Opening /\ \A m \in o..n : L(m) >= L(o)
  <2>1. o \in 1..(n - 1) /\ tokens[o] \in Opening /\ \A k \in o..(n - 1) : L(k) >= L(o)
    BY <1>4 DEF Holds, Still
  <2>2. n - 1 \in o..(n - 1) /\ o \in 1..n /\ o \in 1..Len(tokens)
    BY <1>1, <2>1
  <2>3. L(o) \in Nat /\ L(n - 1) >= L(o)
    BY <2>1, <2>2, OpenStep
  <2>4. L(n) >= L(o)
    BY <1>2, <2>3
  <2>5. \A m \in o..n : m = n \/ m \in o..(n - 1)
    BY <1>1, <2>1
  <2> QED BY <2>1, <2>2, <2>4, <2>5
<1>5. \A m \in n..n : L(m) >= L(n)
  BY <1>1, <1>2
<1>6. Holds(O, n) => Holds(O \cup {n}, n + 1)
  BY <1>1, <1>4, <1>5 DEF Holds, Still
<1> QED BY <1>3, <1>6

\* A token that does not close the innermost of the open brackets is passed,
\* or one that closes a bracket within.
LEMMA HoldsPass ==
    ASSUME TokensOK, NEW n \in 1..Len(tokens), NEW O, Holds(O, n), Sane(n + 1),
           NEW b \in O, \A x \in O : x <= b,
           tokens[n] # Closer(tokens[b]) \/ L(n - 1) > L(b)
    PROVE  Holds(O, n + 1)
<1>1. Len(tokens) \in Nat /\ (n + 1) - 1 = n
  BY DEF TokensOK
<1>2. /\ L(n) \in Nat /\ L(n - 1) \in Nat
      /\ tokens[n] \in Opening => L(n) = L(n - 1) + 1
      /\ tokens[n] \notin Bracket => L(n) = L(n - 1)
      /\ tokens[n] \in Closing => \/ /\ L(n - 1) > 0 /\ Open[n - 1][L(n - 1)] = tokens[n]
                                     /\ L(n) = L(n - 1) - 1
                                  \/ L(n) = L(n - 1) + 1
  BY OpenStep DEF L
<1>3. /\ b \in 1..(n - 1) /\ tokens[b] \in Opening /\ Still(b, n)
      /\ b \in 1..Len(tokens) /\ n - 1 \in b..(n - 1)
  BY <1>1 DEF Holds
<1>4. L(b) \in Nat /\ L(n - 1) >= L(b) /\ L(b) >= 1 /\ Open[b][L(b)] = Closer(tokens[b])
  BY <1>3, OpenStep DEF Still
<1>5. L(n) >= L(b)
  <2>1. SUFFICES ASSUME L(n) < L(b) PROVE FALSE
    BY <1>2, <1>4
  <2>2. L(n - 1) = L(b) /\ Open[n - 1][L(n - 1)] = tokens[n]
    BY <1>2, <1>4, <2>1 DEF Bracket
  <2>3. n \in 1..(Len(tokens) + 1) /\ L(b) \in 1..L(b)
    BY <1>1, <1>4
  <2>4. Open[n - 1][L(b)] = Open[b][L(b)]
    BY <1>3, <2>3, PrefixStays
  <2> QED BY <1>4, <2>2, <2>4
<1>6. ASSUME NEW o \in O
      PROVE  o \in 1..n /\ tokens[o] \in Opening /\ \A m \in o..n : L(m) >= L(o)
  <2>1. o \in 1..(n - 1) /\ tokens[o] \in Opening /\ (\A k \in o..(n - 1) : L(k) >= L(o)) /\ o <= b
    BY DEF Holds, Still
  <2>2. b \in o..(n - 1) /\ o \in 1..n /\ o \in 1..Len(tokens)
    BY <1>1, <1>3, <2>1
  <2>3. L(b) >= L(o) /\ L(o) \in Nat
    BY <2>1, <2>2, OpenStep
  <2>4. \A m \in o..n : m = n \/ m \in o..(n - 1)
    BY <1>1, <2>1
  <2> QED BY <1>2, <1>4, <1>5, <2>1, <2>2, <2>3, <2>4, SMTT(30)
<1> QED BY <1>1, <1>6 DEF Holds, Still

\* Tokens that do not close the innermost of the open brackets are passed.
LEMMA HoldsSkip ==
    ASSUME TokensOK, NEW n \in 1..Len(tokens), NEW m \in n..Len(tokens), NEW O, Holds(O, n), Sane(m),
           NEW b \in O, \A x \in O : x <= b,
           \A i \in n..(m - 1) : tokens[i] # Closer(tokens[b])
    PROVE  Holds(O, m)
<1>1. Len(tokens) \in Nat
  BY DEF TokensOK
<1> DEFINE S == { i \in n..m : ~Holds(O, i) }
<1>2. SUFFICES ASSUME S # {} PROVE FALSE
  BY <1>1
<1>3. S \in SUBSET Nat
  BY <1>1
<1>4. PICK i \in S : \A k \in S : i <= k
  BY <1>2, <1>3, NatLeast
<1>5. i \in (n + 1)..m /\ i - 1 \in n..m /\ ~(i <= i - 1) /\ i - 1 \in 1..Len(tokens)
      /\ i - 1 \in n..(m - 1) /\ (i - 1) + 1 = i
  BY <1>1, <1>4
<1>6. Holds(O, i - 1)
  BY <1>4, <1>5
<1>7. Sane(i)
  BY <1>1, <1>5 DEF Sane
<1>8. Holds(O, (i - 1) + 1)
  BY <1>5, <1>6, <1>7, HoldsPass
<1> QED BY <1>4, <1>5, <1>8

\* The innermost of the open brackets is closed.
LEMMA HoldsClose ==
    ASSUME TokensOK, NEW n \in 1..Len(tokens), NEW O, Holds(O, n),
           NEW b \in O, \A x \in O : x <= b,
           tokens[n] = Closer(tokens[b])
    PROVE  /\ Sane(n + 1) => Holds(O \ {b}, n + 1)
           /\ Fit(O, n) => Holds(O \ {b}, n + 1) /\ Fit(O \ {b}, n + 1)
<1>1. Len(tokens) \in Nat /\ (n + 1) - 1 = n
  BY DEF TokensOK
<1>2. /\ b \in 1..(n - 1) /\ tokens[b] \in Opening /\ Still(b, n)
      /\ b \in 1..Len(tokens) /\ n - 1 \in b..(n - 1)
  BY <1>1 DEF Holds
<1>3. /\ L(b) \in Nat /\ L(n - 1) >= L(b) /\ L(b) >= 1 /\ Open[b][L(b)] = Closer(tokens[b])
      /\ L(b) = L(b - 1) + 1 /\ L(b - 1) \in Nat
  BY <1>2, OpenStep DEF Still
<1>4. tokens[n] \in Closing
  BY <1>2 DEF Opening, Closing, Closer
<1>5. /\ L(n) \in Nat /\ L(n - 1) \in Nat
      /\ \/ L(n) = L(n - 1) - 1
         \/ L(n) = L(n - 1) + 1 /\ Open[n][L(n)] = "bad"
      /\ Open[n - 1][L(n - 1)] = tokens[n] => L(n) = L(n - 1) - 1
  <2>1. n - 1 \in 0..Len(tokens) /\ Open[n] = Behind(Open[n - 1], tokens[n])
    BY <1>1, OpenIs
  <2>2. Open[n - 1] \in Seq(Level) /\ Open[n - 1] # <<>>
    <3>1. Open[n - 1] \in Seq(Level) /\ L(n - 1) > 0
      BY <1>3, OpenStep
    <3>2. Len(<<>>) = 0
      OBVIOUS
    <3> QED BY <3>1, <3>2 DEF L
  <2>3. tokens[n] \notin Opening
    BY <1>4 DEF Opening, Closing
  <2>4. Open[n - 1][L(n - 1)] = tokens[n] => Open[n] = SubSeq(Open[n - 1], 1, Len(Open[n - 1]) - 1)
    BY <1>4, <2>1, <2>2, <2>3 DEF Behind, L
  <2>5. Len(SubSeq(Open[n - 1], 1, Len(Open[n - 1]) - 1)) = Len(Open[n - 1]) - 1
    BY <2>2, AllButLast
  <2> QED BY <1>4, <2>4, <2>5, OpenStep DEF L
<1>6. ASSUME L(n) = L(n - 1) - 1
      PROVE  Holds(O \ {b}, n + 1)
  <2>1. ASSUME NEW o \in O \ {b}
        PROVE  o \in 1..n /\ tokens[o] \in Opening /\ \A m \in o..n : L(m) >= L(o)
    <3>1. o \in 1..(n - 1) /\ tokens[o] \in Opening /\ (\A k \in o..(n - 1) : L(k) >= L(o)) /\ o < b
      BY <1>2 DEF Holds, Still
    <3>2. L(o) \in Nat /\ L(o) < L(b)
      BY <1>1, <3>1, Higher
    <3>3. \A m \in o..n : m = n \/ m \in o..(n - 1)
      BY <1>1, <3>1
    <3>4. L(n) >= L(o) /\ o \in 1..n
      BY <1>1, <1>3, <1>5, <1>6, <3>1, <3>2
    <3> QED BY <3>1, <3>3, <3>4
  <2> QED BY <1>1, <2>1 DEF Holds, Still
<1>7. Sane(n + 1) => L(n) = L(n - 1) - 1
  BY <1>1, <1>5 DEF Sane
<1>8. ASSUME Fit(O, n)
      PROVE  L(n) = L(n - 1) - 1 /\ L(n - 1) = L(b)
  <2>1. PICK o \in O : L(o) = L(n - 1)
    BY <1>3, <1>5, <1>8 DEF Fit
  <2>2. o = b
    <3>1. SUFFICES ASSUME o # b PROVE FALSE
      OBVIOUS
    <3>2. o < b
      BY <1>2, <3>1 DEF Holds
    <3>3. L(o) < L(b) /\ L(o) \in Nat
      BY <1>1, <3>2, Higher
    <3> QED BY <1>3, <1>5, <2>1, <3>3
  <2>3. n \in 1..(Len(tokens) + 1) /\ L(b) \in 1..L(b)
    BY <1>1, <1>3
  <2>4. Open[n - 1][L(b)] = Open[b][L(b)]
    BY <1>2, <2>3, PrefixStays
  <2> QED BY <1>3, <1>5, <2>1, <2>2, <2>4
<1>9. ASSUME Fit(O, n)
      PROVE  Fit(O \ {b}, n + 1)
  <2>1. ASSUME NEW l \in 1..L(n) PROVE \E o \in O \ {b} : L(o) = l
    <3>1. l \in 1..L(n - 1) /\ l < L(b)
      BY <1>3, <1>5, <1>8, <1>9
    <3>2. PICK o \in O : L(o) = l
      BY <1>9, <3>1 DEF Fit
    <3> QED BY <3>1, <3>2
  <2> QED BY <1>1, <2>1 DEF Fit
<1> QED BY <1>6, <1>7, <1>8, <1>9
-----------------------------------------------------------------------------
(* The invariant.                                                          *)

\* Tasks that read what is in brackets, by the bracket.
Parens  == {"bindings", "group", "args", "arg", "payload", "payload type", "params", "param"}
Squares == {"list", "element"}
Braces  == {"bound fields", "record literal", "value", "arms", "names", "fields", "variants", "block"}

\* Tasks that may stand anywhere, and those that are the outermost.
Loose   == {"path", "type", "type args", "pattern", "operand", "unary", "no path", "primary", "zero lambda",
            "lambda", "postfix", "match", "arm body", "let value", "let else"}
Outside == {"to decl", "or decl", "alias", "import", "extern name", "extern uses", "clauses",
            "params", "param"}

Recovery == {"to decl", "to stmt end"}

Kind == Parens \cup Squares \cup Braces \cup Loose \cup Outside
        \cup {"to stmt end", "or stmt end", "entry end", "effects", "then", "stmt end"}

Of == {"none", "cond", "func", "extern", "then", "else"}

TaskSet == [k : Kind, open : 0..Len(tokens), of : Of, depth : Nat]

Last(st) == st[Len(st)]

\* The edit of an error leaves a file.
Sound(e) == /\ e.pos \in 1..Len(tokens) /\ e.at \in 1..Len(tokens)
            /\ e.del = 1 => e.at < Len(tokens)
            /\ e.ins # "eof"

State == [pos : 1..Len(tokens), ok : BOOLEAN, path : BOOLEAN,
          errs : SUBSET {e \in Error : Sound(e)}, lost : SUBSET (1..Len(tokens))]

\* A failure and a token passed unread leave an error.
CursorInv(u) == /\ u \in State
                /\ ~u.ok \/ u.lost # {} => u.errs # {}
                /\ \A q \in u.lost : q < u.pos \/ u.pos = Len(tokens)

\* A task knows the bracket it opened.
AtBracket(t) == /\ t.k \in (Parens \ {"group"}) \cup Squares \cup Braces => t.open # 0
                /\ t.open # 0 => \/ t.k \in Parens /\ tokens[t.open] = "("
                                 \/ t.k \in Squares /\ tokens[t.open] = "["
                                 \/ t.k \in Braces /\ tokens[t.open] = "{"

\* A task `a` may be called by the tasks `st`.
Placed(st, a) ==
    /\ a.k \in Outside => Len(st) = 0
    /\ a.k = "entry end" => Len(st) > 0 /\ Last(st).k \in Braces
    /\ a.k \in {"payload", "payload type"} =>
           Len(st) > 1 /\ st[Len(st) - 1].k \in Braces /\ Last(st).k = "entry end"
    /\ a.k \in {"stmt end", "then"} \/ (a.k = "block" /\ a.of # "func") =>
           Len(st) > 0 /\ Last(st).k = "block"
    /\ a.k \in {"or stmt end", "effects"} => Len(st) = 0 \/ (Len(st) = 1 /\ st[1].k = "clauses")
    /\ a.k = "to stmt end" => \/ Len(st) = 0
                              \/ Len(st) = 1 /\ st[1].k = "clauses"
                              \/ Len(st) > 0 /\ Last(st).k = "block"
    /\ Len(st) > 0 => Last(st).k \notin Recovery

\* Each task is placed where it may be, and opened its bracket behind those of its callers.
StackInv(st, n) ==
    /\ st \in Seq(TaskSet)
    /\ \A i \in 1..Len(st) : /\ AtBracket(st[i]) /\ st[i].open < n
                             /\ Placed(SubSeq(st, 1, i - 1), st[i])
                             /\ st[i].open # 0 => \A j \in 1..(i - 1) : st[j].open < st[i].open

Opens(st) == { st[i].open : i \in 1..Len(st) } \ {0}

\* A declaration to be taken is still ahead.
Ahead(u) == u.lost = {} /\ \E p \in u.pos..Len(tokens) : p > 1 /\ Declares(p)

\* The brackets the tasks opened are open; while there is no error, no others are.
BracketInv(u, st) == /\ u.errs = {} \/ Ahead(u) => Holds(Opens(st), u.pos)
                     /\ u.errs = {} => Fit(Opens(st), u.pos)

\* Braces that are open in front of token n above a level.
Above(b, n) == Cardinality({ l \in (b + 1)..L(n - 1) : Open[n - 1][l] = "}" })

\* Recovery does not believe to be deeper than it is.
RecoveryInv(u, st) ==
    Len(st) > 0 /\ Last(st).k \in Recovery =>
        /\ u.errs # {}
        /\ Ahead(u) => /\ Opens(st) = {} => Last(st).depth <= Above(0, u.pos)
                       /\ \A b \in Opens(st) : (\A x \in Opens(st) : x <= b)
                                               => Last(st).depth <= Above(L(b), u.pos)

\* The cursor is not at a declaration to be taken.
Off(u) == u.lost = {} /\ u.pos > 1 => ~Declares(u.pos)

\* Whoever meets one is about to take it.
LineInv(u, st) == \/ Len(st) = 0
                  \/ Last(st).k \in {"to decl", "clauses"}
                  \/ Off(u)

\* An expression in parentheses that opened none is what is left of a lambda.
Loosened(st) == \E i \in 1..Len(st) : st[i].k = "group" /\ st[i].open = 0

LostInv(u, st) == Loosened(st) => u.lost # {}

\* Those behind the cursor were taken.
TakenInv(u, tk) == \A p \in 2..(u.pos - 1) : Declares(p) => p \in tk \/ \E q \in u.lost : q < p

Inv(u, st, tk) == /\ CursorInv(u) /\ StackInv(st, u.pos) /\ BracketInv(u, st)
                  /\ RecoveryInv(u, st) /\ LineInv(u, st) /\ TakenInv(u, tk) /\ LostInv(u, st)

\* The same between two tasks.
Calm(u, st, tk) == Inv(u, st, tk) /\ Off(u) /\ (Len(st) > 0 => Last(st).k \notin Recovery)

IInv == /\ TokensOK
        /\ taken \subseteq 1..Len(tokens) /\ fixed \subseteq Error
        /\ phase \in {"start", "decls", "done"}
        /\ phase = "start" => s = Begin /\ stack = <<>> /\ taken = {}
        /\ phase # "start" => Inv(s, stack, taken)
        /\ phase = "done" => stack = <<>> /\ s.pos = Len(tokens)
-----------------------------------------------------------------------------
(* Sequences.                                                              *)

LEMMA Prefix ==
    ASSUME NEW S, NEW q \in Seq(S), NEW n \in 0..Len(q)
    PROVE  /\ SubSeq(q, 1, n) \in Seq(S) /\ Len(SubSeq(q, 1, n)) = n
           /\ \A i \in 1..n : SubSeq(q, 1, n)[i] = q[i]
<1>1. Len(q) \in Nat /\ \A i \in 1..n : q[i] \in S
  OBVIOUS
<1>2. /\ SubSeq(q, 1, n) \in Seq(S)
      /\ Len(SubSeq(q, 1, n)) = IF 1 <= n THEN n - 1 + 1 ELSE 0
      /\ \A i \in 1..(n - 1 + 1) : SubSeq(q, 1, n)[i] = q[1 + i - 1]
  BY <1>1, SubSeqProperties
<1> QED BY <1>1, <1>2

LEMMA SameSequence ==
    ASSUME NEW S, NEW T, NEW q \in Seq(S), NEW r \in Seq(T), Len(q) = Len(r),
           \A i \in 1..Len(q) : q[i] = r[i]
    PROVE  q = r
  BY SeqEqual

LEMMA PrefixOfPrefix ==
    ASSUME NEW S, NEW q \in Seq(S), NEW m \in 0..Len(q), NEW n \in 0..m
    PROVE  SubSeq(SubSeq(q, 1, m), 1, n) = SubSeq(q, 1, n)
<1>1. Len(q) \in Nat /\ n \in 0..Len(q)
  OBVIOUS
<1>2. /\ SubSeq(q, 1, m) \in Seq(S) /\ Len(SubSeq(q, 1, m)) = m
      /\ \A i \in 1..m : SubSeq(q, 1, m)[i] = q[i]
  BY Prefix
<1>3. /\ SubSeq(q, 1, n) \in Seq(S) /\ Len(SubSeq(q, 1, n)) = n
      /\ \A i \in 1..n : SubSeq(q, 1, n)[i] = q[i]
  BY <1>1, Prefix
<1> DEFINE p == SubSeq(q, 1, m)
<1> HIDE DEF p
<1>4. p \in Seq(S) /\ n \in 0..Len(p)
  BY <1>2 DEF p
<1>5. /\ SubSeq(p, 1, n) \in Seq(S) /\ Len(SubSeq(p, 1, n)) = n
      /\ \A i \in 1..n : SubSeq(p, 1, n)[i] = p[i]
  BY <1>4, Prefix
<1>6. SubSeq(p, 1, n) = SubSeq(q, 1, n)
  BY <1>1, <1>2, <1>3, <1>5, SameSequence DEF p
<1> QED BY <1>6 DEF p

LEMMA PrefixOfAppend ==
    ASSUME NEW S, NEW q \in Seq(S), NEW a \in S, NEW n \in 0..Len(q)
    PROVE  /\ SubSeq(Append(q, a), 1, n) = SubSeq(q, 1, n)
           /\ SubSeq(Append(q, a), 1, Len(q)) = q
<1>1. /\ Append(q, a) \in Seq(S) /\ Len(Append(q, a)) = Len(q) + 1 /\ Len(q) \in Nat
      /\ \A i \in 1..Len(q) : Append(q, a)[i] = q[i]
  OBVIOUS
<1> DEFINE p == Append(q, a)
<1> HIDE DEF p
<1>2. p \in Seq(S) /\ n \in 0..Len(p) /\ Len(q) \in 0..Len(p)
  BY <1>1 DEF p
<1>3. /\ SubSeq(p, 1, n) \in Seq(S) /\ Len(SubSeq(p, 1, n)) = n
      /\ \A i \in 1..n : SubSeq(p, 1, n)[i] = p[i]
      /\ SubSeq(p, 1, Len(q)) \in Seq(S) /\ Len(SubSeq(p, 1, Len(q))) = Len(q)
      /\ \A i \in 1..Len(q) : SubSeq(p, 1, Len(q))[i] = p[i]
  BY <1>2, Prefix
<1>4. /\ SubSeq(q, 1, n) \in Seq(S) /\ Len(SubSeq(q, 1, n)) = n
      /\ \A i \in 1..n : SubSeq(q, 1, n)[i] = q[i]
  BY Prefix
<1>5. SubSeq(p, 1, n) = SubSeq(q, 1, n)
  BY <1>1, <1>3, <1>4, SameSequence DEF p
<1>6. SubSeq(p, 1, Len(q)) = q
  BY <1>1, <1>3, SameSequence DEF p
<1> QED BY <1>5, <1>6 DEF p

LEMMA LastApart ==
    ASSUME NEW S, NEW q \in Seq(S), Len(q) > 0
    PROVE  Append(SubSeq(q, 1, Len(q) - 1), q[Len(q)]) = q
<1> DEFINE p == SubSeq(q, 1, Len(q) - 1)
<1>1. Len(q) \in Nat /\ Len(q) - 1 \in 0..Len(q) /\ q[Len(q)] \in S
  OBVIOUS
<1>2. p \in Seq(S) /\ Len(p) = Len(q) - 1 /\ \A i \in 1..(Len(q) - 1) : p[i] = q[i]
  BY <1>1, Prefix
<1> HIDE DEF p
<1>3. /\ Append(p, q[Len(q)]) \in Seq(S) /\ Len(Append(p, q[Len(q)])) = Len(q)
      /\ \A i \in 1..Len(q) : Append(p, q[Len(q)])[i] = q[i]
  BY <1>1, <1>2
<1>4. Append(p, q[Len(q)]) = q
  BY <1>3, SameSequence
<1> QED BY <1>4 DEF p

\* Calls one behind the other.
LEMMA More ==
    ASSUME NEW S, NEW q \in Seq(S), NEW h \in Seq(S), NEW m \in Seq(S)
    PROVE  /\ Len(h) = 1 => q \o h = Append(q, h[1]) /\ q \o (h \o m) = Append(q, h[1]) \o m
           /\ Len(h) = 2 => /\ q \o h = Append(Append(q, h[1]), h[2])
                            /\ q \o (h \o m) = Append(Append(q, h[1]), h[2]) \o m
<1>1. q \o (h \o m) = (q \o h) \o m
  BY ConcatAssociative, SMTT(30)
<1>2. /\ Len(q) \in Nat /\ Len(h) \in Nat /\ q \o h \in Seq(S) /\ Len(q \o h) = Len(q) + Len(h)
      /\ \A i \in 1..Len(q) : (q \o h)[i] = q[i]
      /\ \A i \in 1..Len(h) : (q \o h)[Len(q) + i] = h[i] /\ h[i] \in S
  BY ConcatProperties
<1>3. ASSUME NEW r \in Seq(S), NEW x \in S
      PROVE  /\ Append(r, x) \in Seq(S) /\ Len(r) \in Nat /\ Len(Append(r, x)) = Len(r) + 1
             /\ \A i \in 1..Len(r) : Append(r, x)[i] = r[i]
             /\ Append(r, x)[Len(r) + 1] = x
  OBVIOUS
<1> DEFINE g == q \o h
<1> HIDE DEF g
<1>4. ASSUME Len(h) = 1
      PROVE  g = Append(q, h[1])
  <2>1. 1 \in 1..Len(h)
    BY <1>4
  <2>2. h[1] \in S /\ g[Len(q) + 1] = h[1]
    BY <1>2, <2>1 DEF g
  <2> DEFINE r == Append(q, h[1])
  <2>3. r \in Seq(S) /\ Len(r) = Len(q) + 1 /\ r[Len(q) + 1] = h[1] /\ \A i \in 1..Len(q) : r[i] = q[i]
    BY <1>3, <2>2
  <2> HIDE DEF r
  <2>4. Len(g) = Len(q) + 1 /\ g \in Seq(S) /\ \A i \in 1..Len(q) : g[i] = q[i]
    BY <1>2, <1>4 DEF g
  <2>5. \A i \in 1..Len(g) : i \in 1..Len(q) \/ i = Len(q) + 1
    BY <1>2, <2>4
  <2>6. \A i \in 1..Len(g) : g[i] = r[i]
    BY <2>2, <2>3, <2>4, <2>5
  <2>7. g = r
    BY <2>3, <2>4, <2>6, SameSequence
  <2> QED BY <2>7 DEF r
<1>5. ASSUME Len(h) = 2
      PROVE  g = Append(Append(q, h[1]), h[2])
  <2>1. 1 \in 1..Len(h) /\ 2 \in 1..Len(h)
    BY <1>5
  <2>2. h[1] \in S /\ g[Len(q) + 1] = h[1] /\ h[2] \in S /\ g[Len(q) + 2] = h[2]
    BY <1>2, <2>1 DEF g
  <2> DEFINE r == Append(q, h[1])
             z == Append(r, h[2])
  <2>3. r \in Seq(S) /\ Len(r) = Len(q) + 1 /\ r[Len(q) + 1] = h[1] /\ \A i \in 1..Len(q) : r[i] = q[i]
    BY <1>3, <2>2
  <2> HIDE DEF r
  <2>4. z \in Seq(S) /\ Len(z) = Len(r) + 1 /\ z[Len(r) + 1] = h[2] /\ \A i \in 1..Len(r) : z[i] = r[i]
    BY <1>3, <2>2, <2>3
  <2> HIDE DEF z
  <2>5. Len(g) = Len(q) + 2 /\ g \in Seq(S) /\ \A i \in 1..Len(q) : g[i] = q[i]
    BY <1>2, <1>5 DEF g
  <2>6. \A i \in 1..Len(g) : i \in 1..Len(q) \/ i = Len(q) + 1 \/ i = Len(q) + 2
    BY <1>2, <2>5
  <2>7. /\ \A i \in 1..Len(q) : i \in 1..Len(r)
        /\ Len(q) + 1 \in 1..Len(r) /\ Len(r) + 1 = Len(q) + 2
    BY <1>2, <2>3
  <2>8. \A i \in 1..Len(g) : g[i] = z[i]
    BY <2>2, <2>3, <2>4, <2>5, <2>6, <2>7
  <2>9. Len(z) = Len(g)
    BY <1>2, <2>3, <2>4, <2>5
  <2>10. g = z
    BY <2>4, <2>5, <2>8, <2>9, SameSequence
  <2> QED BY <2>10 DEF r, z
<1>6. g \o m = q \o (h \o m)
  BY <1>1 DEF g
<1> QED BY <1>4, <1>5, <1>6 DEF g

-----------------------------------------------------------------------------
(* Calls and returns.                                                      *)

Callers(st) == SubSeq(st, 1, Len(st) - 1)

LEMMA TaskNumbers ==
    ASSUME TokensOK
    PROVE  \A t \in TaskSet : t.open \in Nat /\ t.open \in 0..Len(tokens) /\ t.depth \in Nat
<1>1. Len(tokens) \in Nat
  BY DEF TokensOK
<1>2. ASSUME NEW t \in TaskSet PROVE t.open \in 0..Len(tokens) /\ t.depth \in Nat
  BY Zenon DEF TaskSet
<1>3. \A x \in 0..Len(tokens) : x \in Nat
  BY <1>1
<1> QED BY <1>2, <1>3

LEMMA OpensAre ==
    ASSUME NEW st \in Seq(TaskSet), NEW a \in TaskSet
    PROVE  Opens(Append(st, a)) = Opens(st) \cup ({a.open} \ {0})
<1>1. /\ Len(Append(st, a)) = Len(st) + 1 /\ Append(st, a)[Len(st) + 1] = a /\ Len(st) \in Nat
      /\ \A i \in 1..Len(st) : Append(st, a)[i] = st[i]
  OBVIOUS
<1>2. \A i \in 1..(Len(st) + 1) : i \in 1..Len(st) \/ i = Len(st) + 1
  BY <1>1
<1>3. (Len(st) + 1) \in 1..(Len(st) + 1) /\ \A i \in 1..Len(st) : i \in 1..(Len(st) + 1)
  BY <1>1
<1>4. \A x : (\E i \in 1..(Len(st) + 1) : Append(st, a)[i].open = x)
             <=> (\E i \in 1..Len(st) : st[i].open = x) \/ x = a.open
  BY <1>1, <1>2, <1>3
<1> QED BY <1>1, <1>4 DEF Opens

LEMMA PushStack ==
    ASSUME TokensOK, NEW st, NEW n \in Nat, StackInv(st, n), NEW a \in TaskSet, AtBracket(a), a.open < n,
           Placed(st, a), a.open # 0 => \A x \in Opens(st) : x < a.open
    PROVE  /\ StackInv(Append(st, a), n)
           /\ Opens(Append(st, a)) = Opens(st) \cup ({a.open} \ {0})
           /\ Len(Append(st, a)) = Len(st) + 1 /\ Len(st) \in Nat
           /\ Last(Append(st, a)) = a
           /\ Callers(Append(st, a)) = st
           /\ Loosened(Append(st, a)) => Loosened(st) \/ (a.k = "group" /\ a.open = 0)
<1>1. /\ st \in Seq(TaskSet)
      /\ \A i \in 1..Len(st) : /\ AtBracket(st[i]) /\ st[i].open < n
                               /\ Placed(SubSeq(st, 1, i - 1), st[i])
                               /\ st[i].open # 0 => \A j \in 1..(i - 1) : st[j].open < st[i].open
  BY DEF StackInv
<1> DEFINE r == Append(st, a)
<1>2. /\ r \in Seq(TaskSet) /\ Len(r) = Len(st) + 1 /\ r[Len(st) + 1] = a /\ Len(st) \in Nat
      /\ \A i \in 1..Len(st) : r[i] = st[i]
  BY <1>1
<1>3. \A i \in 1..(Len(st) + 1) : i - 1 \in 0..Len(st) /\ (i \in 1..Len(st) \/ i = Len(st) + 1)
  BY <1>2
<1>4. \A i \in 0..Len(st) : SubSeq(r, 1, i) = SubSeq(st, 1, i)
  BY <1>1, PrefixOfAppend
<1>5. SubSeq(r, 1, Len(st)) = st
  <2>1. 0 \in 0..Len(st)
    BY <1>2
  <2> QED BY <1>1, <2>1, PrefixOfAppend
<1> HIDE DEF r
<1>6. ASSUME NEW i \in 1..Len(st)
      PROVE  /\ AtBracket(r[i]) /\ r[i].open < n /\ Placed(SubSeq(r, 1, i - 1), r[i])
             /\ r[i].open # 0 => \A j \in 1..(i - 1) : r[j].open < r[i].open
  <2>1. i - 1 \in 0..Len(st) /\ \A j \in 1..(i - 1) : j \in 1..Len(st)
    BY <1>2
  <2> QED BY <1>1, <1>2, <1>4, <2>1
<1>7. a.open # 0 => \A j \in 1..Len(st) : r[j].open < a.open
  <2>1. \A j \in 1..Len(st) : st[j].open = 0 \/ st[j].open \in Opens(st)
    BY DEF Opens
  <2>2. a.open \in Nat
    BY TaskNumbers
  <2> QED BY <1>2, <2>1, <2>2
<1>8. (Len(st) + 1) - 1 = Len(st)
  BY <1>2
<1>9. StackInv(r, n)
  BY <1>2, <1>3, <1>5, <1>6, <1>7, <1>8 DEF StackInv
<1>10. Loosened(r) => Loosened(st) \/ (a.k = "group" /\ a.open = 0)
  BY <1>2, <1>3 DEF Loosened
<1> QED BY <1>1, <1>2, <1>5, <1>8, <1>9, <1>10, OpensAre DEF r, Last, Callers

LEMMA PopStack ==
    ASSUME NEW st, NEW n \in Nat, StackInv(st, n), Len(st) > 0
    PROVE  /\ StackInv(Callers(st), n) /\ Len(Callers(st)) = Len(st) - 1 /\ Len(st) \in Nat
           /\ Last(st) \in TaskSet /\ AtBracket(Last(st)) /\ Last(st).open < n
           /\ Placed(Callers(st), Last(st))
           /\ Opens(st) = Opens(Callers(st)) \cup ({Last(st).open} \ {0})
           /\ Last(st).open # 0 => \A x \in Opens(Callers(st)) : x < Last(st).open
           /\ Append(Callers(st), Last(st)) = st
           /\ \A i \in 1..(Len(st) - 1) : Callers(st)[i] = st[i]
           /\ Loosened(Callers(st)) => Loosened(st)
<1>1. /\ st \in Seq(TaskSet)
      /\ \A i \in 1..Len(st) : /\ AtBracket(st[i]) /\ st[i].open < n
                               /\ Placed(SubSeq(st, 1, i - 1), st[i])
                               /\ st[i].open # 0 => \A j \in 1..(i - 1) : st[j].open < st[i].open
  BY DEF StackInv
<1> DEFINE r == SubSeq(st, 1, Len(st) - 1)
<1>2. Len(st) \in Nat /\ Len(st) - 1 \in 0..Len(st) /\ Len(st) \in 1..Len(st) /\ st[Len(st)] \in TaskSet
  BY <1>1
<1>3. r \in Seq(TaskSet) /\ Len(r) = Len(st) - 1 /\ \A i \in 1..(Len(st) - 1) : r[i] = st[i]
  BY <1>1, <1>2, Prefix
<1>4. Append(r, st[Len(st)]) = st
  BY <1>1, LastApart
<1>5. \A i \in 0..(Len(st) - 1) : SubSeq(r, 1, i) = SubSeq(st, 1, i)
  BY <1>1, <1>2, PrefixOfPrefix
<1> HIDE DEF r
<1>6. ASSUME NEW i \in 1..Len(r)
      PROVE  /\ AtBracket(r[i]) /\ r[i].open < n /\ Placed(SubSeq(r, 1, i - 1), r[i])
             /\ r[i].open # 0 => \A j \in 1..(i - 1) : r[j].open < r[i].open
  <2>1. i \in 1..Len(st) /\ i \in 1..(Len(st) - 1) /\ i - 1 \in 0..(Len(st) - 1)
        /\ \A j \in 1..(i - 1) : j \in 1..(Len(st) - 1)
    BY <1>2, <1>3
  <2> QED BY <1>1, <1>3, <1>5, <2>1
<1>7. StackInv(r, n)
  BY <1>3, <1>6 DEF StackInv
<1>8. Opens(st) = Opens(r) \cup ({st[Len(st)].open} \ {0})
  BY <1>2, <1>3, <1>4, OpensAre
<1>9. /\ AtBracket(st[Len(st)]) /\ st[Len(st)].open < n /\ Placed(r, st[Len(st)])
      /\ st[Len(st)].open # 0 => \A x \in Opens(r) : x < st[Len(st)].open
  <2>1. \A x \in Opens(r) : \E j \in 1..(Len(st) - 1) : st[j].open = x
    BY <1>2, <1>3 DEF Opens
  <2> QED BY <1>1, <1>2, <2>1 DEF r
<1>10. Loosened(r) => Loosened(st)
  <2>1. \A i \in 1..(Len(st) - 1) : i \in 1..Len(st)
    BY <1>2
  <2> QED BY <1>3, <2>1 DEF Loosened
<1> QED BY <1>2, <1>3, <1>4, <1>7, <1>8, <1>9, <1>10 DEF Callers, Last, r

LEMMA StackLater ==
    ASSUME TokensOK, NEW st, NEW n \in Nat, NEW m \in Nat, n <= m, StackInv(st, n)
    PROVE  StackInv(st, m)
<1>1. \A i \in 1..Len(st) : st[i] \in TaskSet
  BY DEF StackInv
<1>2. \A i \in 1..Len(st) : st[i].open \in Nat
  BY <1>1, TaskNumbers
<1> QED BY <1>2 DEF StackInv

\* Calls that may be made anywhere.
LooseTask == { t \in TaskSet : t.k \in Loose /\ t.open = 0 }

LEMMA LooseMay ==
    ASSUME NEW st, Len(st) > 0 => Last(st).k \notin Recovery, NEW a \in LooseTask
    PROVE  Placed(st, a) /\ AtBracket(a) /\ a \in TaskSet /\ a.open = 0 /\ a.k \notin Recovery
  BY DEF Placed, AtBracket, LooseTask, Loose, Outside, Recovery, Parens, Squares, Braces

LEMMA CallStack ==
    ASSUME TokensOK, NEW st, NEW n \in Nat \ {0}, StackInv(st, n),
           Len(st) > 0 => Last(st).k \notin Recovery, NEW more \in Seq(LooseTask)
    PROVE  /\ StackInv(st \o more, n)
           /\ Opens(st \o more) = Opens(st)
           /\ Len(st \o more) > 0 => Last(st \o more).k \notin Recovery
           /\ Loosened(st \o more) => Loosened(st)
<1>1. /\ st \in Seq(TaskSet)
      /\ \A i \in 1..Len(st) : /\ AtBracket(st[i]) /\ st[i].open < n
                               /\ Placed(SubSeq(st, 1, i - 1), st[i])
                               /\ st[i].open # 0 => \A j \in 1..(i - 1) : st[j].open < st[i].open
  BY DEF StackInv
<1>2. \A i \in 1..Len(more) : more[i] \in LooseTask /\ more[i] \in TaskSet
  BY DEF LooseTask
<1>3. more \in Seq(TaskSet)
  <2>1. LooseTask \subseteq TaskSet
    BY DEF LooseTask
  <2> QED BY <2>1, SeqMonotonic
<1> DEFINE r == st \o more
<1>4. /\ r \in Seq(TaskSet) /\ Len(r) = Len(st) + Len(more) /\ Len(st) \in Nat /\ Len(more) \in Nat
      /\ \A i \in 1..Len(st) : r[i] = st[i]
      /\ \A i \in (Len(st) + 1)..(Len(st) + Len(more)) : r[i] = more[i - Len(st)]
  BY <1>1, <1>3
<1> HIDE DEF r
<1>5. ASSUME NEW i \in (Len(st) + 1)..Len(r)
      PROVE  r[i] \in LooseTask
  <2>1. i - Len(st) \in 1..Len(more)
    BY <1>4
  <2> QED BY <1>2, <1>4, <2>1
<1>6. ASSUME NEW i \in 1..Len(r) PROVE r[i].open # 0 => i \in 1..Len(st)
  <2>1. i \in (Len(st) + 1)..Len(r) \/ i \in 1..Len(st)
    BY <1>4
  <2> QED BY <1>5, <2>1 DEF LooseTask
<1>7. ASSUME NEW i \in 0..Len(r)
      PROVE  /\ SubSeq(r, 1, i) \in Seq(TaskSet) /\ Len(SubSeq(r, 1, i)) = i
             /\ \A j \in 1..i : SubSeq(r, 1, i)[j] = r[j]
  BY <1>4, Prefix
<1>8. ASSUME NEW i \in 0..Len(st) PROVE SubSeq(r, 1, i) = SubSeq(st, 1, i)
  <2>1. /\ SubSeq(st, 1, i) \in Seq(TaskSet) /\ Len(SubSeq(st, 1, i)) = i
        /\ \A j \in 1..i : SubSeq(st, 1, i)[j] = st[j]
    BY <1>1, Prefix
  <2>2. i \in 0..Len(r) /\ \A j \in 1..i : j \in 1..Len(st)
    BY <1>4
  <2>3. \A j \in 1..i : SubSeq(r, 1, i)[j] = SubSeq(st, 1, i)[j]
    BY <1>4, <1>7, <2>1, <2>2
  <2> QED BY <1>7, <2>1, <2>2, <2>3, SameSequence
<1>9. ASSUME NEW i \in Len(st)..Len(r), i > 0
      PROVE  r[i].k \notin Recovery
  <2>1. CASE i \in (Len(st) + 1)..Len(r)
    <3>1. r[i].k \in Loose
      BY <1>5, <2>1 DEF LooseTask
    <3> QED BY <3>1 DEF Loose, Recovery
  <2>2. CASE i = Len(st)
    BY <1>4, <1>9, <2>2 DEF Last
  <2> QED BY <1>4, <2>1, <2>2
<1>10. ASSUME NEW i \in 1..Len(r)
       PROVE  /\ AtBracket(r[i]) /\ r[i].open < n /\ Placed(SubSeq(r, 1, i - 1), r[i])
              /\ r[i].open # 0 => \A j \in 1..(i - 1) : r[j].open < r[i].open
  <2>1. CASE i \in 1..Len(st)
    <3>1. i - 1 \in 0..Len(st) /\ \A j \in 1..(i - 1) : j \in 1..Len(st)
      BY <1>4, <2>1
    <3> QED BY <1>1, <1>4, <1>8, <2>1, <3>1
  <2>2. CASE i \in (Len(st) + 1)..Len(r)
    <3>1. r[i] \in LooseTask /\ i - 1 \in Len(st)..Len(r) /\ i - 1 \in 0..Len(r)
      BY <1>4, <1>5, <2>2
    <3>2. Len(SubSeq(r, 1, i - 1)) = i - 1
          /\ (i - 1 > 0 => Last(SubSeq(r, 1, i - 1)) = r[i - 1])
      BY <1>7, <3>1 DEF Last
    <3>3. Len(SubSeq(r, 1, i - 1)) > 0 => Last(SubSeq(r, 1, i - 1)).k \notin Recovery
      BY <1>9, <3>1, <3>2
    <3>4. Placed(SubSeq(r, 1, i - 1), r[i]) /\ AtBracket(r[i]) /\ r[i].open = 0
      BY <3>1, <3>3, LooseMay
    <3> QED BY <3>4
  <2> QED BY <1>4, <2>1, <2>2
<1>11. StackInv(r, n)
  BY <1>4, <1>10 DEF StackInv
<1>12. Opens(r) = Opens(st)
  <2>1. \A i \in 1..Len(st) : i \in 1..Len(r)
    BY <1>4
  <2>2. \A x : x # 0 => ((\E i \in 1..Len(r) : r[i].open = x) <=> (\E i \in 1..Len(st) : st[i].open = x))
    BY <1>4, <1>6, <2>1
  <2>3. \A x : x \in Opens(r) <=> x # 0 /\ \E i \in 1..Len(r) : r[i].open = x
    BY DEF Opens
  <2>4. \A x : x \in Opens(st) <=> x # 0 /\ \E i \in 1..Len(st) : st[i].open = x
    BY DEF Opens
  <2>5. \A x : x \in Opens(r) <=> x \in Opens(st)
    BY <2>2, <2>3, <2>4
  <2> QED BY <2>5
<1>13. Len(r) > 0 => Last(r).k \notin Recovery
  <2>1. Len(r) > 0 => Len(r) \in Len(st)..Len(r)
    BY <1>4
  <2> QED BY <1>9, <2>1 DEF Last
<1>14. Loosened(r) => Loosened(st)
  <2>1. \A i \in (Len(st) + 1)..Len(r) : r[i].k # "group"
    BY <1>5 DEF LooseTask, Loose
  <2>2. \A i \in 1..Len(r) : i \in 1..Len(st) \/ i \in (Len(st) + 1)..Len(r)
    BY <1>4
  <2> QED BY <1>4, <2>1, <2>2 DEF Loosened
<1> QED BY <1>11, <1>12, <1>13, <1>14 DEF r

\* The kinds of calls.
LEMMA LooseCalls ==
    ASSUME TokensOK
    PROVE  /\ \A k \in Loose : Task(k) \in LooseTask
           /\ \A k \in Loose : \A of \in Of :
                  Loop(k, 0, of) \in LooseTask
           /\ Type \in Seq(LooseTask) /\ Pattern \in Seq(LooseTask)
           /\ \A of \in Of : Expr(of) \in Seq(LooseTask)
<1>1. 0 \in 0..Len(tokens) /\ 0 \in Nat
  BY DEF TokensOK
<1>2. \A k \in Loose : k \in Kind
  BY DEF Kind
<1>3. ASSUME NEW k \in Loose, NEW of \in Of
      PROVE  Loop(k, 0, of) \in LooseTask
  <2>1. Loop(k, 0, of) = [k |-> k, open |-> 0, of |-> of, depth |-> 0]
    BY DEF Loop
  <2>2. [k |-> k, open |-> 0, of |-> of, depth |-> 0] \in TaskSet
    BY <1>1, <1>2 DEF TaskSet
  <2> QED BY <2>1, <2>2 DEF LooseTask
<1>4. ASSUME NEW k \in Loose
      PROVE  Task(k) \in LooseTask
  <2>1. "none" \in Of
    BY DEF Of
  <2> QED BY <1>3, <2>1 DEF Task
<1>5. Type \in Seq(LooseTask) /\ Pattern \in Seq(LooseTask)
  <2>1. "type" \in Loose /\ "path" \in Loose /\ "pattern" \in Loose
    BY DEF Loose
  <2>2. Task("type") \in LooseTask /\ Task("path") \in LooseTask /\ Task("pattern") \in LooseTask
    BY <1>4, <2>1
  <2> QED BY <2>2 DEF Type, Pattern
<1>6. ASSUME NEW of \in Of
      PROVE  Expr(of) \in Seq(LooseTask)
  <2>1. "operand" \in Loose /\ "unary" \in Loose
    BY DEF Loose
  <2>2. Loop("operand", 0, of) \in LooseTask /\ Loop("unary", 0, of) \in LooseTask
    BY <1>3, <2>1
  <2> DEFINE a == Loop("operand", 0, of)
             b == Loop("unary", 0, of)
  <2> HIDE DEF a, b
  <2>3. a \in LooseTask /\ b \in LooseTask
    BY <2>2 DEF a, b
  <2>4. <<a, b>> \in Seq(LooseTask)
    BY <2>3
  <2> QED BY <2>4 DEF Expr, a, b
<1> QED BY <1>3, <1>4, <1>5, <1>6
-----------------------------------------------------------------------------
(* The cursor moves and tasks are called.                                  *)

\* Nothing to be taken stands behind u up to the place v.
Bare(u, v) == \A p \in (u.pos + 1)..v.pos : u.lost = {} => ~Declares(p)

\* v comes after u: no error is taken back.
After(u, v) == u.pos <= v.pos /\ u.errs \subseteq v.errs /\ v.lost = u.lost

LEMMA CursorType ==
    ASSUME TokensOK, NEW u, CursorInv(u)
    PROVE  /\ Len(tokens) \in Nat \ {0} /\ u.pos \in Nat /\ u.pos \in 1..Len(tokens)
           /\ u.ok \in BOOLEAN /\ u.path \in BOOLEAN /\ u.lost \in SUBSET (1..Len(tokens))
           /\ u.errs \in SUBSET {e \in Error : Sound(e)}
<1>1. Len(tokens) \in Nat \ {0}
  BY DEF TokensOK
<1>2. /\ u.pos \in 1..Len(tokens) /\ u.ok \in BOOLEAN /\ u.path \in BOOLEAN
      /\ u.lost \in SUBSET (1..Len(tokens)) /\ u.errs \in SUBSET {e \in Error : Sound(e)}
  BY DEF CursorInv, State
<1> QED BY <1>1, <1>2

LEMMA AboveNat ==
    ASSUME TokensOK, NEW n \in 1..Len(tokens), NEW b \in Nat
    PROVE  Above(b, n) \in Nat
<1> DEFINE S == { l \in (b + 1)..L(n - 1) : Open[n - 1][l] = "}" }
<1>1. L(n - 1) \in Int /\ b + 1 \in Int
  BY OpenStep
<1>2. S \subseteq (b + 1)..L(n - 1) /\ IsFiniteSet((b + 1)..L(n - 1))
  BY <1>1, FS_Interval
<1>3. IsFiniteSet(S)
  BY <1>2, FS_Subset
<1> QED BY <1>3, FS_CardinalityType DEF Above

LEMMA OpensRange ==
    ASSUME TokensOK, NEW st, NEW n \in 1..Len(tokens), StackInv(st, n)
    PROVE  \A b \in Opens(st) : b \in 1..(n - 1) /\ b \in 1..Len(tokens) /\ L(b) \in Nat
<1> SUFFICES ASSUME NEW b \in Opens(st)
             PROVE  b \in 1..(n - 1) /\ b \in 1..Len(tokens) /\ L(b) \in Nat
  OBVIOUS
<1>1. PICK i \in 1..Len(st) : st[i].open = b /\ b # 0
  BY DEF Opens
<1>2. st[i] \in TaskSet /\ st[i].open < n
  BY DEF StackInv
<1>3. b \in Nat /\ Len(tokens) \in Nat
  BY <1>1, <1>2, TaskNumbers DEF TokensOK
<1>4. b \in 1..(n - 1) /\ b \in 1..Len(tokens)
  BY <1>1, <1>2, <1>3
<1> QED BY <1>4, OpenStep

\* From a cursor to one behind it, with another stack.
LEMMA Step ==
    ASSUME TokensOK, NEW u, NEW st, NEW tk, Inv(u, st, tk), Off(u),
           NEW v, CursorInv(v), After(u, v), Bare(u, v),
           NEW st2, StackInv(st2, v.pos), Len(st2) > 0 => Last(st2).k \notin Recovery,
           Loosened(st2) => Loosened(st),
           Sane(v.pos) /\ Holds(Opens(st), u.pos) => Holds(Opens(st2), v.pos),
           v.errs = {} /\ Holds(Opens(st), u.pos) /\ Fit(Opens(st), u.pos)
               => Holds(Opens(st2), v.pos) /\ Fit(Opens(st2), v.pos)
    PROVE  Calm(v, st2, tk)
<1>1. /\ Len(tokens) \in Nat \ {0} /\ u.pos \in 1..Len(tokens) /\ v.pos \in 1..Len(tokens)
      /\ u.pos <= v.pos
  BY CursorType DEF Inv, After
<1>2. BracketInv(v, st2)
  <2>1. ASSUME v.errs = {}
        PROVE  Holds(Opens(st2), v.pos) /\ Fit(Opens(st2), v.pos)
    BY <2>1 DEF After, Inv, BracketInv
  <2>2. ASSUME Ahead(v)
        PROVE  Holds(Opens(st2), v.pos)
    <3>1. PICK p \in v.pos..Len(tokens) : p > 1 /\ Declares(p)
      BY <2>2 DEF Ahead
    <3>2. Ahead(u)
      <4>1. p \in u.pos..Len(tokens)
        BY <1>1
      <4> QED BY <2>2, <3>1, <4>1 DEF Ahead, After
    <3>3. p \in 1..Len(tokens) /\ v.pos \in 1..p /\ Open[p - 1] = <<>>
      BY <1>1, <3>1 DEF Declares
    <3>4. Sane(v.pos)
      BY <3>3, SaneBefore
    <3> QED BY <3>2, <3>4 DEF Inv, BracketInv
  <2> QED BY <2>1, <2>2 DEF BracketInv
<1>3. Off(v)
  <2>1. CASE v.pos = u.pos
    BY <2>1 DEF Off, After
  <2>2. CASE v.pos # u.pos
    <3>1. v.pos \in (u.pos + 1)..v.pos
      BY <1>1, <2>2
    <3> QED BY <3>1 DEF Off, After, Bare
  <2> QED BY <2>1, <2>2
<1>4. TakenInv(v, tk)
  <2> SUFFICES ASSUME NEW p \in 2..(v.pos - 1), Declares(p)
               PROVE  p \in tk \/ \E q \in v.lost : q < p
    BY DEF TakenInv
  <2>1. \A q \in u.lost : q < u.pos \/ u.pos = Len(tokens)
    BY DEF Inv, CursorInv
  <2>2. v.lost = u.lost /\ u.lost \subseteq 1..Len(tokens)
    BY CursorType DEF After, Inv
  <2>3. CASE p < u.pos
    <3>1. p \in 2..(u.pos - 1)
      BY <1>1, <2>3
    <3> QED BY <2>2, <3>1 DEF Inv, TakenInv
  <2>4. CASE p >= u.pos
    <3>1. u.pos # Len(tokens)
      BY <1>1, <2>4
    <3>2. \A q \in u.lost : q < p
      BY <1>1, <2>1, <2>2, <2>4, <3>1
    <3>3. u.lost # {}
      <4>1. CASE p = u.pos
        BY <1>1, <4>1 DEF Off
      <4>2. CASE p # u.pos
        <5>1. p \in (u.pos + 1)..v.pos
          BY <1>1, <2>4, <4>2
        <5> QED BY <5>1 DEF Bare
      <4> QED BY <4>1, <4>2
    <3> QED BY <2>2, <3>2, <3>3
  <2> QED BY <1>1, <2>3, <2>4
<1>5. RecoveryInv(v, st2) /\ LineInv(v, st2)
  BY <1>3 DEF RecoveryInv, LineInv
<1>6. LostInv(v, st2)
  BY DEF LostInv, Inv, After
<1> QED BY <1>2, <1>3, <1>4, <1>5, <1>6 DEF Inv, Calm

\* The tasks change, and open the same brackets.
LEMMA Change ==
    ASSUME TokensOK, NEW u, NEW st, NEW tk, Inv(u, st, tk), Off(u),
           NEW st2, StackInv(st2, u.pos), Len(st2) > 0 => Last(st2).k \notin Recovery,
           Opens(st2) = Opens(st), Loosened(st2) => Loosened(st)
    PROVE  Calm(u, st2, tk)
<1>1. CursorInv(u) /\ u.pos \in Nat
  BY CursorType DEF Inv
<1>2. After(u, u) /\ Bare(u, u)
  BY <1>1 DEF After, Bare
<1> QED BY <1>1, <1>2, Step

\* A task returns; one that has not closed its bracket leaves an error.
LEMMA Return ==
    ASSUME TokensOK, NEW u, NEW st, NEW tk, Inv(u, st, tk), Off(u), Len(st) > 0,
           Last(st).open = 0 \/ u.errs # {}
    PROVE  Calm(u, Callers(st), tk)
<1>1. CursorInv(u) /\ u.pos \in Nat /\ StackInv(st, u.pos)
  BY CursorType DEF Inv
<1>2. After(u, u) /\ Bare(u, u)
  BY <1>1 DEF After, Bare
<1>3. /\ StackInv(Callers(st), u.pos) /\ Placed(Callers(st), Last(st))
      /\ Opens(st) = Opens(Callers(st)) \cup ({Last(st).open} \ {0})
      /\ Loosened(Callers(st)) => Loosened(st)
  BY <1>1, PopStack
<1>4. Len(Callers(st)) > 0 => Last(Callers(st)).k \notin Recovery
  BY <1>3 DEF Placed
<1>5. CASE Last(st).open = 0
  <2>1. Opens(Callers(st)) = Opens(st)
    BY <1>3, <1>5
  <2> QED BY <1>3, <1>4, <2>1, Change
<1>6. CASE u.errs # {}
  <2>1. Opens(Callers(st)) \subseteq Opens(st)
    BY <1>3
  <2>2. Holds(Opens(st), u.pos) => Holds(Opens(Callers(st)), u.pos)
    BY <2>1 DEF Holds
  <2> QED BY <1>1, <1>2, <1>3, <1>4, <1>6, <2>2, Step
<1> QED BY <1>5, <1>6

\* Tasks that may stand anywhere are called.
LEMMA Calls ==
    ASSUME TokensOK, NEW u, NEW st, NEW tk, Calm(u, st, tk), NEW more \in Seq(LooseTask)
    PROVE  Calm(u, st \o more, tk)
<1>1. CursorInv(u) /\ u.pos \in Nat \ {0} /\ StackInv(st, u.pos)
  BY CursorType DEF Inv, Calm
<1>2. /\ StackInv(st \o more, u.pos) /\ Opens(st \o more) = Opens(st)
      /\ Loosened(st \o more) => Loosened(st)
      /\ Len(st \o more) > 0 => Last(st \o more).k \notin Recovery
  BY <1>1, CallStack DEF Calm
<1> QED BY <1>2, Change DEF Calm

\* A task is called that has not opened a bracket.
LEMMA Call ==
    ASSUME TokensOK, NEW u, NEW st, NEW tk, Calm(u, st, tk),
           NEW a \in TaskSet, AtBracket(a), a.open = 0, Placed(st, a), a.k # "group"
    PROVE  /\ a.k \notin Recovery => Calm(u, Append(st, a), tk)
           /\ a.k \in Recovery /\ u.errs # {} /\ a.depth = 0 => Inv(u, Append(st, a), tk)
<1>1. CursorInv(u) /\ u.pos \in Nat \ {0} /\ StackInv(st, u.pos)
  BY CursorType DEF Inv, Calm
<1>2. /\ StackInv(Append(st, a), u.pos) /\ Opens(Append(st, a)) = Opens(st)
      /\ Last(Append(st, a)) = a /\ Len(Append(st, a)) > 0
      /\ Loosened(Append(st, a)) => Loosened(st)
  <2>1. 0 < u.pos /\ {a.open} \ {0} = {}
    BY <1>1
  <2>2. /\ StackInv(Append(st, a), u.pos) /\ Opens(Append(st, a)) = Opens(st) \cup ({a.open} \ {0})
        /\ Last(Append(st, a)) = a /\ Len(Append(st, a)) = Len(st) + 1 /\ Len(st) \in Nat
        /\ Loosened(Append(st, a)) => Loosened(st)
    BY <1>1, <2>1, PushStack
  <2> QED BY <2>1, <2>2
<1>3. a.k \notin Recovery => Calm(u, Append(st, a), tk)
  BY <1>2, Change DEF Calm
<1>4. ASSUME a.k \in Recovery, u.errs # {}, a.depth = 0
      PROVE  Inv(u, Append(st, a), tk)
  <2>1. RecoveryInv(u, Append(st, a))
    <3>3. u.pos \in 1..Len(tokens)
      BY <1>1, CursorType
    <3>1. \A b \in Nat : 0 <= Above(b, u.pos)
      BY <3>3, AboveNat
    <3>2. \A b \in Opens(st) : L(b) \in Nat
      BY <1>1, <3>3, OpensRange
    <3> QED BY <1>2, <1>4, <3>1, <3>2 DEF RecoveryInv
  <2>2. BracketInv(u, Append(st, a)) /\ LineInv(u, Append(st, a)) /\ LostInv(u, Append(st, a))
    BY <1>2 DEF Calm, Inv, BracketInv, LineInv, LostInv
  <2> QED BY <1>2, <2>1, <2>2 DEF Calm, Inv
<1> QED BY <1>3, <1>4

\* A task goes on as another one that knows the same bracket.
LEMMA Turn ==
    ASSUME TokensOK, NEW u, NEW st, NEW tk, Calm(u, st, tk), Len(st) > 0,
           NEW a \in TaskSet, AtBracket(a), a.open = Last(st).open, Placed(Callers(st), a),
           a.k \notin Recovery, a.k # "group"
    PROVE  Calm(u, Append(Callers(st), a), tk)
<1>1. CursorInv(u) /\ u.pos \in Nat \ {0} /\ StackInv(st, u.pos)
  BY CursorType DEF Inv, Calm
<1>2. /\ StackInv(Callers(st), u.pos) /\ Last(st).open < u.pos
      /\ Opens(st) = Opens(Callers(st)) \cup ({Last(st).open} \ {0})
      /\ Loosened(Callers(st)) => Loosened(st)
      /\ Last(st).open # 0 => \A x \in Opens(Callers(st)) : x < Last(st).open
  BY <1>1, PopStack
<1>3. /\ StackInv(Append(Callers(st), a), u.pos) /\ Opens(Append(Callers(st), a)) = Opens(st)
      /\ Last(Append(Callers(st), a)) = a
      /\ Loosened(Append(Callers(st), a)) => Loosened(st)
  BY <1>1, <1>2, PushStack
<1> QED BY <1>3, Change DEF Calm
-----------------------------------------------------------------------------
(* What the cursor does.                                                   *)

\* What is read on one line, with the brackets closed that it opens.
Reads(u, v) == /\ After(u, v) /\ Smooth(u.pos, v.pos)
               /\ \A i \in u.pos..(v.pos - 1) : tokens[i] # "nl"

LEMMA Reading ==
    ASSUME TokensOK, NEW u, NEW st, NEW tk, Calm(u, st, tk), NEW v, CursorInv(v), Reads(u, v)
    PROVE  Calm(v, st, tk)
<1>1. /\ CursorInv(u) /\ Len(tokens) \in Nat /\ u.pos \in 1..Len(tokens) /\ v.pos \in u.pos..Len(tokens)
      /\ u.pos \in Nat /\ v.pos \in Nat /\ u.pos <= v.pos
  BY CursorType DEF Calm, Inv, Reads, After
<1>2. Bare(u, v)
  <2> SUFFICES ASSUME NEW p \in (u.pos + 1)..v.pos PROVE ~Declares(p)
    BY DEF Bare
  <2>1. p - 1 \in u.pos..(v.pos - 1)
    BY <1>1
  <2> QED BY <2>1 DEF Reads, Declares
<1>3. StackInv(st, v.pos)
  BY <1>1, StackLater DEF Calm, Inv
<1>4. /\ Holds(Opens(st), u.pos) => Holds(Opens(st), v.pos)
      /\ Fit(Opens(st), u.pos) => Fit(Opens(st), v.pos)
  BY <1>1, HoldsSmooth DEF Reads
<1> QED BY <1>2, <1>3, <1>4, Step DEF Calm, Reads

LEMMA NewlinesAre ==
    ASSUME TokensOK, NEW u, CursorInv(u)
    PROVE  /\ CursorInv(SkipNewlines(u)) /\ After(u, SkipNewlines(u))
           /\ SkipNewlines(u).pos \in u.pos..Len(tokens)
           /\ SkipNewlines(u).ok = u.ok /\ SkipNewlines(u).errs = u.errs
           /\ At(SkipNewlines(u)) # "nl"
           /\ \A q \in u.pos..(SkipNewlines(u).pos - 1) : tokens[q] = "nl"
<1>1. /\ Len(tokens) \in Nat \ {0} /\ u.pos \in 1..Len(tokens)
  BY CursorType
<1> DEFINE S == { p \in u.pos..Len(tokens) : tokens[p] # "nl" }
           P(p) == /\ tokens[p] # "nl"
                   /\ \A q \in u.pos..(p - 1) : tokens[q] = "nl"
           v == CHOOSE p \in u.pos..Len(tokens) : P(p)
<1>2. Len(tokens) \in S
  <2>1. tokens[Len(tokens)] = "eof"
    BY <1>1 DEF TokensOK
  <2> QED BY <1>1, <2>1
<1>3. S # {} /\ S \in SUBSET Nat
  BY <1>1, <1>2
<1>4. PICK p \in S : \A k \in S : p <= k
  BY <1>3, NatLeast
<1>5. p \in u.pos..Len(tokens) /\ P(p)
  <2>1. ASSUME NEW q \in u.pos..(p - 1) PROVE tokens[q] = "nl"
    <3>1. q \in u.pos..Len(tokens) /\ ~(p <= q)
      BY <1>1, <1>4
    <3> QED BY <1>4, <3>1
  <2> QED BY <1>4, <2>1
<1>6. v \in u.pos..Len(tokens) /\ P(v)
  BY <1>5
<1> HIDE DEF v
<1>7. SkipNewlines(u) = [u EXCEPT !.pos = v]
  BY DEF SkipNewlines, v
<1>8. u \in State
  BY DEF CursorInv
<1>9. /\ [u EXCEPT !.pos = v] \in State
      /\ [u EXCEPT !.pos = v].pos = v /\ [u EXCEPT !.pos = v].ok = u.ok
      /\ [u EXCEPT !.pos = v].errs = u.errs /\ [u EXCEPT !.pos = v].lost = u.lost
  BY <1>1, <1>6, <1>8 DEF State
<1>10. \A q \in u.lost : q < v \/ v = Len(tokens)
  BY <1>1, <1>6, CursorType DEF CursorInv
<1> QED BY <1>1, <1>6, <1>7, <1>9, <1>10 DEF CursorInv, After, At

\* Empty lines are passed, to a declaration only where it is known not to be one to be taken.
LEMMA Newlines ==
    ASSUME TokensOK, NEW u, NEW st, NEW tk, Inv(u, st, tk), Len(st) > 0 => Last(st).k \notin Recovery,
           \/ At(SkipNewlines(u)) \notin DeclStart
           \/ Off(u) /\ Opens(st) # {}
    PROVE  Calm(SkipNewlines(u), st, tk)
<1> DEFINE v == SkipNewlines(u)
<1>1. CursorInv(u) /\ Len(tokens) \in Nat /\ u.pos \in 1..Len(tokens) /\ u.pos \in Nat
  BY CursorType DEF Inv
<1>2. /\ CursorInv(v) /\ After(u, v) /\ v.pos \in u.pos..Len(tokens) /\ v.pos \in Nat /\ At(v) # "nl"
      /\ v.errs = u.errs
      /\ \A q \in u.pos..(v.pos - 1) : tokens[q] = "nl"
  BY <1>1, NewlinesAre
<1> HIDE DEF v
<1>3. \A q \in u.pos..(v.pos - 1) : tokens[q] \notin Bracket /\ tokens[q] \notin DeclStart
  BY <1>2 DEF Bracket, Opening, Closing, DeclStart
<1>4. Smooth(u.pos, v.pos)
  BY <1>1, <1>2, <1>3, FlatIsSmooth
<1>5. /\ Holds(Opens(st), u.pos) => Holds(Opens(st), v.pos)
      /\ Fit(Opens(st), u.pos) => Fit(Opens(st), v.pos)
  BY <1>1, <1>2, <1>4, HoldsSmooth
<1>6. u.lost = {} /\ v.pos > 1 => At(v) \notin DeclStart \/ ~Declares(v.pos)
  <2> SUFFICES ASSUME u.lost = {}, v.pos > 1, Declares(v.pos), Off(u), Opens(st) # {} PROVE FALSE
    BY DEF v
  <2>1. v.pos \in u.pos..Len(tokens)
    BY <1>2
  <2>2. Ahead(u)
    BY <2>1 DEF Ahead
  <2>3. Holds(Opens(st), v.pos)
    BY <1>5, <2>2 DEF Inv, BracketInv
  <2>4. PICK o \in Opens(st) : o \in 1..(v.pos - 1) /\ tokens[o] \in Opening /\ Still(o, v.pos)
    BY <2>3 DEF Holds
  <2>5. o \in 1..Len(tokens) /\ v.pos - 1 \in o..(v.pos - 1)
    BY <1>1, <1>2, <2>4
  <2>6. L(o) >= 1 /\ L(v.pos - 1) >= L(o) /\ L(o) \in Nat
    BY <2>4, <2>5, OpenStep DEF Still
  <2>7. L(v.pos - 1) = 0
    BY DEF Declares, L
  <2> QED BY <2>6, <2>7
<1>7. Off(u)
  <2>1. CASE At(v) \notin DeclStart
    <3>1. tokens[u.pos] \notin DeclStart
      <4>1. v.pos = u.pos \/ u.pos \in u.pos..(v.pos - 1)
        BY <1>1, <1>2
      <4> QED BY <1>3, <2>1, <4>1 DEF At
    <3> QED BY <3>1 DEF Off, Declares
  <2> QED BY <2>1 DEF v
<1>8. Bare(u, v)
  <2> SUFFICES ASSUME NEW p \in (u.pos + 1)..v.pos, u.lost = {}, Declares(p) PROVE FALSE
    BY DEF Bare
  <2>1. p = v.pos \/ p \in u.pos..(v.pos - 1)
    BY <1>1, <1>2
  <2>2. p > 1
    BY <1>1
  <2> QED BY <1>3, <1>6, <2>1, <2>2 DEF Declares, At
<1>9. StackInv(st, v.pos)
  BY <1>1, <1>2, StackLater DEF Inv
<1>10. Calm(v, st, tk)
  BY <1>2, <1>5, <1>7, <1>8, <1>9, Step
<1> QED BY <1>10 DEF v

LEMMA BumpIs ==
    ASSUME TokensOK, NEW u, CursorInv(u)
    PROVE  /\ CursorInv(Bump(u)) /\ After(u, Bump(u))
           /\ Bump(u).ok = u.ok /\ Bump(u).errs = u.errs /\ Bump(u).lost = u.lost
           /\ At(u) # "eof" => Bump(u).pos = u.pos + 1 /\ u.pos < Len(tokens)
           /\ At(u) = "eof" => Bump(u).pos = u.pos /\ u.pos = Len(tokens)
<1>1. /\ Len(tokens) \in Nat \ {0} /\ u.pos \in 1..Len(tokens) /\ u \in State
      /\ u.lost \in SUBSET (1..Len(tokens))
  BY CursorType DEF CursorInv
<1>2. At(u) = "eof" <=> u.pos = Len(tokens)
  BY <1>1 DEF TokensOK, At
<1> DEFINE p == IF u.pos < Len(tokens) THEN u.pos + 1 ELSE u.pos
<1>3. p \in 1..Len(tokens) /\ u.pos <= p
  BY <1>1
<1>4. At(u) # "eof" => p = u.pos + 1 /\ u.pos < Len(tokens)
  BY <1>1, <1>2
<1>5. At(u) = "eof" => p = u.pos /\ u.pos = Len(tokens)
  BY <1>1, <1>2
<1>6. Bump(u) = [u EXCEPT !.pos = p]
  BY DEF Bump
<1> HIDE DEF p
<1>7. /\ [u EXCEPT !.pos = p] \in State
      /\ [u EXCEPT !.pos = p].pos = p /\ [u EXCEPT !.pos = p].ok = u.ok
      /\ [u EXCEPT !.pos = p].errs = u.errs /\ [u EXCEPT !.pos = p].lost = u.lost
  BY <1>1, <1>3 DEF State
<1>8. \A q \in u.lost : q < p \/ p = Len(tokens)
  BY <1>1, <1>3, <1>5 DEF CursorInv
<1> QED BY <1>3, <1>4, <1>5, <1>6, <1>7, <1>8 DEF CursorInv, After

\* A task is called behind the bracket it knows.
LEMMA OpeningOne ==
    ASSUME TokensOK, NEW u, NEW st, NEW tk, Calm(u, st, tk), At(u) \in Opening,
           NEW a \in TaskSet, a.open = u.pos, AtBracket(a), Placed(st, a), a.k \notin Recovery
    PROVE  Calm(Bump(u), Append(st, a), tk)
<1> DEFINE v == Bump(u)
<1>1. /\ CursorInv(u) /\ Len(tokens) \in Nat /\ u.pos \in 1..Len(tokens) /\ u.pos \in Nat
      /\ StackInv(st, u.pos)
  BY CursorType DEF Calm, Inv
<1>2. At(u) # "eof" /\ At(u) # "nl"
  BY DEF Opening
<1>3. CursorInv(v) /\ After(u, v) /\ v.pos = u.pos + 1 /\ u.pos \in 1..(Len(tokens) - 1) /\ v.pos \in Nat
  BY <1>1, <1>2, BumpIs
<1> HIDE DEF v
<1>4. Bare(u, v)
  BY <1>1, <1>2, <1>3 DEF Bare, Declares, At
<1>5. /\ StackInv(Append(st, a), v.pos)
      /\ Opens(Append(st, a)) = Opens(st) \cup {u.pos}
      /\ Last(Append(st, a)) = a
      /\ Loosened(Append(st, a)) => Loosened(st)
  <2>1. StackInv(st, v.pos) /\ u.pos < v.pos /\ {u.pos} \ {0} = {u.pos}
    BY <1>1, <1>3, StackLater
  <2>2. \A x \in Opens(st) : x < u.pos
    BY <1>1, OpensRange
  <2>3. /\ StackInv(Append(st, a), v.pos)
        /\ Opens(Append(st, a)) = Opens(st) \cup ({a.open} \ {0})
        /\ Last(Append(st, a)) = a
        /\ Loosened(Append(st, a)) => Loosened(st) \/ a.open = 0
    BY <1>3, <2>1, <2>2, PushStack
  <2> QED BY <1>1, <2>1, <2>3
<1>6. /\ Holds(Opens(st), u.pos) => Holds(Opens(Append(st, a)), v.pos)
      /\ Fit(Opens(st), u.pos) => Fit(Opens(Append(st, a)), v.pos)
  BY <1>3, <1>5, HoldsOpen DEF At
<1>7. Calm(v, Append(st, a), tk)
  BY <1>3, <1>4, <1>5, <1>6, Step DEF Calm
<1> QED BY <1>7 DEF v

\* The innermost bracket is the one the last task opened.
LEMMA Innermost ==
    ASSUME TokensOK, NEW st, NEW n \in 1..Len(tokens), StackInv(st, n), Len(st) > 0, Last(st).open # 0
    PROVE  Last(st).open \in Opens(st) /\ \A x \in Opens(st) : x <= Last(st).open
<1>1. /\ Opens(st) = Opens(Callers(st)) \cup ({Last(st).open} \ {0})
      /\ \A x \in Opens(Callers(st)) : x < Last(st).open
  BY PopStack
<1>2. Last(st).open \in Opens(st)
  BY <1>1
<1>3. \A x \in Opens(st) : x \in Nat
  BY OpensRange
<1>4. \A x \in Opens(st) : x \in Opens(Callers(st)) \/ x = Last(st).open
  BY <1>1
<1>5. \A x \in Opens(st) : x <= Last(st).open
  <2> SUFFICES ASSUME NEW x \in Opens(st) PROVE x <= Last(st).open
    OBVIOUS
  <2>1. x \in Nat /\ Last(st).open \in Nat
    BY <1>2, <1>3
  <2>2. CASE x \in Opens(Callers(st))
    <3>1. x < Last(st).open
      BY <1>1, <2>2
    <3> QED BY <2>1, <3>1
  <2> QED BY <1>4, <2>1, <2>2
<1> QED BY <1>2, <1>5

\* The bracket a task opened is closed, and the task returns.
LEMMA ClosingOne ==
    ASSUME TokensOK, NEW u, NEW st, NEW tk, Calm(u, st, tk), Len(st) > 0, Last(st).open # 0,
           At(u) = Closer(tokens[Last(st).open])
    PROVE  Calm(Bump(u), Callers(st), tk)
<1> DEFINE v == Bump(u)
           b == Last(st).open
<1>1. /\ CursorInv(u) /\ Len(tokens) \in Nat /\ u.pos \in 1..Len(tokens) /\ u.pos \in Nat
      /\ StackInv(st, u.pos)
  BY CursorType DEF Calm, Inv
<1>2. /\ StackInv(Callers(st), u.pos) /\ Placed(Callers(st), Last(st)) /\ AtBracket(Last(st))
      /\ Opens(st) = Opens(Callers(st)) \cup ({b} \ {0})
      /\ \A x \in Opens(Callers(st)) : x < b
      /\ Loosened(Callers(st)) => Loosened(st)
  BY <1>1, PopStack
<1>3. tokens[b] \in Opening
  BY <1>2 DEF AtBracket, Opening
<1>4. At(u) # "eof" /\ At(u) # "nl"
  BY <1>3 DEF Opening, Closer
<1>5. CursorInv(v) /\ After(u, v) /\ v.pos = u.pos + 1 /\ v.pos \in Nat
  BY <1>1, <1>4, BumpIs
<1>6. b \in Opens(st) /\ \A x \in Opens(st) : x <= b
  BY <1>1, Innermost
<1>7. Opens(Callers(st)) = Opens(st) \ {b}
  <2>1. b \notin Opens(Callers(st))
    <3>1. b \in Nat
      BY <1>1, <1>6, OpensRange
    <3> QED BY <1>2, <3>1
  <2> QED BY <1>2, <2>1
<1> HIDE DEF v, b
<1>8. Bare(u, v)
  BY <1>1, <1>4, <1>5 DEF Bare, Declares, At
<1>9. StackInv(Callers(st), v.pos) /\ (Len(Callers(st)) > 0 => Last(Callers(st)).k \notin Recovery)
  <2>1. u.pos <= v.pos
    BY <1>1, <1>5
  <2>2. StackInv(Callers(st), v.pos)
    BY <1>1, <1>2, <1>5, <2>1, StackLater
  <2> QED BY <1>2, <2>2 DEF Placed
<1>10. ASSUME Holds(Opens(st), u.pos)
       PROVE  /\ Sane(u.pos + 1) => Holds(Opens(st) \ {b}, u.pos + 1)
              /\ Fit(Opens(st), u.pos) => /\ Holds(Opens(st) \ {b}, u.pos + 1)
                                          /\ Fit(Opens(st) \ {b}, u.pos + 1)
  <2>1. tokens[u.pos] = Closer(tokens[b])
    BY DEF At, b
  <2> QED BY <1>1, <1>6, <1>10, <2>1, HoldsClose
<1>11. Calm(v, Callers(st), tk)
  BY <1>2, <1>5, <1>7, <1>8, <1>9, <1>10, Step DEF Calm
<1> QED BY <1>11 DEF v

LEMMA SkipIs ==
    ASSUME TokensOK, NEW u, CursorInv(u), NEW stop, u.errs # {}
    PROVE  /\ CursorInv(SkipTo(u, stop)) /\ After(u, SkipTo(u, stop))
           /\ SkipTo(u, stop).pos \in u.pos..Len(tokens)
           /\ SkipTo(u, stop).ok = TRUE /\ SkipTo(u, stop).errs = u.errs
           /\ At(SkipTo(u, stop)) \in stop \cup {"eof"}
           /\ \A q \in u.pos..(SkipTo(u, stop).pos - 1) : tokens[q] \notin stop \cup {"eof"}
<1>1. /\ Len(tokens) \in Nat \ {0} /\ u.pos \in 1..Len(tokens)
  BY CursorType
<1> DEFINE S == { p \in u.pos..Len(tokens) : tokens[p] \in stop \cup {"eof"} }
           P(p) == /\ tokens[p] \in stop \cup {"eof"}
                   /\ \A q \in u.pos..(p - 1) : tokens[q] \notin stop \cup {"eof"}
           v == CHOOSE p \in u.pos..Len(tokens) : P(p)
<1>2. Len(tokens) \in S
  <2>1. tokens[Len(tokens)] = "eof"
    BY <1>1 DEF TokensOK
  <2> QED BY <1>1, <2>1
<1>3. S # {} /\ S \in SUBSET Nat
  BY <1>1, <1>2
<1>4. PICK p \in S : \A k \in S : p <= k
  BY <1>3, NatLeast
<1>5. p \in u.pos..Len(tokens) /\ P(p)
  <2>1. ASSUME NEW q \in u.pos..(p - 1) PROVE tokens[q] \notin stop \cup {"eof"}
    <3>1. q \in u.pos..Len(tokens) /\ ~(p <= q)
      BY <1>1, <1>4
    <3> QED BY <1>4, <3>1
  <2> QED BY <1>4, <2>1
<1>6. v \in u.pos..Len(tokens) /\ P(v)
  BY <1>5
<1> HIDE DEF v
<1>7. SkipTo(u, stop) = [u EXCEPT !.ok = TRUE, !.pos = v]
  BY DEF SkipTo, v
<1>8. u \in State
  BY DEF CursorInv
<1> DEFINE w == [u EXCEPT !.ok = TRUE, !.pos = v]
<1>9. w \in State /\ w.pos = v /\ w.ok = TRUE /\ w.errs = u.errs /\ w.lost = u.lost
  <2>1. v \in 1..Len(tokens)
    BY <1>1, <1>6
  <2>2. w.pos = v /\ w.ok = TRUE /\ w.errs = u.errs /\ w.lost = u.lost
    BY <1>8 DEF State
  <2>3. w \in State
    BY <2>1, <1>8 DEF State
  <2> QED BY <2>2, <2>3
<1>10. \A q \in u.lost : q < v \/ v = Len(tokens)
  BY <1>1, <1>6, CursorType DEF CursorInv
<1> HIDE DEF w
<1>11. SkipTo(u, stop) = w
  BY <1>7 DEF w
<1> QED BY <1>1, <1>6, <1>9, <1>10, <1>11 DEF CursorInv, After, At

\* Recovery passes no token that closes the innermost bracket, and no end of a line.
LEMMA Skipping ==
    ASSUME TokensOK, NEW u, NEW st, NEW tk, Calm(u, st, tk), u.errs # {},
           NEW stop, "nl" \in stop,
           NEW b \in Opens(st), \A x \in Opens(st) : x <= b, Closer(tokens[b]) \in stop
    PROVE  Calm(SkipTo(u, stop), st, tk)
<1> DEFINE v == SkipTo(u, stop)
<1>1. /\ CursorInv(u) /\ Len(tokens) \in Nat /\ u.pos \in 1..Len(tokens) /\ u.pos \in Nat
      /\ StackInv(st, u.pos)
  BY CursorType DEF Calm, Inv
<1>2. /\ CursorInv(v) /\ After(u, v) /\ v.pos \in u.pos..Len(tokens) /\ v.pos \in Nat
      /\ v.errs = u.errs
      /\ \A q \in u.pos..(v.pos - 1) : tokens[q] \notin stop
  <2>1. /\ CursorInv(v) /\ After(u, v) /\ v.pos \in u.pos..Len(tokens)
        /\ v.errs = u.errs
        /\ \A q \in u.pos..(v.pos - 1) : tokens[q] \notin stop \cup {"eof"}
    BY <1>1, SkipIs
  <2>2. v.pos \in Nat
    BY <1>1, <2>1
  <2> QED BY <2>1, <2>2
<1> HIDE DEF v
<1>3. Bare(u, v)
  <2> SUFFICES ASSUME NEW p \in (u.pos + 1)..v.pos, Declares(p) PROVE FALSE
    BY DEF Bare
  <2>1. p - 1 \in u.pos..(v.pos - 1)
    BY <1>1, <1>2
  <2> QED BY <1>2, <2>1 DEF Declares
<1>4. Holds(Opens(st), u.pos) /\ Sane(v.pos) => Holds(Opens(st), v.pos)
  BY <1>1, <1>2, HoldsSkip
<1>5. StackInv(st, v.pos)
  BY <1>1, <1>2, StackLater
<1>6. Calm(v, st, tk)
  BY <1>2, <1>3, <1>4, <1>5, Step DEF Calm
<1> QED BY <1>6 DEF v
-----------------------------------------------------------------------------
(* What the functions of the cursor leave.                                 *)

\* The cursor stays where it is.
LEMMA Staying ==
    ASSUME TokensOK, NEW u, NEW st, NEW tk, Calm(u, st, tk),
           NEW v, v \in State, v.pos = u.pos, v.lost = u.lost, u.errs \subseteq v.errs,
           ~v.ok => v.errs # {}
    PROVE  Calm(v, st, tk)
<1>1. CursorInv(u) /\ u.pos \in Nat /\ u.pos \in 1..Len(tokens) /\ Len(tokens) \in Nat
  BY CursorType DEF Calm, Inv
<1>2. CursorInv(v)
  BY <1>1 DEF CursorInv
<1>3. Reads(u, v)
  <2>1. \A i \in u.pos..(v.pos - 1) : FALSE
    BY <1>1
  <2> QED BY <1>1, <2>1 DEF Reads, After, Smooth
<1> QED BY <1>2, <1>3, Reading

LEMMA Reporting ==
    ASSUME TokensOK, NEW u, NEW st, NEW tk, Calm(u, st, tk), NEW e \in Error, Sound(e)
    PROVE  /\ Calm([u EXCEPT !.errs = @ \cup {e}], st, tk)
           /\ [u EXCEPT !.errs = @ \cup {e}].errs # {}
           /\ [u EXCEPT !.errs = @ \cup {e}].ok = u.ok
           /\ [u EXCEPT !.errs = @ \cup {e}].pos = u.pos
<1>1. u \in State
  BY DEF Calm, Inv, CursorInv
<1> DEFINE v == [u EXCEPT !.errs = @ \cup {e}]
<1>2. v.errs = u.errs \cup {e} /\ v.ok = u.ok /\ v.pos = u.pos /\ v.lost = u.lost
  BY <1>1 DEF State
<1>3. v \in State
  BY <1>1 DEF State
<1> HIDE DEF v
<1>4. Calm(v, st, tk)
  BY <1>2, <1>3, Staying
<1> QED BY <1>2, <1>4 DEF v

\* The errors the parser reports, with the edit they propose.
LEMMA Errors ==
    ASSUME TokensOK, NEW pos \in 1..Len(tokens), NEW at \in 1..Len(tokens),
           NEW code, code \in {"E0101", "E0102", "E0103", "E0104"}, NEW ins \in Insertion, ins # "eof"
    PROVE  /\ [code |-> code, pos |-> pos, at |-> at, del |-> 0, ins |-> ins] \in Error
           /\ Sound([code |-> code, pos |-> pos, at |-> at, del |-> 0, ins |-> ins])
           /\ [code |-> code, pos |-> pos, at |-> at, del |-> 1, ins |-> ins] \in Error
           /\ at < Len(tokens)
                  => Sound([code |-> code, pos |-> pos, at |-> at, del |-> 1, ins |-> ins])
<1>1. Len(tokens) \in Nat
  BY DEF TokensOK
<1>2. \A x \in 1..Len(tokens) : x \in Nat
  BY <1>1
<1>3. pos \in Nat /\ at \in Nat
  BY <1>2
<1>4. /\ [code |-> code, pos |-> pos, at |-> at, del |-> 0, ins |-> ins] \in Error
      /\ [code |-> code, pos |-> pos, at |-> at, del |-> 1, ins |-> ins] \in Error
  BY <1>3 DEF Error
<1>5. /\ Sound([code |-> code, pos |-> pos, at |-> at, del |-> 0, ins |-> ins])
      /\ at < Len(tokens)
             => Sound([code |-> code, pos |-> pos, at |-> at, del |-> 1, ins |-> ins])
  BY DEF Sound
<1> QED BY <1>4, <1>5

LEMMA Marking ==
    ASSUME TokensOK, NEW u, NEW st, NEW tk, Calm(u, st, tk)
    PROVE  /\ Calm(Go(u), st, tk) /\ Go(u).errs = u.errs /\ Go(u).pos = u.pos
           /\ Calm(NoPath(u), st, tk) /\ NoPath(u).errs = u.errs /\ NoPath(u).pos = u.pos
           /\ Calm(AsPath(u), st, tk) /\ AsPath(u).errs = u.errs /\ AsPath(u).pos = u.pos
           /\ u.errs # {} => Calm(Fail(u), st, tk)
           /\ Fail(u).errs = u.errs /\ Fail(u).pos = u.pos /\ Fail(u).ok = FALSE
<1>1. u \in State /\ (~u.ok => u.errs # {})
  BY DEF Calm, Inv, CursorInv
<1>2. /\ Go(u) \in State /\ Go(u).errs = u.errs /\ Go(u).pos = u.pos /\ Go(u).lost = u.lost
      /\ Go(u).ok = TRUE
  BY <1>1 DEF State, Go
<1>3. /\ Fail(u) \in State /\ Fail(u).errs = u.errs /\ Fail(u).pos = u.pos /\ Fail(u).lost = u.lost
      /\ Fail(u).ok = FALSE
  BY <1>1 DEF State, Fail
<1>4. /\ NoPath(u) \in State /\ NoPath(u).errs = u.errs /\ NoPath(u).pos = u.pos
      /\ NoPath(u).lost = u.lost /\ NoPath(u).ok = u.ok
  BY <1>1 DEF State, NoPath
<1>5. /\ AsPath(u) \in State /\ AsPath(u).errs = u.errs /\ AsPath(u).pos = u.pos
      /\ AsPath(u).lost = u.lost /\ AsPath(u).ok = u.ok
  BY <1>1 DEF State, AsPath
<1>6. Calm(Go(u), st, tk)
  BY <1>2, Staying
<1>7. u.errs # {} => Calm(Fail(u), st, tk)
  BY <1>3, Staying
<1>8. Calm(NoPath(u), st, tk)
  BY <1>1, <1>4, Staying
<1>9. Calm(AsPath(u), st, tk)
  BY <1>1, <1>5, Staying
<1> QED BY <1>2, <1>3, <1>4, <1>5, <1>6, <1>7, <1>8, <1>9

\* A token is passed that is no bracket.
LEMMA Bumping ==
    ASSUME TokensOK, NEW u, NEW st, NEW tk, Calm(u, st, tk), At(u) \notin Bracket, At(u) # "nl"
    PROVE  Calm(Bump(u), st, tk) /\ Bump(u).errs = u.errs /\ Bump(u).ok = u.ok
<1> DEFINE v == Bump(u)
<1>1. CursorInv(u) /\ u.pos \in Nat /\ u.pos \in 1..Len(tokens) /\ Len(tokens) \in Nat
  BY CursorType DEF Calm, Inv
<1>2. /\ CursorInv(v) /\ After(u, v) /\ v.ok = u.ok /\ v.errs = u.errs
      /\ v.pos = u.pos \/ v.pos = u.pos + 1
  BY <1>1, BumpIs
<1>3. v.pos \in 1..Len(tokens)
  BY <1>2, CursorType
<1> HIDE DEF v
<1>4. \A i \in u.pos..(v.pos - 1) : i = u.pos
  BY <1>1, <1>2
<1>5. v.pos \in u.pos..Len(tokens)
  BY <1>1, <1>2, <1>3
<1>6. Reads(u, v)
  BY <1>1, <1>2, <1>4, <1>5, FlatIsSmooth DEF Reads, At
<1>7. Calm(v, st, tk)
  BY <1>2, <1>6, Reading
<1> QED BY <1>2, <1>7 DEF v

\* Words and signs other than brackets.
Plain == Token \ (Bracket \cup {"nl", "eof"})

LEMMA PlainTokens ==
    /\ Keyword \subseteq Plain /\ Identifier \subseteq Plain /\ BinOp \subseteq Plain
    /\ DeclStart \subseteq Plain /\ Reserved \subseteq Plain
    /\ {",", ".", ":", "=", "!", "->", "=>", "int", "str", "<", ">", "fail", "else"} \subseteq Plain
<1>1. \A x \in Plain : TRUE
  OBVIOUS
<1>2. Reserved \subseteq Keyword /\ DeclStart \subseteq Keyword
  BY DEF Keyword
<1>3. Keyword \subseteq Plain
  BY DEF Plain, Token, Keyword, Reserved, DeclStart, Bracket, Opening, Closing
<1>4. Identifier \subseteq Plain
  BY DEF Plain, Token, Identifier, Bracket, Opening, Closing
<1>5. BinOp \subseteq Plain
  BY DEF Plain, Token, BinOp, Bracket, Opening, Closing
<1>6. {",", ".", ":", "=", "!", "->", "=>", "int", "str", "<", ">", "fail", "else"} \subseteq Plain
  BY DEF Plain, Token, BinOp, Keyword, Bracket, Opening, Closing
<1> QED BY <1>2, <1>3, <1>4, <1>5, <1>6

LEMMA Passing ==
    ASSUME TokensOK, NEW u, NEW st, NEW tk, Calm(u, st, tk), At(u) \in Plain
    PROVE  /\ Calm(Bump(u), st, tk) /\ Bump(u).errs = u.errs /\ Bump(u).ok = u.ok
           /\ u.pos < Len(tokens) /\ Bump(u).pos = u.pos + 1
<1>1. At(u) \notin Bracket /\ At(u) # "nl" /\ At(u) # "eof"
  BY DEF Plain
<1>2. CursorInv(u)
  BY DEF Calm, Inv
<1> QED BY <1>1, <1>2, Bumping, BumpIs

\* What is expected and is no bracket is passed, or reported.
LEMMA Expecting ==
    ASSUME TokensOK, NEW u, NEW st, NEW tk, Calm(u, st, tk), NEW k \in Token, k # "eof"
    PROVE  /\ Calm(Missing(u, k), st, tk) /\ Missing(u, k).errs # {} /\ Missing(u, k).ok = u.ok
           /\ Calm(Fail(Missing(u, k)), st, tk) /\ Fail(Missing(u, k)).errs # {}
           /\ At(Missing(u, k)) = At(u)
           /\ k \in Plain => Calm(Expect(u, k), st, tk)
<1>1. u.pos \in 1..Len(tokens)
  BY CursorType DEF Calm, Inv
<1>2. /\ Calm(Missing(u, k), st, tk) /\ Missing(u, k).errs # {} /\ Missing(u, k).ok = u.ok
      /\ Missing(u, k).pos = u.pos
  <2> DEFINE e == [code |-> "E0101", pos |-> u.pos, at |-> u.pos, del |-> 0, ins |-> k]
  <2>3. k \in Insertion
    BY Zenon DEF Insertion
  <2>1. e \in Error /\ Sound(e)
    BY <1>1, <2>3, Errors
  <2>2. Missing(u, k) = [u EXCEPT !.errs = @ \cup {e}]
    BY DEF Missing, Report
  <2> HIDE DEF e
  <2> QED BY <2>1, <2>2, Reporting
<1>3. Calm(Fail(Missing(u, k)), st, tk) /\ Fail(Missing(u, k)).errs # {}
  BY <1>2, Marking
<1>4. k \in Plain => Calm(Expect(u, k), st, tk)
  BY <1>2, Passing DEF Expect
<1> QED BY <1>2, <1>3, <1>4 DEF At

LEMMA NotExpected ==
    ASSUME TokensOK, NEW u, NEW st, NEW tk, Calm(u, st, tk)
    PROVE  /\ Calm(Unexpected(u), st, tk) /\ Unexpected(u).errs # {} /\ Unexpected(u).pos = u.pos
           /\ Calm(Fail(Unexpected(u)), st, tk) /\ Fail(Unexpected(u)).errs # {}
           /\ Fail(Unexpected(u)).ok = FALSE
<1>1. u.pos \in 1..Len(tokens)
  BY CursorType DEF Calm, Inv
<1>2. "none" # "eof" /\ "none" \in Insertion
  BY Zenon DEF Insertion
<1>3. Calm(Unexpected(u), st, tk) /\ Unexpected(u).errs # {} /\ Unexpected(u).pos = u.pos
  <2> DEFINE e == [code |-> "E0101", pos |-> u.pos, at |-> u.pos, del |-> 0, ins |-> "none"]
  <2>1. e \in Error /\ Sound(e)
    BY <1>1, <1>2, Errors
  <2>2. Unexpected(u) = [u EXCEPT !.errs = @ \cup {e}]
    BY DEF Unexpected, Report
  <2> HIDE DEF e
  <2> QED BY <2>1, <2>2, Reporting
<1> QED BY <1>3, Marking

LEMMA Renaming ==
    ASSUME TokensOK, NEW u, NEW st, NEW tk, Calm(u, st, tk), At(u) \in Keyword
    PROVE  Calm(Bump(Rename(u)), st, tk) /\ Bump(Rename(u)).errs # {} /\ Bump(Rename(u)).ok = u.ok
<1>1. u.pos \in 1..Len(tokens) /\ At(u) \in Plain /\ u.pos < Len(tokens)
  BY CursorType, PlainTokens, Passing DEF Calm, Inv
<1>2. "id" # "eof" /\ "id" \in Insertion
  <2>1. "id" \in Token
    BY DEF Token, Identifier
  <2> QED BY <2>1, Zenon DEF Insertion
<1>3. Calm(Rename(u), st, tk) /\ Rename(u).errs # {} /\ Rename(u).ok = u.ok /\ Rename(u).pos = u.pos
  <2> DEFINE e == [code |-> "E0102", pos |-> u.pos, at |-> u.pos, del |-> 1, ins |-> "id"]
  <2>1. e \in Error /\ Sound(e)
    BY <1>1, <1>2, Errors
  <2>2. Rename(u) = [u EXCEPT !.errs = @ \cup {e}]
    BY DEF Rename, Report
  <2> HIDE DEF e
  <2> QED BY <2>1, <2>2, Reporting
<1>4. At(Rename(u)) \in Plain
  BY <1>1, <1>3 DEF At
<1> QED BY <1>3, <1>4, Passing

\* A name is read, or something is reported; what fails has an error.
LEMMA Naming ==
    ASSUME TokensOK, NEW u, NEW st, NEW tk, Calm(u, st, tk)
    PROVE  Calm(ExpectIdent(u), st, tk) /\ Calm(ExpectMember(u), st, tk)
<1>1. CASE At(u) \in Identifier
  <2>1. Calm(Bump(u), st, tk)
    BY <1>1, PlainTokens, Passing
  <2> QED BY <1>1, <2>1 DEF ExpectIdent, ExpectMember
<1>2. CASE At(u) \notin Identifier /\ At(u) \in Keyword
  <2>1. Calm(Bump(u), st, tk)
    BY <1>2, PlainTokens, Passing
  <2>2. Calm(Bump(Rename(u)), st, tk)
    BY <1>2, Renaming
  <2> QED BY <1>2, <2>1, <2>2 DEF ExpectIdent, ExpectMember
<1>3. CASE At(u) \notin Identifier \cup Keyword
  BY <1>3, NotExpected DEF ExpectIdent, ExpectMember
<1> QED BY <1>1, <1>2, <1>3

LEMMA NamingBefore ==
    ASSUME TokensOK, NEW u, NEW st, NEW tk, Calm(u, st, tk), NEW k \in {":", "="}
    PROVE  Calm(Named(u, k), st, tk)
<1> DEFINE n == ExpectIdent(u)
<1>1. Calm(n, st, tk)
  BY Naming
<1>2. k \in Plain /\ k \in Token /\ k # "eof"
  BY PlainTokens DEF Plain
<1> HIDE DEF n
<1>3. Calm(Fail(Missing(n, k)), st, tk) /\ Calm(Expect(n, k), st, tk)
  BY <1>1, <1>2, Expecting
<1>4. Named(u, k) \in {Fail(Missing(n, k)), Expect(n, k), n}
  BY DEF Named, n
<1> QED BY <1>1, <1>3, <1>4

LEMMA Comma ==
    ASSUME TokensOK, NEW u, NEW st, NEW tk, Calm(u, st, tk)
    PROVE  Calm(Eat(u, ","), st, tk)
<1>1. "," \in Plain
  BY PlainTokens
<1>2. At(u) = "," => Calm(Bump(u), st, tk)
  BY <1>1, Passing
<1> QED BY <1>2 DEF Eat

LEMMA Unclosing ==
    ASSUME TokensOK, NEW u, NEW st, NEW tk, Calm(u, st, tk),
           NEW o \in 1..Len(tokens), NEW k \in Token, k # "eof"
    PROVE  /\ Calm(Unclosed(u, o, k), st, tk) /\ Unclosed(u, o, k).errs # {}
           /\ Unclosed(u, o, k).pos = u.pos
           /\ Calm(Missing(Unclosed(u, o, k), k), st, tk) /\ Missing(Unclosed(u, o, k), k).errs # {}
<1>1. u.pos \in 1..Len(tokens)
  BY CursorType DEF Calm, Inv
<1>2. /\ Calm(Unclosed(u, o, k), st, tk) /\ Unclosed(u, o, k).errs # {}
      /\ Unclosed(u, o, k).pos = u.pos
  <2> DEFINE e == [code |-> "E0103", pos |-> o, at |-> u.pos, del |-> 0, ins |-> k]
  <2>3. k \in Insertion
    BY DEF Insertion
  <2>1. e \in Error /\ Sound(e)
    BY <1>1, <2>3, Errors
  <2>2. Unclosed(u, o, k) = [u EXCEPT !.errs = @ \cup {e}]
    BY DEF Unclosed, Report
  <2> HIDE DEF e
  <2> QED BY <2>1, <2>2, Reporting
<1> QED BY <1>2, Expecting

\* The kinds of brackets that are open, and the recovery within.
LEMMA Recovering ==
    ASSUME TokensOK, NEW u, NEW st, NEW tk, Calm(u, st, tk), u.errs # {},
           NEW b \in Opens(st), \A x \in Opens(st) : x <= b
    PROVE  /\ tokens[b] = "{" => Calm(RecoverInBraces(u), st, tk)
           /\ tokens[b] = "(" => Calm(RecoverInParens(u), st, tk)
           /\ tokens[b] = "[" => Calm(RecoverInBrackets(u), st, tk)
<1>1. CASE tokens[b] = "{"
  <2>1. Closer(tokens[b]) = "}"
    BY <1>1 DEF Closer
  <2>2. "nl" \in {"nl", ",", "}"} /\ Closer(tokens[b]) \in {"nl", ",", "}"}
    BY <2>1
  <2>3. Calm(SkipTo(u, {"nl", ",", "}"}), st, tk)
    BY <2>2, Skipping
  <2> QED BY <1>1, <2>3 DEF RecoverInBraces
<1>2. CASE tokens[b] = "("
  <2>1. Closer(tokens[b]) = ")"
    BY <1>2 DEF Closer
  <2>2. "nl" \in {"nl", ",", ")"} /\ Closer(tokens[b]) \in {"nl", ",", ")"}
    BY <2>1
  <2>3. Calm(SkipTo(u, {"nl", ",", ")"}), st, tk)
    BY <2>2, Skipping
  <2> QED BY <1>2, <2>3 DEF RecoverInParens
<1>3. CASE tokens[b] = "["
  <2>1. Closer(tokens[b]) = "]"
    BY <1>3 DEF Closer
  <2>2. "nl" \in {"nl", ",", "]"} /\ Closer(tokens[b]) \in {"nl", ",", "]"}
    BY <2>1
  <2>3. Calm(SkipTo(u, {"nl", ",", "]"}), st, tk)
    BY <2>2, Skipping
  <2> QED BY <1>3, <2>3 DEF RecoverInBrackets
<1> QED BY <1>1, <1>2, <1>3

\* Behind an element of a list in brackets.
LEMMA Separating ==
    ASSUME TokensOK, NEW u, NEW st, NEW tk, Calm(u, st, tk),
           NEW b \in Opens(st), \A x \in Opens(st) : x <= b, NEW k, k = Closer(tokens[b])
    PROVE  Calm(Separated(u, k), st, tk)
<1> DEFINE m == SkipNewlines(u)
<1>1. Calm(m, st, tk)
  <2>1. Opens(st) # {}
    OBVIOUS
  <2> QED BY <2>1, Newlines DEF Calm
<1> HIDE DEF m
<1>2. "," \in Plain /\ "," \in Token /\ "," # "eof"
  BY PlainTokens DEF Plain
<1>3. At(m) = "," => Calm(Bump(m), st, tk)
  BY <1>1, <1>2, Passing
<1>4. Calm(Missing(m, ","), st, tk) /\ Missing(m, ",").errs # {}
  BY <1>1, <1>2, Expecting
<1>5. Calm(SkipTo(Missing(m, ","), {"nl", ",", k}), st, tk)
  <2>1. "nl" \in {"nl", ",", k} /\ Closer(tokens[b]) \in {"nl", ",", k}
    OBVIOUS
  <2> DEFINE stop == {"nl", ",", k}
  <2> HIDE DEF stop
  <2>2. Calm(SkipTo(Missing(m, ","), stop), st, tk)
    BY <1>4, <2>1, Skipping DEF stop
  <2> QED BY <2>2 DEF stop
<1> QED BY <1>1, <1>3, <1>5 DEF Separated, m
-----------------------------------------------------------------------------
(* The tasks.                                                              *)

Bracketed == Parens \cup Squares \cup Braces

LEMMA Context ==
    ASSUME TokensOK, Inv(s, stack, taken), NEW k, In(k)
    PROVE  /\ Len(stack) \in Nat /\ Len(stack) > 0 /\ Top = Last(stack) /\ Outer = Callers(stack) /\ Top.k = k
           /\ taken' = taken /\ stack \in Seq(TaskSet) /\ Outer \in Seq(TaskSet)
           /\ Len(Outer) = Len(stack) - 1 /\ Top \in TaskSet /\ AtBracket(Top) /\ Placed(Outer, Top)
           /\ Append(Outer, Top) = stack /\ Top.open \in 0..Len(tokens)
           /\ \A i \in 1..(Len(stack) - 1) : Outer[i] = stack[i]
           /\ k \notin Recovery \cup {"clauses"} => Calm(s, stack, taken)
           /\ k \notin Bracketed => Top.open = 0
           /\ k \in Braces => Top.open # 0 /\ tokens[Top.open] = "{"
           /\ k \in Squares => Top.open # 0 /\ tokens[Top.open] = "["
           /\ k \in Parens \ {"group"} => Top.open # 0
           /\ k \in Parens /\ Top.open # 0 => tokens[Top.open] = "("
           /\ Top.open # 0 => Top.open \in Opens(stack) /\ \A x \in Opens(stack) : x <= Top.open
<1>1. stack # <<>> /\ Top.k = k /\ taken' = taken
  BY DEF In
<1>2. stack \in Seq(TaskSet) /\ StackInv(stack, s.pos) /\ s.pos \in Nat /\ s.pos \in 1..Len(tokens)
  BY CursorType DEF Inv, StackInv
<1>3. Len(stack) \in Nat /\ Len(stack) > 0
  BY <1>1, <1>2
<1>4. Top = Last(stack) /\ Outer = Callers(stack)
  BY DEF Top, Last, Outer, Callers
<1>5. /\ StackInv(Callers(stack), s.pos) /\ Len(Callers(stack)) = Len(stack) - 1
      /\ Last(stack) \in TaskSet /\ AtBracket(Last(stack))
      /\ Placed(Callers(stack), Last(stack)) /\ Append(Callers(stack), Last(stack)) = stack
      /\ \A i \in 1..(Len(stack) - 1) : Callers(stack)[i] = stack[i]
  BY <1>2, <1>3, PopStack
<1>6. Callers(stack) \in Seq(TaskSet)
  BY <1>5 DEF StackInv
<1>7. k \notin Recovery \cup {"clauses"} => Calm(s, stack, taken)
  <2>1. k \notin Recovery \cup {"clauses"} => k \notin {"to decl", "clauses"} /\ k \notin Recovery
    BY DEF Recovery
  <2>2. LineInv(s, stack) /\ Len(stack) # 0 /\ Last(stack).k = k
    BY <1>1, <1>3, <1>4 DEF Inv
  <2>3. k \notin {"to decl", "clauses"} => Off(s)
    BY <2>2 DEF LineInv
  <2> QED BY <2>1, <2>2, <2>3 DEF Calm
<1>8. /\ k \notin Bracketed => Top.open = 0
      /\ k \in Braces => Top.open # 0 /\ tokens[Top.open] = "{"
      /\ k \in Squares => Top.open # 0 /\ tokens[Top.open] = "["
      /\ k \in Parens \ {"group"} => Top.open # 0
      /\ k \in Parens /\ Top.open # 0 => tokens[Top.open] = "("
  <2>1. AtBracket(Top)
    BY <1>4, <1>5
  <2> QED BY <1>1, <2>1 DEF AtBracket, Bracketed, Parens, Squares, Braces
<1>9. Top.open # 0 => Top.open \in Opens(stack) /\ \A x \in Opens(stack) : x <= Top.open
  BY <1>2, <1>3, <1>4, Innermost
<1>10. Top.open \in 0..Len(tokens)
  BY <1>4, <1>5, TaskNumbers
<1> QED BY <1>1, <1>2, <1>3, <1>4, <1>5, <1>6, <1>7, <1>8, <1>9, <1>10

\* The invariant behind a step.
Kept == Inv(s', stack', taken')

LEMMA Leading ==
    ASSUME NEW t, NEW more, Inv(t, Outer \o more, taken')
    PROVE  Becomes(t, more) => Kept
  BY DEF Becomes, Kept

\* Tasks that may stand anywhere are called by those around.
LEMMA Entering ==
    ASSUME TokensOK, Outer \in Seq(TaskSet), NEW t, Calm(t, Outer, taken')
    PROVE  /\ Becomes(t, <<>>) => Kept
           /\ \A more \in Seq(LooseTask) : Becomes(t, more) => Kept
<1>1. <<>> \in Seq(LooseTask)
  BY EmptySeq
<1>2. ASSUME NEW more \in Seq(LooseTask)
      PROVE  Becomes(t, more) => Kept
  <2>1. Calm(t, Outer \o more, taken')
    BY Calls
  <2> QED BY <2>1, Leading DEF Calm
<1> QED BY <1>1, <1>2

\* A task returns, and others are called in its place.
LEMMA Ending ==
    ASSUME TokensOK, Inv(s, stack, taken), NEW k, In(k), NEW t, Calm(t, Outer, taken)
    PROVE  /\ Becomes(t, <<>>) => Kept
           /\ \A more \in Seq(LooseTask) : Becomes(t, more) => Kept
<1>1. Outer \in Seq(TaskSet) /\ taken' = taken
  BY Context
<1> QED BY <1>1, Entering

\* One call, and others behind it.
AsOne(q, h, m) == q \o (h \o m) = Append(q, h[1]) \o m

LEMMA MoreOfOne ==
    ASSUME NEW S, NEW q \in Seq(S), NEW h \in Seq(S), Len(h) = 1, NEW m \in Seq(S)
    PROVE  AsOne(q, h, m)
<1>1. q \o (h \o m) = (q \o h) \o m
  BY ConcatAssociative, SMTT(30)
<1>2. q \o h = Append(q, h[1])
  <2>1. <<>> \in Seq(S)
    BY EmptySeq
  <2> QED BY <2>1, More
<1> QED BY <1>1, <1>2 DEF AsOne

\* Two calls, and others behind them.
AsTwo(q, h, m) == q \o (h \o m) = Append(Append(q, h[1]), h[2]) \o m

LEMMA MoreOfTwo ==
    ASSUME NEW S, NEW q \in Seq(S), NEW h \in Seq(S), Len(h) = 2, NEW m \in Seq(S)
    PROVE  AsTwo(q, h, m)
<1>1. q \o (h \o m) = (q \o h) \o m
  BY ConcatAssociative, SMTT(30)
<1>2. q \o h = Append(Append(q, h[1]), h[2])
  <2>1. <<>> \in Seq(S)
    BY EmptySeq
  <2> QED BY <2>1, More
<1> QED BY <1>1, <1>2 DEF AsTwo

\* A task calls others and goes on behind them.
LEMMA Remaining ==
    ASSUME TokensOK, Inv(s, stack, taken), NEW k, In(k), NEW t, Calm(t, stack, taken)
    PROVE  /\ Becomes(t, <<Top>>) => Kept
           /\ \A more \in Seq(LooseTask) : Becomes(t, <<Top>> \o more) => Kept
<1>1. Outer \in Seq(TaskSet) /\ taken' = taken /\ Append(Outer, Top) = stack /\ Top \in TaskSet
  BY Context
<1>2. Outer \o <<Top>> = stack
  BY <1>1
<1>3. ASSUME NEW more \in Seq(LooseTask)
      PROVE  Becomes(t, <<Top>> \o more) => Kept
  <2>1. Calm(t, stack \o more, taken)
    BY Calls
  <2>2. more \in Seq(TaskSet)
    <3>1. LooseTask \subseteq TaskSet
      BY DEF LooseTask
    <3> QED BY <3>1, SeqMonotonic
  <2>3. Outer \o (<<Top>> \o more) = stack \o more
    <3> DEFINE h == <<Top>>
    <3>1. h \in Seq(TaskSet) /\ Len(h) = 1 /\ h[1] = Top
      BY <1>1
    <3> HIDE DEF h
    <3>2. AsOne(Outer, h, more)
      BY <1>1, <2>2, <3>1, MoreOfOne
    <3>3. Outer \o (h \o more) = Append(Outer, h[1]) \o more
      BY <3>2 DEF AsOne
    <3> QED BY <1>1, <3>1, <3>3 DEF h
  <2> QED BY <1>1, <2>1, <2>3, Leading DEF Calm
<1> QED BY <1>1, <1>2, <1>3, Leading DEF Calm

\* A task that knows no bracket, or leaves an error, may return.
LEMMA Returning ==
    ASSUME TokensOK, Inv(s, stack, taken), NEW k, In(k), NEW t, Calm(t, stack, taken),
           k \notin Bracketed \/ t.errs # {}
    PROVE  Calm(t, Outer, taken)
<1>1. Len(stack) > 0 /\ Top = Last(stack) /\ Outer = Callers(stack) /\ (k \notin Bracketed => Top.open = 0)
  BY Context
<1> QED BY <1>1, Return DEF Calm

LEMMA HeadIn ==
    ASSUME NEW S, NEW h \in Seq(S)
    PROVE  /\ Len(h) = 1 => h[1] \in S
           /\ Len(h) = 2 => h[1] \in S /\ h[2] \in S
<1>1. \A i \in 1..Len(h) : h[i] \in S
  OBVIOUS
<1>2. (Len(h) = 1 => 1 \in 1..Len(h)) /\ (Len(h) = 2 => 1 \in 1..Len(h) /\ 2 \in 1..Len(h))
  OBVIOUS
<1> QED BY <1>1, <1>2

LEMMA LooseInTasks == \A more \in Seq(LooseTask) : more \in Seq(TaskSet)
<1>1. LooseTask \subseteq TaskSet
  BY DEF LooseTask
<1> QED BY <1>1, SeqMonotonic

\* A task goes on as another one.
LEMMA Turning ==
    ASSUME TokensOK, Inv(s, stack, taken), NEW k, In(k), NEW t, Calm(t, stack, taken),
           NEW h \in Seq(TaskSet), Len(h) = 1, h[1].open = Top.open,
           AtBracket(h[1]), Placed(Outer, h[1]), h[1].k \notin Recovery, h[1].k # "group"
    PROVE  /\ Becomes(t, h) => Kept
           /\ \A more \in Seq(LooseTask) : Becomes(t, h \o more) => Kept
<1>1. /\ Outer \in Seq(TaskSet) /\ taken' = taken /\ Len(stack) > 0
      /\ Top = Last(stack) /\ Outer = Callers(stack)
  BY Context
<1>2. h[1] \in TaskSet
  BY HeadIn
<1>3. Calm(t, Append(Outer, h[1]), taken)
  BY <1>1, <1>2, Turn
<1>4. <<>> \in Seq(TaskSet) /\ Outer \o h = Append(Outer, h[1])
  BY <1>1, EmptySeq, More
<1>5. ASSUME NEW more \in Seq(LooseTask)
      PROVE  Becomes(t, h \o more) => Kept
  <2>1. Outer \o (h \o more) = Append(Outer, h[1]) \o more
    <3>1. more \in Seq(TaskSet)
      BY LooseInTasks
    <3>2. Outer \in Seq(TaskSet)
      BY <1>1
    <3>3. AsOne(Outer, h, more)
      BY <3>1, <3>2, MoreOfOne
    <3> QED BY <3>3 DEF AsOne
  <2>2. Calm(t, Append(Outer, h[1]) \o more, taken)
    BY <1>3, Calls
  <2> QED BY <1>1, <2>1, <2>2, Leading DEF Calm
<1> QED BY <1>1, <1>3, <1>4, <1>5, Leading DEF Calm

\* A task is replaced by one that opens a bracket.
LEMMA OpeningInPlace ==
    ASSUME TokensOK, Outer \in Seq(TaskSet), NEW u, Calm(u, Outer, taken'), At(u) \in Opening,
           NEW h \in Seq(TaskSet), Len(h) = 1, h[1].open = u.pos,
           AtBracket(h[1]), Placed(Outer, h[1]), h[1].k \notin Recovery
    PROVE  /\ Becomes(Bump(u), h) => Kept
           /\ \A more \in Seq(LooseTask) : Becomes(Bump(u), h \o more) => Kept
<1>1. Outer \in Seq(TaskSet)
  OBVIOUS
<1>2. h[1] \in TaskSet
  BY HeadIn
<1>3. Calm(Bump(u), Append(Outer, h[1]), taken')
  BY <1>1, <1>2, OpeningOne
<1>4. <<>> \in Seq(TaskSet) /\ Outer \o h = Append(Outer, h[1])
  BY <1>1, EmptySeq, More
<1>5. ASSUME NEW more \in Seq(LooseTask)
      PROVE  Becomes(Bump(u), h \o more) => Kept
  <2>1. Outer \o (h \o more) = Append(Outer, h[1]) \o more
    <3>1. more \in Seq(TaskSet)
      BY LooseInTasks
    <3>2. AsOne(Outer, h, more)
      BY <1>1, <3>1, MoreOfOne
    <3> QED BY <3>2 DEF AsOne
  <2>2. Calm(Bump(u), Append(Outer, h[1]) \o more, taken')
    BY <1>3, Calls
  <2> QED BY <1>1, <2>1, <2>2, Leading DEF Calm
<1> QED BY <1>1, <1>3, <1>4, <1>5, Leading DEF Calm

\* A task calls one that opens a bracket, and goes on behind it.
LEMMA OpeningWithin ==
    ASSUME TokensOK, Inv(s, stack, taken), NEW k, In(k), NEW u, Calm(u, stack, taken), At(u) \in Opening,
           NEW h \in Seq(TaskSet), Len(h) = 2, h[1] = Top, h[2].open = u.pos,
           AtBracket(h[2]), Placed(stack, h[2]), h[2].k \notin Recovery
    PROVE  Becomes(Bump(u), h) => Kept
<1>1. /\ Outer \in Seq(TaskSet) /\ taken' = taken /\ Append(Outer, Top) = stack
  BY Context
<1>2. h[2] \in TaskSet
  BY HeadIn
<1>3. Calm(Bump(u), Append(stack, h[2]), taken)
  BY <1>1, <1>2, OpeningOne
<1>4. <<>> \in Seq(TaskSet) /\ Outer \o h = Append(stack, h[2])
  BY <1>1, EmptySeq, More
<1> QED BY <1>1, <1>3, <1>4, Leading DEF Calm

LEMMA CallsTwo ==
    ASSUME NEW q \in Seq(TaskSet), NEW h \in Seq(TaskSet), Len(h) = 2, NEW more \in Seq(LooseTask)
    PROVE  AsTwo(q, h, more)
<1>1. more \in Seq(TaskSet)
  BY LooseInTasks
<1> QED BY <1>1, MoreOfTwo

\* A task calls another one and goes on behind it.
LEMMA CallingOne ==
    ASSUME TokensOK, Inv(s, stack, taken), NEW k, In(k), NEW u, Calm(u, stack, taken),
           NEW h \in Seq(TaskSet), Len(h) = 2, h[1] = Top, h[2].open = 0,
           AtBracket(h[2]), Placed(stack, h[2]), h[2].k \notin Recovery, h[2].k # "group"
    PROVE  /\ Becomes(u, h) => Kept
           /\ \A more \in Seq(LooseTask) : Becomes(u, h \o more) => Kept
<1>1. /\ Outer \in Seq(TaskSet) /\ taken' = taken /\ Append(Outer, Top) = stack
  BY Context
<1>2. h[2] \in TaskSet
  BY HeadIn
<1>3. Calm(u, Append(stack, h[2]), taken)
  BY <1>1, <1>2, Call
<1>4. <<>> \in Seq(TaskSet) /\ Outer \o h = Append(stack, h[2])
  BY <1>1, EmptySeq, More
<1>5. ASSUME NEW more \in Seq(LooseTask)
      PROVE  Becomes(u, h \o more) => Kept
  <2>1. Outer \o (h \o more) = Append(stack, h[2]) \o more
    <3>1. AsTwo(Outer, h, more)
      BY <1>1, CallsTwo
    <3> QED BY <1>1, <3>1 DEF AsTwo
  <2>2. Calm(u, Append(stack, h[2]) \o more, taken)
    BY <1>3, Calls
  <2> QED BY <1>1, <2>1, <2>2, Leading DEF Calm
<1> QED BY <1>1, <1>3, <1>4, <1>5, Leading DEF Calm

\* A task gives up, and recovery goes on in its place, or another one does.
LEMMA Replacing ==
    ASSUME TokensOK, Outer \in Seq(TaskSet), NEW u, Calm(u, Outer, taken'),
           NEW h \in Seq(TaskSet), Len(h) = 1, h[1].open = 0,
           AtBracket(h[1]), Placed(Outer, h[1]), h[1].k # "group",
           h[1].k \in Recovery => u.errs # {} /\ h[1].depth = 0
    PROVE  /\ Becomes(u, h) => Kept
           /\ h[1].k \notin Recovery => \A more \in Seq(LooseTask) : Becomes(u, h \o more) => Kept
<1>1. Outer \in Seq(TaskSet)
  OBVIOUS
<1>2. h[1] \in TaskSet
  BY HeadIn
<1>3. /\ Inv(u, Append(Outer, h[1]), taken')
      /\ h[1].k \notin Recovery => Calm(u, Append(Outer, h[1]), taken')
  BY <1>1, <1>2, Call DEF Calm
<1>4. <<>> \in Seq(TaskSet) /\ Outer \o h = Append(Outer, h[1])
  BY <1>1, EmptySeq, More
<1>5. ASSUME NEW more \in Seq(LooseTask), h[1].k \notin Recovery
      PROVE  Becomes(u, h \o more) => Kept
  <2>1. Outer \o (h \o more) = Append(Outer, h[1]) \o more
    <3>1. more \in Seq(TaskSet)
      BY LooseInTasks
    <3>2. AsOne(Outer, h, more)
      BY <1>1, <3>1, MoreOfOne
    <3> QED BY <3>2 DEF AsOne
  <2>2. Calm(u, Append(Outer, h[1]) \o more, taken')
    BY <1>3, <1>5, Calls
  <2> QED BY <1>1, <2>1, <2>2, Leading DEF Calm
<1> QED BY <1>1, <1>3, <1>4, <1>5, Leading

LEMMA PathStep ==
    ASSUME TokensOK, Inv(s, stack, taken), Path
    PROVE  Kept
<1> DEFINE n == ExpectIdent(s)
<1>1. In("path") /\ "path" \notin Recovery \cup {"clauses"} /\ "path" \notin Bracketed
  BY DEF Path, Recovery, Bracketed, Parens, Squares, Braces
<1>2. Calm(n, stack, taken)
  BY <1>1, Context, Naming
<1> HIDE DEF n
<1>3. Calm(n, Outer, taken)
  BY <1>1, <1>2, Returning
<1>4. At(n) = "." => Calm(Bump(n), stack, taken)
  BY <1>2, PlainTokens, Passing
<1>5. (Becomes(n, <<>>) => Kept) /\ (At(n) = "." /\ Becomes(Bump(n), <<Top>>) => Kept)
  BY <1>1, <1>3, <1>4, Ending, Remaining
<1> QED BY <1>5 DEF Path, n

\* The lists of calls that the tasks make.
LEMMA LooseLists ==
    ASSUME TokensOK
    PROVE  /\ <<Task("type args")>> \o Type \in Seq(LooseTask)
           /\ \A of \in Of : <<Task("no path")>> \o Expr(of) \in Seq(LooseTask)
           /\ Expr("none") \in Seq(LooseTask) /\ Expr("cond") \in Seq(LooseTask)
           /\ <<Task("no path")>> \o Expr("none") \in Seq(LooseTask)
           /\ <<Task("zero lambda")>> \o Expr("none") \in Seq(LooseTask)
           /\ <<Task("lambda")>> \o Expr("none") \in Seq(LooseTask)
           /\ <<Task("let else")>> \o Expr("none") \in Seq(LooseTask)
           /\ <<Task("match")>> \o Expr("cond") \in Seq(LooseTask)
           /\ <<Task("let value")>> \o Type \in Seq(LooseTask)
           /\ <<Task("arm body")>> \o Pattern \in Seq(LooseTask)
           /\ <<Task("lambda")>> \in Seq(LooseTask) /\ <<Task("let value")>> \in Seq(LooseTask)
           /\ <<Task("path")>> \in Seq(LooseTask)
           /\ Type \in Seq(LooseTask) /\ Pattern \in Seq(LooseTask)
<1>1. ASSUME NEW k, Task(k) \in LooseTask
      PROVE  /\ <<Task(k)>> \in Seq(LooseTask)
             /\ \A m \in Seq(LooseTask) : <<Task(k)>> \o m \in Seq(LooseTask)
  <2> DEFINE h == <<Task(k)>>
  <2>1. h \in Seq(LooseTask)
    <3> DEFINE a == Task(k)
    <3> HIDE DEF a
    <3>1. a \in LooseTask
      BY <1>1 DEF a
    <3>2. <<a>> \in Seq(LooseTask)
      BY <3>1
    <3> QED BY <3>2 DEF a
  <2> HIDE DEF h
  <2>2. \A m \in Seq(LooseTask) : h \o m \in Seq(LooseTask)
    BY <2>1, ConcatProperties
  <2> QED BY <2>1, <2>2 DEF h
<1>2. \A of \in Of : Expr(of) \in Seq(LooseTask)
  BY LooseCalls
<1>3. Type \in Seq(LooseTask) /\ Pattern \in Seq(LooseTask)
  BY LooseCalls
<1>4. "none" \in Of /\ "cond" \in Of
  BY DEF Of
<1>5. Expr("none") \in Seq(LooseTask) /\ Expr("cond") \in Seq(LooseTask)
  BY <1>2, <1>4
<1>6. /\ "type args" \in Loose /\ "no path" \in Loose /\ "zero lambda" \in Loose /\ "lambda" \in Loose
      /\ "let else" \in Loose /\ "match" \in Loose /\ "let value" \in Loose
      /\ "arm body" \in Loose /\ "path" \in Loose
  BY DEF Loose
<1>7. \A k \in Loose : Task(k) \in LooseTask
  BY LooseCalls
<1>8. /\ Task("type args") \in LooseTask /\ Task("no path") \in LooseTask /\ Task("zero lambda") \in LooseTask
      /\ Task("lambda") \in LooseTask /\ Task("let else") \in LooseTask
      /\ Task("match") \in LooseTask /\ Task("let value") \in LooseTask
      /\ Task("arm body") \in LooseTask /\ Task("path") \in LooseTask
  BY <1>6, <1>7
<1>9. <<Task("type args")>> \o Type \in Seq(LooseTask)
  BY <1>1, <1>3, <1>8, Zenon
<1>10. \A of \in Of : <<Task("no path")>> \o Expr(of) \in Seq(LooseTask)
  BY <1>1, <1>2, <1>8, Zenon
<1>11. /\ <<Task("no path")>> \o Expr("none") \in Seq(LooseTask)
       /\ <<Task("zero lambda")>> \o Expr("none") \in Seq(LooseTask)
       /\ <<Task("lambda")>> \o Expr("none") \in Seq(LooseTask)
       /\ <<Task("let else")>> \o Expr("none") \in Seq(LooseTask)
       /\ <<Task("match")>> \o Expr("cond") \in Seq(LooseTask)
       /\ <<Task("let value")>> \o Type \in Seq(LooseTask)
       /\ <<Task("arm body")>> \o Pattern \in Seq(LooseTask)
  BY <1>1, <1>3, <1>5, <1>8, Zenon
<1>12. /\ <<Task("lambda")>> \in Seq(LooseTask) /\ <<Task("let value")>> \in Seq(LooseTask)
       /\ <<Task("path")>> \in Seq(LooseTask)
  BY <1>1, <1>8, Zenon
<1> QED BY <1>3, <1>5, <1>9, <1>10, <1>11, <1>12

\* Kinds of tasks that know no bracket and do not recover.
Idle == Kind \ (Bracketed \cup Recovery \cup {"clauses"})

LEMMA IdleKinds ==
    {"path", "type", "type args", "pattern", "operand", "unary", "no path", "primary", "zero lambda",
     "lambda", "postfix", "match", "arm body", "let value", "let else", "or decl", "alias", "import",
     "extern name", "extern uses", "or stmt end", "entry end", "effects", "then", "stmt end"} \subseteq Idle
  BY DEF Idle, Kind, Bracketed, Recovery, Parens, Squares, Braces, Loose, Outside

\* Such a task may return wherever it is calm.
LEMMA Resting ==
    ASSUME TokensOK, Inv(s, stack, taken), NEW k \in Idle, In(k)
    PROVE  /\ Calm(s, stack, taken) /\ Calm(s, Outer, taken)
           /\ \A t : Calm(t, stack, taken) => Calm(t, Outer, taken)
<1>1. k \notin Bracketed /\ k \notin Recovery \cup {"clauses"}
  BY DEF Idle
<1>2. Calm(s, stack, taken)
  BY <1>1, Context
<1>3. \A t : Calm(t, stack, taken) => Calm(t, Outer, taken)
  BY <1>1, Returning
<1> QED BY <1>2, <1>3

LEMMA TypeRestStep ==
    ASSUME TokensOK, Inv(s, stack, taken), TypeRest
    PROVE  Kept
<1>1. In("type") /\ "type" \in Idle
  BY IdleKinds DEF TypeRest
<1>2. Calm(s, Outer, taken) /\ (At(s) = "<" => Calm(Bump(s), Outer, taken))
  BY <1>1, Resting, PlainTokens, Passing
<1>3. Becomes(s, <<>>) => Kept
  BY <1>1, <1>2, Ending
<1>4. At(s) = "<" /\ Becomes(Bump(s), <<Task("type args")>> \o Type) => Kept
  BY <1>1, <1>2, LooseLists, Ending
<1> QED BY <1>3, <1>4 DEF TypeRest

LEMMA NoPathEndStep ==
    ASSUME TokensOK, Inv(s, stack, taken), NoPathEnd
    PROVE  Kept
<1>1. In("no path") /\ "no path" \in Idle
  BY IdleKinds DEF NoPathEnd
<1>2. Calm(NoPath(s), Outer, taken)
  BY <1>1, Resting, Marking
<1> QED BY <1>1, <1>2, Ending DEF NoPathEnd

LEMMA ZeroLambdaEndStep ==
    ASSUME TokensOK, Inv(s, stack, taken), ZeroLambdaEnd
    PROVE  Kept
<1>1. In("zero lambda") /\ "zero lambda" \in Idle
  BY IdleKinds DEF ZeroLambdaEnd
<1>2. Calm(NoPath(Go(s)), Outer, taken)
  BY <1>1, Resting, Marking
<1> QED BY <1>1, <1>2, Ending DEF ZeroLambdaEnd

LEMMA TypeArgStep ==
    ASSUME TokensOK, Inv(s, stack, taken), TypeArg
    PROVE  Kept
<1>1. In("type args") /\ "type args" \in Idle
  BY IdleKinds DEF TypeArg
<1>2. Calm(s, stack, taken) /\ Calm(s, Outer, taken) /\ (At(s) = "," => Calm(Bump(s), stack, taken))
  BY <1>1, Resting, PlainTokens, Passing
<1>3. Calm(Expect(s, ">"), Outer, taken)
  <2>1. ">" \in Plain /\ ">" \in Token /\ ">" # "eof"
    BY PlainTokens DEF Token, BinOp
  <2> QED BY <1>2, <2>1, Expecting
<1>4. Becomes(s, <<>>) => Kept
  BY <1>1, <1>2, Ending
<1>5. At(s) = "," /\ Becomes(Bump(s), <<Top>> \o Type) => Kept
  BY <1>1, <1>2, LooseLists, Remaining
<1>6. Becomes(Expect(s, ">"), <<>>) => Kept
  BY <1>1, <1>3, Ending
<1> QED BY <1>4, <1>5, <1>6 DEF TypeArg

LEMMA OperandStep ==
    ASSUME TokensOK, Inv(s, stack, taken), Operand
    PROVE  Kept
<1>1. In("operand") /\ "operand" \in Idle
  BY IdleKinds DEF Operand
<1>2. Calm(s, Outer, taken) /\ (At(s) \in BinOp => Calm(Bump(s), Outer, taken))
  BY <1>1, Resting, PlainTokens, Passing
<1>3. Top.of \in Of
  <2>1. Top \in TaskSet
    BY <1>1, Context
  <2> QED BY <2>1, Zenon DEF TaskSet
<1>4. Becomes(s, <<>>) => Kept
  BY <1>1, <1>2, Ending
<1>5. At(s) \in BinOp /\ Becomes(Bump(s), <<Task("no path")>> \o Expr(Top.of)) => Kept
  <2>1. <<Task("no path")>> \o Expr(Top.of) \in Seq(LooseTask)
    BY <1>3, LooseLists
  <2> QED BY <1>1, <1>2, <2>1, Ending
<1> QED BY <1>4, <1>5 DEF Operand

LEMMA Places ==
    ASSUME NEW n \in Nat \ {0}, NEW i \in 1..n
    PROVE  i \in 1..n /\ n \in Nat /\ i \in 0..n /\ i # 0
  OBVIOUS

LEMMA LoopIs ==
    ASSUME TokensOK, NEW k \in Kind, NEW o \in 0..Len(tokens), NEW of \in Of
    PROVE  /\ Loop(k, o, of) \in TaskSet
           /\ Loop(k, o, of).k = k /\ Loop(k, o, of).open = o
           /\ Loop(k, o, of).of = of /\ Loop(k, o, of).depth = 0
<1>1. Loop(k, o, of) = [k |-> k, open |-> o, of |-> of, depth |-> 0]
  BY DEF Loop
<1>2. 0 \in Nat
  OBVIOUS
<1>3. [k |-> k, open |-> o, of |-> of, depth |-> 0] \in TaskSet
  BY <1>2 DEF TaskSet
<1> QED BY <1>1, <1>3

LEMMA TaskIs ==
    ASSUME TokensOK, NEW k \in Kind
    PROVE  /\ Task(k) \in TaskSet /\ Task(k).k = k /\ Task(k).open = 0
           /\ Task(k).of = "none" /\ Task(k).depth = 0
<1>1. "none" \in Of /\ 0 \in 0..Len(tokens)
  BY DEF Of, TokensOK
<1> QED BY <1>1, LoopIs DEF Task

LEMMA OneTask ==
    ASSUME NEW a \in TaskSet
    PROVE  <<a>> \in Seq(TaskSet) /\ Len(<<a>>) = 1 /\ <<a>>[1] = a
  OBVIOUS

LEMMA TwoTasks ==
    ASSUME NEW a \in TaskSet, NEW b \in TaskSet
    PROVE  <<a, b>> \in Seq(TaskSet) /\ Len(<<a, b>>) = 2 /\ <<a, b>>[1] = a /\ <<a, b>>[2] = b
  OBVIOUS

\* Tasks that read what is in brackets, and may be called anywhere.
Free == {"bindings", "group", "args", "arg", "list", "element"} \cup Braces

LEMMA FreeMay ==
    ASSUME NEW st, Len(st) > 0 => Last(st).k \notin Recovery, NEW a,
           a.k \in Free, a.k = "block" => a.of = "func"
    PROVE  Placed(st, a) /\ a.k \notin Recovery /\ a.k \in Kind
  BY DEF Placed, Free, Outside, Recovery, Braces, Kind, Parens, Squares

LEMMA CallerOf ==
    ASSUME TokensOK, Inv(s, stack, taken), NEW k, In(k)
    PROVE  /\ Len(Outer) > 0 => Last(Outer).k \notin Recovery
           /\ k \notin Recovery => (Len(stack) > 0 => Last(stack).k \notin Recovery)
<1>1. Placed(Outer, Top) /\ Top = Last(stack) /\ Top.k = k
  BY Context
<1> QED BY <1>1 DEF Placed

\* A task that reads what is in the bracket at the cursor.
Reader(b, of, u) == /\ b = "block" => of = "func"
                    /\ \/ b \in Parens /\ At(u) = "("
                       \/ b \in Squares /\ At(u) = "["
                       \/ b \in Braces /\ At(u) = "{"

\* A bracket is opened, and a task that reads on to the one that closes it.
LEMMA NewLoop ==
    ASSUME TokensOK, NEW st, NEW tk, NEW u, Calm(u, st, tk),
           NEW b \in Free, NEW of \in Of, Reader(b, of, u),
           Len(st) > 0 => Last(st).k \notin Recovery
    PROVE  /\ Loop(b, u.pos, of) \in TaskSet /\ Loop(b, u.pos, of).open = u.pos
           /\ AtBracket(Loop(b, u.pos, of)) /\ Placed(st, Loop(b, u.pos, of))
           /\ Loop(b, u.pos, of).k \notin Recovery
           /\ At(u) \in Opening
<1>1. b \in Kind
  BY DEF Free, Kind, Parens, Squares
<1>2. u.pos \in 1..Len(tokens) /\ Len(tokens) \in Nat /\ u.pos \in 0..Len(tokens) /\ u.pos # 0
  <2>1. CursorInv(u)
    BY DEF Calm, Inv
  <2>2. u.pos \in 1..Len(tokens) /\ Len(tokens) \in Nat \ {0}
    BY <2>1, CursorType
  <2> QED BY <2>2, Places, Zenon
<1>3. /\ Loop(b, u.pos, of) \in TaskSet /\ Loop(b, u.pos, of).open = u.pos
      /\ Loop(b, u.pos, of).k = b /\ Loop(b, u.pos, of).of = of
  BY <1>1, <1>2, LoopIs
<1>4. Placed(st, Loop(b, u.pos, of)) /\ Loop(b, u.pos, of).k \notin Recovery
  BY <1>3, FreeMay DEF Reader
<1>5. AtBracket(Loop(b, u.pos, of))
  BY <1>2, <1>3 DEF AtBracket, At, Reader
<1> QED BY <1>3, <1>4, <1>5 DEF Opening, Reader

LEMMA OpeningAround ==
    ASSUME TokensOK, Outer \in Seq(TaskSet), NEW u, Calm(u, Outer, taken'),
           NEW b \in Free, NEW of \in Of, Reader(b, of, u)
    PROVE  /\ Becomes(Bump(u), <<Loop(b, u.pos, of)>>) => Kept
           /\ \A more \in Seq(LooseTask) : Becomes(Bump(u), <<Loop(b, u.pos, of)>> \o more) => Kept
<1> DEFINE a == Loop(b, u.pos, of)
           h == <<a>>
<1>1. a \in TaskSet /\ a.open = u.pos /\ AtBracket(a) /\ Placed(Outer, a) /\ a.k \notin Recovery
      /\ At(u) \in Opening
  BY NewLoop DEF Calm
<1> HIDE DEF a
<1>2. h \in Seq(TaskSet) /\ Len(h) = 1 /\ h[1] = a
  <2>1. a \in TaskSet
    BY <1>1
  <2> QED BY <2>1, OneTask, Zenon
<1> HIDE DEF h
<1>3. /\ Becomes(Bump(u), h) => Kept
      /\ \A more \in Seq(LooseTask) : Becomes(Bump(u), h \o more) => Kept
  BY <1>1, <1>2, OpeningInPlace
<1> QED BY <1>3 DEF h, a

LEMMA OpeningHere ==
    ASSUME TokensOK, Inv(s, stack, taken), NEW k, In(k), NEW u, Calm(u, Outer, taken),
           NEW b \in Free, NEW of \in Of, Reader(b, of, u)
    PROVE  /\ Becomes(Bump(u), <<Loop(b, u.pos, of)>>) => Kept
           /\ \A more \in Seq(LooseTask) : Becomes(Bump(u), <<Loop(b, u.pos, of)>> \o more) => Kept
<1>1. Outer \in Seq(TaskSet) /\ taken' = taken
  BY Context
<1> QED BY <1>1, OpeningAround

LEMMA OpeningNext ==
    ASSUME TokensOK, Inv(s, stack, taken), NEW k, In(k), k \notin Recovery, NEW u, Calm(u, stack, taken),
           NEW b \in Free, NEW of \in Of, Reader(b, of, u)
    PROVE  Becomes(Bump(u), <<Top, Loop(b, u.pos, of)>>) => Kept
<1> DEFINE a == Loop(b, u.pos, of)
           h == <<Top, a>>
<1>1. a \in TaskSet /\ a.open = u.pos /\ AtBracket(a) /\ Placed(stack, a) /\ a.k \notin Recovery
      /\ At(u) \in Opening
  BY CallerOf, NewLoop
<1>2. Top \in TaskSet
  BY Context
<1> HIDE DEF a
<1>3. h \in Seq(TaskSet) /\ Len(h) = 2 /\ h[1] = Top /\ h[2] = a
  <2>1. a \in TaskSet
    BY <1>1
  <2> QED BY <1>2, <2>1, TwoTasks, Zenon
<1> HIDE DEF h
<1>4. Becomes(Bump(u), h) => Kept
  BY <1>1, <1>3, OpeningWithin
<1> QED BY <1>4 DEF h, a

LEMMA PatternPayloadStep ==
    ASSUME TokensOK, Inv(s, stack, taken), PatternPayload
    PROVE  Kept
<1>1. In("pattern") /\ "pattern" \in Idle /\ "none" \in Of
  BY IdleKinds DEF PatternPayload, Of
<1>2. Calm(s, Outer, taken)
  BY <1>1, Resting
<1>3. Becomes(s, <<>>) => Kept
  BY <1>1, <1>2, Ending
<1>4. /\ "bindings" \in Free /\ "bindings" \in Parens /\ "bindings" # "block"
      /\ "bound fields" \in Free /\ "bound fields" \in Braces /\ "bound fields" # "block"
  BY DEF Free, Parens, Braces
<1>7. /\ At(s) = "(" => Reader("bindings", "none", s)
      /\ At(s) = "{" => Reader("bound fields", "none", s)
  BY <1>4 DEF Reader
<1>5. At(s) = "(" /\ Becomes(Bump(s), <<Loop("bindings", s.pos, "none")>>) => Kept
  BY <1>1, <1>2, <1>4, <1>7, OpeningHere
<1>6. At(s) = "{" /\ Becomes(Bump(s), <<Loop("bound fields", s.pos, "none")>>) => Kept
  BY <1>1, <1>2, <1>4, <1>7, OpeningHere
<1> QED BY <1>3, <1>5, <1>6 DEF PatternPayload

LEMMA ReaderKinds ==
    /\ {"bindings", "group", "args", "list", "bound fields", "record literal", "arms", "names", "fields",
        "variants", "block"} \subseteq Free
    /\ "none" \in Of /\ "func" \in Of
    /\ \A u : /\ At(u) = "(" => /\ Reader("bindings", "none", u) /\ Reader("group", "none", u)
                                /\ Reader("args", "none", u)
              /\ At(u) = "[" => Reader("list", "none", u)
              /\ At(u) = "{" => /\ Reader("bound fields", "none", u) /\ Reader("record literal", "none", u)
                                /\ Reader("arms", "none", u) /\ Reader("names", "none", u)
                                /\ Reader("fields", "none", u) /\ Reader("variants", "none", u)
                                /\ Reader("block", "func", u)
  BY DEF Free, Of, Reader, Parens, Squares, Braces

LEMMA AsIs ==
    ASSUME TokensOK, Inv(s, stack, taken), NEW k, In(k), NEW j \in Kind
    PROVE  /\ As(j) \in TaskSet /\ As(j).k = j /\ As(j).open = Top.open
           /\ As(j).of = Top.of /\ As(j).depth = Top.depth
<1>1. Top \in TaskSet
  BY Context
<1>2. As(j) = [Top EXCEPT !.k = j]
  BY DEF As
<1>3. /\ [Top EXCEPT !.k = j] \in TaskSet /\ [Top EXCEPT !.k = j].k = j
      /\ [Top EXCEPT !.k = j].open = Top.open /\ [Top EXCEPT !.k = j].of = Top.of
      /\ [Top EXCEPT !.k = j].depth = Top.depth
  BY <1>1 DEF TaskSet
<1> QED BY <1>2, <1>3

LEMMA LooseAs ==
    ASSUME TokensOK, Inv(s, stack, taken), NEW k \in Idle, In(k)
    PROVE  /\ \A j \in Loose : As(j) \in LooseTask
           /\ k \in Loose => Top \in LooseTask
<1>1. Top \in TaskSet /\ Top.k = k /\ Top.open = 0
  BY Context DEF Idle
<1>2. \A j \in Loose : j \in Kind
  BY DEF Kind
<1>3. \A j \in Loose : As(j) \in TaskSet /\ As(j).k = j /\ As(j).open = 0
  BY <1>1, <1>2, AsIs
<1> QED BY <1>1, <1>3 DEF LooseTask

LEMMA TwoLoose ==
    ASSUME NEW a \in LooseTask, NEW b \in LooseTask
    PROVE  <<a, b>> \in Seq(LooseTask)
  OBVIOUS

LEMMA UnaryStep ==
    ASSUME TokensOK, Inv(s, stack, taken), Unary
    PROVE  Kept
<1>1. In("unary") /\ "unary" \in Idle /\ "unary" \in Loose /\ "postfix" \in Loose
      /\ "primary" \in Loose /\ "no path" \in Loose
  BY IdleKinds DEF Unary, Loose
<1>2. Calm(s, Outer, taken) /\ (At(s) \in {"-", "!"} => Calm(Bump(s), Outer, taken))
  <2>1. At(s) \in {"-", "!"} => At(s) \in Plain
    BY PlainTokens DEF BinOp
  <2> QED BY <1>1, <2>1, Resting, Passing
<1>3. Top \in LooseTask /\ As("postfix") \in LooseTask
  BY <1>1, LooseAs
<1>4. Task("primary") \in LooseTask /\ Task("no path") \in LooseTask
  BY <1>1, LooseCalls
<1>5. <<Task("no path"), Top>> \in Seq(LooseTask) /\ <<As("postfix"), Task("primary")>> \in Seq(LooseTask)
  BY <1>3, <1>4, TwoLoose, Zenon
<1>6. At(s) \in {"-", "!"} /\ Becomes(Bump(s), <<Task("no path"), Top>>) => Kept
  BY <1>1, <1>2, <1>5, Ending
<1>7. Becomes(s, <<As("postfix"), Task("primary")>>) => Kept
  BY <1>1, <1>2, <1>5, Ending
<1> QED BY <1>6, <1>7 DEF Unary

LEMMA PostfixStep ==
    ASSUME TokensOK, Inv(s, stack, taken), Postfix
    PROVE  Kept
<1>1. In("postfix") /\ "postfix" \in Idle /\ "postfix" \notin Recovery
  BY IdleKinds DEF Postfix, Idle
<1>2. Calm(s, Outer, taken) /\ Calm(s, stack, taken)
  BY <1>1, Resting
<1>3. Becomes(s, <<>>) => Kept
  BY <1>1, <1>2, Ending
<1>4. At(s) = "." /\ Becomes(ExpectMember(Bump(s)), <<Top>>) => Kept
  <2>1. At(s) = "." => Calm(Bump(s), stack, taken)
    BY <1>2, PlainTokens, Passing
  <2>2. At(s) = "." => Calm(ExpectMember(Bump(s)), stack, taken)
    BY <2>1, Naming
  <2> QED BY <1>1, <2>2, Remaining
<1>5. At(s) = "(" /\ Becomes(Bump(s), <<Top, Loop("args", s.pos, "none")>>) => Kept
  BY <1>1, <1>2, ReaderKinds, OpeningNext
<1>6. At(s) = "{" /\ Becomes(Bump(s), <<Top, Loop("record literal", s.pos, "none")>>) => Kept
  BY <1>1, <1>2, ReaderKinds, OpeningNext
<1> QED BY <1>3, <1>4, <1>5, <1>6 DEF Postfix

LEMMA MatchStep ==
    ASSUME TokensOK, Inv(s, stack, taken), Match
    PROVE  Kept
<1>1. In("match") /\ "match" \in Idle
  BY IdleKinds DEF Match
<1>2. Calm(s, Outer, taken)
  BY <1>1, Resting
<1>3. Becomes(s, <<>>) => Kept
  BY <1>1, <1>2, Ending
<1>4. At(s) = "{" /\ Becomes(Bump(s), <<Loop("arms", s.pos, "none")>>) => Kept
  BY <1>1, <1>2, ReaderKinds, OpeningHere
<1>5. Becomes(Fail(Missing(s, "{")), <<>>) => Kept
  <2>1. "{" \in Token /\ "{" # "eof"
    BY DEF Token
  <2>2. Calm(Fail(Missing(s, "{")), Outer, taken)
    BY <1>2, <2>1, Expecting
  <2> QED BY <1>1, <2>2, Ending
<1> QED BY <1>3, <1>4, <1>5 DEF Match

LEMMA ArmBodyStep ==
    ASSUME TokensOK, Inv(s, stack, taken), ArmBody
    PROVE  Kept
<1>1. In("arm body") /\ "arm body" \in Idle
  BY IdleKinds DEF ArmBody
<1>2. Calm(s, Outer, taken)
  BY <1>1, Resting
<1>3. Becomes(s, <<>>) => Kept
  BY <1>1, <1>2, Ending
<1>4. Becomes(Expect(s, "=>"), Expr("none")) => Kept
  <2>1. "=>" \in Token /\ "=>" # "eof" /\ "=>" \in Plain
    BY PlainTokens DEF Token
  <2>2. Calm(Expect(s, "=>"), Outer, taken)
    BY <1>2, <2>1, Expecting
  <2> QED BY <1>1, <2>2, LooseLists, Ending
<1> QED BY <1>3, <1>4 DEF ArmBody

LEMMA LetValueStep ==
    ASSUME TokensOK, Inv(s, stack, taken), LetValue
    PROVE  Kept
<1>1. In("let value") /\ "let value" \in Idle
  BY IdleKinds DEF LetValue
<1>2. Calm(s, Outer, taken)
  BY <1>1, Resting
<1>3. Becomes(s, <<>>) => Kept
  BY <1>1, <1>2, Ending
<1>4. "=" \in Token /\ "=" # "eof" /\ "=" \in Plain
  BY PlainTokens DEF Token
<1>5. Calm(Expect(s, "="), Outer, taken) /\ Calm(Fail(Missing(s, "=")), Outer, taken)
  BY <1>2, <1>4, Expecting
<1>6. Becomes(Expect(s, "="), <<Task("let else")>> \o Expr("none")) => Kept
  BY <1>1, <1>5, LooseLists, Ending
<1>7. Becomes(Fail(Missing(s, "=")), <<>>) => Kept
  BY <1>1, <1>5, Ending
<1> QED BY <1>3, <1>6, <1>7 DEF LetValue

LEMMA LetElseStep ==
    ASSUME TokensOK, Inv(s, stack, taken), LetElse
    PROVE  Kept
<1>1. In("let else") /\ "let else" \in Idle
  BY IdleKinds DEF LetElse
<1>2. Calm(s, Outer, taken) /\ (At(s) = "else" => Calm(Bump(s), Outer, taken))
  BY <1>1, Resting, PlainTokens, Passing
<1>3. Becomes(s, <<>>) => Kept
  BY <1>1, <1>2, Ending
<1>4. At(s) = "else" /\ Becomes(Expect(Bump(s), "fail"), Expr("none")) => Kept
  <2>1. "fail" \in Token /\ "fail" # "eof" /\ "fail" \in Plain
    BY PlainTokens DEF Token, Keyword
  <2>2. At(s) = "else" => Calm(Expect(Bump(s), "fail"), Outer, taken)
    BY <1>2, <2>1, Expecting
  <2> QED BY <1>1, <2>2, LooseLists, Ending
<1> QED BY <1>3, <1>4 DEF LetElse
-----------------------------------------------------------------------------
(* Lists in brackets.                                                      *)

LEMMA Within ==
    ASSUME TokensOK, Inv(s, stack, taken), NEW k \in Bracketed, In(k), Top.open # 0
    PROVE  /\ Calm(s, stack, taken) /\ Calm(Here, stack, taken) /\ At(Here) # "nl"
           /\ Top.open \in 1..Len(tokens) /\ Top.open \in Opens(stack) /\ \A x \in Opens(stack) : x <= Top.open
           /\ \A t : Calm(t, stack, taken) /\ t.errs # {} => Calm(t, Outer, taken)
           /\ \A t : Calm(t, stack, taken) /\ At(t) = Closer(tokens[Top.open]) => Calm(Bump(t), Outer, taken)
<1>1. k \notin Recovery \cup {"clauses"}
  BY DEF Bracketed, Parens, Squares, Braces, Recovery
<1>2. /\ Calm(s, stack, taken) /\ Top.open \in Opens(stack) /\ \A x \in Opens(stack) : x <= Top.open
      /\ Len(stack) > 0 /\ Top = Last(stack) /\ Outer = Callers(stack)
      /\ Top.open \in 0..Len(tokens)
  BY <1>1, Context
<1>3. Top.open \in 1..Len(tokens)
  <2>1. Len(tokens) \in Nat
    BY DEF TokensOK
  <2> QED BY <1>2, <2>1
<1>4. Calm(Here, stack, taken)
  <2>1. Opens(stack) # {}
    BY <1>2
  <2>2. Inv(s, stack, taken) /\ Off(s) /\ (Len(stack) > 0 => Last(stack).k \notin Recovery)
    BY <1>2 DEF Calm
  <2> QED BY <2>1, <2>2, Newlines DEF Here
<1>5. At(Here) # "nl"
  <2>1. CursorInv(s)
    BY DEF Inv
  <2> QED BY <2>1, NewlinesAre DEF Here
<1>6. ASSUME NEW t, Calm(t, stack, taken), t.errs # {}
      PROVE  Calm(t, Outer, taken)
  BY <1>6, Returning
<1>7. ASSUME NEW t, Calm(t, stack, taken), At(t) = Closer(tokens[Top.open])
      PROVE  Calm(Bump(t), Outer, taken)
  BY <1>2, <1>7, ClosingOne
<1> QED BY <1>2, <1>3, <1>4, <1>5, <1>6, <1>7

\* A loop that stops at its closing bracket and at the end of the file.
LEMMA Closed ==
    ASSUME TokensOK, Inv(s, stack, taken), NEW k \in Bracketed, In(k), Top.open # 0,
           NEW close, close = Closer(tokens[Top.open]), close \in Closing, NEW t, NEW more,
           At(Here) \notin {close, "eof"} /\ Becomes(t, more) => Kept
    PROVE  (Until(close, t, more) => Kept) /\ (UntilThen(close, t, more) => Kept)
<1>1. Calm(Here, stack, taken) /\ Top.open \in 1..Len(tokens)
  BY Within
<1>2. close \in Token /\ close # "eof"
  BY DEF Closing, Token
<1>3. At(Here) = close => Calm(NoPath(Bump(Here)), Outer, taken)
  <2>1. At(Here) = close => Calm(Bump(Here), Outer, taken)
    BY <1>1, Within
  <2> QED BY <2>1, Marking
<1> DEFINE u == Unclosed(Here, Top.open, close)
           v == Missing(u, close)
<1>4. Calm(u, stack, taken) /\ u.errs # {} /\ Calm(v, stack, taken) /\ v.errs # {}
  BY <1>1, <1>2, Unclosing
<1> HIDE DEF u, v
<1>5. Calm(u, Outer, taken) /\ Calm(v, Outer, taken)
  BY <1>4, Within
<1>6. Calm(NoPath(u), Outer, taken) /\ Calm(NoPath(v), Outer, taken)
  BY <1>5, Marking
<1>7. At(Here) = close /\ Becomes(NoPath(Bump(Here)), <<>>) => Kept
  BY <1>3, Ending
<1>8. (Becomes(NoPath(u), <<>>) => Kept) /\ (Becomes(NoPath(v), <<>>) => Kept)
  BY <1>6, Ending
<1> QED BY <1>7, <1>8 DEF Until, UntilThen, u, v

LEMMA BracketOf ==
    ASSUME TokensOK, Inv(s, stack, taken), NEW k, In(k)
    PROVE  /\ k \in Braces => /\ k \in Bracketed /\ Top.open # 0 /\ tokens[Top.open] = "{"
                              /\ "}" = Closer(tokens[Top.open]) /\ "}" \in Closing
           /\ k \in Squares => /\ k \in Bracketed /\ Top.open # 0 /\ tokens[Top.open] = "["
                               /\ "]" = Closer(tokens[Top.open]) /\ "]" \in Closing
           /\ k \in Parens /\ Top.open # 0 => /\ k \in Bracketed /\ tokens[Top.open] = "("
                                              /\ ")" = Closer(tokens[Top.open]) /\ ")" \in Closing
           /\ k \in Parens \ {"group"} => Top.open # 0
<1>1. /\ k \in Braces => Top.open # 0 /\ tokens[Top.open] = "{"
      /\ k \in Squares => Top.open # 0 /\ tokens[Top.open] = "["
      /\ k \in Parens \ {"group"} => Top.open # 0
      /\ k \in Parens /\ Top.open # 0 => tokens[Top.open] = "("
  BY Context
<1>2. Closer("{") = "}" /\ Closer("[") = "]" /\ Closer("(") = ")"
  BY DEF Closer
<1> QED BY <1>1, <1>2 DEF Bracketed, Closing

\* An entry of a list in braces is called.
LEMMA EntryCall ==
    ASSUME TokensOK, Inv(s, stack, taken), NEW k \in Braces, In(k), NEW u, Calm(u, stack, taken)
    PROVE  /\ Becomes(u, Entry) => Kept
           /\ \A more \in Seq(LooseTask) : Becomes(u, Entry \o more) => Kept
<1> DEFINE a == Task("entry end")
           h == <<Top, a>>
<1>1. k \notin Recovery /\ "entry end" \in Kind
  BY DEF Braces, Recovery, Kind
<1>2. a \in TaskSet /\ a.k = "entry end" /\ a.open = 0
  BY <1>1, TaskIs
<1> HIDE DEF a
<1>3. Top \in TaskSet /\ Top = Last(stack) /\ Top.k = k /\ Len(stack) > 0
  BY Context
<1>4. AtBracket(a) /\ a.k \notin Recovery /\ a.k # "group"
  BY <1>2 DEF AtBracket, Parens, Squares, Braces, Recovery
<1>5. Placed(stack, a)
  BY <1>1, <1>2, <1>3 DEF Placed, Outside
<1>6. h \in Seq(TaskSet) /\ Len(h) = 2 /\ h[1] = Top /\ h[2] = a
  <2>1. Top \in TaskSet /\ a \in TaskSet
    BY <1>2, <1>3
  <2> QED BY <2>1, TwoTasks, Zenon
<1> HIDE DEF h
<1>7. /\ Becomes(u, h) => Kept
      /\ \A more \in Seq(LooseTask) : Becomes(u, h \o more) => Kept
  BY <1>2, <1>4, <1>5, <1>6, CallingOne
<1> QED BY <1>7 DEF h, a, Entry

\* A task goes on as one that reads in the same bracket.
LEMMA TurningTo ==
    ASSUME TokensOK, Inv(s, stack, taken), NEW k \in Bracketed, In(k), Top.open # 0, NEW j,
           \/ k = "args" /\ j = "arg"
           \/ k = "arg" /\ j = "args"
           \/ k = "list" /\ j = "element"
           \/ k = "element" /\ j = "list"
           \/ k = "record literal" /\ j = "value"
           \/ k = "value" /\ j = "record literal"
           \/ k = "payload" /\ j = "payload type"
           \/ k = "payload type" /\ j = "payload"
           \/ k = "params" /\ j = "param"
           \/ k = "param" /\ j = "params",
           NEW t, Calm(t, stack, taken)
    PROVE  /\ Becomes(t, <<As(j)>>) => Kept
           /\ \A more \in Seq(LooseTask) : Becomes(t, <<As(j)>> \o more) => Kept
<1> DEFINE a == As(j)
           h == <<a>>
<1>1. j \in Kind /\ j \notin Recovery /\ j # "group"
  BY DEF Kind, Parens, Squares, Braces, Recovery
<1>2. a \in TaskSet /\ a.k = j /\ a.open = Top.open
  BY <1>1, AsIs
<1> HIDE DEF a
<1>3. Top.k = k /\ AtBracket(Top) /\ Placed(Outer, Top)
  BY Context
<1>4. AtBracket(a)
  BY <1>2, <1>3 DEF AtBracket, Parens, Squares, Braces
<1>5. Placed(Outer, a)
  BY <1>2, <1>3 DEF Placed, Outside
<1>6. h \in Seq(TaskSet) /\ Len(h) = 1 /\ h[1] = a
  <2>1. a \in TaskSet
    BY <1>2
  <2> QED BY <2>1, OneTask, Zenon
<1> HIDE DEF h
<1>7. /\ Becomes(t, h) => Kept
      /\ \A more \in Seq(LooseTask) : Becomes(t, h \o more) => Kept
  BY <1>1, <1>2, <1>4, <1>5, <1>6, Turning
<1> QED BY <1>7 DEF h, a

\* A failure has left an error.
LEMMA Failed ==
    ASSUME NEW u, NEW st, NEW tk, Calm(u, st, tk), ~u.ok
    PROVE  u.errs # {}
  BY DEF Calm, Inv, CursorInv

\* A closing bracket is expected.
LEMMA ExpectClose ==
    ASSUME TokensOK, Inv(s, stack, taken), NEW k \in Bracketed, In(k), Top.open # 0,
           NEW close, close = Closer(tokens[Top.open]), close \in Closing, NEW t, Calm(t, stack, taken)
    PROVE  Calm(Expect(t, close), Outer, taken)
<1>1. close \in Token /\ close # "eof"
  BY DEF Closing, Token
<1>2. Calm(Missing(t, close), stack, taken) /\ Missing(t, close).errs # {}
  BY <1>1, Expecting
<1>3. Calm(Missing(t, close), Outer, taken)
  BY <1>2, Within
<1>4. At(t) = close => Calm(Bump(t), Outer, taken)
  BY Within
<1> QED BY <1>3, <1>4 DEF Expect

\* Recovery within the brackets.
LEMMA RecoverHere ==
    ASSUME TokensOK, Inv(s, stack, taken), NEW k \in Bracketed, In(k), Top.open # 0,
           NEW t, Calm(t, stack, taken), t.errs # {}
    PROVE  /\ k \in Braces => Calm(RecoverInBraces(t), stack, taken)
           /\ k \in Squares => Calm(RecoverInBrackets(t), stack, taken)
           /\ k \in Parens => Calm(RecoverInParens(t), stack, taken)
<1>1. Top.open \in Opens(stack) /\ \A x \in Opens(stack) : x <= Top.open
  BY Within
<1>2. /\ k \in Braces => tokens[Top.open] = "{"
      /\ k \in Squares => tokens[Top.open] = "["
      /\ k \in Parens => tokens[Top.open] = "("
  BY BracketOf
<1> QED BY <1>1, <1>2, Recovering

LEMMA BoundFieldStep ==
    ASSUME TokensOK, Inv(s, stack, taken), BoundField
    PROVE  Kept
<1>1. In("bound fields") /\ "bound fields" \in Braces
  BY DEF BoundField, Braces
<1>2. Calm(ExpectIdent(Here), stack, taken)
  BY <1>1, BracketOf, Within, Naming
<1>3. Becomes(ExpectIdent(Here), Entry) => Kept
  BY <1>1, <1>2, EntryCall
<1>4. UntilThen("}", ExpectIdent(Here), Entry) => Kept
  BY <1>1, <1>3, BracketOf, Closed
<1> QED BY <1>4 DEF BoundField

LEMMA ImportedNameStep ==
    ASSUME TokensOK, Inv(s, stack, taken), ImportedName
    PROVE  Kept
<1>1. In("names") /\ "names" \in Braces
  BY DEF ImportedName, Braces
<1>2. Calm(ExpectIdent(Here), stack, taken)
  BY <1>1, BracketOf, Within, Naming
<1>3. Becomes(ExpectIdent(Here), Entry) => Kept
  BY <1>1, <1>2, EntryCall
<1>4. Until("}", ExpectIdent(Here), Entry) => Kept
  BY <1>1, <1>3, BracketOf, Closed
<1> QED BY <1>4 DEF ImportedName

LEMMA ArmsStep ==
    ASSUME TokensOK, Inv(s, stack, taken), Arms
    PROVE  Kept
<1> DEFINE more == <<Task("arm body")>> \o Pattern
<1>1. In("arms") /\ "arms" \in Braces
  BY DEF Arms, Braces
<1>2. Calm(Here, stack, taken)
  BY <1>1, BracketOf, Within
<1>3. more \in Seq(LooseTask)
  BY LooseLists
<1> HIDE DEF more
<1>4. Becomes(Here, Entry \o more) => Kept
  BY <1>1, <1>2, <1>3, EntryCall
<1>5. Until("}", Here, Entry \o more) => Kept
  BY <1>1, <1>4, BracketOf, Closed
<1> QED BY <1>5 DEF Arms, more

LEMMA FieldStep ==
    ASSUME TokensOK, Inv(s, stack, taken), Field
    PROVE  Kept
<1> DEFINE n == Named(Here, ":")
           more == IF n.ok THEN Type ELSE <<>>
<1>1. In("fields") /\ "fields" \in Braces
  BY DEF Field, Braces
<1>2. Calm(n, stack, taken)
  BY <1>1, BracketOf, Within, NamingBefore
<1>3. more \in Seq(LooseTask)
  <2>1. <<>> \in Seq(LooseTask)
    BY EmptySeq
  <2> QED BY <2>1, LooseLists
<1> HIDE DEF n, more
<1>4. Becomes(n, Entry \o more) => Kept
  BY <1>1, <1>2, <1>3, EntryCall
<1>5. Until("}", n, Entry \o more) => Kept
  BY <1>1, <1>4, BracketOf, Closed
<1> QED BY <1>5 DEF Field, more, n

LEMMA BindingStep ==
    ASSUME TokensOK, Inv(s, stack, taken), Binding
    PROVE  Kept
<1> DEFINE b == ExpectIdent(Here)
           c == IF b.ok THEN b ELSE RecoverInParens(b)
<1>1. In("bindings") /\ "bindings" \in Parens /\ "bindings" # "group"
  BY DEF Binding, Parens
<1>2. /\ "bindings" \in Bracketed /\ Top.open # 0
      /\ ")" = Closer(tokens[Top.open]) /\ ")" \in Closing
  BY <1>1, BracketOf
<1>3. Calm(b, stack, taken)
  BY <1>1, <1>2, Within, Naming
<1> HIDE DEF b
<1>4. Calm(c, stack, taken)
  <2>1. ~b.ok => b.errs # {}
    BY <1>3, Failed
  <2> QED BY <1>1, <1>2, <1>3, <2>1, RecoverHere
<1> HIDE DEF c
<1>5. Calm(Expect(c, ")"), Outer, taken)
  BY <1>1, <1>2, <1>4, ExpectClose
<1>6. Becomes(Expect(c, ")"), <<>>) => Kept
  BY <1>1, <1>5, Ending
<1>7. At(b) = "," /\ Becomes(Bump(b), <<Top>>) => Kept
  <2>1. At(b) = "," => Calm(Bump(b), stack, taken)
    BY <1>3, PlainTokens, Passing
  <2> QED BY <1>1, <2>1, Remaining
<1>8. At(b) = "," => (UntilThen(")", Bump(b), <<Top>>) => Kept)
  BY <1>1, <1>2, <1>7, Closed
<1>9. UntilThen(")", Expect(c, ")"), <<>>) => Kept
  BY <1>1, <1>2, <1>6, Closed
<1> QED BY <1>8, <1>9 DEF Binding, b, c

LEMMA ArgsStep ==
    ASSUME TokensOK, Inv(s, stack, taken), Args
    PROVE  Kept
<1>1. In("args") /\ "args" \in Parens /\ "args" # "group"
  BY DEF Args, Parens
<1>2. /\ "args" \in Bracketed /\ Top.open # 0
      /\ ")" = Closer(tokens[Top.open]) /\ ")" \in Closing
  BY <1>1, BracketOf
<1>3. Calm(Here, stack, taken)
  BY <1>1, <1>2, Within
<1>4. Becomes(Here, <<As("arg")>> \o Expr("none")) => Kept
  BY <1>1, <1>2, <1>3, LooseLists, TurningTo
<1>5. UntilThen(")", Here, <<As("arg")>> \o Expr("none")) => Kept
  BY <1>1, <1>2, <1>4, Closed
<1> QED BY <1>5 DEF Args

LEMMA ArgStep ==
    ASSUME TokensOK, Inv(s, stack, taken), Arg
    PROVE  Kept
<1>1. In("arg") /\ "arg" \in Parens /\ "arg" # "group"
  BY DEF Arg, Parens
<1>2. /\ "arg" \in Bracketed /\ Top.open # 0
      /\ ")" = Closer(tokens[Top.open]) /\ ")" \in Closing
  BY <1>1, BracketOf
<1>3. Calm(Here, stack, taken) /\ Calm(s, stack, taken)
  BY <1>1, <1>2, Within
<1>4. ~s.ok /\ Becomes(s, <<>>) => Kept
  <2>1. ~s.ok => Calm(s, Outer, taken)
    BY <1>1, <1>2, <1>3, Failed, Within
  <2> QED BY <1>1, <2>1, Ending
<1>5. At(Here) = "," /\ Becomes(Bump(Here), <<As("args")>>) => Kept
  <2>1. At(Here) = "," => Calm(Bump(Here), stack, taken)
    BY <1>3, PlainTokens, Passing
  <2> QED BY <1>1, <1>2, <2>1, TurningTo
<1>6. Becomes(NoPath(Expect(Here, ")")), <<>>) => Kept
  <2>1. Calm(Expect(Here, ")"), Outer, taken)
    BY <1>1, <1>2, <1>3, ExpectClose
  <2>2. Calm(NoPath(Expect(Here, ")")), Outer, taken)
    BY <2>1, Marking
  <2> QED BY <1>1, <2>2, Ending
<1> QED BY <1>4, <1>5, <1>6 DEF Arg

LEMMA ListStep ==
    ASSUME TokensOK, Inv(s, stack, taken), List
    PROVE  Kept
<1>1. In("list") /\ "list" \in Squares
  BY DEF List, Squares
<1>2. /\ "list" \in Bracketed /\ Top.open # 0
      /\ "]" = Closer(tokens[Top.open]) /\ "]" \in Closing
  BY <1>1, BracketOf
<1>3. Calm(Here, stack, taken)
  BY <1>1, <1>2, Within
<1>4. Becomes(Here, <<As("element")>> \o Expr("none")) => Kept
  BY <1>1, <1>2, <1>3, LooseLists, TurningTo
<1>5. Until("]", Here, <<As("element")>> \o Expr("none")) => Kept
  BY <1>1, <1>2, <1>4, Closed
<1> QED BY <1>5 DEF List

LEMMA ElementStep ==
    ASSUME TokensOK, Inv(s, stack, taken), Element
    PROVE  Kept
<1> DEFINE u == IF s.ok THEN Separated(s, "]") ELSE Eat(RecoverInBrackets(s), ",")
<1>1. In("element") /\ "element" \in Squares
  BY DEF Element, Squares
<1>2. /\ "element" \in Bracketed /\ Top.open # 0
      /\ "]" = Closer(tokens[Top.open]) /\ "]" \in Closing
  BY <1>1, BracketOf
<1>3. /\ Calm(s, stack, taken) /\ Top.open \in Opens(stack)
      /\ \A x \in Opens(stack) : x <= Top.open
  BY <1>1, <1>2, Within
<1>4. Calm(Separated(s, "]"), stack, taken)
  BY <1>2, <1>3, Separating
<1>5. ~s.ok => Calm(Eat(RecoverInBrackets(s), ","), stack, taken)
  BY <1>1, <1>2, <1>3, Failed, RecoverHere, Comma
<1>6. Calm(u, stack, taken)
  BY <1>4, <1>5
<1> HIDE DEF u
<1>7. Becomes(u, <<As("list")>>) => Kept
  BY <1>1, <1>2, <1>6, TurningTo
<1> QED BY <1>7 DEF Element, u

LEMMA RecordLitStep ==
    ASSUME TokensOK, Inv(s, stack, taken), RecordLit
    PROVE  Kept
<1> DEFINE f == ExpectIdent(Here)
<1>1. In("record literal") /\ "record literal" \in Braces
  BY DEF RecordLit, Braces
<1>2. /\ "record literal" \in Bracketed /\ Top.open # 0
      /\ "}" = Closer(tokens[Top.open]) /\ "}" \in Closing
  BY <1>1, BracketOf
<1>3. /\ Calm(Here, stack, taken) /\ Top.open \in Opens(stack)
      /\ \A x \in Opens(stack) : x <= Top.open
  BY <1>1, <1>2, Within
<1>4. Calm(f, stack, taken)
  BY <1>3, Naming
<1> HIDE DEF f
<1>5. ~f.ok => (Until("}", Eat(RecoverInBraces(f), ","), <<Top>>) => Kept)
  <2>1. ~f.ok => Calm(Eat(RecoverInBraces(f), ","), stack, taken)
    BY <1>1, <1>2, <1>4, Failed, RecoverHere, Comma
  <2>2. ~f.ok /\ Becomes(Eat(RecoverInBraces(f), ","), <<Top>>) => Kept
    BY <1>1, <2>1, Remaining
  <2> QED BY <1>1, <1>2, <2>2, Closed
<1>6. At(f) = ":" => (Until("}", Bump(f), <<As("value")>> \o Expr("none")) => Kept)
  <2>1. At(f) = ":" => Calm(Bump(f), stack, taken)
    BY <1>4, PlainTokens, Passing
  <2>2. At(f) = ":" /\ Becomes(Bump(f), <<As("value")>> \o Expr("none")) => Kept
    BY <1>1, <1>2, <2>1, LooseLists, TurningTo
  <2> QED BY <1>1, <1>2, <2>2, Closed
<1>7. Until("}", Separated(f, "}"), <<Top>>) => Kept
  <2>1. Calm(Separated(f, "}"), stack, taken)
    BY <1>2, <1>3, <1>4, Separating
  <2>2. Becomes(Separated(f, "}"), <<Top>>) => Kept
    BY <1>1, <2>1, Remaining
  <2> QED BY <1>1, <1>2, <2>2, Closed
<1> QED BY <1>5, <1>6, <1>7 DEF RecordLit, f

LEMMA ValueStep ==
    ASSUME TokensOK, Inv(s, stack, taken), Value
    PROVE  Kept
<1>1. In("value") /\ "value" \in Braces
  BY DEF Value, Braces
<1>2. /\ "value" \in Bracketed /\ Top.open # 0
      /\ "}" = Closer(tokens[Top.open]) /\ "}" \in Closing
  BY <1>1, BracketOf
<1>3. /\ Calm(s, stack, taken) /\ Top.open \in Opens(stack)
      /\ \A x \in Opens(stack) : x <= Top.open
  BY <1>1, <1>2, Within
<1>4. Calm(Separated(s, "}"), stack, taken)
  BY <1>2, <1>3, Separating
<1>5. ~s.ok => Calm(s, Outer, taken)
  BY <1>1, <1>2, <1>3, Failed, Within
<1>6. Becomes(Separated(s, "}"), <<As("record literal")>>) => Kept
  BY <1>1, <1>2, <1>4, TurningTo
<1>7. ~s.ok /\ Becomes(s, <<>>) => Kept
  BY <1>1, <1>5, Ending
<1> QED BY <1>6, <1>7 DEF Value

LEMMA PayloadStep ==
    ASSUME TokensOK, Inv(s, stack, taken), Payload
    PROVE  Kept
<1>1. In("payload") /\ "payload" \in Parens /\ "payload" # "group"
  BY DEF Payload, Parens
<1>2. /\ "payload" \in Bracketed /\ Top.open # 0
      /\ ")" = Closer(tokens[Top.open]) /\ ")" \in Closing
  BY <1>1, BracketOf
<1>3. Calm(Here, stack, taken)
  BY <1>1, <1>2, Within
<1>4. Becomes(Here, <<As("payload type")>> \o Type) => Kept
  BY <1>1, <1>2, <1>3, LooseLists, TurningTo
<1>5. UntilThen(")", Here, <<As("payload type")>> \o Type) => Kept
  BY <1>1, <1>2, <1>4, Closed
<1> QED BY <1>5 DEF Payload

\* Behind a token that was passed unread nothing is promised.
LEMMA Lost ==
    ASSUME TokensOK, NEW v, CursorInv(v), v.lost # {}, NEW st, StackInv(st, v.pos),
           Len(st) > 0 => Last(st).k \notin Recovery, NEW tk, TakenInv(v, tk)
    PROVE  Calm(v, st, tk)
<1>1. v.errs # {} /\ ~Ahead(v) /\ Off(v)
  BY DEF CursorInv, Ahead, Off
<1> QED BY <1>1 DEF Calm, Inv, BracketInv, RecoveryInv, LineInv, LostInv

LEMMA GroupEndStep ==
    ASSUME TokensOK, Inv(s, stack, taken), GroupEnd
    PROVE  Kept
<1>1. In("group") /\ "group" \in Parens /\ "group" \in Bracketed /\ "group" \notin Recovery \cup {"clauses"}
  BY DEF GroupEnd, Parens, Bracketed, Recovery
<1>2. /\ Calm(s, stack, taken) /\ Len(stack) \in Nat /\ Len(stack) > 0 /\ Top = Last(stack)
      /\ Top.k = "group" /\ Outer = Callers(stack)
  BY <1>1, Context
<1>3. ~s.ok => Calm(s, Outer, taken)
  BY <1>1, <1>2, Failed, Returning
<1>4. CASE Top.open # 0
  <2>1. Calm(Expect(s, ")"), Outer, taken)
    BY <1>1, <1>2, <1>4, BracketOf, ExpectClose
  <2> QED BY <1>1, <1>3, <2>1, Ending DEF GroupEnd
<1>5. CASE Top.open = 0
  <2>1. Calm(s, Outer, taken)
    BY <1>2, <1>5, Return DEF Calm
  <2>2. ")" \in Token /\ ")" # "eof"
    BY DEF Token
  <2>3. Calm(Missing(s, ")"), Outer, taken)
    BY <2>1, <2>2, Expecting
  <2>4. s.lost # {}
    <3>1. Loosened(stack)
      BY <1>2, <1>5 DEF Loosened, Last
    <3> QED BY <3>1 DEF Inv, LostInv
  <2>5. ASSUME At(s) = ")" PROVE Calm(Bump(s), Outer, taken)
    <3> DEFINE v == Bump(s)
    <3>1. CursorInv(s) /\ At(s) # "eof"
      BY <2>5 DEF Inv
    <3>2. CursorInv(v) /\ v.lost = s.lost /\ v.pos = s.pos + 1 /\ s.pos < Len(tokens)
      BY <3>1, BumpIs
    <3> HIDE DEF v
    <3>3. s.pos \in Nat /\ v.pos \in Nat /\ s.pos <= v.pos /\ Len(tokens) \in Nat
      BY <3>1, <3>2, CursorType
    <3>4. StackInv(Outer, s.pos) /\ (Len(Outer) > 0 => Last(Outer).k \notin Recovery)
      BY <2>1 DEF Calm, Inv
    <3>5. StackInv(Outer, v.pos)
      BY <3>3, <3>4, StackLater
    <3>6. TakenInv(v, taken)
      <4> SUFFICES ASSUME NEW p \in 2..(v.pos - 1), Declares(p)
                   PROVE  p \in taken \/ \E q \in v.lost : q < p
        BY DEF TakenInv
      <4>1. p \in 2..(s.pos - 1) \/ p = s.pos
        BY <3>2, <3>3
      <4>2. CASE p \in 2..(s.pos - 1)
        BY <3>2, <4>2 DEF Inv, TakenInv
      <4>3. CASE p = s.pos
        <5>1. \A q \in s.lost : q < s.pos
          BY <3>1, <3>2, <3>3 DEF CursorInv
        <5> QED BY <2>4, <3>2, <4>3, <5>1
      <4> QED BY <4>1, <4>2, <4>3
    <3>7. Calm(v, Outer, taken)
      BY <2>4, <3>2, <3>4, <3>5, <3>6, Lost
    <3> QED BY <3>7 DEF v
  <2>6. Calm(Expect(s, ")"), Outer, taken)
    BY <2>3, <2>5 DEF Expect
  <2> QED BY <1>1, <1>3, <2>6, Ending DEF GroupEnd
<1> QED BY <1>4, <1>5

LEMMA LambdaEndStep ==
    ASSUME TokensOK, Inv(s, stack, taken), LambdaEnd
    PROVE  Kept
<1> DEFINE w == Bump(s)
           v == [Go(Bump(s)) EXCEPT !.lost = @ \cup {s.pos}]
           a == Task("group")
           h == <<a>>
<1>1. In("lambda") /\ "lambda" \in Idle
  BY IdleKinds DEF LambdaEnd
<1>2. Calm(s, stack, taken) /\ Calm(s, Outer, taken)
  BY <1>1, Resting
<1>3. s.ok /\ Becomes(NoPath(s), <<>>) => Kept
  BY <1>1, <1>2, Marking, Ending
<1>4. ASSUME ~s.ok, Becomes(v, h \o Expr("none")) PROVE Kept
  <2>1. /\ CursorInv(s) /\ s.errs # {} /\ s.pos \in Nat /\ s.pos \in 1..Len(tokens) /\ Len(tokens) \in Nat
        /\ s.lost \in SUBSET (1..Len(tokens))
    BY <1>2, <1>4, Failed, CursorType DEF Inv
  <2>2. /\ CursorInv(w) /\ w.errs = s.errs /\ w.lost = s.lost
        /\ \/ w.pos = s.pos + 1 /\ s.pos < Len(tokens)
           \/ w.pos = s.pos /\ s.pos = Len(tokens)
    BY <2>1, BumpIs
  <2> HIDE DEF w
  <2>3. w \in State /\ w.pos \in 1..Len(tokens) /\ w.pos \in Nat
    BY <2>2, CursorType DEF CursorInv
  <2>4. v = [[w EXCEPT !.ok = TRUE] EXCEPT !.lost = @ \cup {s.pos}]
    BY DEF Go, w
  <2>5. v \in State /\ v.pos = w.pos /\ v.errs = w.errs /\ v.lost = w.lost \cup {s.pos} /\ v.ok = TRUE
    <3> DEFINE ls == w.lost \cup {s.pos}
    <3>1. ls \in SUBSET (1..Len(tokens))
      BY <2>1, <2>2
    <3>2. v = [w EXCEPT !.ok = TRUE, !.lost = ls]
      BY <2>3, <2>4 DEF State
    <3> HIDE DEF ls
    <3>3. /\ [w EXCEPT !.ok = TRUE, !.lost = ls] \in State
          /\ [w EXCEPT !.ok = TRUE, !.lost = ls].pos = w.pos
          /\ [w EXCEPT !.ok = TRUE, !.lost = ls].errs = w.errs
          /\ [w EXCEPT !.ok = TRUE, !.lost = ls].lost = ls
          /\ [w EXCEPT !.ok = TRUE, !.lost = ls].ok = TRUE
      BY <2>3, <3>1 DEF State
    <3> QED BY <3>2, <3>3 DEF ls
  <2> HIDE DEF v
  <2>6. CursorInv(v)
    <3>1. \A q \in v.lost : q < v.pos \/ v.pos = Len(tokens)
      BY <2>1, <2>2, <2>5 DEF CursorInv
    <3> QED BY <2>1, <2>2, <2>5, <3>1 DEF CursorInv
  <2>7. TakenInv(v, taken)
    <3> SUFFICES ASSUME NEW p \in 2..(v.pos - 1), Declares(p)
                 PROVE  p \in taken \/ \E q \in v.lost : q < p
      BY DEF TakenInv
    <3>1. p \in 2..(s.pos - 1) \/ (p = s.pos /\ s.pos < Len(tokens))
      BY <2>1, <2>2, <2>5
    <3>2. CASE p \in 2..(s.pos - 1)
      BY <2>2, <2>5, <3>2 DEF Inv, TakenInv
    <3>3. CASE p = s.pos /\ s.pos < Len(tokens)
      <4>1. s.lost # {}
        BY <1>2, <3>3 DEF Calm, Off
      <4>2. \A q \in s.lost : q < p
        BY <2>1, <3>3 DEF CursorInv
      <4> QED BY <2>2, <2>5, <4>1, <4>2
    <3> QED BY <3>1, <3>2, <3>3
  <2>8. /\ Outer \in Seq(TaskSet) /\ taken' = taken
        /\ StackInv(Outer, s.pos) /\ (Len(Outer) > 0 => Last(Outer).k \notin Recovery)
    BY <1>1, <1>2, Context DEF Calm, Inv
  <2>9. v.pos \in Nat \ {0} /\ s.pos <= v.pos
    BY <2>1, <2>2, <2>3, <2>5
  <2>10. StackInv(Outer, v.pos)
    BY <2>1, <2>8, <2>9, StackLater
  <2>11. a \in TaskSet /\ a.k = "group" /\ a.open = 0
    <3>1. "group" \in Kind
      BY DEF Kind, Parens
    <3> QED BY <3>1, TaskIs
  <2> HIDE DEF a
  <2>12. AtBracket(a) /\ Placed(Outer, a) /\ a.k \notin Recovery
    <3>1. a.k \in Free /\ a.k # "block"
      BY <2>11 DEF Free
    <3> QED BY <2>8, <2>11, <3>1, FreeMay DEF AtBracket, Parens, Squares, Braces
  <2> DEFINE st == Append(Outer, a)
             more == Expr("none")
  <2>13. StackInv(st, v.pos) /\ Last(st) = a
    BY <2>9, <2>10, <2>11, <2>12, PushStack
  <2>14. more \in Seq(LooseTask) /\ more \in Seq(TaskSet)
    BY LooseLists, LooseInTasks
  <2> HIDE DEF st, more
  <2>15. StackInv(st \o more, v.pos) /\ (Len(st \o more) > 0 => Last(st \o more).k \notin Recovery)
    BY <2>9, <2>12, <2>13, <2>14, CallStack
  <2>16. Calm(v, st \o more, taken)
    BY <2>5, <2>6, <2>7, <2>15, Lost
  <2>17. h \in Seq(TaskSet) /\ Len(h) = 1 /\ h[1] = a
    <3>1. a \in TaskSet
      BY <2>11
    <3> QED BY <3>1, OneTask, Zenon
  <2> HIDE DEF h
  <2>18. AsOne(Outer, h, more)
    BY <2>8, <2>14, <2>17, MoreOfOne
  <2>19. Outer \o (h \o more) = st \o more
    BY <2>17, <2>18 DEF AsOne, st
  <2> QED BY <1>4, <2>8, <2>16, <2>19, Leading DEF Calm, more
<1> QED BY <1>3, <1>4 DEF LambdaEnd
-----------------------------------------------------------------------------
(* Tasks that are called in certain places only.                           *)

LEMMA Succeeding ==
    ASSUME TokensOK, Outer \in Seq(TaskSet), NEW u, Calm(u, Outer, taken'),
           NEW j \in Kind \ Bracketed, Placed(Outer, Task(j)), j \in Recovery => u.errs # {}
    PROVE  /\ Becomes(u, <<Task(j)>>) => Kept
           /\ j \notin Recovery => \A more \in Seq(LooseTask) : Becomes(u, <<Task(j)>> \o more) => Kept
<1> DEFINE a == Task(j)
           h == <<a>>
<1>1. a \in TaskSet /\ a.k = j /\ a.open = 0 /\ a.depth = 0
  BY TaskIs
<1>2. Placed(Outer, a)
  OBVIOUS
<1> HIDE DEF a
<1>3. AtBracket(a) /\ a.k # "group"
  BY <1>1 DEF AtBracket, Bracketed, Parens, Squares, Braces
<1>4. h \in Seq(TaskSet) /\ Len(h) = 1 /\ h[1] = a
  <2>1. a \in TaskSet
    BY <1>1
  <2> QED BY <2>1, OneTask, Zenon
<1> HIDE DEF h
<1>5. /\ Becomes(u, h) => Kept
      /\ j \notin Recovery => \A more \in Seq(LooseTask) : Becomes(u, h \o more) => Kept
  BY <1>1, <1>2, <1>3, <1>4, Replacing
<1> QED BY <1>5 DEF h, a

\* The tasks of a declaration, its clauses and a block.
Outermost == {"to decl", "or decl", "alias", "import", "extern name", "extern uses", "clauses",
              "to stmt end", "or stmt end", "effects"}
Clausal   == {"to stmt end", "or stmt end", "effects"}
Blockwise == {"to stmt end", "stmt end", "then"}

LEMMA Places1 ==
    ASSUME TokensOK, NEW st
    PROVE  /\ Len(st) = 0 => \A j \in Outermost : Placed(st, Task(j)) /\ j \in Kind \ Bracketed
           /\ Len(st) = 1 /\ st[1].k = "clauses" =>
                  \A j \in Clausal : Placed(st, Task(j)) /\ j \in Kind \ Bracketed
           /\ Len(st) > 0 /\ Last(st).k = "block" =>
                  \A j \in Blockwise : Placed(st, Task(j)) /\ j \in Kind \ Bracketed
<1>1. ASSUME NEW j \in Outermost \cup Clausal \cup Blockwise
      PROVE  j \in Kind \ Bracketed /\ Task(j).k = j
  <2>1. j \in Kind \ Bracketed
    BY DEF Outermost, Clausal, Blockwise, Kind, Bracketed, Parens, Squares, Braces, Loose, Outside
  <2> QED BY <2>1, TaskIs
<1>2. ASSUME Len(st) = 0, NEW j \in Outermost
      PROVE  Placed(st, Task(j))
  <2>1. /\ j # "entry end" /\ j \notin {"payload", "payload type"}
        /\ j \notin {"stmt end", "then"} /\ j # "block"
    BY <1>2 DEF Outermost
  <2>2. Task(j).k = j /\ ~(Len(st) > 0)
    BY <1>1, <1>2
  <2> QED BY <1>2, <2>1, <2>2 DEF Placed
<1>3. ASSUME Len(st) = 1, st[1].k = "clauses", NEW j \in Clausal
      PROVE  Placed(st, Task(j))
  BY <1>1, <1>3 DEF Placed, Clausal, Outside, Last, Recovery
<1>4. ASSUME Len(st) > 0, Last(st).k = "block", NEW j \in Blockwise
      PROVE  Placed(st, Task(j))
  BY <1>1, <1>4 DEF Placed, Blockwise, Outside, Recovery
<1> QED BY <1>1, <1>2, <1>3, <1>4

\* Where a task may be followed by another one.
LEMMA Outermosts ==
    ASSUME TokensOK, Outer \in Seq(TaskSet), Len(Outer) = 0, NEW u, Calm(u, Outer, taken'), NEW j \in Outermost,
           j \in Recovery => u.errs # {}
    PROVE  /\ Becomes(u, <<Task(j)>>) => Kept
           /\ j \notin Recovery => \A more \in Seq(LooseTask) : Becomes(u, <<Task(j)>> \o more) => Kept
<1>1. Placed(Outer, Task(j)) /\ j \in Kind \ Bracketed
  BY Places1
<1> QED BY <1>1, Succeeding

LEMMA Alone ==
    ASSUME TokensOK, Inv(s, stack, taken), NEW k \in Outside, In(k)
    PROVE  Outer \in Seq(TaskSet) /\ Len(Outer) = 0 /\ taken' = taken
<1>1. Top.k = k /\ Placed(Outer, Top) /\ Outer \in Seq(TaskSet) /\ taken' = taken
  BY Context
<1> QED BY <1>1 DEF Placed

LEMMA OrDeclStep ==
    ASSUME TokensOK, Inv(s, stack, taken), OrDecl
    PROVE  Kept
<1>1. In("or decl") /\ "or decl" \in Idle /\ "or decl" \in Outside /\ "to decl" \in Outermost
  BY IdleKinds DEF OrDecl, Outside, Outermost
<1>2. Calm(s, Outer, taken)
  BY <1>1, Resting
<1>3. Becomes(s, <<>>) => Kept
  BY <1>1, <1>2, Ending
<1>4. ~s.ok /\ Becomes(s, <<Task("to decl")>>) => Kept
  BY <1>1, <1>2, Alone, Failed, Outermosts
<1> QED BY <1>3, <1>4 DEF OrDecl

LEMMA OrStmtEndStep ==
    ASSUME TokensOK, Inv(s, stack, taken), OrStmtEnd
    PROVE  Kept
<1>1. In("or stmt end") /\ "or stmt end" \in Idle
  BY IdleKinds DEF OrStmtEnd
<1>2. Calm(s, Outer, taken)
  BY <1>1, Resting
<1>3. Becomes(s, <<>>) => Kept
  BY <1>1, <1>2, Ending
<1>4. Placed(Outer, Task("to stmt end")) /\ "to stmt end" \in Kind \ Bracketed
  <2>1. Top.k = "or stmt end" /\ Placed(Outer, Top)
    BY <1>1, Context
  <2>2. Len(Outer) = 0 \/ (Len(Outer) = 1 /\ Outer[1].k = "clauses")
    BY <2>1 DEF Placed
  <2> QED BY <2>2, Places1 DEF Outermost, Clausal
<1>5. ~s.ok /\ Becomes(s, <<Task("to stmt end")>>) => Kept
  <2>1. Outer \in Seq(TaskSet) /\ taken' = taken
    BY <1>1, Context
  <2> QED BY <1>2, <1>4, <2>1, Failed, Succeeding
<1> QED BY <1>3, <1>5 DEF OrStmtEnd

LEMMA StmtEndStep ==
    ASSUME TokensOK, Inv(s, stack, taken), StmtEnd
    PROVE  Kept
<1>1. In("stmt end") /\ "stmt end" \in Idle /\ Outer \in Seq(TaskSet) /\ taken' = taken
  <2>1. In("stmt end") /\ "stmt end" \in Idle
    BY IdleKinds DEF StmtEnd
  <2> QED BY <2>1, Context
<1>2. Calm(s, Outer, taken)
  BY <1>1, Resting
<1>3. Len(Outer) > 0 /\ Last(Outer).k = "block"
  <2>1. Top.k = "stmt end" /\ Placed(Outer, Top)
    BY <1>1, Context
  <2> QED BY <2>1 DEF Placed
<1>4. Placed(Outer, Task("to stmt end")) /\ "to stmt end" \in Kind \ Bracketed
  BY <1>3, Places1 DEF Blockwise
<1>5. "nl" \in Token /\ "nl" # "eof"
  BY DEF Token
<1> DEFINE u == IF s.ok THEN Missing(s, "nl") ELSE s
<1>6. Calm(u, Outer, taken) /\ u.errs # {}
  BY <1>2, <1>5, Expecting, Failed
<1> HIDE DEF u
<1>7. Becomes(u, <<Task("to stmt end")>>) => Kept
  BY <1>1, <1>4, <1>6, Succeeding
<1>8. Becomes(Here, <<>>) => Kept
  <2>1. Opens(Outer) # {}
    <3>1. StackInv(Outer, s.pos) /\ s.pos \in 1..Len(tokens) /\ s.pos \in Nat
      BY <1>2, CursorType DEF Calm, Inv
    <3>2. AtBracket(Last(Outer))
      BY <1>3, <3>1, PopStack
    <3>3. Last(Outer).open # 0
      BY <1>3, <3>2 DEF AtBracket, Braces
    <3> QED BY <1>3, <3>1, <3>3, Innermost
  <2>2. Calm(Here, Outer, taken)
    BY <1>2, <2>1, Newlines DEF Calm, Here
  <2> QED BY <1>1, <2>2, Ending
<1> QED BY <1>7, <1>8 DEF StmtEnd, u

LEMMA ImportRestStep ==
    ASSUME TokensOK, Inv(s, stack, taken), ImportRest
    PROVE  Kept
<1>1. In("import") /\ "import" \in Idle /\ "import" \in Outside /\ "to decl" \in Outermost
  BY IdleKinds DEF ImportRest, Outside, Outermost
<1>2. Calm(s, Outer, taken)
  BY <1>1, Resting
<1>3. Becomes(s, <<>>) => Kept
  BY <1>1, <1>2, Ending
<1>4. ~s.ok /\ Becomes(s, <<Task("to decl")>>) => Kept
  BY <1>1, <1>2, Alone, Failed, Outermosts
<1>5. At(s) = "{" /\ Becomes(Bump(s), <<Loop("names", s.pos, "none")>>) => Kept
  BY <1>1, <1>2, ReaderKinds, OpeningHere
<1>6. At(s) = "as" /\ Becomes(Go(ExpectIdent(Bump(s))), <<>>) => Kept
  <2>1. At(s) = "as" => At(s) \in Plain
    BY PlainTokens DEF Reserved
  <2>2. At(s) = "as" => Calm(ExpectIdent(Bump(s)), Outer, taken)
    BY <1>2, <2>1, Passing, Naming
  <2>3. At(s) = "as" => Calm(Go(ExpectIdent(Bump(s))), Outer, taken)
    BY <2>2, Marking
  <2> QED BY <1>1, <2>3, Ending
<1> QED BY <1>3, <1>4, <1>5, <1>6 DEF ImportRest

LEMMA AliasEndStep ==
    ASSUME TokensOK, Inv(s, stack, taken), AliasEnd
    PROVE  Kept
<1>1. In("alias") /\ "alias" \in Idle /\ "alias" \in Outside /\ "to decl" \in Outermost
  BY IdleKinds DEF AliasEnd, Outside, Outermost
<1>2. Calm(s, Outer, taken)
  BY <1>1, Resting
<1>3. Becomes(s, <<>>) => Kept
  BY <1>1, <1>2, Ending
<1>4. ~s.ok /\ Becomes(s, <<Task("to decl")>>) => Kept
  BY <1>1, <1>2, Alone, Failed, Outermosts
<1>5. At(s) = "tagged" => Calm(Bump(s), Outer, taken)
  <2>1. At(s) = "tagged" => At(s) \in Plain
    BY PlainTokens DEF Reserved
  <2> QED BY <1>2, <2>1, Passing
<1>6. At(s) = "tagged" /\ At(Bump(s)) = "str" /\ Becomes(Bump(Bump(s)), <<>>) => Kept
  <2>1. At(s) = "tagged" /\ At(Bump(s)) = "str" => Calm(Bump(Bump(s)), Outer, taken)
    BY <1>5, PlainTokens, Passing
  <2> QED BY <1>1, <2>1, Ending
<1>7. At(s) = "tagged" /\ Becomes(Unexpected(Bump(s)), <<>>) => Kept
  <2>1. At(s) = "tagged" => Calm(Unexpected(Bump(s)), Outer, taken)
    BY <1>5, NotExpected
  <2> QED BY <1>1, <2>1, Ending
<1> QED BY <1>3, <1>4, <1>6, <1>7 DEF AliasEnd

-----------------------------------------------------------------------------
(* Declarations and clauses.                                               *)

\* The parameters of a function are the outermost list in brackets.
LEMMA OpeningParams ==
    ASSUME TokensOK, Outer \in Seq(TaskSet), Len(Outer) = 0, NEW u, Calm(u, Outer, taken'),
           At(u) = "(", NEW of \in Of
    PROVE  Becomes(Bump(u), <<Loop("params", u.pos, of)>>) => Kept
<1> DEFINE a == Loop("params", u.pos, of)
           h == <<a>>
<1>1. u.pos \in 1..Len(tokens) /\ u.pos \in 0..Len(tokens) /\ u.pos # 0
  <2>1. CursorInv(u)
    BY DEF Calm, Inv
  <2>2. u.pos \in 1..Len(tokens) /\ Len(tokens) \in Nat \ {0}
    BY <2>1, CursorType
  <2> QED BY <2>2, Places, Zenon
<1>2. "params" \in Kind
  BY DEF Kind, Parens
<1>3. a \in TaskSet /\ a.k = "params" /\ a.open = u.pos
  BY <1>1, <1>2, LoopIs
<1> HIDE DEF a
<1>4. AtBracket(a) /\ a.k \notin Recovery /\ At(u) \in Opening
  BY <1>1, <1>3 DEF AtBracket, Parens, Squares, Braces, Recovery, Opening, At
<1>5. Placed(Outer, a)
  BY <1>3 DEF Placed
<1>6. h \in Seq(TaskSet) /\ Len(h) = 1 /\ h[1] = a
  <2>1. a \in TaskSet
    BY <1>3
  <2> QED BY <2>1, OneTask, Zenon
<1> HIDE DEF h
<1>7. Becomes(Bump(u), h) => Kept
  BY <1>3, <1>4, <1>5, <1>6, OpeningInPlace
<1> QED BY <1>7 DEF h, a

\* A declaration whose list in brackets opens, or which is given up.
LEMMA HeaderKept ==
    ASSUME TokensOK, Outer \in Seq(TaskSet), Len(Outer) = 0, NEW n, Calm(n, Outer, taken'), NEW of \in Of
    PROVE  /\ Header(n, "(", "params", of) => Kept
           /\ Header(n, "{", "fields", "none") => Kept
           /\ Header(n, "{", "variants", "none") => Kept
<1>1. n.ok /\ At(n) = "(" /\ Becomes(Bump(n), <<Loop("params", n.pos, of)>>) => Kept
  BY OpeningParams
<1>2. /\ At(n) = "{" /\ Becomes(Bump(n), <<Loop("fields", n.pos, "none")>>) => Kept
      /\ At(n) = "{" /\ Becomes(Bump(n), <<Loop("variants", n.pos, "none")>>) => Kept
  BY ReaderKinds, OpeningAround
<1>3. ASSUME NEW k \in {"(", "{"}
      PROVE  Becomes(IF n.ok THEN Missing(n, k) ELSE n, <<Task("to decl")>>) => Kept
  <2> DEFINE u == IF n.ok THEN Missing(n, k) ELSE n
  <2>1. k \in Token /\ k # "eof"
    BY DEF Token
  <2>2. Calm(u, Outer, taken') /\ u.errs # {}
    BY <2>1, Expecting, Failed
  <2> HIDE DEF u
  <2>3. Becomes(u, <<Task("to decl")>>) => Kept
    BY <2>2, Outermosts DEF Outermost
  <2> QED BY <2>3 DEF u
<1> QED BY <1>1, <1>2, <1>3 DEF Header

LEMMA ExternNameStep ==
    ASSUME TokensOK, Inv(s, stack, taken), ExternName
    PROVE  Kept
<1>1. In("extern name") /\ "extern name" \in Idle /\ "extern name" \in Outside /\ "extern" \in Of
  BY IdleKinds DEF ExternName, Outside, Of
<1>2. Calm(s, Outer, taken) /\ Calm(s, stack, taken)
  BY <1>1, Resting
<1>3. Outer \in Seq(TaskSet) /\ Len(Outer) = 0 /\ taken' = taken
  BY <1>1, Alone
<1>4. At(s) = "." /\ Becomes(ExpectMember(Bump(s)), <<Top>>) => Kept
  <2>1. At(s) = "." => Calm(ExpectMember(Bump(s)), stack, taken)
    BY <1>2, PlainTokens, Passing, Naming
  <2> QED BY <1>1, <2>1, Remaining
<1>5. Header(s, "(", "params", "extern") => Kept
  BY <1>1, <1>2, <1>3, HeaderKept
<1> QED BY <1>4, <1>5 DEF ExternName

LEMMA TwoOfOne ==
    ASSUME NEW S, NEW a \in S, NEW b \in S
    PROVE  <<a, b>> = <<a>> \o <<b>>
<1> DEFINE q == <<a>>
           h == <<b>>
           r == q \o h
           t == <<a, b>>
<1>1. q \in Seq(S) /\ h \in Seq(S) /\ Len(q) = 1 /\ Len(h) = 1 /\ q[1] = a /\ h[1] = b
  OBVIOUS
<1>2. t \in Seq(S) /\ Len(t) = 2 /\ t[1] = a /\ t[2] = b
  OBVIOUS
<1> HIDE DEF q, h, t
<1>3. r \in Seq(S) /\ Len(r) = 2 /\ r[1] = a /\ r[2] = b
  <2>1. /\ r \in Seq(S) /\ Len(r) = Len(q) + Len(h)
        /\ \A i \in 1..(Len(q) + Len(h)) : r[i] = IF i <= Len(q) THEN q[i] ELSE h[i - Len(q)]
    BY <1>1, ConcatProperties
  <2> HIDE DEF r
  <2>2. 1 \in 1..(Len(q) + Len(h)) /\ 2 \in 1..(Len(q) + Len(h))
    BY <1>1
  <2>3. r[1] = q[1] /\ r[2] = h[2 - 1]
    BY <1>1, <2>1, <2>2
  <2> QED BY <1>1, <2>1, <2>3
<1> HIDE DEF r
<1>4. \A i \in 1..2 : i = 1 \/ i = 2
  OBVIOUS
<1>5. t = r
  BY <1>2, <1>3, <1>4, SameSequence
<1> QED BY <1>5 DEF r, t, q, h

LEMMA ThreeOfTwo ==
    ASSUME NEW S, NEW a \in S, NEW b \in S, NEW c \in S
    PROVE  <<a>> \o <<b, c>> = <<a, b>> \o <<c>>
<1> DEFINE q == <<a>>
           h == <<b>>
           m == <<c>>
<1>1. q \in Seq(S) /\ h \in Seq(S) /\ m \in Seq(S)
  OBVIOUS
<1>2. <<b, c>> = h \o m /\ <<a, b>> = q \o h
  BY TwoOfOne
<1> HIDE DEF q, h, m
<1>3. q \o (h \o m) = (q \o h) \o m
  BY <1>1, ConcatAssociative
<1> QED BY <1>2, <1>3 DEF q, m

\* What is read of the effects of a function.
LEMMA EffectsAre ==
    ASSUME TokensOK
    PROVE  /\ Effects = <<Task("effects")>> \o <<Task("path")>>
           /\ <<Task("path")>> \in Seq(LooseTask)
<1>1. <<Task("path")>> \in Seq(LooseTask)
  BY LooseLists
<1>2. "effects" \in Kind /\ "path" \in Kind
  BY DEF Kind, Loose
<1>3. Task("effects") \in TaskSet /\ Task("path") \in TaskSet
  BY <1>2, TaskIs
<1>4. <<Task("effects"), Task("path")>> = <<Task("effects")>> \o <<Task("path")>>
  BY <1>3, TwoOfOne
<1> QED BY <1>1, <1>4 DEF Effects

LEMMA ExternUsesStep ==
    ASSUME TokensOK, Inv(s, stack, taken), ExternUses
    PROVE  Kept
<1>1. In("extern uses") /\ "extern uses" \in Idle /\ "extern uses" \in Outside
      /\ "to decl" \in Outermost /\ "effects" \in Outermost /\ "effects" \notin Recovery
  BY IdleKinds DEF ExternUses, Outside, Outermost, Recovery
<1>2. Calm(s, Outer, taken)
  BY <1>1, Resting
<1>3. Outer \in Seq(TaskSet) /\ Len(Outer) = 0 /\ taken' = taken
  BY <1>1, Alone
<1>4. Becomes(s, <<>>) => Kept
  BY <1>1, <1>2, Ending
<1>5. ~s.ok /\ Becomes(s, <<Task("to decl")>>) => Kept
  BY <1>1, <1>2, <1>3, Failed, Outermosts
<1>6. At(s) = "uses" /\ Becomes(Bump(s), Effects) => Kept
  <2>1. At(s) = "uses" => At(s) \in Plain
    BY PlainTokens DEF Reserved
  <2>2. At(s) = "uses" => Calm(Bump(s), Outer, taken)
    BY <1>2, <2>1, Passing
  <2>3. At(s) = "uses" /\ Becomes(Bump(s), <<Task("effects")>> \o <<Task("path")>>) => Kept
    BY <1>1, <1>3, <2>2, EffectsAre, Outermosts
  <2> QED BY <2>3, EffectsAre
<1> QED BY <1>4, <1>5, <1>6 DEF ExternUses

LEMMA EffectEndStep ==
    ASSUME TokensOK, Inv(s, stack, taken), EffectEnd
    PROVE  Kept
<1>1. In("effects") /\ "effects" \in Idle /\ "effects" \notin Recovery
  BY IdleKinds DEF EffectEnd, Recovery
<1>2. Calm(s, Outer, taken)
  BY <1>1, Resting
<1>3. /\ Placed(Outer, Task("to stmt end")) /\ "to stmt end" \in Kind \ Bracketed
      /\ Placed(Outer, Task("effects")) /\ "effects" \in Kind \ Bracketed
  <2>1. Top.k = "effects" /\ Placed(Outer, Top)
    BY <1>1, Context
  <2>2. Len(Outer) = 0 \/ (Len(Outer) = 1 /\ Outer[1].k = "clauses")
    BY <2>1 DEF Placed
  <2> QED BY <2>2, Places1 DEF Outermost, Clausal
<1>4. Outer \in Seq(TaskSet) /\ taken' = taken
  BY <1>1, Context
<1>5. Becomes(s, <<>>) => Kept
  BY <1>1, <1>2, Ending
<1>6. ~s.ok /\ Becomes(s, <<Task("to stmt end")>>) => Kept
  BY <1>2, <1>3, <1>4, Failed, Succeeding
<1>7. At(s) = "," /\ Becomes(Bump(s), Effects) => Kept
  <2>1. At(s) = "," => Calm(Bump(s), Outer, taken)
    BY <1>2, PlainTokens, Passing
  <2>2. At(s) = "," /\ Becomes(Bump(s), <<Task("effects")>> \o <<Task("path")>>) => Kept
    BY <1>1, <1>3, <1>4, <2>1, EffectsAre, Succeeding
  <2> QED BY <2>2, EffectsAre
<1> QED BY <1>5, <1>6, <1>7 DEF EffectEnd

\* A declaration is given up: what follows is looked at in turn.
LEMMA GivingUp ==
    ASSUME TokensOK, Outer \in Seq(TaskSet), Len(Outer) = 0, NEW u, CursorInv(u), u.errs # {},
           TakenInv(u, taken')
    PROVE  Becomes(u, <<Task("to decl")>>) => Kept
<1> DEFINE a == Task("to decl")
           h == <<a>>
           st == Append(Outer, a)
<1>1. a \in TaskSet /\ a.k = "to decl" /\ a.open = 0 /\ a.depth = 0
  <2>1. "to decl" \in Kind
    BY DEF Kind, Outside
  <2> QED BY <2>1, TaskIs
<1> HIDE DEF a, h, st
<1>2. u.pos \in Nat /\ u.pos \in 1..Len(tokens) /\ Len(tokens) \in Nat /\ 0 < u.pos
  BY CursorType
<1>3. StackInv(Outer, u.pos) /\ Opens(Outer) = {} /\ ~Loosened(Outer)
  <2>1. \A i \in 1..Len(Outer) : FALSE
    OBVIOUS
  <2> QED BY <2>1 DEF StackInv, Opens, Loosened
<1>4. AtBracket(a) /\ Placed(Outer, a) /\ a.open < u.pos
  <2>1. "to decl" \in Outermost
    BY DEF Outermost
  <2>2. Placed(Outer, a)
    BY <2>1, Places1 DEF a
  <2>3. AtBracket(a)
    BY <1>1 DEF AtBracket, Parens, Squares, Braces
  <2>4. a.open < u.pos
    BY <1>1, <1>2
  <2> QED BY <2>2, <2>3, <2>4
<1>5. /\ StackInv(st, u.pos) /\ Opens(st) = Opens(Outer) \cup ({a.open} \ {0})
      /\ Len(st) = Len(Outer) + 1 /\ Last(st) = a
      /\ Loosened(st) => Loosened(Outer) \/ (a.k = "group" /\ a.open = 0)
  BY <1>1, <1>2, <1>3, <1>4, PushStack DEF st
<1>6. Opens(st) = {} /\ ~Loosened(st) /\ Len(st) = 1
  <2>1. Opens(st) = {} \cup ({0} \ {0})
    BY <1>1, <1>3, <1>5
  <2>2. ~Loosened(st)
    BY <1>1, <1>3, <1>5
  <2>3. Len(st) = 1
    BY <1>5
  <2> QED BY <2>1, <2>2, <2>3
<1>7. BracketInv(u, st)
  BY <1>6 DEF BracketInv, Holds
<1>8. RecoveryInv(u, st)
  <2>1. Above(0, u.pos) \in Nat
    BY <1>2, AboveNat, SMTT(30)
  <2>2. a.depth <= Above(0, u.pos)
    <3>1. \A n \in Nat : 0 <= n
      OBVIOUS
    <3> QED BY <1>1, <2>1, <3>1
  <2> QED BY <1>5, <1>6, <2>2 DEF RecoveryInv
<1>9. Inv(u, st, taken')
  BY <1>1, <1>5, <1>6, <1>7, <1>8 DEF Inv, LineInv, LostInv
<1>10. h \in Seq(TaskSet) /\ Len(h) = 1 /\ h[1] = a
  <2>1. a \in TaskSet
    BY <1>1
  <2> QED BY <2>1, OneTask, Zenon DEF h
<1>11. <<>> \in Seq(TaskSet) /\ Outer \o h = Append(Outer, h[1])
  BY <1>10, EmptySeq, More
<1>12. Outer \o h = st
  BY <1>10, <1>11 DEF st
<1>13. Becomes(u, h) => Kept
  BY <1>9, <1>12, Leading
<1> QED BY <1>13 DEF h, a

\* No declaration stands behind an empty line that is passed.
LEMMA NewlinesTaken ==
    ASSUME TokensOK, NEW u, CursorInv(u), NEW tk, TakenInv(u, tk)
    PROVE  TakenInv(SkipNewlines(u), tk)
<1> DEFINE v == SkipNewlines(u)
<1>1. /\ v.pos \in u.pos..Len(tokens) /\ v.lost = u.lost
      /\ \A q \in u.pos..(v.pos - 1) : tokens[q] = "nl"
  BY NewlinesAre DEF After
<1>2. u.pos \in Nat /\ Len(tokens) \in Nat
  BY CursorType
<1> HIDE DEF v
<1>3. SUFFICES ASSUME NEW p \in 2..(v.pos - 1), Declares(p)
               PROVE  p \in tk \/ \E q \in v.lost : q < p
  BY DEF TakenInv, v
<1>4. p \in 2..(u.pos - 1) \/ p \in u.pos..(v.pos - 1)
  BY <1>1, <1>2
<1>5. tokens[p] # "nl"
  BY <1>3 DEF Declares, DeclStart
<1> QED BY <1>1, <1>3, <1>4, <1>5 DEF TakenInv

\* An error is reported, wherever the cursor is.
LEMMA MissingIs ==
    ASSUME TokensOK, NEW u, CursorInv(u), NEW k \in Token, k # "eof", NEW tk, TakenInv(u, tk)
    PROVE  CursorInv(Missing(u, k)) /\ Missing(u, k).errs # {} /\ TakenInv(Missing(u, k), tk)
<1> DEFINE e == [code |-> "E0101", pos |-> u.pos, at |-> u.pos, del |-> 0, ins |-> k]
           v == [u EXCEPT !.errs = @ \cup {e}]
<1>1. u.pos \in 1..Len(tokens) /\ Len(tokens) \in Nat
  BY CursorType
<1>2. e \in Error /\ Sound(e)
  BY <1>1, Errors DEF Insertion
<1>3. Missing(u, k) = v
  BY DEF Missing, Report
<1> HIDE DEF e
<1>4. u \in State
  BY DEF CursorInv
<1>5. v \in State /\ v.pos = u.pos /\ v.lost = u.lost /\ v.errs # {}
  BY <1>2, <1>4 DEF State
<1> HIDE DEF v
<1> QED BY <1>3, <1>5 DEF CursorInv, TakenInv

LEMMA ClauseStep ==
    ASSUME TokensOK, Inv(s, stack, taken), Clause
    PROVE  Kept
<1> DEFINE misspelt(kw) == Report(Here, "E0104", Here.pos, Here.pos, 1, kw)
           x == Task("effects")
           y == Task("or stmt end")
<1>1. In("clauses") /\ "clauses" \in Outside /\ "clauses" \notin Recovery /\ "clauses" \notin Bracketed
  BY DEF Clause, Outside, Recovery, Bracketed, Parens, Squares, Braces
<1>2. Outer \in Seq(TaskSet) /\ Len(Outer) = 0 /\ taken' = taken
  BY <1>1, Alone
<1>3. Len(stack) > 0 => Last(stack).k \notin Recovery
  BY <1>1, CallerOf
<1>4. At(Here) \notin DeclStart => Calm(Here, stack, taken)
  BY <1>3, Newlines DEF Here
<1>5. At(Here) \notin DeclStart => Calm(Here, Outer, taken)
  BY <1>1, <1>4, Returning
<1>6. Becomes(Missing(Here, "{"), <<Task("to decl")>>) => Kept
  <2>1. CursorInv(s) /\ TakenInv(s, taken)
    BY DEF Inv
  <2>2. CursorInv(Here) /\ TakenInv(Here, taken)
    BY <2>1, NewlinesAre, NewlinesTaken DEF Here
  <2>3. "{" \in Token /\ "{" # "eof"
    BY DEF Token
  <2>4. CursorInv(Missing(Here, "{")) /\ Missing(Here, "{").errs # {} /\ TakenInv(Missing(Here, "{"), taken)
    BY <2>2, <2>3, MissingIs
  <2> QED BY <1>2, <2>4, GivingUp
<1>7. At(Here) = "{" /\ Becomes(Bump(Here), <<Loop("block", Here.pos, "func")>>) => Kept
  <2>1. At(Here) = "{" => Calm(Here, Outer, taken)
    BY <1>5 DEF DeclStart
  <2> QED BY <1>1, <2>1, ReaderKinds, OpeningHere
<1>8. \A kw \in {"uses", "requires"} : At(Here) \in {"use", "require"} => Calm(Bump(misspelt(kw)), stack, taken)
  <2> SUFFICES ASSUME NEW kw \in {"uses", "requires"}, At(Here) \in {"use", "require"}
               PROVE  Calm(Bump(misspelt(kw)), stack, taken)
    OBVIOUS
  <2> DEFINE e == [code |-> "E0104", pos |-> Here.pos, at |-> Here.pos, del |-> 1, ins |-> kw]
             v == [Here EXCEPT !.errs = @ \cup {e}]
  <2>1. Calm(Here, stack, taken) /\ At(Here) \in Plain
    BY <1>4, PlainTokens DEF DeclStart, Identifier
  <2>2. Here.pos \in 1..Len(tokens) /\ Here.pos < Len(tokens)
    BY <2>1, Passing, CursorType DEF Calm, Inv
  <2>3. kw \in Insertion /\ kw # "eof"
    BY DEF Insertion, Token, Keyword, Reserved
  <2>4. e \in Error /\ Sound(e)
    BY <2>2, <2>3, Errors
  <2> HIDE DEF e
  <2>5. Calm(v, stack, taken) /\ v.pos = Here.pos
    BY <2>1, <2>4, Reporting
  <2>6. At(v) \in Plain
    BY <2>1, <2>5 DEF At
  <2> HIDE DEF v
  <2>7. Calm(Bump(v), stack, taken)
    BY <2>5, <2>6, Passing
  <2>8. misspelt(kw) = v
    BY DEF Report, v, e
  <2> QED BY <2>7, <2>8
<1>9. At(Here) \in {"uses", "requires", "ensures"} => Calm(Bump(Here), stack, taken)
  <2>1. At(Here) \in {"uses", "requires", "ensures"} => Calm(Here, stack, taken) /\ At(Here) \in Plain
    BY <1>4, PlainTokens DEF DeclStart, Reserved
  <2> QED BY <2>1, Passing
<1> HIDE DEF misspelt
<1>10. Top \in TaskSet /\ Top = Last(stack) /\ Top.k = "clauses" /\ Len(stack) = 1
  <2>1. Top \in TaskSet /\ Top = Last(stack) /\ Top.k = "clauses" /\ Len(Outer) = Len(stack) - 1
        /\ Len(stack) \in Nat
    BY <1>1, Context
  <2> QED BY <1>2, <2>1
<1>11. ASSUME NEW k \in {"effects", "or stmt end"}, NEW u, Calm(u, stack, taken)
       PROVE  \A more \in Seq(LooseTask) : Becomes(u, <<Top, Task(k)>> \o more) => Kept
  <2> DEFINE a == Task(k)
             h == <<Top, a>>
  <2>1. Placed(stack, a) /\ k \in Kind \ Bracketed
    BY <1>10, Places1 DEF Last, Clausal
  <2>2. a \in TaskSet /\ a.k = k /\ a.open = 0
    BY <2>1, TaskIs
  <2> HIDE DEF a
  <2>3. AtBracket(a) /\ a.k \notin Recovery /\ a.k # "group"
    BY <2>2 DEF AtBracket, Parens, Squares, Braces, Recovery
  <2>4. h \in Seq(TaskSet) /\ Len(h) = 2 /\ h[1] = Top /\ h[2] = a
    <3>1. Top \in TaskSet /\ a \in TaskSet
      BY <1>10, <2>2
    <3> QED BY <3>1, TwoTasks, Zenon
  <2> HIDE DEF h
  <2>5. \A more \in Seq(LooseTask) : Becomes(u, h \o more) => Kept
    BY <1>1, <1>11, <2>1, <2>2, <2>3, <2>4, CallingOne
  <2> QED BY <2>5 DEF h, a
<1>12. ASSUME NEW u, Calm(u, stack, taken)
       PROVE  /\ Becomes(u, <<Top>> \o Effects) => Kept
              /\ Becomes(u, <<Top, Task("or stmt end")>> \o Expr("none")) => Kept
  <2>1. Becomes(u, <<Top, Task("or stmt end")>> \o Expr("none")) => Kept
    BY <1>11, <1>12, LooseLists
  <2>2. Becomes(u, <<Top, Task("effects")>> \o <<Task("path")>>) => Kept
    BY <1>11, <1>12, LooseLists
  <2>3. <<Top>> \o Effects = <<Top, Task("effects")>> \o <<Task("path")>>
    <3>1. "effects" \in Kind /\ "path" \in Kind
      BY DEF Kind, Loose
    <3>2. Task("effects") \in TaskSet /\ Task("path") \in TaskSet /\ Top \in TaskSet
      BY <1>10, <3>1, TaskIs
    <3> QED BY <3>2, ThreeOfTwo DEF Effects
  <2> QED BY <2>1, <2>2, <2>3
<1>13. At(Here) = "uses" /\ Becomes(Bump(Here), <<Top>> \o Effects) => Kept
  BY <1>9, <1>12
<1>14. At(Here) \in {"requires", "ensures"} /\ Becomes(Bump(Here), <<Top, Task("or stmt end")>> \o Expr("none")) => Kept
  BY <1>9, <1>12
<1>15. At(Here) = "use" /\ Becomes(Bump(misspelt("uses")), <<Top>> \o Effects) => Kept
  BY <1>8, <1>12
<1>16. At(Here) = "require" /\ Becomes(Bump(misspelt("requires")), <<Top, Task("or stmt end")>> \o Expr("none")) => Kept
  BY <1>8, <1>12
<1> QED BY <1>6, <1>7, <1>13, <1>14, <1>15, <1>16 DEF Clause, misspelt

\* A task is replaced by two that have opened no bracket.
LEMMA ReplacingTwo ==
    ASSUME TokensOK, Outer \in Seq(TaskSet), NEW u, Calm(u, Outer, taken'),
           NEW a \in TaskSet, a.open = 0, AtBracket(a), Placed(Outer, a), a.k # "group", a.k \notin Recovery,
           NEW b \in TaskSet, b.open = 0, AtBracket(b), Placed(Append(Outer, a), b),
           b.k # "group", b.k \notin Recovery
    PROVE  \A more \in Seq(LooseTask) : Becomes(u, <<a, b>> \o more) => Kept
<1> DEFINE h == <<a, b>>
           st == Append(Outer, a)
<1>1. h \in Seq(TaskSet) /\ Len(h) = 2 /\ h[1] = a /\ h[2] = b
  BY TwoTasks, Zenon
<1> HIDE DEF h
<1>2. Calm(u, st, taken')
  BY Call
<1>3. Placed(st, b)
  OBVIOUS
<1> HIDE DEF st
<1>4. Calm(u, Append(st, b), taken')
  BY <1>2, <1>3, Call
<1>5. ASSUME NEW more \in Seq(LooseTask)
      PROVE  Becomes(u, h \o more) => Kept
  <2>1. AsTwo(Outer, h, more)
    BY <1>1, CallsTwo
  <2>2. Outer \o (h \o more) = Append(st, b) \o more
    BY <1>1, <2>1 DEF AsTwo, st
  <2>3. Calm(u, Append(st, b) \o more, taken')
    BY <1>4, Calls
  <2> QED BY <2>2, <2>3, Leading DEF Calm
<1> QED BY <1>5 DEF h

LEMMA FirstOne ==
    ASSUME NEW S, NEW q \in Seq(S), Len(q) = 0, NEW x \in S
    PROVE  Len(Append(q, x)) = 1 /\ Append(q, x)[1] = x
  OBVIOUS

\* Behind the parameters.
LEMMA SignatureKept ==
    ASSUME TokensOK, Outer \in Seq(TaskSet), Len(Outer) = 0, NEW t, Calm(t, Outer, taken'), Signature(t)
    PROVE  Kept
<1> DEFINE n == SkipNewlines(t)
<1>1. Becomes(t, <<Task("clauses")>>) => Kept
  BY Outermosts DEF Outermost, Recovery
<1>2. Becomes(t, <<Task("extern uses")>>) => Kept
  BY Outermosts DEF Outermost, Recovery
<1>3. At(t) = "->" /\ Becomes(Bump(t), <<Task("extern uses")>> \o Type) => Kept
  <2>1. At(t) = "->" => Calm(Bump(t), Outer, taken')
    BY PlainTokens, Passing
  <2>2. Type \in Seq(LooseTask) /\ "extern uses" \in Outermost /\ "extern uses" \notin Recovery
    BY LooseLists DEF Outermost, Recovery
  <2> QED BY <2>1, <2>2, Outermosts
<1>4. At(n) = "->" /\ Becomes(Bump(n), <<Task("clauses"), Task("or stmt end")>> \o Type) => Kept
  <2>1. At(n) = "->" => Calm(n, Outer, taken')
    BY Newlines DEF Calm, DeclStart
  <2>2. At(n) = "->" => Calm(Bump(n), Outer, taken')
    BY <2>1, PlainTokens, Passing
  <2> DEFINE a == Task("clauses")
             b == Task("or stmt end")
  <2>3. "clauses" \in Kind \ Bracketed /\ "or stmt end" \in Kind \ Bracketed /\ Placed(Outer, a)
    BY Places1 DEF Outermost
  <2>4. /\ a \in TaskSet /\ a.k = "clauses" /\ a.open = 0
        /\ b \in TaskSet /\ b.k = "or stmt end" /\ b.open = 0
    BY <2>3, TaskIs
  <2>5. Placed(Append(Outer, a), b)
    <3> DEFINE st == Append(Outer, a)
    <3>1. Len(st) = 1 /\ st[1] = a
      BY <2>4, FirstOne
    <3> HIDE DEF st, a
    <3>2. st[1].k = "clauses"
      BY <2>4, <3>1
    <3>3. Placed(st, b)
      BY <3>1, <3>2, Places1 DEF Clausal, b
    <3> QED BY <3>3 DEF st
  <2> HIDE DEF a, b
  <2>6. AtBracket(a) /\ AtBracket(b) /\ a.k # "group" /\ b.k # "group" /\ a.k \notin Recovery /\ b.k \notin Recovery
    BY <2>4 DEF AtBracket, Parens, Squares, Braces, Recovery
  <2>7. Type \in Seq(LooseTask)
    BY LooseLists
  <2>8. At(n) = "->" /\ Becomes(Bump(n), <<a, b>> \o Type) => Kept
    BY <2>2, <2>3, <2>4, <2>5, <2>6, <2>7, ReplacingTwo
  <2> QED BY <2>8 DEF a, b
<1> QED BY <1>1, <1>2, <1>3, <1>4 DEF Signature

LEMMA ParamStep ==
    ASSUME TokensOK, Inv(s, stack, taken), Param
    PROVE  Kept
<1> DEFINE n == Named(Here, ":")
           u == Unclosed(Here, Top.open, ")")
<1>1. In("params") /\ "params" \in Parens /\ "params" # "group" /\ "params" \in Outside
  BY DEF Param, Parens, Outside
<1>2. /\ "params" \in Bracketed /\ Top.open # 0
      /\ ")" = Closer(tokens[Top.open]) /\ ")" \in Closing
  BY <1>1, BracketOf
<1>3. Calm(Here, stack, taken) /\ Top.open \in 1..Len(tokens)
  BY <1>1, <1>2, Within
<1>4. Calm(n, stack, taken)
  BY <1>3, NamingBefore
<1>5. Outer \in Seq(TaskSet) /\ Len(Outer) = 0 /\ taken' = taken
  BY <1>1, Alone
<1>6. Calm(u, Outer, taken)
  <2>1. ")" \in Token /\ ")" # "eof"
    BY DEF Token
  <2>2. Calm(u, stack, taken) /\ u.errs # {}
    BY <1>3, <2>1, Unclosing
  <2> HIDE DEF u
  <2> QED BY <1>1, <1>2, <2>2, Within
<1> HIDE DEF n, u
<1>7. At(Here) = ")" /\ Signature(Bump(Here)) => Kept
  <2>1. At(Here) = ")" => Calm(Bump(Here), Outer, taken)
    BY <1>1, <1>2, <1>3, Within
  <2> QED BY <1>5, <2>1, SignatureKept
<1>8. Signature(u) => Kept
  BY <1>5, <1>6, SignatureKept
<1>9. Becomes(n, <<As("param")>> \o Type) => Kept
  BY <1>1, <1>2, <1>4, LooseLists, TurningTo
<1>10. ~n.ok /\ Becomes(RecoverInParens(n), <<Top>>) => Kept
  <2>1. ~n.ok => Calm(RecoverInParens(n), stack, taken)
    BY <1>1, <1>2, <1>4, Failed, RecoverHere
  <2> QED BY <1>1, <2>1, Remaining
<1> QED BY <1>7, <1>8, <1>9, <1>10 DEF Param, n, u

LEMMA ParamEndStep ==
    ASSUME TokensOK, Inv(s, stack, taken), ParamEnd
    PROVE  Kept
<1>1. In("param") /\ "param" \in Parens /\ "param" # "group" /\ "param" \in Outside
  BY DEF ParamEnd, Parens, Outside
<1>2. /\ "param" \in Bracketed /\ Top.open # 0
      /\ ")" = Closer(tokens[Top.open]) /\ ")" \in Closing
  BY <1>1, BracketOf
<1>3. Calm(s, stack, taken) /\ Calm(Here, stack, taken)
  BY <1>1, <1>2, Within
<1>4. Outer \in Seq(TaskSet) /\ Len(Outer) = 0 /\ taken' = taken
  BY <1>1, Alone
<1>5. ~s.ok /\ Becomes(RecoverInParens(s), <<As("params")>>) => Kept
  <2>1. ~s.ok => Calm(RecoverInParens(s), stack, taken)
    BY <1>1, <1>2, <1>3, Failed, RecoverHere
  <2> QED BY <1>1, <1>2, <2>1, TurningTo
<1>6. Becomes(Eat(Here, ","), <<As("params")>>) => Kept
  <2>1. Calm(Eat(Here, ","), stack, taken)
    BY <1>3, Comma
  <2> QED BY <1>1, <1>2, <2>1, TurningTo
<1>7. Signature(Missing(Here, ")")) => Kept
  <2> DEFINE u == Missing(Here, ")")
  <2>1. ")" \in Token /\ ")" # "eof"
    BY DEF Token
  <2>2. Calm(u, stack, taken) /\ u.errs # {}
    BY <1>3, <2>1, Expecting
  <2> HIDE DEF u
  <2>3. Calm(u, Outer, taken)
    BY <1>1, <1>2, <2>2, Within
  <2>4. Signature(u) => Kept
    BY <1>4, <2>3, SignatureKept
  <2> QED BY <2>4 DEF u
<1> QED BY <1>5, <1>6, <1>7 DEF ParamEnd

\* Behind an entry that fails, recovery is within the braces of its list.
LEMMA BraceBelow ==
    ASSUME TokensOK, NEW u, NEW st, NEW tk, Calm(u, st, tk), Len(st) > 0, Last(st).k = "entry end",
           u.errs # {}
    PROVE  Calm(RecoverInBraces(u), st, tk)
<1> DEFINE q == Callers(st)
           b == Last(q).open
<1>1. StackInv(st, u.pos) /\ u.pos \in Nat /\ u.pos \in 1..Len(tokens)
  BY CursorType DEF Calm, Inv
<1>2. /\ StackInv(q, u.pos) /\ Placed(q, Last(st)) /\ AtBracket(Last(st))
      /\ Opens(st) = Opens(q) \cup ({Last(st).open} \ {0})
  BY <1>1, PopStack
<1> HIDE DEF q
<1>3. Len(q) > 0 /\ Last(q).k \in Braces
  BY <1>2 DEF Placed
<1>4. AtBracket(Last(q))
  BY <1>1, <1>2, <1>3, PopStack
<1>5. b # 0 /\ tokens[b] = "{"
  BY <1>3, <1>4 DEF AtBracket, Braces, Parens, Squares
<1>6. b \in Opens(q) /\ \A x \in Opens(q) : x <= b
  BY <1>1, <1>2, <1>3, <1>5, Innermost
<1>7. Last(st).open = 0
  <2>1. Last(st).k \notin Bracketed
    BY DEF Bracketed, Parens, Squares, Braces
  <2> QED BY <1>2, <2>1 DEF AtBracket, Bracketed
<1> HIDE DEF b
<1>8. b \in Opens(st) /\ \A x \in Opens(st) : x <= b
  <2>1. Opens(st) = Opens(q)
    BY <1>2, <1>7
  <2> QED BY <1>6, <2>1
<1> QED BY <1>5, <1>8, Recovering

LEMMA EntryEndStep ==
    ASSUME TokensOK, Inv(s, stack, taken), EntryEnd
    PROVE  Kept
<1> DEFINE u == OrInBraces(s)
<1>1. In("entry end") /\ "entry end" \in Idle
  BY IdleKinds DEF EntryEnd
<1>2. Calm(s, stack, taken) /\ \A t : Calm(t, stack, taken) => Calm(t, Outer, taken)
  BY <1>1, Resting
<1>3. Len(stack) > 0 /\ Last(stack).k = "entry end"
  <2>1. Len(stack) > 0 /\ Top = Last(stack) /\ Top.k = "entry end"
    BY <1>1, Context
  <2> QED BY <2>1
<1>4. Calm(u, stack, taken)
  <2>1. ~s.ok => Calm(RecoverInBraces(s), stack, taken)
    BY <1>2, <1>3, Failed, BraceBelow
  <2> QED BY <1>2, <2>1 DEF OrInBraces
<1> HIDE DEF u
<1>5. Calm(Eat(u, ","), Outer, taken)
  BY <1>2, <1>4, Comma
<1> QED BY <1>1, <1>5, Ending DEF EntryEnd, u

LEMMA PayloadTypeStep ==
    ASSUME TokensOK, Inv(s, stack, taken), PayloadType
    PROVE  Kept
<1>1. In("payload type") /\ "payload type" \in Parens /\ "payload type" # "group"
  BY DEF PayloadType, Parens
<1>2. /\ "payload type" \in Bracketed /\ Top.open # 0
      /\ ")" = Closer(tokens[Top.open]) /\ ")" \in Closing
  BY <1>1, BracketOf
<1>3. Calm(s, stack, taken)
  BY <1>1, <1>2, Within
<1>4. s.ok /\ At(s) = "," /\ Becomes(Bump(s), <<As("payload")>>) => Kept
  <2>1. At(s) = "," => Calm(Bump(s), stack, taken)
    BY <1>3, PlainTokens, Passing
  <2> QED BY <1>1, <1>2, <2>1, TurningTo
<1>5. s.ok => Calm(Expect(s, ")"), Outer, taken)
  BY <1>1, <1>2, <1>3, ExpectClose
<1>6. ASSUME ~s.ok
      PROVE  Calm(Expect(RecoverInBraces(s), ")"), Outer, taken)
  <2> DEFINE u == RecoverInBraces(s)
  <2>1. s.errs # {} /\ CursorInv(s)
    BY <1>3, <1>6, Failed DEF Inv
  <2>2. Calm(s, Outer, taken)
    BY <1>1, <1>2, <1>3, <2>1, Within
  <2>3. Len(Outer) > 0 /\ Last(Outer).k = "entry end"
    <3>1. Top.k = "payload type" /\ Placed(Outer, Top) /\ Outer \in Seq(TaskSet)
      BY <1>1, Context
    <3>2. Len(Outer) > 1 /\ Last(Outer).k = "entry end"
      BY <3>1 DEF Placed
    <3>3. Len(Outer) \in Nat
      <4>1. Len(Outer) = Len(stack) - 1 /\ Len(stack) \in Nat /\ Len(stack) > 0
        BY <1>1, Context
      <4> QED BY <4>1
    <3>4. \A i \in Nat : i > 1 => i > 0
      OBVIOUS
    <3> QED BY <3>2, <3>3, <3>4
  <2>4. Calm(u, Outer, taken)
    BY <2>1, <2>2, <2>3, BraceBelow
  <2>5. At(u) \in {"nl", ",", "}", "eof"}
    BY <2>1, SkipIs DEF RecoverInBraces
  <2>6. ")" \in Token /\ ")" # "eof"
    BY DEF Token
  <2> HIDE DEF u
  <2>7. Expect(u, ")") = Missing(u, ")")
    BY <2>5 DEF Expect
  <2>8. Calm(Missing(u, ")"), Outer, taken)
    BY <2>4, <2>6, Expecting
  <2> QED BY <2>7, <2>8 DEF u
<1>7. Calm(Expect(OrInBraces(s), ")"), Outer, taken)
  BY <1>5, <1>6 DEF OrInBraces
<1>8. Becomes(Expect(OrInBraces(s), ")"), <<>>) => Kept
  BY <1>1, <1>7, Ending
<1> QED BY <1>4, <1>8 DEF PayloadType

-----------------------------------------------------------------------------
(* Variants.                                                               *)

LEMMA OneMore ==
    ASSUME NEW S, NEW q \in Seq(S), Len(q) > 0, NEW x \in S
    PROVE  /\ Append(q, x) \in Seq(S) /\ Len(Append(q, x)) = Len(q) + 1
           /\ Append(q, x)[Len(q) + 1] = x /\ Append(q, x)[Len(q)] = q[Len(q)]
  OBVIOUS

LEMMA VariantStep ==
    ASSUME TokensOK, Inv(s, stack, taken), Variant
    PROVE  Kept
<1> DEFINE n == ExpectIdent(Here)
           e == Task("entry end")
           st == Append(stack, e)
<1>1. In("variants") /\ "variants" \in Braces
  BY DEF Variant, Braces
<1>2. Calm(n, stack, taken)
  BY <1>1, BracketOf, Within, Naming
<1> HIDE DEF n
<1>3. Becomes(n, Entry) => Kept
  BY <1>1, <1>2, EntryCall
<1>4. Until("}", n, Entry) => Kept
  BY <1>1, <1>3, BracketOf, Closed
<1>5. e \in TaskSet /\ e.k = "entry end" /\ e.open = 0
  <2>1. "entry end" \in Kind
    BY DEF Kind
  <2> QED BY <2>1, TaskIs
<1> HIDE DEF e
<1>6. /\ Len(stack) \in Nat /\ Len(stack) > 0 /\ Top = Last(stack) /\ Top.k = "variants" /\ Top \in TaskSet
      /\ stack \in Seq(TaskSet) /\ Outer \in Seq(TaskSet) /\ Append(Outer, Top) = stack /\ taken' = taken
  BY <1>1, Context
<1>7. AtBracket(e) /\ e.k \notin Recovery /\ e.k # "group"
  BY <1>5 DEF AtBracket, Parens, Squares, Braces, Recovery
<1>8. Placed(stack, e)
  BY <1>1, <1>5, <1>6 DEF Placed, Outside, Recovery
<1>9. Calm(n, st, taken)
  BY <1>2, <1>5, <1>7, <1>8, Call
<1>10. Len(st) = Len(stack) + 1 /\ Last(st) = e /\ st[Len(st) - 1] = Top
  <2>1. Len(st) = Len(stack) + 1 /\ st[Len(stack) + 1] = e /\ st[Len(stack)] = stack[Len(stack)]
    BY <1>5, <1>6, OneMore
  <2>2. Len(st) - 1 = Len(stack)
    BY <1>6, <2>1
  <2> QED BY <1>6, <2>1, <2>2 DEF Last
<1>11. ASSUME NEW x \in TaskSet, x.open = n.pos, AtBracket(x), Placed(st, x), x.k \notin Recovery,
              At(n) \in Opening, Becomes(Bump(n), Entry \o <<x>>)
       PROVE  Kept
  <2> DEFINE h == <<Top, e>>
             m == <<x>>
  <2>1. Calm(Bump(n), Append(st, x), taken)
    BY <1>9, <1>11, OpeningOne
  <2>2. h \in Seq(TaskSet) /\ Len(h) = 2 /\ h[1] = Top /\ h[2] = e
    <3>1. Top \in TaskSet /\ e \in TaskSet
      BY <1>5, <1>6
    <3> QED BY <3>1, TwoTasks, Zenon
  <2>3. m \in Seq(TaskSet) /\ Len(m) = 1 /\ m[1] = x
    BY OneTask, Zenon
  <2> HIDE DEF h, m
  <2>4. AsTwo(Outer, h, m)
    BY <1>6, <2>2, <2>3, MoreOfTwo
  <2>5. Outer \o (h \o m) = st \o m
    BY <1>6, <2>2, <2>4 DEF AsTwo, st
  <2>6. st \in Seq(TaskSet)
    BY <1>5, <1>6, OneMore
  <2>7. st \o m = Append(st, x)
    <3>1. <<>> \in Seq(TaskSet)
      BY EmptySeq
    <3> HIDE DEF st
    <3> QED BY <2>3, <2>6, <3>1, More
  <2>8. Becomes(Bump(n), h \o m)
    BY <1>11 DEF h, m, e, Entry
  <2> QED BY <1>6, <2>1, <2>5, <2>7, <2>8, Leading DEF Calm
<1>12. At(n) = "{" /\ Becomes(Bump(n), Entry \o <<Loop("fields", n.pos, "none")>>) => Kept
  <2> DEFINE x == Loop("fields", n.pos, "none")
  <2>1. At(n) = "{" => /\ x \in TaskSet /\ x.open = n.pos /\ AtBracket(x) /\ Placed(st, x)
                       /\ x.k \notin Recovery /\ At(n) \in Opening
    <3>1. Last(st).k \notin Recovery
      BY <1>7, <1>10
    <3>2. "fields" \in Free /\ "none" \in Of /\ (At(n) = "{" => Reader("fields", "none", n))
      BY ReaderKinds
    <3> HIDE DEF st
    <3>3. ASSUME At(n) = "{"
          PROVE  /\ x \in TaskSet /\ x.open = n.pos /\ AtBracket(x) /\ Placed(st, x)
                 /\ x.k \notin Recovery /\ At(n) \in Opening
      BY <1>9, <3>1, <3>2, <3>3, NewLoop
    <3> QED BY <3>3
  <2> HIDE DEF x
  <2>2. At(n) = "{" /\ Becomes(Bump(n), Entry \o <<x>>) => Kept
    BY <1>11, <2>1
  <2> QED BY <2>2 DEF x
<1>13. At(n) = "(" /\ Becomes(Bump(n), Entry \o <<Loop("payload", n.pos, "none")>>) => Kept
  <2> DEFINE x == Loop("payload", n.pos, "none")
  <2>1. n.pos \in 1..Len(tokens) /\ n.pos \in 0..Len(tokens) /\ n.pos # 0
    <3>1. CursorInv(n)
      BY <1>2 DEF Calm, Inv
    <3>2. n.pos \in 1..Len(tokens) /\ Len(tokens) \in Nat \ {0}
      BY <3>1, CursorType
    <3> QED BY <3>2, Places, Zenon
  <2>2. "payload" \in Kind /\ "none" \in Of
    BY DEF Kind, Parens, Of
  <2>3. x \in TaskSet /\ x.k = "payload" /\ x.open = n.pos
    BY <2>1, <2>2, LoopIs
  <2> HIDE DEF x
  <2>4. At(n) = "(" => AtBracket(x) /\ x.k \notin Recovery /\ At(n) \in Opening
    BY <2>1, <2>3 DEF AtBracket, Parens, Squares, Braces, Recovery, Opening, At
  <2>5. Placed(st, x)
    <3>1. Len(st) > 1 /\ st[Len(st) - 1].k \in Braces /\ Last(st).k = "entry end"
      <4>1. \A i \in Nat : i > 0 => i + 1 > 1
        OBVIOUS
      <4> QED BY <1>1, <1>5, <1>6, <1>10, <4>1
    <3> HIDE DEF st
    <3>2. x.k = "payload" /\ Last(st).k \notin Recovery
      BY <2>3, <3>1 DEF Recovery
    <3>3. x.k \notin Outside /\ x.k # "entry end" /\ x.k \notin {"stmt end", "then"} /\ x.k # "block"
          /\ x.k \notin {"or stmt end", "effects"} /\ x.k # "to stmt end"
      BY <3>2 DEF Outside
    <3> QED BY <3>1, <3>2, <3>3 DEF Placed
  <2>6. At(n) = "(" /\ Becomes(Bump(n), Entry \o <<x>>) => Kept
    BY <1>11, <2>3, <2>4, <2>5
  <2> QED BY <2>6 DEF x
<1>14. At(n) = "(" => (Until("}", Bump(n), Entry \o <<Loop("payload", n.pos, "none")>>) => Kept)
  BY <1>1, <1>13, BracketOf, Closed
<1>15. At(n) = "{" => (Until("}", Bump(n), Entry \o <<Loop("fields", n.pos, "none")>>) => Kept)
  BY <1>1, <1>12, BracketOf, Closed
<1> QED BY <1>4, <1>14, <1>15 DEF Variant, n

LEMMA BlockIs ==
    ASSUME TokensOK, NEW o \in 0..Len(tokens), NEW of \in Of
    PROVE  /\ Loop("block", o, of) \in TaskSet /\ Loop("block", o, of).k = "block"
           /\ Loop("block", o, of).open = o
<1>1. "block" \in Kind
  BY DEF Kind, Braces
<1> QED BY <1>1, LoopIs

\* A block within another one is opened.
InBlock(st) == Len(st) > 0 /\ Last(st).k = "block"

LEMMA OpeningBlock ==
    ASSUME TokensOK, Outer \in Seq(TaskSet), NEW u, Calm(u, Outer, taken'),
           InBlock(Outer), At(u) = "{", NEW of \in Of
    PROVE  Becomes(Bump(u), <<Loop("block", u.pos, of)>>) => Kept
<1>1. /\ Loop("block", u.pos, of) \in TaskSet /\ Loop("block", u.pos, of).k = "block"
      /\ Loop("block", u.pos, of).open = u.pos /\ u.pos \in 1..Len(tokens) /\ u.pos # 0
  <2>1. CursorInv(u)
    BY DEF Calm, Inv
  <2>2. u.pos \in 1..Len(tokens) /\ Len(tokens) \in Nat \ {0}
    BY <2>1, CursorType
  <2>3. u.pos \in 1..Len(tokens) /\ u.pos \in 0..Len(tokens) /\ u.pos # 0
    BY <2>2, Places, Zenon
  <2> DEFINE n == u.pos
  <2> HIDE DEF n
  <2>4. n \in 0..Len(tokens)
    BY <2>3 DEF n
  <2>5. /\ Loop("block", n, of) \in TaskSet /\ Loop("block", n, of).k = "block"
        /\ Loop("block", n, of).open = n
    BY <2>4, BlockIs
  <2> QED BY <2>3, <2>5 DEF n
<1> DEFINE a == Loop("block", u.pos, of)
           h == <<a>>
<1>2. a \in TaskSet /\ a.k = "block" /\ a.open = u.pos /\ u.pos # 0
  BY <1>1
<1> HIDE DEF a, h
<1>3. AtBracket(a) /\ a.k \notin Recovery /\ At(u) \in Opening
  BY <1>2 DEF AtBracket, Parens, Squares, Braces, Recovery, Opening, At
<1>4. Placed(Outer, a)
  <2>1. /\ a.k \notin Outside /\ a.k # "entry end" /\ a.k \notin {"payload", "payload type"}
        /\ a.k \notin {"or stmt end", "effects"} /\ a.k # "to stmt end"
    BY <1>2 DEF Outside
  <2>2. Last(Outer).k \notin Recovery
    BY DEF InBlock, Recovery
  <2> QED BY <2>1, <2>2 DEF InBlock, Placed
<1>5. h \in Seq(TaskSet) /\ Len(h) = 1 /\ h[1] = a
  <2>1. a \in TaskSet
    BY <1>2
  <2> QED BY <2>1, OneTask, Zenon DEF h
<1>6. Becomes(Bump(u), h) => Kept
  BY <1>2, <1>3, <1>4, <1>5, OpeningInPlace
<1> QED BY <1>6 DEF h, a

\* What follows a block, or its head, within another one.
LEMMA BlockNext ==
    ASSUME TokensOK, Outer \in Seq(TaskSet), Len(Outer) > 0, Last(Outer).k = "block",
           NEW u, Calm(u, Outer, taken')
    PROVE  /\ Becomes(u, <<Task("stmt end")>>) => Kept
           /\ u.errs # {} => (Becomes(u, <<Task("to stmt end")>>) => Kept)
           /\ Becomes(u, If) => Kept
<1>1. \A j \in Blockwise : Placed(Outer, Task(j)) /\ j \in Kind \ Bracketed
  BY Places1
<1>2. "stmt end" \in Blockwise \ Recovery /\ "then" \in Blockwise \ Recovery /\ "to stmt end" \in Blockwise
  BY DEF Blockwise, Recovery
<1>3. Expr("cond") \in Seq(LooseTask)
  BY LooseLists
<1>4. Becomes(u, <<Task("stmt end")>>) => Kept
  BY <1>1, <1>2, Succeeding
<1>5. u.errs # {} => (Becomes(u, <<Task("to stmt end")>>) => Kept)
  BY <1>1, <1>2, Succeeding
<1>6. Becomes(u, <<Task("then")>> \o Expr("cond")) => Kept
  BY <1>1, <1>2, <1>3, Succeeding
<1> QED BY <1>4, <1>5, <1>6 DEF If

LEMMA ThenStep ==
    ASSUME TokensOK, Inv(s, stack, taken), Then
    PROVE  Kept
<1>1. In("then") /\ "then" \in Idle /\ "then" \in Of
  BY IdleKinds DEF Then, Of
<1>2. Calm(s, Outer, taken)
  BY <1>1, Resting
<1>3. Top.k = "then" /\ Placed(Outer, Top) /\ Outer \in Seq(TaskSet) /\ taken' = taken
  BY <1>1, Context
<1>4. Len(Outer) > 0 /\ Last(Outer).k = "block"
  BY <1>3 DEF Placed
<1>5. At(s) = "{" /\ Becomes(Bump(s), <<Loop("block", s.pos, "then")>>) => Kept
  BY <1>1, <1>2, <1>3, <1>4, OpeningBlock DEF InBlock
<1> DEFINE u == IF s.ok THEN Missing(s, "{") ELSE s
<1>6. Calm(u, Outer, taken) /\ u.errs # {}
  <2>1. "{" \in Token /\ "{" # "eof"
    BY DEF Token
  <2> QED BY <1>2, <2>1, Expecting, Failed
<1> HIDE DEF u
<1>7. Becomes(u, <<Task("to stmt end")>>) => Kept
  BY <1>3, <1>4, <1>6, BlockNext
<1> QED BY <1>5, <1>7 DEF Then, u

\* Behind `else`.
LEMMA ElseKept ==
    ASSUME TokensOK, Outer \in Seq(TaskSet), Len(Outer) > 0, Last(Outer).k = "block",
           NEW b, Calm(b, Outer, taken')
    PROVE  Else(b) => Kept
<1>1. At(b) = "if" /\ Becomes(Bump(b), If) => Kept
  <2>1. At(b) = "if" => At(b) \in Plain
    BY PlainTokens DEF Keyword
  <2>2. At(b) = "if" => Calm(Bump(b), Outer, taken')
    BY <2>1, Passing
  <2> QED BY <2>2, BlockNext
<1>2. At(b) = "{" /\ Becomes(Bump(b), <<Loop("block", b.pos, "else")>>) => Kept
  <2>1. "else" \in Of
    BY DEF Of
  <2> QED BY <2>1, OpeningBlock DEF InBlock
<1>3. Becomes(Missing(b, "{"), <<Task("stmt end")>>) => Kept
  <2>1. "{" \in Token /\ "{" # "eof"
    BY DEF Token
  <2>2. Calm(Missing(b, "{"), Outer, taken')
    BY <2>1, Expecting
  <2> QED BY <2>2, BlockNext
<1> QED BY <1>1, <1>2, <1>3 DEF Else

LEMMA BlockEndStep ==
    ASSUME TokensOK, Inv(s, stack, taken), BlockEnd
    PROVE  Kept
<1> DEFINE t == IF At(Here) = "}" THEN Bump(Here) ELSE Unclosed(Here, Top.open, "}")
           e == SkipNewlines(t)
<1>1. In("block") /\ "block" \in Braces
  BY DEF BlockEnd, Braces
<1>2. /\ "block" \in Bracketed /\ Top.open # 0
      /\ "}" = Closer(tokens[Top.open]) /\ "}" \in Closing
  BY <1>1, BracketOf
<1>3. Calm(Here, stack, taken) /\ Top.open \in 1..Len(tokens)
  BY <1>1, <1>2, Within
<1>4. Calm(t, Outer, taken)
  <2>1. At(Here) = "}" => Calm(Bump(Here), Outer, taken)
    BY <1>1, <1>2, <1>3, Within
  <2>2. "}" \in Token /\ "}" # "eof"
    BY DEF Token
  <2> DEFINE u == Unclosed(Here, Top.open, "}")
  <2>3. Calm(u, stack, taken) /\ u.errs # {}
    BY <1>3, <2>2, Unclosing
  <2> HIDE DEF u
  <2>4. Calm(u, Outer, taken)
    BY <1>1, <1>2, <2>3, Within
  <2> QED BY <2>1, <2>4 DEF u
<1> HIDE DEF t
<1>5. Top.k = "block" /\ Placed(Outer, Top) /\ Outer \in Seq(TaskSet) /\ taken' = taken
  BY <1>1, Context
<1>6. Top.of # "func" => Len(Outer) > 0 /\ Last(Outer).k = "block"
  BY <1>5 DEF Placed
<1>7. Top.of # "func" /\ At(e) = "else" => Calm(Bump(e), Outer, taken)
  <2>1. At(e) = "else" => Calm(e, Outer, taken)
    BY <1>4, Newlines DEF Calm, DeclStart
  <2> HIDE DEF e
  <2> QED BY <2>1, PlainTokens, Passing
<1> HIDE DEF e
<1>8. Top.of # "func" /\ At(e) = "else" /\ Else(Bump(e)) => Kept
  BY <1>5, <1>6, <1>7, ElseKept
<1>9. Becomes(t, <<>>) => Kept
  BY <1>1, <1>4, Ending
<1>10. Top.of # "func" /\ Becomes(t, <<Task("stmt end")>>) => Kept
  BY <1>4, <1>5, <1>6, BlockNext
<1> QED BY <1>8, <1>9, <1>10 DEF BlockEnd, t, e

LEMMA TwoInFront ==
    ASSUME NEW S, NEW a \in S, NEW b \in S, NEW m \in Seq(S)
    PROVE  <<a>> \o (<<b>> \o m) = <<a, b>> \o m
<1> DEFINE q == <<a>>
           h == <<b>>
<1>1. q \in Seq(S) /\ h \in Seq(S)
  OBVIOUS
<1>2. <<a, b>> = q \o h
  BY TwoOfOne
<1> HIDE DEF q, h
<1>3. q \o (h \o m) = (q \o h) \o m
  BY <1>1, ConcatAssociative, SMTT(30)
<1> QED BY <1>2, <1>3 DEF q, h

\* A block calls what reads a statement, and what ends one.
LEMMA StatementCall ==
    ASSUME TokensOK, Inv(s, stack, taken), In("block"), NEW u, Calm(u, stack, taken),
           NEW k \in {"stmt end", "then"}
    PROVE  /\ Becomes(u, <<Top, Task(k)>>) => Kept
           /\ \A more \in Seq(LooseTask) : Becomes(u, <<Top, Task(k)>> \o more) => Kept
<1> DEFINE a == Task(k)
           h == <<Top, a>>
<1>1. Top \in TaskSet /\ Top = Last(stack) /\ Top.k = "block" /\ Len(stack) > 0
  BY Context
<1>2. Placed(stack, a) /\ k \in Kind \ Bracketed
  <2>1. Last(stack).k = "block"
    BY <1>1
  <2>2. k \in Blockwise
    BY DEF Blockwise
  <2> QED BY <1>1, <2>1, <2>2, Places1
<1>3. a \in TaskSet /\ a.k = k /\ a.open = 0
  BY <1>2, TaskIs
<1> HIDE DEF a, h
<1>4. AtBracket(a) /\ a.k \notin Recovery /\ a.k # "group"
  BY <1>3 DEF AtBracket, Parens, Squares, Braces, Recovery
<1>5. h \in Seq(TaskSet) /\ Len(h) = 2 /\ h[1] = Top /\ h[2] = a
  <2>1. Top \in TaskSet /\ a \in TaskSet
    BY <1>1, <1>3
  <2> QED BY <2>1, TwoTasks, Zenon DEF h
<1>6. /\ Becomes(u, h) => Kept
      /\ \A more \in Seq(LooseTask) : Becomes(u, h \o more) => Kept
  BY <1>2, <1>3, <1>4, <1>5, CallingOne
<1> QED BY <1>6 DEF h, a

LEMMA StatementStep ==
    ASSUME TokensOK, Inv(s, stack, taken), Statement
    PROVE  Kept
<1> DEFINE n == ExpectIdent(Bump(Here))
<1>1. In("block") /\ "block" \in Braces
  BY DEF Statement, Braces
<1>2. Calm(Here, stack, taken)
  BY <1>1, BracketOf, Within
<1>3. At(Here) \in {"if", "let", "return"} => Calm(Bump(Here), stack, taken)
  <2>1. At(Here) \in {"if", "let", "return"} => At(Here) \in Plain
    BY PlainTokens DEF Keyword
  <2> QED BY <1>2, <2>1, Passing
<1>4. At(Here) = "let" => Calm(n, stack, taken)
  BY <1>3, Naming
<1> HIDE DEF n
<1>5. At(Here) = "if" /\ Becomes(Bump(Here), <<Top>> \o If) => Kept
  <2>1. "then" \in Kind
    BY DEF Kind
  <2>2. Top \in TaskSet /\ Task("then") \in TaskSet /\ Expr("cond") \in Seq(LooseTask) /\ Expr("cond") \in Seq(TaskSet)
    BY <1>1, <2>1, Context, TaskIs, LooseLists, LooseInTasks
  <2>3. <<Top>> \o (<<Task("then")>> \o Expr("cond")) = <<Top, Task("then")>> \o Expr("cond")
    BY <2>2, TwoInFront
  <2>4. At(Here) = "if" /\ Becomes(Bump(Here), <<Top, Task("then")>> \o Expr("cond")) => Kept
    BY <1>1, <1>3, <2>2, StatementCall
  <2> QED BY <2>3, <2>4 DEF If
<1>6. At(Here) = "let" /\ At(n) = ":" /\ Becomes(Bump(n), <<Top, Task("stmt end")>> \o (<<Task("let value")>> \o Type)) => Kept
  <2>1. At(Here) = "let" /\ At(n) = ":" => Calm(Bump(n), stack, taken)
    BY <1>4, PlainTokens, Passing
  <2>2. <<Task("let value")>> \o Type \in Seq(LooseTask)
    BY LooseLists
  <2> QED BY <1>1, <2>1, <2>2, StatementCall
<1>7. At(Here) = "let" /\ Becomes(n, <<Top, Task("stmt end")>> \o <<Task("let value")>>) => Kept
  <2>1. <<Task("let value")>> \in Seq(LooseTask)
    BY LooseLists
  <2> QED BY <1>1, <1>4, <2>1, StatementCall
<1>8. ASSUME NEW u, Calm(u, stack, taken), NEW more \in {<<>>, Expr("none")}
      PROVE  Becomes(u, <<Top, Task("stmt end")>> \o more) => Kept
  <2>1. more \in Seq(LooseTask)
    <3>1. <<>> \in Seq(LooseTask)
      BY EmptySeq
    <3> QED BY <3>1, LooseLists
  <2> QED BY <1>1, <1>8, <2>1, StatementCall
<1>9. At(Here) = "return" /\ Becomes(Bump(Here), <<Top, Task("stmt end")>>
                                     \o IF At(Bump(Here)) \in {"nl", "}", "eof"} THEN <<>> ELSE Expr("none")) => Kept
  BY <1>3, <1>8
<1>10. Becomes(Here, <<Top, Task("stmt end")>> \o Expr("none")) => Kept
  BY <1>2, <1>8
<1> QED BY <1>5, <1>6, <1>7, <1>9, <1>10 DEF Statement, n

\* The last of a sequence one was appended to.
LEMMA LastAppended ==
    ASSUME NEW S, NEW q \in Seq(S), NEW a \in S
    PROVE  /\ Append(q, a) # <<>> /\ Append(q, a)[Len(Append(q, a))] = a
           /\ Len(Append(q, a)) = Len(q) + 1
<1>1. Append(q, a) # <<>> /\ Len(Append(q, a)) = Len(q) + 1 /\ Append(q, a)[Len(q) + 1] = a
  BY AppendProperties
<1> QED BY <1>1

LEMMA WithoutLast ==
    ASSUME NEW S, NEW q \in Seq(S), NEW a \in S
    PROVE  SubSeq(Append(q, a), 1, Len(Append(q, a)) - 1) = q
<1>1. Len(Append(q, a)) - 1 = Len(q) /\ 0 \in 0..Len(q)
  OBVIOUS
<1>2. SubSeq(Append(q, a), 1, Len(q)) = q
  BY <1>1, PrefixOfAppend
<1> QED BY <1>1, <1>2

IsArrow(k) == k = "=>"

\* What stands in a list of names.
Listed(k) == k \in Identifier \cup {","}

LEMMA ListedIs == \A k : Listed(k) => k \notin Bracket /\ k # "nl"
  BY Zenon DEF Listed, Identifier, Bracket, Opening, Closing

LEMMA ArrowIs == \A k : IsArrow(k) => k \notin Bracket /\ k # "nl" /\ k # "eof" /\ k \in Plain
  BY PlainTokens, Zenon DEF IsArrow, Bracket, Opening, Closing

\* A list of parameters with `=>` behind is read with the brackets it opens.
LEMMA LambdaReads ==
    ASSUME TokensOK, NEW n \in 1..Len(tokens), tokens[n] = "(", NEW e \in (n + 1)..(Len(tokens) - 1),
           tokens[e] = ")", IsArrow(tokens[e + 1]),
           \A i \in (n + 1)..(e - 1) : Listed(tokens[i])
    PROVE  /\ e + 2 \in 1..Len(tokens) /\ n <= e + 2
           /\ Smooth(n, e + 2)
           /\ \A i \in n..(e + 1) : tokens[i] # "nl"
<1>1. Len(tokens) \in Nat
  BY DEF TokensOK
<1>2. e + 1 \in 1..Len(tokens) /\ e \in 1..Len(tokens) /\ n + 1 \in 1..Len(tokens) /\ e \in (n + 1)..Len(tokens)
  BY <1>1
<1>3. e + 1 # Len(tokens)
  BY <1>2, ArrowIs DEF TokensOK
<1>4. e + 2 \in 1..Len(tokens) /\ n <= e + 2
  BY <1>1, <1>2, <1>3
<1>5. \A i \in n..(e + 1) : i = n \/ i \in (n + 1)..(e - 1) \/ i = e \/ i = e + 1
  BY <1>1
<1>6. \A i \in n..(e + 1) : tokens[i] # "nl"
  BY <1>5, ArrowIs, ListedIs
<1> DEFINE o == Open[n - 1]
<1>7. /\ o \in Seq(Level) /\ L(n) \in Nat /\ L(n - 1) \in Nat /\ L(n) = L(n - 1) + 1
      /\ Open[n] = Append(o, ")")
  <2>1. "(" \in Opening /\ Closer("(") = ")"
    BY DEF Opening, Closer
  <2>2. o \in Seq(Level) /\ L(n) \in Nat /\ L(n - 1) \in Nat /\ L(n) = L(n - 1) + 1
    BY <2>1, OpenStep
  <2>3. Open[n] = Behind(o, tokens[n])
    BY <1>1, OpenIs
  <2> QED BY <2>1, <2>2, <2>3, BehindIs
<1>8. \A i \in n..(e - 1) : Open[i] = Open[n]
  <2>1. \A i \in (n + 1)..(e - 1) : tokens[i] \notin Bracket
    BY ListedIs
  <2>2. \A i \in ((n + 1) - 1)..(e - 1) : Open[i] = Open[(n + 1) - 1]
    BY <1>2, <2>1, FlatIsSmooth
  <2>3. (n + 1) - 1 = n
    BY <1>1
  <2> QED BY <2>2, <2>3
<1>9. Open[e] = o
  <2>1. e - 1 \in n..(e - 1) /\ e # 0 /\ e \in 0..Len(tokens)
    BY <1>1
  <2>2. Open[e] = Behind(Open[e - 1], ")")
    BY <2>1, OpenIs
  <2>3. Open[e] = Behind(Append(o, ")"), ")")
    BY <1>7, <1>8, <2>1, <2>2
  <2>4. ")" \in Closing /\ ")" \notin Opening /\ ")" \in Level
    BY DEF Closing, Opening, Level
  <2> HIDE DEF o
  <2>5. /\ Append(o, ")") # <<>> /\ Append(o, ")")[Len(Append(o, ")"))] = ")"
        /\ Len(Append(o, ")")) = Len(o) + 1
    <3>1. o \in Seq(Level)
      BY <1>7
    <3> QED BY <2>4, <3>1, LastAppended
  <2>6. SubSeq(Append(o, ")"), 1, Len(Append(o, ")")) - 1) = o
    BY <1>7, <2>4, <2>5, WithoutLast
  <2> QED BY <2>3, <2>4, <2>5, <2>6 DEF Behind
<1>10. Open[e + 1] = o
  <2>1. tokens[e + 1] \notin Bracket
    BY ArrowIs
  <2>2. (e + 1) - 1 = e
    BY <1>1
  <2>3. Open[e + 1] = Open[(e + 1) - 1]
    BY <1>2, <2>1, OpenStep
  <2> QED BY <1>9, <2>2, <2>3
<1>11. \A i \in n..(e + 1) : L(i) >= L(n - 1)
  <2> SUFFICES ASSUME NEW i \in n..(e + 1) PROVE L(i) >= L(n - 1)
    OBVIOUS
  <2>1. i \in n..(e - 1) \/ i = e \/ i = e + 1
    BY <1>1
  <2>2. i \in n..(e - 1) => L(i) = L(n)
    BY <1>8 DEF L
  <2>3. i = e \/ i = e + 1 => L(i) = L(n - 1)
    BY <1>9, <1>10 DEF L
  <2> QED BY <1>7, <2>1, <2>2, <2>3
<1>12. Smooth(n, e + 2)
  <2>1. (e + 2) - 1 = e + 1
    BY <1>1
  <2> QED BY <1>10, <1>11, <2>1 DEF Smooth
<1> QED BY <1>4, <1>6, <1>12

\* The cursor behind such a list.
LEMMA LambdaBehind ==
    ASSUME TokensOK, NEW u, NEW st, NEW tk, Calm(u, st, tk), At(u) = "(", NEW e \in LambdaEnds(u)
    PROVE  /\ Calm([u EXCEPT !.pos = e + 2], st, tk)
           /\ e \in 1..Len(tokens) /\ u.pos \in 1..Len(tokens)
<1> DEFINE v == [u EXCEPT !.pos = e + 2]
           n == u.pos
<1>1. CursorInv(u) /\ u \in State /\ n \in 1..Len(tokens) /\ Len(tokens) \in Nat \ {0}
  BY CursorType DEF Calm, Inv, CursorInv
<1>2. /\ e \in (n + 1)..(Len(tokens) - 1) /\ tokens[e] = ")" /\ IsArrow(tokens[e + 1])
      /\ \A i \in (n + 1)..(e - 1) : Listed(tokens[i])
  <2>1. \A i \in (n + 1)..(e - 1) : IF (i - n) % 2 = 1 THEN tokens[i] \in Identifier ELSE tokens[i] = ","
    BY Zenon DEF LambdaEnds
  <2>2. \A i \in (n + 1)..(e - 1) : Listed(tokens[i])
    BY <2>1, Zenon DEF Listed
  <2>3. e \in (n + 1)..(Len(tokens) - 1) /\ tokens[e] = ")" /\ IsArrow(tokens[e + 1])
    BY Zenon DEF LambdaEnds, IsArrow
  <2> QED BY <2>2, <2>3
<1>3. tokens[n] = "("
  BY DEF At
<1>4. v = [u EXCEPT !.pos = e + 2] /\ u.pos = n
  OBVIOUS
<1> HIDE DEF n, v
<1>5. /\ e + 2 \in 1..Len(tokens) /\ n <= e + 2 /\ Smooth(n, e + 2)
      /\ \A i \in n..(e + 1) : tokens[i] # "nl"
  BY <1>1, <1>2, <1>3, LambdaReads
<1>6. v \in State /\ v.pos = e + 2 /\ v.errs = u.errs /\ v.lost = u.lost /\ v.ok = u.ok
  BY <1>1, <1>4, <1>5 DEF State
<1>7. CursorInv(v)
  <2>1. n # Len(tokens)
    BY <1>1, <1>3 DEF TokensOK
  <2>2. u.lost \in SUBSET (1..Len(tokens)) /\ \A q \in u.lost : q < n
    BY <1>1, <1>4, <2>1 DEF CursorInv, State
  <2>3. \A q \in u.lost : q < e + 2
    BY <1>1, <1>2, <2>2
  <2> QED BY <1>1, <1>6, <2>3 DEF CursorInv
<1>8. Reads(u, v)
  <2>1. (e + 2) - 1 = e + 1
    BY <1>1, <1>2
  <2> QED BY <1>4, <1>5, <1>6, <2>1 DEF Reads, After
<1>9. Calm(v, st, tk)
  BY <1>7, <1>8, Reading
<1>10. e \in 1..Len(tokens)
  BY <1>1, <1>2
<1> QED BY <1>1, <1>9, <1>10 DEF v, n

LEMMA ParenthesisKept ==
    ASSUME TokensOK, Inv(s, stack, taken), In("primary"), At(s) = "(", Parenthesis(s)
    PROVE  Kept
<1> DEFINE e == CHOOSE f \in LambdaEnds(s) : TRUE
           b == [s EXCEPT !.pos = e + 2]
<1>1. "primary" \in Idle
  BY IdleKinds
<1>2. Calm(s, Outer, taken)
  BY <1>1, Resting
<1>3. Becomes(Bump(s), <<Loop("group", s.pos, "none")>> \o Expr("none")) => Kept
  BY <1>2, ReaderKinds, OpeningHere, LooseLists
<1>4. CASE LambdaEnds(s) = {}
  BY <1>3, <1>4 DEF Parenthesis
<1>5. CASE LambdaEnds(s) # {}
  <2>1. e \in LambdaEnds(s)
    BY <1>5
  <2> HIDE DEF e
  <2>2. Calm(b, Outer, taken) /\ e \in 1..Len(tokens) /\ s.pos \in 1..Len(tokens)
    BY <1>2, <2>1, LambdaBehind
  <2> HIDE DEF b
  <2>3. Becomes(Report(b, "E0101", s.pos, e, 0, "id"), <<Task("zero lambda")>> \o Expr("none")) => Kept
    <3> DEFINE err == [code |-> "E0101", pos |-> s.pos, at |-> e, del |-> 0, ins |-> "id"]
               v == [b EXCEPT !.errs = @ \cup {err}]
    <3>1. "id" \in Insertion /\ "id" # "eof"
      BY DEF Insertion, Token, Identifier
    <3>2. err \in Error /\ Sound(err)
      BY <2>2, <3>1, Errors
    <3>3. Report(b, "E0101", s.pos, e, 0, "id") = v
      BY DEF Report
    <3> HIDE DEF err
    <3>4. Calm(v, Outer, taken)
      BY <2>2, <3>2, Reporting
    <3> HIDE DEF v
    <3>5. Becomes(v, <<Task("zero lambda")>> \o Expr("none")) => Kept
      BY <3>4, LooseLists, Ending
    <3> QED BY <3>3, <3>5
  <2>4. Becomes(Fail(Unexpected(b)), <<Task("lambda")>>) => Kept
    BY <2>2, NotExpected, LooseLists, Ending
  <2>5. Becomes(b, <<Task("lambda")>> \o Expr("none")) => Kept
    BY <2>2, LooseLists, Ending
  <2> QED BY <1>5, <2>3, <2>4, <2>5 DEF Parenthesis, b, e
<1> QED BY <1>4, <1>5

LEMMA PrimaryStep ==
    ASSUME TokensOK, Inv(s, stack, taken), Primary
    PROVE  Kept
<1> DEFINE b == Bump(Bump(s))
<1>1. In("primary") /\ "primary" \in Idle
  BY IdleKinds DEF Primary
<1>2. Calm(s, Outer, taken)
  BY <1>1, Resting
<1>3. At(s) \in {"match", "int", "str", "true"} \cup Identifier => Calm(Bump(s), Outer, taken)
  <2>1. At(s) \in {"match", "int", "str", "true"} \cup Identifier => At(s) \in Plain
    BY PlainTokens DEF Keyword
  <2> QED BY <1>2, <2>1, Passing
<1>4. At(s) = "match" /\ Becomes(Bump(s), <<Task("match")>> \o Expr("cond")) => Kept
  BY <1>1, <1>3, LooseLists, Ending
<1>5. At(s) \in {"int", "str", "true"} /\ Becomes(NoPath(Bump(s)), <<>>) => Kept
  <2>1. At(s) \in {"int", "str", "true"} => Calm(NoPath(Bump(s)), Outer, taken)
    BY <1>3, Marking
  <2> QED BY <1>1, <2>1, Ending
<1>6. At(s) \in Identifier /\ Becomes(AsPath(Bump(s)), <<>>) => Kept
  <2>1. At(s) \in Identifier => Calm(AsPath(Bump(s)), Outer, taken)
    BY <1>3, Marking
  <2> QED BY <1>1, <2>1, Ending
<1>7. At(s) \in Identifier /\ Name => Kept
  <2>1. At(s) \in Identifier /\ IsArrow(At(Bump(s))) => Calm(b, Outer, taken)
    BY <1>3, ArrowIs, Passing
  <2> HIDE DEF b
  <2>2. At(s) \in Identifier /\ IsArrow(At(Bump(s))) /\ Becomes(Fail(Unexpected(b)), <<>>) => Kept
    <3>1. At(s) \in Identifier /\ IsArrow(At(Bump(s))) => Calm(Fail(Unexpected(b)), Outer, taken)
      BY <2>1, NotExpected
    <3> QED BY <1>1, <3>1, Ending
  <2>3. At(s) \in Identifier /\ IsArrow(At(Bump(s))) /\ Becomes(b, <<Task("no path")>> \o Expr("none")) => Kept
    BY <1>1, <2>1, LooseLists, Ending
  <2> QED BY <1>6, <2>2, <2>3, Zenon DEF Name, IsArrow, b
<1> HIDE DEF b
<1>10. At(s) = "(" /\ Parenthesis(s) => Kept
  BY <1>1, ParenthesisKept
<1>11. At(s) = "[" /\ Becomes(Bump(s), <<Loop("list", s.pos, "none")>>) => Kept
  BY <1>1, <1>2, ReaderKinds, OpeningHere
<1>12. At(s) \in Reserved /\ Becomes(AsPath(Bump(Rename(s))), <<>>) => Kept
  <2>1. At(s) \in Reserved => At(s) \in Keyword
    BY DEF Keyword
  <2>2. At(s) \in Reserved => Calm(Bump(Rename(s)), Outer, taken)
    BY <1>2, <2>1, Renaming
  <2>3. At(s) \in Reserved => Calm(AsPath(Bump(Rename(s))), Outer, taken)
    BY <2>2, Marking
  <2> QED BY <1>1, <2>3, Ending
<1>13. Becomes(Fail(Unexpected(s)), <<>>) => Kept
  <2>1. Calm(Fail(Unexpected(s)), Outer, taken)
    BY <1>2, NotExpected
  <2> QED BY <1>1, <2>1, Ending
<1> DEFINE k == At(s)
<1>14. CASE k = "match"
  BY <1>4, <1>14 DEF Primary, Identifier, Reserved, DeclStart
<1>15. CASE k \in {"int", "str", "true"}
  BY <1>5, <1>15 DEF Primary, Identifier, Reserved, DeclStart
<1>16. CASE k \in Identifier
  BY <1>7, <1>16 DEF Primary, Identifier, Reserved, DeclStart
<1>17. CASE k = "("
  BY <1>10, <1>17 DEF Primary, Identifier, Reserved, DeclStart
<1>18. CASE k = "["
  BY <1>11, <1>18 DEF Primary, Identifier, Reserved, DeclStart
<1>19. CASE k \in Reserved
  BY <1>12, <1>19 DEF Primary, Identifier, Reserved, DeclStart
<1>20. CASE k \notin {"match", "int", "str", "true", "(", "["} \cup Identifier \cup Reserved
  BY <1>13, <1>20 DEF Primary
<1> QED BY <1>14, <1>15, <1>16, <1>17, <1>18, <1>19, <1>20

-----------------------------------------------------------------------------
(* Between declarations.                                                   *)

\* Between declarations there are no tasks.
LEMMA NoTasks ==
    ASSUME stack = <<>>
    PROVE  Outer = <<>> /\ Outer \in Seq(TaskSet) /\ Len(Outer) = 0
<1>1. SubSeq(<<>>, 1, 0 - 1) = <<>>
  OBVIOUS
<1>2. Len(<<>>) = 0 /\ <<>> \in Seq(TaskSet)
  BY EmptySeq
<1> QED BY <1>1, <1>2 DEF Outer

LEMMA EmptyInv ==
    ASSUME TokensOK, NEW u, CursorInv(u), NEW tk, TakenInv(u, tk), u.errs = {} => Fit({}, u.pos)
    PROVE  Inv(u, <<>>, tk) /\ (Off(u) => Calm(u, <<>>, tk))
<1>1. Len(<<>>) = 0 /\ <<>> \in Seq(TaskSet) /\ \A i \in 1..Len(<<>>) : FALSE
  BY EmptySeq
<1> DEFINE st == <<>>
<1>2. Len(st) = 0 /\ st \in Seq(TaskSet) /\ \A i \in 1..Len(st) : FALSE
  BY <1>1
<1> HIDE DEF st
<1>3. StackInv(st, u.pos) /\ Opens(st) = {} /\ ~Loosened(st) /\ ~(Len(st) > 0)
  BY <1>2 DEF StackInv, Opens, Loosened
<1>4. BracketInv(u, st)
  BY <1>3 DEF BracketInv, Holds
<1>5. Inv(u, st, tk)
  BY <1>2, <1>3, <1>4 DEF Inv, RecoveryInv, LineInv, LostInv
<1>6. Off(u) => Calm(u, st, tk)
  BY <1>3, <1>5 DEF Calm
<1> QED BY <1>5, <1>6 DEF st

\* Where the parser begins.
LEMMA BeginInv ==
    ASSUME TokensOK
    PROVE  Inv(Begin, <<>>, {})
<1>1. Len(tokens) \in Nat /\ Len(tokens) > 0 /\ 1 \in 1..Len(tokens)
  BY DEF TokensOK
<1>2. /\ Begin.pos = 1 /\ Begin.ok = TRUE /\ Begin.path = FALSE /\ Begin.errs = {} /\ Begin.lost = {}
      /\ Begin = [pos |-> 1, ok |-> TRUE, path |-> FALSE, errs |-> {}, lost |-> {}]
  BY DEF Begin
<1>3. Begin \in State
  <2>1. {} \in SUBSET {e \in Error : Sound(e)} /\ {} \in SUBSET (1..Len(tokens))
    OBVIOUS
  <2>2. TRUE \in BOOLEAN /\ FALSE \in BOOLEAN
    OBVIOUS
  <2> QED BY <1>1, <1>2, <2>1, <2>2, Zenon DEF State
<1>4. CursorInv(Begin)
  BY <1>2, <1>3 DEF CursorInv
<1>5. TakenInv(Begin, {})
  <2>1. \A p \in 2..(1 - 1) : FALSE
    OBVIOUS
  <2> QED BY <1>2, <2>1 DEF TakenInv
<1>6. Fit({}, 1)
  <2>1. 0 \in 0..Len(tokens)
    BY <1>1
  <2>2. Open[0] = <<>>
    BY <2>1, OpenIs
  <2>3. L(0) = 0
    BY <2>2 DEF L
  <2>4. 1 - 1 = 0 /\ \A l \in 1..0 : FALSE
    OBVIOUS
  <2> QED BY <2>3, <2>4 DEF Fit
<1> QED BY <1>2, <1>4, <1>5, <1>6, EmptyInv

\* Behind the word that begins a declaration, which is taken.
LEMMA BeginningTaken ==
    ASSUME TokensOK, Inv(s, stack, taken), stack = <<>>, NEW tk, taken \subseteq tk,
           At(Here) # "eof",
           At(Here) \in DeclStart \ {"module"} => Here.pos \in tk
    PROVE  /\ CursorInv(Bump(Here)) /\ TakenInv(Bump(Here), tk)
           /\ At(Here) \in Plain => Calm(Bump(Here), <<>>, tk)
<1> DEFINE h == Here
           v == Bump(Here)
<1>1. CursorInv(s) /\ TakenInv(s, taken) /\ s.pos \in Nat /\ s.pos \in 1..Len(tokens) /\ Len(tokens) \in Nat
  BY CursorType DEF Inv
<1>2. /\ CursorInv(h) /\ After(s, h) /\ h.pos \in s.pos..Len(tokens) /\ h.errs = s.errs /\ h.lost = s.lost
      /\ At(h) # "nl" /\ \A q \in s.pos..(h.pos - 1) : tokens[q] = "nl"
  BY <1>1, NewlinesAre DEF Here, After
<1>3. TakenInv(h, taken)
  BY <1>1, NewlinesTaken DEF Here
<1>4. /\ CursorInv(v) /\ v.pos = h.pos + 1 /\ v.errs = h.errs /\ v.lost = h.lost
      /\ h.pos < Len(tokens)
  BY <1>2, BumpIs
<1>5. h.pos \in Nat /\ h.pos \in 1..Len(tokens)
  BY <1>2, CursorType
<1> HIDE DEF h, v
<1>6. TakenInv(v, tk)
  <2>1. SUFFICES ASSUME NEW p \in 2..(v.pos - 1), Declares(p)
                 PROVE  p \in tk \/ \E q \in v.lost : q < p
    BY DEF TakenInv
  <2>2. p \in 2..(h.pos - 1) \/ p = h.pos
    BY <1>4, <1>5
  <2>3. CASE p \in 2..(h.pos - 1)
    BY <1>3, <1>4, <2>1, <2>3 DEF TakenInv
  <2>4. CASE p = h.pos
    <3>1. At(Here) = tokens[p] /\ Here.pos = p
      BY <2>4 DEF h, At
    <3>2. tokens[p] \in DeclStart \ {"module"}
      BY <2>1 DEF Declares
    <3> QED BY <3>1, <3>2
  <2> QED BY <2>2, <2>3, <2>4
<1>7. ASSUME At(Here) \in Plain
      PROVE  Calm(v, <<>>, tk)
  <2>1. tokens[h.pos] = At(Here)
    BY DEF h, At
  <2>2. tokens[h.pos] \notin Bracket /\ tokens[h.pos] # "nl"
    BY <1>7, <2>1, Zenon DEF Plain
  <2>3. Off(v)
    <3>1. SUFFICES ASSUME Declares(v.pos) PROVE FALSE
      BY DEF Off
    <3>2. v.pos - 1 = h.pos
      BY <1>4, <1>5
    <3> QED BY <2>2, <3>1, <3>2 DEF Declares
  <2>4. v.errs = {} => Fit({}, v.pos)
    <3>1. SUFFICES ASSUME v.errs = {} PROVE Fit({}, v.pos)
      OBVIOUS
    <3>2. BracketInv(s, <<>>) /\ s.errs = {}
      BY <1>2, <1>4, <3>1 DEF Inv
    <3>3. Opens(<<>>) = {}
      <4>1. \A i \in 1..Len(<<>>) : FALSE
        OBVIOUS
      <4> QED BY <4>1 DEF Opens
    <3>4. Fit({}, s.pos)
      BY <3>2, <3>3 DEF BracketInv
    <3>5. \A q \in s.pos..(v.pos - 1) : tokens[q] \notin Bracket
      <4>1. \A q \in s.pos..(v.pos - 1) : q = h.pos \/ q \in s.pos..(h.pos - 1)
        BY <1>1, <1>4, <1>5
      <4>2. "nl" \notin Bracket
        BY DEF Bracket, Opening, Closing
      <4> QED BY <1>2, <2>2, <4>1, <4>2
    <3>6. v.pos \in s.pos..Len(tokens)
      BY <1>1, <1>2, <1>4, <1>5
    <3>7. Smooth(s.pos, v.pos)
      BY <1>1, <3>5, <3>6, FlatIsSmooth
    <3> QED BY <1>1, <3>4, <3>6, <3>7, HoldsSmooth
  <2> QED BY <1>4, <1>6, <2>3, <2>4, EmptyInv
<1> QED BY <1>4, <1>6, <1>7 DEF v

LEMMA UnexpectedIs ==
    ASSUME TokensOK, NEW u, CursorInv(u), NEW tk, TakenInv(u, tk)
    PROVE  /\ CursorInv(Unexpected(u)) /\ Unexpected(u).errs # {} /\ TakenInv(Unexpected(u), tk)
           /\ Unexpected(u).pos = u.pos
<1> DEFINE e == [code |-> "E0101", pos |-> u.pos, at |-> u.pos, del |-> 0, ins |-> "none"]
           v == [u EXCEPT !.errs = @ \cup {e}]
<1>1. u.pos \in 1..Len(tokens) /\ Len(tokens) \in Nat
  BY CursorType
<1>2. e \in Error /\ Sound(e)
  <2>1. "none" \in Insertion /\ "none" # "eof"
    BY DEF Insertion
  <2> QED BY <1>1, <2>1, Errors
<1>3. Unexpected(u) = v
  BY DEF Unexpected, Report
<1> HIDE DEF e
<1>4. u \in State
  BY DEF CursorInv
<1>5. v \in State /\ v.pos = u.pos /\ v.lost = u.lost /\ v.errs # {}
  BY <1>2, <1>4 DEF State
<1> HIDE DEF v
<1> QED BY <1>3, <1>5 DEF CursorInv, TakenInv

\* A token that begins no declaration is reported and passed.
LEMMA StrayPassed ==
    ASSUME TokensOK, Inv(s, stack, taken), stack = <<>>, At(Here) # "eof",
           At(Here) \notin DeclStart \ {"module"}, taken' = taken
    PROVE  Becomes(Bump(Unexpected(Here)), <<Task("to decl")>>) => Kept
<1> DEFINE u == Bump(Here)
           e == Unexpected(Here)
           v == Bump(e)
<1>1. CursorInv(u) /\ TakenInv(u, taken)
  BY BeginningTaken
<1>2. CursorInv(Here) /\ TakenInv(Here, taken)
  BY NewlinesAre, NewlinesTaken DEF Inv, Here
<1>3. CursorInv(e) /\ e.errs # {} /\ e.pos = Here.pos /\ e.lost = Here.lost
  <2>1. CursorInv(e) /\ e.errs # {} /\ e.pos = Here.pos
    BY <1>2, UnexpectedIs
  <2>2. Here \in State
    BY <1>2 DEF CursorInv
  <2>3. e.lost = Here.lost
    BY <2>2 DEF Unexpected, Report, State
  <2> QED BY <2>1, <2>3
<1>4. u.lost = Here.lost /\ u.pos = Here.pos + 1
  BY <1>2, BumpIs
<1>5. At(e) = At(Here)
  BY <1>3 DEF At
<1> HIDE DEF e
<1>6. CursorInv(v) /\ v.errs # {} /\ v.lost = e.lost /\ v.pos = e.pos + 1
  BY <1>3, <1>5, BumpIs
<1> HIDE DEF u, v
<1>7. TakenInv(v, taken)
  BY <1>1, <1>3, <1>4, <1>6 DEF TakenInv
<1>8. Becomes(v, <<Task("to decl")>>) => Kept
  BY <1>6, <1>7, NoTasks, GivingUp, Zenon
<1> QED BY <1>8 DEF v, e

LEMMA DeclarationStep ==
    ASSUME TokensOK, Inv(s, stack, taken), Declaration
    PROVE  Kept
<1> DEFINE k == At(Here)
           v == Bump(Here)
           n == ExpectIdent(v)
<1>1. /\ stack = <<>> /\ k # "eof"
      /\ taken' = IF k \in DeclStart \ {"module"} THEN taken \cup {Here.pos} ELSE taken
  BY Zenon DEF Declaration
<1>2. Outer = <<>> /\ Outer \in Seq(TaskSet) /\ Len(Outer) = 0
  BY <1>1, NoTasks
<1>3. k \in DeclStart => Calm(v, Outer, taken')
  <2>1. taken \subseteq taken' /\ (k \in DeclStart \ {"module"} => Here.pos \in taken')
    BY <1>1
  <2>2. k \in DeclStart => k \in Plain
    BY PlainTokens
  <2>3. k \in Plain => Calm(v, <<>>, taken')
    BY <1>1, <2>1, BeginningTaken
  <2> QED BY <1>2, <2>2, <2>3
<1>4. k \in DeclStart => Calm(n, Outer, taken')
  BY <1>3, Naming
<1> DEFINE d == Named(v, "=")
           q == IF At(v) = "query" /\ At(Bump(v)) \in Identifier THEN Bump(v) ELSE v
<1>5. k \in DeclStart => Calm(d, Outer, taken')
  BY <1>3, NamingBefore
<1>6. k \in DeclStart => Calm(ExpectIdent(q), Outer, taken')
  <2>1. At(v) = "query" => At(v) \in Plain
    BY PlainTokens DEF Identifier
  <2>2. k \in DeclStart => Calm(q, Outer, taken')
    BY <1>3, <2>1, Passing
  <2> HIDE DEF q
  <2> QED BY <2>2, Naming
<1>7. "func" \in Of /\ \A j \in {"import", "alias", "extern name"} : j \in Outermost /\ j \notin Recovery
  BY DEF Of, Outermost, Recovery
<1> HIDE DEF v, n, d, q
<1>8. k \in DeclStart /\ Becomes(v, <<Task("import"), Task("path")>>) => Kept
  <2>1. "import" \in Kind /\ "path" \in Kind
    BY DEF Kind, Loose, Outside
  <2>2. Task("import") \in TaskSet /\ Task("path") \in TaskSet
    BY <2>1, TaskIs
  <2>3. <<Task("import"), Task("path")>> = <<Task("import")>> \o <<Task("path")>>
    BY <2>2, TwoOfOne
  <2>4. k \in DeclStart /\ Becomes(v, <<Task("import")>> \o <<Task("path")>>) => Kept
    BY <1>2, <1>3, <1>7, LooseLists, Outermosts
  <2> QED BY <2>3, <2>4
<1>9. k \in DeclStart /\ TypeAlias(d) => Kept
  <2>1. \A m \in Seq(LooseTask) : k \in DeclStart /\ Becomes(d, <<Task("alias")>> \o m) => Kept
    BY <1>2, <1>5, <1>7, Outermosts
  <2>2. Type \in Seq(LooseTask) /\ <<>> \in Seq(LooseTask)
    BY LooseLists, EmptySeq
  <2> QED BY <2>1, <2>2 DEF TypeAlias
<1>10. /\ k \in DeclStart /\ Header(n, "{", "fields", "none") => Kept
       /\ k \in DeclStart /\ Header(n, "{", "variants", "none") => Kept
       /\ k \in DeclStart /\ Header(n, "(", "params", "func") => Kept
  BY <1>2, <1>4, <1>7, HeaderKept, Zenon
<1>11. k \in DeclStart /\ Becomes(ExpectIdent(q), <<Task("extern name")>>) => Kept
  BY <1>2, <1>6, <1>7, Outermosts
<1>12. k \in DeclStart /\ Extern(v) => Kept
  BY <1>11, Zenon DEF Extern, q
<1>13. CASE k = "import"
  <2>1. k \in DeclStart
    BY <1>13 DEF DeclStart
  <2>2. Becomes(v, <<Task("import"), Task("path")>>)
    BY <1>13, Zenon DEF Declaration, v
  <2> QED BY <1>8, <2>1, <2>2
<1>14. CASE k = "type"
  <2>1. k \in DeclStart
    BY <1>14 DEF DeclStart
  <2>2. TypeAlias(d)
    BY <1>14, Zenon DEF Declaration, v, d
  <2> QED BY <1>9, <2>1, <2>2
<1>15. CASE k = "record"
  <2>1. k \in DeclStart
    BY <1>15 DEF DeclStart
  <2>2. Header(n, "{", "fields", "none")
    BY <1>15, Zenon DEF Declaration, v, n
  <2> QED BY <1>10, <2>1, <2>2, Zenon
<1>16. CASE k = "enum"
  <2>1. k \in DeclStart
    BY <1>16 DEF DeclStart
  <2>2. Header(n, "{", "variants", "none")
    BY <1>16, Zenon DEF Declaration, v, n
  <2> QED BY <1>10, <2>1, <2>2, Zenon
<1>17. CASE k = "func"
  <2>1. k \in DeclStart
    BY <1>17 DEF DeclStart
  <2>2. Header(n, "(", "params", "func")
    BY <1>17, Zenon DEF Declaration, v, n
  <2> QED BY <1>10, <2>1, <2>2, Zenon
<1>18. CASE k = "extern"
  <2>1. k \in DeclStart
    BY <1>18 DEF DeclStart
  <2>2. Extern(v)
    BY <1>18, Zenon DEF Declaration, v
  <2> QED BY <1>12, <2>1, <2>2
<1>19. CASE k \notin {"import", "type", "record", "enum", "func", "extern"}
  <2>1. k \notin DeclStart \ {"module"} /\ taken' = taken
    BY <1>1, <1>19 DEF DeclStart
  <2>2. Becomes(Bump(Unexpected(Here)), <<Task("to decl")>>)
    BY <1>19, Zenon DEF Declaration
  <2> QED BY <1>1, <2>1, <2>2, StrayPassed, Zenon
<1> QED BY <1>13, <1>14, <1>15, <1>16, <1>17, <1>18, <1>19, Zenon

LEMMA EndOfFileStep ==
    ASSUME TokensOK, Inv(s, stack, taken), EndOfFile
    PROVE  Kept /\ stack' = <<>> /\ s'.pos = Len(tokens)
<1>1. /\ stack = <<>> /\ At(Here) = "eof" /\ Becomes(Here, <<>>) /\ taken' = taken
  BY DEF EndOfFile
<1>2. /\ CursorInv(s) /\ TakenInv(s, taken) /\ s.pos \in Nat /\ s.pos \in 1..Len(tokens) /\ Len(tokens) \in Nat
  BY CursorType DEF Inv
<1>3. /\ CursorInv(Here) /\ TakenInv(Here, taken) /\ Here.errs = s.errs
      /\ Here.pos \in s.pos..Len(tokens)
      /\ \A q \in s.pos..(Here.pos - 1) : tokens[q] = "nl"
  BY <1>2, NewlinesAre, NewlinesTaken DEF Here
<1>4. Here.errs = {} => Fit({}, Here.pos)
  <2>1. SUFFICES ASSUME s.errs = {} PROVE Fit({}, Here.pos)
    BY <1>3
  <2>2. \A i \in 1..Len(<<>>) : FALSE
    OBVIOUS
  <2>3. Opens(<<>>) = {}
    BY <2>2 DEF Opens
  <2>4. Fit({}, s.pos)
    BY <1>1, <2>1, <2>3 DEF Inv, BracketInv
  <2>5. "nl" \notin Bracket
    BY DEF Bracket, Opening, Closing
  <2>6. \A q \in s.pos..(Here.pos - 1) : tokens[q] \notin Bracket
    BY <1>3, <2>5
  <2>7. Smooth(s.pos, Here.pos)
    BY <1>2, <1>3, <2>6, FlatIsSmooth
  <2> QED BY <1>2, <1>3, <2>4, <2>7, HoldsSmooth
<1>5. Inv(Here, <<>>, taken)
  BY <1>3, <1>4, EmptyInv
<1>6. stack' = <<>> /\ s' = Here
  <2>1. stack' = <<>> \o <<>> /\ s' = Here
    BY <1>1, NoTasks DEF Becomes
  <2> QED BY <2>1
<1>7. Here.pos = Len(tokens)
  <2>1. Here.pos \in 1..Len(tokens)
    BY <1>2, <1>3
  <2> QED BY <1>1, <2>1 DEF TokensOK, At
<1> QED BY <1>1, <1>5, <1>6, <1>7 DEF Kept

LEMMA ModuleDeclStep ==
    ASSUME TokensOK, s = Begin, stack = <<>>, taken = {}, ModuleDecl
    PROVE  Kept
<1>1. Inv(s, stack, taken) /\ taken' = taken
  BY BeginInv DEF ModuleDecl
<1>2. Outer = <<>> /\ Outer \in Seq(TaskSet) /\ Len(Outer) = 0
  BY NoTasks
<1>3. At(Here) = "module" /\ Becomes(Bump(Here), <<Task("or decl"), Task("path")>>) => Kept
  <2>1. At(Here) = "module" => Calm(Bump(Here), Outer, taken')
    <3>1. At(Here) = "module" => At(Here) \in Plain /\ At(Here) # "eof" /\ At(Here) \notin DeclStart \ {"module"}
      BY PlainTokens DEF DeclStart
    <3>2. taken \subseteq taken
      OBVIOUS
    <3> QED BY <1>1, <1>2, <3>1, <3>2, BeginningTaken
  <2>2. "or decl" \in Kind /\ "path" \in Kind /\ "or decl" \in Outermost /\ "or decl" \notin Recovery
    BY DEF Kind, Loose, Outside, Outermost, Recovery
  <2>3. Task("or decl") \in TaskSet /\ Task("path") \in TaskSet
    BY <2>2, TaskIs
  <2>4. <<Task("or decl"), Task("path")>> = <<Task("or decl")>> \o <<Task("path")>>
    BY <2>3, TwoOfOne
  <2>5. At(Here) = "module" /\ Becomes(Bump(Here), <<Task("or decl")>> \o <<Task("path")>>) => Kept
    BY <1>2, <2>1, <2>2, LooseLists, Outermosts
  <2> QED BY <2>4, <2>5
<1>4. Becomes(Here, <<>>) => Kept
  <2>1. /\ CursorInv(s) /\ TakenInv(s, taken) /\ s.pos \in Nat /\ s.pos \in 1..Len(tokens) /\ Len(tokens) \in Nat
    BY <1>1, CursorType DEF Inv
  <2>2. /\ CursorInv(Here) /\ TakenInv(Here, taken) /\ Here.errs = s.errs
        /\ Here.pos \in s.pos..Len(tokens)
        /\ \A q \in s.pos..(Here.pos - 1) : tokens[q] = "nl"
    BY <2>1, NewlinesAre, NewlinesTaken DEF Here
  <2>3. Here.errs = {} => Fit({}, Here.pos)
    <3>1. SUFFICES ASSUME s.errs = {} PROVE Fit({}, Here.pos)
      BY <2>2
    <3>2. \A i \in 1..Len(<<>>) : FALSE
      OBVIOUS
    <3>3. Opens(<<>>) = {}
      BY <3>2 DEF Opens
    <3>4. Fit({}, s.pos)
      BY <1>1, <3>1, <3>3 DEF Inv, BracketInv
    <3>5. "nl" \notin Bracket
      BY DEF Bracket, Opening, Closing
    <3>6. \A q \in s.pos..(Here.pos - 1) : tokens[q] \notin Bracket
      BY <2>2, <3>5
    <3>7. Smooth(s.pos, Here.pos)
      BY <2>1, <2>2, <3>6, FlatIsSmooth
    <3> QED BY <2>1, <2>2, <3>4, <3>7, HoldsSmooth
  <2>4. Inv(Here, <<>>, taken)
    BY <2>2, <2>3, EmptyInv
  <2>5. Becomes(Here, <<>>) => s' = Here /\ stack' = <<>> \o <<>>
    BY <1>2 DEF Becomes
  <2>6. <<>> \o <<>> = <<>>
    OBVIOUS
  <2> QED BY <1>1, <2>4, <2>5, <2>6 DEF Kept
<1> QED BY <1>3, <1>4 DEF ModuleDecl

-----------------------------------------------------------------------------
(* Recovery over nested braces.                                            *)

OpensBrace(k) == k = "{"
ClosesBrace(k) == k = "}"

LEMMA DeeperIs ==
    ASSUME NEW t, NEW d
    PROVE  /\ OpensBrace(At(t)) => Deeper(t, d) = d + 1
           /\ ClosesBrace(At(t)) /\ d > 0 => Deeper(t, d) = d - 1
           /\ ~OpensBrace(At(t)) /\ ~(ClosesBrace(At(t)) /\ d > 0) => Deeper(t, d) = d
<1>1. ClosesBrace(At(t)) => At(t) # "{"
  BY DEF ClosesBrace
<1> QED BY <1>1, Zenon DEF Deeper, OpensBrace, ClosesBrace

LEMMA BraceFacts ==
    /\ \A k : OpensBrace(k) => k \in Opening /\ ClosesBrace(Closer(k))
    /\ \A k : ClosesBrace(k) => k \in Closing
    /\ \A k \in Opening : ClosesBrace(Closer(k)) => OpensBrace(k)
<1>1. \A k : OpensBrace(k) => k \in Opening /\ k # "(" /\ k # "["
  BY DEF OpensBrace, Opening
<1>2. \A k : k = "{" /\ k # "(" /\ k # "[" => Closer(k) = "}"
  BY Zenon DEF Closer
<1>3. \A k : OpensBrace(k) => ClosesBrace(Closer(k))
  BY <1>1, <1>2, Zenon DEF OpensBrace, ClosesBrace
<1>4. \A k : ClosesBrace(k) => k \in Closing
  BY DEF ClosesBrace, Closing
<1>5. \A k \in Opening : ClosesBrace(Closer(k)) => OpensBrace(k)
  BY DEF ClosesBrace, OpensBrace, Closer, Opening
<1> QED BY <1>1, <1>3, <1>4, <1>5

\* The levels of open braces.
Deeps(b, n) == { l \in (b + 1)..L(n - 1) : ClosesBrace(Open[n - 1][l]) }

LEMMA AboveIs == \A b, n : Above(b, n) = Cardinality(Deeps(b, n))
  BY Zenon DEF Above, Deeps, ClosesBrace

\* Recovery counts the braces that are open.
LEMMA AboveNext ==
    ASSUME TokensOK, NEW n \in 1..Len(tokens), NEW b \in Nat, b <= L(n - 1), Sane(n + 1),
           NEW d \in Nat, d <= Above(b, n), NEW t, t.pos = n
    PROVE  Deeper(t, d) \in Nat /\ Deeper(t, d) <= Above(b, n + 1)
<1> DEFINE A == Deeps(b, n)
           B == Deeps(b, n + 1)
           k == tokens[n]
           m == L(n - 1)
<1>1. Len(tokens) \in Nat /\ (n + 1) - 1 = n /\ n \in 0..n
  BY DEF TokensOK
<1>2. At(t) = k
  BY DEF At
<1>3. /\ L(n) \in Nat /\ m \in Nat
      /\ k \in Opening => L(n) = m + 1 /\ Open[n][L(n)] = Closer(k)
      /\ k \notin Bracket => Open[n] = Open[n - 1] /\ L(n) = m
      /\ k \in Closing => \/ /\ m > 0 /\ Open[n - 1][m] = k
                             /\ L(n) = m - 1
                          \/ L(n) = m + 1 /\ Open[n][L(n)] = "bad"
      /\ \A l \in 1..m : l <= L(n) => Open[n][l] = Open[n - 1][l]
  BY OpenStep DEF L
<1>4. k \in Closing => m > 0 /\ Open[n - 1][m] = k /\ L(n) = m - 1
  <2>1. \A l \in 1..L(n) : Open[n][l] # "bad"
    BY <1>1 DEF Sane
  <2>2. k \in Closing /\ L(n) = m + 1 => L(n) \in 1..L(n)
    BY <1>3
  <2> QED BY <1>3, <2>1, <2>2
<1>5. A = { l \in (b + 1)..m : ClosesBrace(Open[n - 1][l]) }
  BY DEF Deeps
<1>6. B = { l \in (b + 1)..L(n) : ClosesBrace(Open[n][l]) }
  BY <1>1 DEF Deeps
<1>7. Above(b, n) = Cardinality(A) /\ Above(b, n + 1) = Cardinality(B)
  BY AboveIs
<1> HIDE DEF A, B, k, m
<1>8. IsFiniteSet(A) /\ Cardinality(A) \in Nat
  <2>1. IsFiniteSet((b + 1)..m)
    BY <1>3, FS_Interval
  <2>2. A \subseteq (b + 1)..m
    BY <1>5
  <2> QED BY <2>1, <2>2, FS_Subset, FS_CardinalityType
<1>9. \A l \in (b + 1)..m : l \in 1..m
  BY <1>3
<1>10. CASE OpensBrace(k)
  <2>1. k \in Opening /\ L(n) = m + 1 /\ ClosesBrace(Open[n][L(n)])
    BY <1>3, <1>10, BraceFacts
  <2>2. B = A \cup {m + 1}
    <3>1. \A l \in (b + 1)..m : l <= L(n) /\ Open[n][l] = Open[n - 1][l]
      BY <1>3, <1>9, <2>1
    <3>2. \A l : l \in (b + 1)..(m + 1) <=> l \in (b + 1)..m \/ l = m + 1
      BY <1>3, b <= m DEF m
    <3> QED BY <1>5, <1>6, <2>1, <3>1, <3>2
  <2>3. m + 1 \notin A
    BY <1>3, <1>5
  <2>4. Cardinality(B) = Cardinality(A) + 1
    BY <1>8, <2>2, <2>3, FS_AddElement
  <2>5. Deeper(t, d) = d + 1
    BY <1>2, <1>10, DeeperIs
  <2> QED BY <1>7, <1>8, <2>4, <2>5
<1>11. CASE ~OpensBrace(k) /\ k \notin Closing
  <2>1. ~ClosesBrace(k) /\ (k \in Opening => ~ClosesBrace(Closer(k)))
    BY <1>11, BraceFacts
  <2>2. B = A
    <3>1. CASE k \in Opening
      <4>1. \A l \in (b + 1)..m : l <= L(n) /\ Open[n][l] = Open[n - 1][l]
        BY <1>3, <1>9, <3>1
      <4>2. L(n) = m + 1 /\ ~ClosesBrace(Open[n][m + 1])
        BY <1>3, <2>1, <3>1
      <4>3. \A l : l \in (b + 1)..(m + 1) <=> l \in (b + 1)..m \/ l = m + 1
        BY <1>3, b <= m DEF m
      <4> QED BY <1>5, <1>6, <4>1, <4>2, <4>3
    <3>2. CASE k \notin Opening
      <4>1. k \notin Bracket
        BY <1>11, <3>2 DEF Bracket
      <4> QED BY <1>3, <1>5, <1>6, <4>1
    <3> QED BY <3>1, <3>2
  <2>3. Deeper(t, d) = d
    BY <1>2, <1>11, <2>1, DeeperIs
  <2> QED BY <1>7, <2>2, <2>3
<1>12. CASE k \in Closing
  <2>1. ~OpensBrace(k)
    <3>1. k \notin Opening
      BY <1>12 DEF Opening, Closing
    <3> QED BY <3>1, BraceFacts
  <2>2. B = A \ {m}
    <3>1. \A l \in (b + 1)..(m - 1) : Open[n][l] = Open[n - 1][l]
      <4>1. \A l \in (b + 1)..(m - 1) : l \in 1..m /\ l <= m - 1
        BY <1>3
      <4> QED BY <1>3, <1>4, <1>12, <4>1
    <3>2. \A l : l \in (b + 1)..(m - 1) <=> l \in (b + 1)..m /\ l # m
      BY <1>3
    <3>3. L(n) = m - 1
      BY <1>4, <1>12
    <3> QED BY <1>5, <1>6, <3>1, <3>2, <3>3
  <2>3. m \in A => Cardinality(B) = Cardinality(A) - 1
    BY <1>8, <2>2, FS_RemoveElement
  <2>4. m \notin A => Cardinality(B) = Cardinality(A)
    <3>1. m \notin A => B = A
      BY <2>2
    <3> QED BY <3>1
  <2>5. CASE ClosesBrace(k) /\ d > 0
    <3>1. Deeper(t, d) = d - 1
      BY <1>2, <2>5, DeeperIs
    <3> QED BY <1>7, <1>8, <2>3, <2>4, <2>5, <3>1
  <2>6. CASE ClosesBrace(k) /\ ~(d > 0)
    <3>1. Deeper(t, d) = d /\ d = 0
      BY <1>2, <2>1, <2>6, DeeperIs
    <3>2. Cardinality(B) \in Nat
      <4>1. IsFiniteSet(B)
        BY <1>8, <2>2, FS_Subset
      <4> QED BY <4>1, FS_CardinalityType
    <3> QED BY <1>7, <3>1, <3>2
  <2>7. CASE ~ClosesBrace(k)
    <3>1. Deeper(t, d) = d
      BY <1>2, <2>1, <2>7, DeeperIs
    <3>2. m \notin A
      BY <1>4, <1>5, <1>12, <2>7
    <3> QED BY <1>7, <2>4, <3>1, <3>2
  <2> QED BY <2>5, <2>6, <2>7
<1> QED BY <1>10, <1>11, <1>12

LEMMA AboveLow ==
    ASSUME TokensOK, NEW n \in 1..Len(tokens), NEW b \in Nat, L(n - 1) <= b
    PROVE  Above(b, n) = 0
<1>1. L(n - 1) \in Nat
  BY OpenStep
<1>2. Deeps(b, n) = {}
  BY <1>1 DEF Deeps
<1> QED BY <1>2, AboveIs, FS_EmptySet

\* In recovery.
LEMMA Recovers ==
    ASSUME TokensOK, Inv(s, stack, taken), NEW k \in Recovery, In(k)
    PROVE  /\ Top.open = 0 /\ Top.depth \in Nat /\ AtBracket(Top) /\ Top.k = k /\ s.errs # {}
           /\ Opens(stack) = Opens(Outer)
           /\ Ahead(s) => /\ Opens(Outer) = {} => Top.depth <= Above(0, s.pos)
                          /\ \A b \in Opens(Outer) : (\A x \in Opens(Outer) : x <= b)
                                                     => /\ Top.depth <= Above(L(b), s.pos)
                                                        /\ L(b) <= L(s.pos - 1) /\ L(b) \in Nat
<1>1. k \notin Bracketed
  BY DEF Recovery, Bracketed, Parens, Squares, Braces
<1>2. /\ Len(stack) \in Nat /\ Len(stack) > 0 /\ Top = Last(stack) /\ Outer = Callers(stack) /\ Top.k = k
      /\ Top \in TaskSet /\ AtBracket(Top) /\ Top.open = 0
  BY <1>1, Context
<1>3. Top.depth \in Nat
  BY <1>2, TaskNumbers
<1>4. StackInv(stack, s.pos) /\ s.pos \in Nat /\ s.pos \in 1..Len(tokens) /\ Len(tokens) \in Nat
  BY CursorType DEF Inv
<1>5. Opens(stack) = Opens(Callers(stack)) \cup ({Last(stack).open} \ {0})
  BY <1>2, <1>4, PopStack
<1>6. Opens(stack) = Opens(Outer)
  BY <1>2, <1>5
<1>7. /\ s.errs # {}
      /\ Ahead(s) => /\ Opens(stack) = {} => Top.depth <= Above(0, s.pos)
                     /\ \A b \in Opens(stack) : (\A x \in Opens(stack) : x <= b)
                                                => Top.depth <= Above(L(b), s.pos)
  BY <1>2 DEF Inv, RecoveryInv
<1>8. ASSUME Ahead(s), NEW b \in Opens(stack)
      PROVE  L(b) <= L(s.pos - 1) /\ L(b) \in Nat
  <2>1. Holds(Opens(stack), s.pos)
    BY <1>8 DEF Inv, BracketInv
  <2>2. b \in 1..(s.pos - 1) /\ Still(b, s.pos) /\ b \in 1..Len(tokens)
    BY <1>4, <1>8, <2>1, OpensRange DEF Holds
  <2>3. s.pos - 1 \in b..(s.pos - 1)
    BY <1>4, <2>2
  <2>4. L(b) \in Nat /\ L(s.pos - 1) \in Nat
    BY <1>4, <2>2, OpenStep
  <2> QED BY <2>2, <2>3, <2>4 DEF Still
<1> QED BY <1>2, <1>3, <1>6, <1>7, <1>8

\* A stray closing brace does not end the block that is read.
Sheltered == Opens(Outer) # {} => InBlock(Outer) /\ (ClosesBrace(At(s)) => Top.depth > 0)

LEMMA BlockBracket ==
    ASSUME TokensOK, Inv(s, stack, taken), NEW k \in Recovery, In(k), InBlock(Outer)
    PROVE  /\ Last(Outer).open \in Opens(Outer) /\ \A x \in Opens(Outer) : x <= Last(Outer).open
           /\ \A t : t = Closer(tokens[Last(Outer).open]) => ClosesBrace(t)
<1>1. StackInv(stack, s.pos) /\ s.pos \in Nat /\ s.pos \in 1..Len(tokens)
  BY CursorType DEF Inv
<1>2. Len(stack) > 0 /\ Outer = Callers(stack)
  BY Context
<1>3. StackInv(Outer, s.pos)
  BY <1>1, <1>2, PopStack
<1>4. Len(Outer) > 0 /\ Last(Outer).k = "block"
  BY DEF InBlock
<1>5. AtBracket(Last(Outer))
  BY <1>1, <1>3, <1>4, PopStack
<1>6. Last(Outer).open # 0 /\ "block" \in Braces
  BY <1>4, <1>5 DEF AtBracket, Braces
<1>7. OpensBrace(tokens[Last(Outer).open])
  <2>1. "block" \notin Parens /\ "block" \notin Squares
    BY DEF Parens, Squares
  <2> QED BY <1>4, <1>5, <1>6, <2>1, Zenon DEF AtBracket, OpensBrace
<1> QED BY <1>1, <1>3, <1>4, <1>6, <1>7, Innermost, BraceFacts

\* A declaration that is ahead was ahead before.
LEMMA StillAhead ==
    ASSUME TokensOK, CursorInv(s), At(s) # "eof", Ahead(Bump(s))
    PROVE  Ahead(s) /\ Sane(s.pos + 1)
<1> DEFINE v == Bump(s)
<1>1. v.pos = s.pos + 1 /\ s.pos < Len(tokens) /\ v.lost = s.lost
  BY BumpIs
<1>2. s.pos \in Nat /\ s.pos \in 1..Len(tokens) /\ Len(tokens) \in Nat
  BY CursorType
<1> HIDE DEF v
<1>3. v.lost = {}
  BY DEF Ahead, v
<1>4. PICK p \in v.pos..Len(tokens) : p > 1 /\ Declares(p)
  BY DEF Ahead, v
<1>5. p \in s.pos..Len(tokens) /\ p \in 1..Len(tokens) /\ s.pos + 1 \in 1..p
  BY <1>1, <1>2, <1>4
<1>6. Ahead(s)
  BY <1>1, <1>3, <1>4, <1>5 DEF Ahead
<1>7. Open[p - 1] = <<>>
  BY <1>4 DEF Declares
<1> QED BY <1>5, <1>6, <1>7, SaneBefore

LEMMA OnwardHolds ==
    ASSUME TokensOK, Inv(s, stack, taken), NEW k \in Recovery, In(k), At(s) # "eof", Sheltered,
           Ahead(Bump(s))
    PROVE  Holds(Opens(Outer), Bump(s).pos)
<1>1. CursorInv(s) /\ s.pos \in Nat /\ s.pos \in 1..Len(tokens) /\ Len(tokens) \in Nat
  BY CursorType DEF Inv
<1>2. Ahead(s) /\ Sane(s.pos + 1) /\ Bump(s).pos = s.pos + 1
  BY <1>1, StillAhead, BumpIs
<1>3. Opens(stack) = Opens(Outer)
  BY Recovers
<1>4. Holds(Opens(Outer), s.pos)
  BY <1>2, <1>3 DEF Inv, BracketInv
<1>5. CASE Opens(Outer) = {}
  BY <1>5 DEF Holds
<1>6. CASE Opens(Outer) # {}
  <2>1. InBlock(Outer) /\ (ClosesBrace(At(s)) => Top.depth > 0)
    BY <1>6 DEF Sheltered
  <2> DEFINE b == Last(Outer).open
  <2>2. /\ b \in Opens(Outer) /\ \A x \in Opens(Outer) : x <= b
        /\ \A t : t = Closer(tokens[b]) => ClosesBrace(t)
    BY <2>1, BlockBracket
  <2> HIDE DEF b
  <2>3. /\ Top.depth <= Above(L(b), s.pos) /\ L(b) <= L(s.pos - 1) /\ L(b) \in Nat /\ Top.depth \in Nat
    BY <1>2, <2>2, Recovers
  <2>4. L(s.pos - 1) \in Nat
    BY <1>1, OpenStep
  <2>5. tokens[s.pos] = Closer(tokens[b]) => L(s.pos - 1) > L(b)
    <3>1. SUFFICES ASSUME ClosesBrace(At(s)) PROVE L(s.pos - 1) > L(b)
      BY <2>2 DEF At
    <3>2. Top.depth > 0
      BY <2>1, <3>1
    <3>3. SUFFICES ASSUME L(s.pos - 1) <= L(b) PROVE FALSE
      BY <2>3, <2>4
    <3>4. Above(L(b), s.pos) = 0
      BY <1>1, <2>3, <3>3, AboveLow
    <3> QED BY <2>3, <3>2, <3>4
  <2>6. Holds(Opens(Outer), s.pos + 1)
    BY <1>1, <1>2, <1>4, <2>2, <2>5, HoldsPass
  <2> QED BY <1>2, <2>6
<1> QED BY <1>5, <1>6

LEMMA OnwardCounts ==
    ASSUME TokensOK, Inv(s, stack, taken), NEW k \in Recovery, In(k), At(s) # "eof",
           Ahead(Bump(s))
    PROVE  /\ Opens(Outer) = {} => Deeper(s, Top.depth) <= Above(0, Bump(s).pos)
           /\ \A b \in Opens(Outer) : (\A x \in Opens(Outer) : x <= b)
                                      => Deeper(s, Top.depth) <= Above(L(b), Bump(s).pos)
<1>1. CursorInv(s) /\ s.pos \in Nat /\ s.pos \in 1..Len(tokens) /\ Len(tokens) \in Nat
  BY CursorType DEF Inv
<1>2. Ahead(s) /\ Sane(s.pos + 1) /\ Bump(s).pos = s.pos + 1
  BY <1>1, StillAhead, BumpIs
<1>3. Top.depth \in Nat
  BY Recovers
<1>4. \A b \in Nat : b <= L(s.pos - 1) /\ Top.depth <= Above(b, s.pos)
                     => Deeper(s, Top.depth) <= Above(b, s.pos + 1)
  BY <1>1, <1>2, <1>3, AboveNext
<1>5. L(s.pos - 1) \in Nat /\ 0 <= L(s.pos - 1)
  <2>1. L(s.pos - 1) \in Nat
    BY <1>1, OpenStep
  <2> QED BY <2>1
<1>6. ASSUME Opens(Outer) = {}
      PROVE  Deeper(s, Top.depth) <= Above(0, s.pos + 1)
  BY <1>2, <1>4, <1>5, <1>6, Recovers
<1>7. ASSUME NEW b \in Opens(Outer), \A x \in Opens(Outer) : x <= b
      PROVE  Deeper(s, Top.depth) <= Above(L(b), s.pos + 1)
  <2>1. /\ Top.depth <= Above(L(b), s.pos) /\ L(b) <= L(s.pos - 1) /\ L(b) \in Nat
    BY <1>2, <1>7, Recovers
  <2> QED BY <1>4, <2>1
<1> QED BY <1>2, <1>6, <1>7

LEMMA DeeperNat ==
    ASSUME NEW t, NEW d \in Nat
    PROVE  Deeper(t, d) \in Nat
<1>1. CASE OpensBrace(At(t))
  BY <1>1, DeeperIs
<1>2. CASE ClosesBrace(At(t)) /\ d > 0
  BY <1>2, DeeperIs
<1>3. CASE ~OpensBrace(At(t)) /\ ~(ClosesBrace(At(t)) /\ d > 0)
  BY <1>3, DeeperIs
<1> QED BY <1>1, <1>2, <1>3

LEMMA OnwardKept ==
    ASSUME TokensOK, Inv(s, stack, taken), NEW k \in Recovery, In(k), At(s) # "eof", Sheltered, Onward,
           LineInv(Bump(s), stack), TakenInv(Bump(s), taken)
    PROVE  Kept
<1> DEFINE v == Bump(s)
           e == Deeper(s, Top.depth)
           a == [Top EXCEPT !.depth = e]
           h == <<a>>
           st == Append(Outer, a)
<1>1. /\ Len(stack) > 0 /\ Top = Last(stack) /\ Outer = Callers(stack) /\ Top.k = k /\ Top \in TaskSet
      /\ taken' = taken /\ Outer \in Seq(TaskSet) /\ Placed(Outer, Top)
  BY Context
<1>2. Top.open = 0 /\ Top.depth \in Nat /\ AtBracket(Top) /\ s.errs # {} /\ Opens(stack) = Opens(Outer)
  BY Recovers
<1>3. e \in Nat
  BY <1>2, DeeperNat
<1>4. Becomes(v, h)
  BY DEF Onward
<1> HIDE DEF e
<1>5. a \in TaskSet /\ a.k = Top.k /\ a.open = Top.open /\ a.of = Top.of /\ a.depth = e
  BY <1>1, <1>3 DEF TaskSet
<1> HIDE DEF a
<1>6. AtBracket(a) /\ Placed(Outer, a) /\ a.open = 0
  BY <1>1, <1>2, <1>5 DEF AtBracket, Placed
<1>7. /\ CursorInv(s) /\ s.pos \in Nat /\ s.pos \in 1..Len(tokens) /\ Len(tokens) \in Nat
      /\ StackInv(stack, s.pos)
  BY CursorType DEF Inv
<1>8. /\ CursorInv(v) /\ v.errs = s.errs /\ v.pos = s.pos + 1 /\ v.lost = s.lost
  BY <1>7, BumpIs
<1>9. StackInv(Outer, s.pos) /\ (Loosened(Outer) => Loosened(stack))
  BY <1>1, <1>7, PopStack
<1>10. /\ StackInv(st, s.pos)
       /\ Opens(st) = Opens(Outer) \cup ({a.open} \ {0})
       /\ Len(st) = Len(Outer) + 1 /\ Len(Outer) \in Nat
       /\ Last(st) = a
       /\ Loosened(st) => Loosened(Outer) \/ (a.k = "group" /\ a.open = 0)
  <2>1. a.open < s.pos
    BY <1>6, <1>7
  <2> QED BY <1>5, <1>6, <1>7, <1>9, <2>1, PushStack
<1> HIDE DEF st, v
<1>11. StackInv(st, v.pos)
  BY <1>7, <1>8, <1>10, StackLater
<1>12. Opens(st) = Opens(Outer) /\ Len(st) > 0
  BY <1>6, <1>10
<1>13. BracketInv(v, st)
  <2>1. Ahead(v) => Holds(Opens(Outer), v.pos)
    BY OnwardHolds DEF v
  <2> QED BY <1>2, <1>8, <1>12, <2>1 DEF BracketInv
<1>14. RecoveryInv(v, st)
  <2>1. Ahead(v) => /\ Opens(Outer) = {} => e <= Above(0, v.pos)
                    /\ \A b \in Opens(Outer) : (\A x \in Opens(Outer) : x <= b)
                                               => e <= Above(L(b), v.pos)
    BY OnwardCounts DEF v, e
  <2> QED BY <1>2, <1>5, <1>8, <1>10, <1>12, <2>1 DEF RecoveryInv
<1>15. LineInv(v, st)
  <2>1. LineInv(v, stack)
    BY DEF v
  <2>2. Last(st).k = Last(stack).k /\ Len(stack) # 0
    BY <1>1, <1>5, <1>10
  <2> QED BY <2>1, <2>2, Zenon DEF LineInv
<1>16. LostInv(v, st)
  <2>1. a.k # "group"
    BY <1>1, <1>5 DEF Recovery
  <2>2. LostInv(s, stack)
    BY DEF Inv
  <2> QED BY <1>8, <1>9, <1>10, <2>1, <2>2 DEF LostInv
<1>17. TakenInv(v, taken')
  BY <1>1 DEF v
<1>18. Inv(v, st, taken')
  BY <1>8, <1>11, <1>13, <1>14, <1>15, <1>16, <1>17 DEF Inv
<1>19. h \in Seq(TaskSet) /\ Len(h) = 1 /\ h[1] = a
  BY <1>5, OneTask, Zenon
<1> HIDE DEF h
<1>20. <<>> \in Seq(TaskSet)
  BY EmptySeq
<1>21. Outer \o h = st
  <2>1. Outer \o h = Append(Outer, h[1])
    BY <1>1, <1>19, <1>20, More
  <2> QED BY <1>19, <2>1 DEF st
<1> QED BY <1>4, <1>18, <1>21, Leading

LEMMA Goes ==
    ASSUME TokensOK, NEW u, CursorInv(u), NEW tk, TakenInv(u, tk)
    PROVE  /\ CursorInv(Go(u)) /\ TakenInv(Go(u), tk) /\ Go(u).pos = u.pos /\ Go(u).errs = u.errs
           /\ Go(u).lost = u.lost
<1>1. u \in State
  BY DEF CursorInv
<1>2. /\ Go(u) \in State /\ Go(u).pos = u.pos /\ Go(u).errs = u.errs /\ Go(u).lost = u.lost
      /\ Go(u).ok = TRUE
  BY <1>1 DEF State, Go
<1> QED BY <1>2 DEF CursorInv, TakenInv

LEMMA ToDeclStep ==
    ASSUME TokensOK, Inv(s, stack, taken), ToDecl
    PROVE  Kept
<1> DEFINE k == "to decl"
           v == Bump(s)
<1>1. In(k) /\ k \in Recovery /\ k \in Outside
  BY DEF ToDecl, Recovery, Outside
<1>2. Becomes(Go(s), <<>>) \/ (At(s) # "eof" /\ ~(At(s) \in DeclStart /\ Top.depth = 0) /\ Onward)
  BY Zenon DEF ToDecl
<1>3. \A u : Len(u) > 0 /\ Last(u).k = k => LineInv(v, u)
  BY DEF LineInv
<1> HIDE DEF k
<1>4. /\ Len(stack) > 0 /\ Top = Last(stack) /\ Top.k = k /\ taken' = taken /\ Outer \in Seq(TaskSet)
  BY <1>1, Context
<1>5. Outer \in Seq(TaskSet) /\ Len(Outer) = 0
  BY <1>1, Alone
<1>6. Outer = <<>> /\ Opens(Outer) = {}
  <2>1. \A i \in 1..Len(Outer) : FALSE
    BY <1>5
  <2> QED BY <1>5, <2>1 DEF Opens
<1>7. Top.depth \in Nat /\ s.errs # {} /\ (Ahead(s) => Top.depth <= Above(0, s.pos))
  BY <1>1, <1>6, Recovers
<1>8. /\ CursorInv(s) /\ TakenInv(s, taken) /\ s.pos \in Nat /\ s.pos \in 1..Len(tokens)
      /\ Len(tokens) \in Nat
  BY CursorType DEF Inv
<1>9. Becomes(Go(s), <<>>) => Kept
  <2>1. /\ CursorInv(Go(s)) /\ TakenInv(Go(s), taken) /\ Go(s).errs # {}
    BY <1>7, <1>8, Goes
  <2>2. Inv(Go(s), <<>>, taken')
    BY <1>4, <2>1, EmptyInv
  <2>3. Outer \o <<>> = <<>>
    BY <1>6
  <2> QED BY <2>2, <2>3, Leading
<1>10. ASSUME At(s) # "eof", ~(At(s) \in DeclStart /\ Top.depth = 0), Onward
       PROVE  Kept
  <2>1. v.pos = s.pos + 1 /\ s.pos < Len(tokens) /\ v.lost = s.lost
    BY <1>8, <1>10, BumpIs
  <2>2. LineInv(v, stack)
    BY <1>3, <1>4
  <2> HIDE DEF v
  <2>3. TakenInv(v, taken)
    <3>1. SUFFICES ASSUME NEW p \in 2..(v.pos - 1), Declares(p)
                   PROVE  p \in taken \/ \E q \in v.lost : q < p
      BY DEF TakenInv
    <3>2. CASE p # s.pos
      <4>1. p \in 2..(s.pos - 1)
        BY <1>8, <2>1, <3>2
      <4> QED BY <1>8, <2>1, <3>1, <4>1 DEF TakenInv
    <3>3. CASE p = s.pos /\ s.lost # {}
      <4>1. PICK q \in s.lost : TRUE
        BY <3>3
      <4>2. q < s.pos
        BY <1>8, <2>1, <4>1 DEF CursorInv
      <4> QED BY <2>1, <3>3, <4>2
    <3>4. CASE p = s.pos /\ s.lost = {}
      <4>1. p \in s.pos..Len(tokens) /\ p > 1
        BY <1>8, <2>1, <3>4
      <4>2. Ahead(s)
        BY <3>1, <3>4, <4>1 DEF Ahead
      <4>3. Open[s.pos - 1] = <<>> /\ At(s) \in DeclStart
        BY <3>1, <3>4 DEF Declares, At
      <4>4. L(s.pos - 1) = 0 /\ 0 \in Nat
        BY <4>3 DEF L
      <4>5. Above(0, s.pos) = 0
        BY <1>8, <4>4, AboveLow
      <4>6. Top.depth = 0
        BY <1>7, <4>2, <4>5
      <4> QED BY <1>10, <4>3, <4>6
    <3> QED BY <3>2, <3>3, <3>4
  <2>4. Sheltered
    BY <1>6 DEF Sheltered
  <2> QED BY <1>1, <1>10, <2>2, <2>3, <2>4, OnwardKept DEF v
<1> QED BY <1>2, <1>9, <1>10

LEMMA ToStmtEndStep ==
    ASSUME TokensOK, Inv(s, stack, taken), ToStmtEnd
    PROVE  Kept
<1> DEFINE k == "to stmt end"
           v == Bump(s)
<1>1. In(k) /\ k \in Recovery
  BY DEF ToStmtEnd, Recovery
<1>2. \/ Becomes(Go(s), <<>>)
      \/ At(s) = "nl" /\ Becomes(Go(Here), <<>>)
      \/ /\ At(s) # "eof" /\ ~(At(s) = "nl" /\ Top.depth = 0) /\ (ClosesBrace(At(s)) => Top.depth # 0)
         /\ Onward
  BY Zenon DEF ToStmtEnd, ClosesBrace
<1>3. Top.k = k => \A st : Placed(st, Top) => Len(st) = 0 \/ (Len(st) = 1 /\ st[1].k = "clauses") \/ InBlock(st)
  BY Zenon DEF Placed, InBlock
<1>4. \A u : Last(stack).k = k => (LineInv(u, stack) <=> Len(stack) = 0 \/ Off(u))
  <2>1. k # "to decl" /\ k # "clauses"
    OBVIOUS
  <2> QED BY <2>1, Zenon DEF LineInv
<1>5. k # "group"
  OBVIOUS
<1> HIDE DEF k
<1>6. /\ Len(stack) > 0 /\ Top = Last(stack) /\ Outer = Callers(stack) /\ Top.k = k /\ taken' = taken
      /\ Outer \in Seq(TaskSet) /\ Placed(Outer, Top) /\ Len(stack) \in Nat
  BY <1>1, Context
<1>7. Top.depth \in Nat /\ s.errs # {} /\ Top.open = 0
  BY <1>1, Recovers
<1>8. Off(s)
  BY <1>4, <1>6 DEF Inv
<1>9. Calm(s, Outer, taken)
  BY <1>6, <1>7, <1>8, Return
<1>10. Becomes(Go(s), <<>>) => Kept
  BY <1>6, <1>9, Marking, Entering
<1>11. /\ CursorInv(s) /\ TakenInv(s, taken) /\ s.pos \in Nat /\ s.pos \in 1..Len(tokens)
       /\ Len(tokens) \in Nat
  BY CursorType DEF Inv
<1>12. ASSUME ~InBlock(Outer)
       PROVE  Opens(Outer) = {} /\ (Len(Outer) = 0 \/ Last(Outer).k = "clauses")
  <2>1. Len(Outer) = 0 \/ (Len(Outer) = 1 /\ Outer[1].k = "clauses")
    BY <1>3, <1>6, <1>12
  <2>2. CASE Len(Outer) = 0
    <3>1. \A i \in 1..Len(Outer) : FALSE
      BY <2>2
    <3> QED BY <2>2, <3>1 DEF Opens
  <2>3. CASE Len(Outer) = 1 /\ Outer[1].k = "clauses"
    <3>1. StackInv(Outer, s.pos)
      BY <1>9 DEF Calm, Inv
    <3>2. AtBracket(Outer[1])
      BY <2>3, <3>1 DEF StackInv
    <3>3. Outer[1].open = 0
      BY <2>3, <3>2 DEF AtBracket, Parens, Squares, Braces
    <3>4. \A i \in 1..1 : i = 1
      OBVIOUS
    <3> QED BY <2>3, <3>3, <3>4 DEF Opens, Last
  <2> QED BY <2>1, <2>2, <2>3
<1>13. Becomes(Go(Here), <<>>) => Kept
  <2>1. CASE InBlock(Outer)
    <3>1. Opens(Outer) # {}
      BY <1>1, <2>1, BlockBracket
    <3>2. Inv(s, Outer, taken) /\ (Len(Outer) > 0 => Last(Outer).k \notin Recovery)
      BY <1>9 DEF Calm
    <3>3. Calm(Here, Outer, taken)
      BY <1>8, <3>1, <3>2, Newlines DEF Here
    <3> QED BY <1>6, <3>3, Marking, Entering
  <2>2. CASE ~InBlock(Outer)
    <3>1. Opens(Outer) = {} /\ (Len(Outer) = 0 \/ Last(Outer).k = "clauses")
      BY <1>12, <2>2
    <3>2. /\ CursorInv(Here) /\ TakenInv(Here, taken) /\ Here.errs = s.errs /\ Here.lost = s.lost
          /\ Here.pos \in s.pos..Len(tokens)
      BY <1>11, NewlinesAre, NewlinesTaken DEF Here, After
    <3> DEFINE u == Go(Here)
    <3>3. /\ CursorInv(u) /\ TakenInv(u, taken) /\ u.errs # {} /\ u.lost = s.lost /\ u.pos = Here.pos
      BY <1>7, <3>2, Goes
    <3> HIDE DEF u
    <3>4. s.pos <= u.pos /\ u.pos \in Nat
      BY <1>11, <3>2, <3>3
    <3>5. StackInv(Outer, s.pos) /\ LostInv(s, Outer) /\ (Len(Outer) > 0 => Last(Outer).k \notin Recovery)
      BY <1>9 DEF Calm, Inv
    <3>6. StackInv(Outer, u.pos)
      BY <1>11, <3>4, <3>5, StackLater
    <3>7. BracketInv(u, Outer)
      BY <3>1, <3>3 DEF BracketInv, Holds
    <3>8. LineInv(u, Outer)
      BY <3>1, Zenon DEF LineInv
    <3>9. LostInv(u, Outer) /\ RecoveryInv(u, Outer)
      BY <3>3, <3>5 DEF LostInv, RecoveryInv
    <3>10. Inv(u, Outer, taken')
      BY <1>6, <3>3, <3>6, <3>7, <3>8, <3>9 DEF Inv
    <3>11. Outer \o <<>> = Outer
      BY <1>6
    <3> QED BY <3>10, <3>11, Leading DEF u
  <2> QED BY <2>1, <2>2
<1>14. ASSUME At(s) # "eof", ~(At(s) = "nl" /\ Top.depth = 0), ClosesBrace(At(s)) => Top.depth # 0, Onward
       PROVE  Kept
  <2>1. v.pos = s.pos + 1 /\ s.pos < Len(tokens) /\ v.lost = s.lost /\ v.pos \in Nat
    BY <1>11, <1>14, BumpIs
  <2> HIDE DEF v
  <2>2. Sheltered
    <3>1. Opens(Outer) # {} => InBlock(Outer)
      BY <1>12
    <3> QED BY <1>7, <1>14, <3>1 DEF Sheltered
  <2>3. Off(v)
    <3>1. SUFFICES ASSUME v.lost = {}, Declares(v.pos) PROVE FALSE
      BY DEF Off
    <3>2. tokens[s.pos] = "nl" /\ Open[s.pos] = <<>>
      <4>1. v.pos - 1 = s.pos
        BY <1>11, <2>1
      <4> QED BY <3>1, <4>1 DEF Declares
    <3>3. Top.depth # 0
      BY <1>14, <3>2 DEF At
    <3>4. v.pos \in s.pos..Len(tokens) /\ v.pos > 1
      BY <1>11, <2>1
    <3>5. Ahead(s)
      BY <2>1, <3>1, <3>4 DEF Ahead
    <3>6. tokens[s.pos] \notin Bracket
      BY <3>2 DEF Bracket, Opening, Closing
    <3>7. Open[s.pos - 1] = <<>>
      BY <1>11, <3>2, <3>6, OpenStep
    <3>8. L(s.pos - 1) = 0
      BY <3>7 DEF L
    <3>9. \A b \in Nat : Above(b, s.pos) = 0
      BY <1>11, <3>8, AboveLow
    <3>10. CASE InBlock(Outer)
      <4> DEFINE b == Last(Outer).open
      <4>1. b \in Opens(Outer) /\ \A x \in Opens(Outer) : x <= b
        BY <1>1, <3>10, BlockBracket
      <4> HIDE DEF b
      <4>2. Top.depth <= Above(L(b), s.pos) /\ L(b) \in Nat
        BY <1>1, <3>5, <4>1, Recovers
      <4> QED BY <1>7, <3>3, <3>9, <4>2
    <3>11. CASE ~InBlock(Outer)
      <4>1. Top.depth <= Above(0, s.pos)
        BY <1>1, <1>12, <3>5, <3>11, Recovers
      <4> QED BY <1>7, <3>3, <3>9, <4>1
    <3> QED BY <3>10, <3>11
  <2>4. LineInv(v, stack)
    BY <1>4, <1>6, <2>3
  <2>5. TakenInv(v, taken)
    <3>1. SUFFICES ASSUME NEW p \in 2..(v.pos - 1), Declares(p)
                   PROVE  p \in taken \/ \E q \in v.lost : q < p
      BY DEF TakenInv
    <3>2. CASE p # s.pos
      <4>1. p \in 2..(s.pos - 1)
        BY <1>11, <2>1, <3>2
      <4> QED BY <1>11, <2>1, <3>1, <4>1 DEF TakenInv
    <3>3. CASE p = s.pos
      <4>1. s.lost # {}
        BY <1>8, <3>1, <3>3 DEF Off
      <4>2. PICK q \in s.lost : TRUE
        BY <4>1
      <4>3. q < s.pos
        BY <1>11, <2>1, <4>2 DEF CursorInv
      <4> QED BY <2>1, <3>3, <4>2, <4>3
    <3> QED BY <3>2, <3>3
  <2> QED BY <1>1, <1>14, <2>2, <2>4, <2>5, OnwardKept DEF v
<1> QED BY <1>2, <1>10, <1>13, <1>14

-----------------------------------------------------------------------------
(* All tasks.                                                              *)

Frame == tokens' = tokens /\ fixed' = fixed

LEMMA Framed == \A t, more : Becomes(t, more) => Frame
  BY DEF Becomes, Frame

\* The operators the invariant is built from read nothing but the tokens.
LEMMA TokensStay ==
    ASSUME tokens' = tokens, Kept
    PROVE  Inv(s, stack, taken)'
<1>1. Open' = Open
  BY DEF Open
<1>2. CursorInv(s') /\ StackInv(stack', s'.pos) /\ BracketInv(s', stack') /\ RecoveryInv(s', stack')
      /\ LineInv(s', stack') /\ TakenInv(s', taken') /\ LostInv(s', stack')
  BY DEF Kept, Inv
<1>3. CursorInv(s)'
  BY <1>2 DEF CursorInv, State, Sound
<1>4. StackInv(stack, s.pos)'
  <2>1. TaskSet' = TaskSet
    BY DEF TaskSet
  <2>2. \A i : AtBracket(stack'[i]) => AtBracket(stack[i])'
    BY DEF AtBracket
  <2>3. \A i : Placed(SubSeq(stack', 1, i - 1), stack'[i]) => Placed(SubSeq(stack, 1, i - 1), stack[i])'
    BY DEF Placed
  <2> QED BY <1>2, <2>1, <2>2, <2>3 DEF StackInv
<1>5. Ahead(s)' => Ahead(s')
  BY <1>1, Zenon DEF Ahead, Declares
<1>6. Opens(stack)' = Opens(stack')
  BY DEF Opens
<1>7. Holds(Opens(stack'), s'.pos) => Holds(Opens(stack), s.pos)'
  BY <1>1, <1>6 DEF Holds, Still, L
<1>8. Fit(Opens(stack'), s'.pos) => Fit(Opens(stack), s.pos)'
  BY <1>1, <1>6 DEF Fit, L
<1>9. BracketInv(s, stack)'
  BY <1>2, <1>5, <1>7, <1>8 DEF BracketInv
<1>10. RecoveryInv(s, stack)'
  <2>1. Above(0, s.pos)' = Above(0, s'.pos)
    BY <1>1, Zenon DEF Above, L
  <2>2. \A b : Above(L(b), s.pos)' = Above(L(b), s'.pos)
    BY <1>1, Zenon DEF Above, L
  <2> QED BY <1>2, <1>5, <1>6, <2>1, <2>2 DEF RecoveryInv, Last
<1>11. LineInv(s, stack)'
  BY <1>1, <1>2, Zenon DEF LineInv, Off, Declares, Last
<1>12. TakenInv(s, taken)'
  BY <1>1, <1>2 DEF TakenInv, Declares
<1>13. LostInv(s, stack)'
  BY <1>2 DEF LostInv, Loosened
<1> QED BY <1>3, <1>4, <1>9, <1>10, <1>11, <1>12, <1>13 DEF Inv

\* A task runs for itself.
LEMMA TasksFrame ==
    ASSUME NEW P, P = (Frame /\ stack # <<>> /\ phase = "decls" /\ phase' = phase /\ taken' = taken)
    PROVE  /\ ToDecl => P
           /\ ToStmtEnd => P
           /\ OrDecl => P
           /\ OrStmtEnd => P
           /\ EntryEnd => P
           /\ Path => P
           /\ TypeRest => P
           /\ TypeArg => P
           /\ PatternPayload => P
           /\ Binding => P
           /\ BoundField => P
           /\ Operand => P
           /\ Unary => P
           /\ NoPathEnd => P
           /\ Primary => P
           /\ LambdaEnd => P
           /\ ZeroLambdaEnd => P
           /\ GroupEnd => P
           /\ Postfix => P
           /\ Args => P
           /\ Arg => P
           /\ List => P
           /\ Element => P
           /\ RecordLit => P
           /\ Value => P
           /\ Match => P
           /\ Arms => P
           /\ ArmBody => P
           /\ ImportRest => P
           /\ AliasEnd => P
           /\ ExternName => P
           /\ ImportedName => P
           /\ Field => P
           /\ Variant => P
           /\ Payload => P
           /\ PayloadType => P
           /\ Param => P
           /\ ParamEnd => P
           /\ ExternUses => P
           /\ EffectEnd => P
           /\ Clause => P
           /\ BlockEnd => P
           /\ Statement => P
           /\ Then => P
           /\ LetValue => P
           /\ LetElse => P
           /\ StmtEnd => P
<1> DEFINE D == stack # <<>> /\ phase = "decls" /\ phase' = phase /\ taken' = taken
<1>1. \A k : In(k) => D
  BY DEF In
<1>2. \A t, more : Becomes(t, more) => Frame
  BY Framed
<1>3. Frame /\ D => P
  OBVIOUS
<1> HIDE DEF D
<1>4. ToDecl => P
  BY <1>1, <1>2, <1>3, Zenon DEF ToDecl, Onward
<1>5. ToStmtEnd => P
  BY <1>1, <1>2, <1>3, Zenon DEF ToStmtEnd, Onward
<1>6. OrDecl => P
  BY <1>1, <1>2, <1>3, Zenon DEF OrDecl
<1>7. OrStmtEnd => P
  BY <1>1, <1>2, <1>3, Zenon DEF OrStmtEnd
<1>8. EntryEnd => P
  BY <1>1, <1>2, <1>3, Zenon DEF EntryEnd
<1>9. Path => P
  BY <1>1, <1>2, <1>3, Zenon DEF Path
<1>10. TypeRest => P
  BY <1>1, <1>2, <1>3, Zenon DEF TypeRest
<1>11. TypeArg => P
  BY <1>1, <1>2, <1>3, Zenon DEF TypeArg
<1>12. PatternPayload => P
  BY <1>1, <1>2, <1>3, Zenon DEF PatternPayload
<1>13. Binding => P
  BY <1>1, <1>2, <1>3, Zenon DEF Binding, UntilThen
<1>14. BoundField => P
  BY <1>1, <1>2, <1>3, Zenon DEF BoundField, UntilThen
<1>15. Operand => P
  BY <1>1, <1>2, <1>3, Zenon DEF Operand
<1>16. Unary => P
  BY <1>1, <1>2, <1>3, Zenon DEF Unary
<1>17. NoPathEnd => P
  BY <1>1, <1>2, <1>3, Zenon DEF NoPathEnd
<1>18. Primary => P
  BY <1>1, <1>2, <1>3, Zenon DEF Primary, Name, Parenthesis
<1>19. LambdaEnd => P
  BY <1>1, <1>2, <1>3, Zenon DEF LambdaEnd
<1>20. ZeroLambdaEnd => P
  BY <1>1, <1>2, <1>3, Zenon DEF ZeroLambdaEnd
<1>21. GroupEnd => P
  BY <1>1, <1>2, <1>3, Zenon DEF GroupEnd
<1>22. Postfix => P
  BY <1>1, <1>2, <1>3, Zenon DEF Postfix
<1>23. Args => P
  BY <1>1, <1>2, <1>3, Zenon DEF Args, UntilThen
<1>24. Arg => P
  BY <1>1, <1>2, <1>3, Zenon DEF Arg
<1>25. List => P
  BY <1>1, <1>2, <1>3, Zenon DEF List, Until
<1>26. Element => P
  BY <1>1, <1>2, <1>3, Zenon DEF Element
<1>27. RecordLit => P
  BY <1>1, <1>2, <1>3, Zenon DEF RecordLit, Until
<1>28. Value => P
  BY <1>1, <1>2, <1>3, Zenon DEF Value
<1>29. Match => P
  BY <1>1, <1>2, <1>3, Zenon DEF Match
<1>30. Arms => P
  BY <1>1, <1>2, <1>3, Zenon DEF Arms, Until
<1>31. ArmBody => P
  BY <1>1, <1>2, <1>3, Zenon DEF ArmBody
<1>32. ImportRest => P
  BY <1>1, <1>2, <1>3, Zenon DEF ImportRest
<1>33. AliasEnd => P
  BY <1>1, <1>2, <1>3, Zenon DEF AliasEnd
<1>34. ExternName => P
  BY <1>1, <1>2, <1>3, Zenon DEF ExternName, Header
<1>35. ImportedName => P
  BY <1>1, <1>2, <1>3, Zenon DEF ImportedName, Until
<1>36. Field => P
  BY <1>1, <1>2, <1>3, Zenon DEF Field, Until
<1>37. Variant => P
  BY <1>1, <1>2, <1>3, Zenon DEF Variant, Until
<1>38. Payload => P
  BY <1>1, <1>2, <1>3, Zenon DEF Payload, UntilThen
<1>39. PayloadType => P
  BY <1>1, <1>2, <1>3, Zenon DEF PayloadType
<1>40. Param => P
  BY <1>1, <1>2, <1>3, Zenon DEF Param, Signature
<1>41. ParamEnd => P
  BY <1>1, <1>2, <1>3, Zenon DEF ParamEnd, Signature
<1>42. ExternUses => P
  BY <1>1, <1>2, <1>3, Zenon DEF ExternUses
<1>43. EffectEnd => P
  BY <1>1, <1>2, <1>3, Zenon DEF EffectEnd
<1>44. Clause => P
  BY <1>1, <1>2, <1>3, Zenon DEF Clause
<1>45. BlockEnd => P
  BY <1>1, <1>2, <1>3, Zenon DEF BlockEnd, Else
<1>46. Statement => P
  BY <1>1, <1>2, <1>3, Zenon DEF Statement
<1>47. Then => P
  BY <1>1, <1>2, <1>3, Zenon DEF Then
<1>48. LetValue => P
  BY <1>1, <1>2, <1>3, Zenon DEF LetValue
<1>49. LetElse => P
  BY <1>1, <1>2, <1>3, Zenon DEF LetElse
<1>50. StmtEnd => P
  BY <1>1, <1>2, <1>3, Zenon DEF StmtEnd
<1> QED BY <1>4, <1>5, <1>6, <1>7, <1>8, <1>9, <1>10, <1>11, <1>12, <1>13, <1>14, <1>15, <1>16,
           <1>17, <1>18, <1>19, <1>20, <1>21, <1>22, <1>23, <1>24, <1>25, <1>26, <1>27, <1>28,
           <1>29, <1>30, <1>31, <1>32, <1>33, <1>34, <1>35, <1>36, <1>37, <1>38, <1>39, <1>40,
           <1>41, <1>42, <1>43, <1>44, <1>45, <1>46, <1>47, <1>48, <1>49, <1>50

\* The tasks.
Running == \/ ToDecl \/ ToStmtEnd \/ OrDecl \/ OrStmtEnd \/ EntryEnd
           \/ Path \/ TypeRest \/ TypeArg \/ PatternPayload \/ Binding \/ BoundField
           \/ Operand \/ Unary \/ NoPathEnd \/ Primary \/ LambdaEnd \/ ZeroLambdaEnd \/ GroupEnd
           \/ Postfix \/ Args \/ Arg \/ List \/ Element \/ RecordLit \/ Value
           \/ Match \/ Arms \/ ArmBody \/ ImportRest \/ AliasEnd \/ ExternName \/ ImportedName \/ Field
           \/ Variant \/ Payload \/ PayloadType \/ Param \/ ParamEnd \/ ExternUses \/ EffectEnd \/ Clause
           \/ BlockEnd \/ Statement \/ Then \/ LetValue \/ LetElse \/ StmtEnd

LEMMA TaskSteps ==
    ASSUME TokensOK, Inv(s, stack, taken), Running
    PROVE  Kept /\ Frame /\ stack # <<>> /\ phase = "decls" /\ phase' = phase /\ taken' = taken
<1> DEFINE P == Frame /\ stack # <<>> /\ phase = "decls" /\ phase' = phase /\ taken' = taken
<1> HIDE DEF P
<1>1. ToDecl => Kept
  BY ToDeclStep
<1>2. ToStmtEnd => Kept
  BY ToStmtEndStep
<1>3. OrDecl => Kept
  BY OrDeclStep
<1>4. OrStmtEnd => Kept
  BY OrStmtEndStep
<1>5. EntryEnd => Kept
  BY EntryEndStep
<1>6. Path => Kept
  BY PathStep
<1>7. TypeRest => Kept
  BY TypeRestStep
<1>8. TypeArg => Kept
  BY TypeArgStep
<1>9. PatternPayload => Kept
  BY PatternPayloadStep
<1>10. Binding => Kept
  BY BindingStep
<1>11. BoundField => Kept
  BY BoundFieldStep
<1>12. Operand => Kept
  BY OperandStep
<1>13. Unary => Kept
  BY UnaryStep
<1>14. NoPathEnd => Kept
  BY NoPathEndStep
<1>15. Primary => Kept
  BY PrimaryStep
<1>16. LambdaEnd => Kept
  BY LambdaEndStep
<1>17. ZeroLambdaEnd => Kept
  BY ZeroLambdaEndStep
<1>18. GroupEnd => Kept
  BY GroupEndStep
<1>19. Postfix => Kept
  BY PostfixStep
<1>20. Args => Kept
  BY ArgsStep
<1>21. Arg => Kept
  BY ArgStep
<1>22. List => Kept
  BY ListStep
<1>23. Element => Kept
  BY ElementStep
<1>24. RecordLit => Kept
  BY RecordLitStep
<1>25. Value => Kept
  BY ValueStep
<1>26. Match => Kept
  BY MatchStep
<1>27. Arms => Kept
  BY ArmsStep
<1>28. ArmBody => Kept
  BY ArmBodyStep
<1>29. ImportRest => Kept
  BY ImportRestStep
<1>30. AliasEnd => Kept
  BY AliasEndStep
<1>31. ExternName => Kept
  BY ExternNameStep
<1>32. ImportedName => Kept
  BY ImportedNameStep
<1>33. Field => Kept
  BY FieldStep
<1>34. Variant => Kept
  BY VariantStep
<1>35. Payload => Kept
  BY PayloadStep
<1>36. PayloadType => Kept
  BY PayloadTypeStep
<1>37. Param => Kept
  BY ParamStep
<1>38. ParamEnd => Kept
  BY ParamEndStep
<1>39. ExternUses => Kept
  BY ExternUsesStep
<1>40. EffectEnd => Kept
  BY EffectEndStep
<1>41. Clause => Kept
  BY ClauseStep
<1>42. BlockEnd => Kept
  BY BlockEndStep
<1>43. Statement => Kept
  BY StatementStep
<1>44. Then => Kept
  BY ThenStep
<1>45. LetValue => Kept
  BY LetValueStep
<1>46. LetElse => Kept
  BY LetElseStep
<1>47. StmtEnd => Kept
  BY StmtEndStep
<1>48. (ToDecl => P) /\ (ToStmtEnd => P) /\ (OrDecl => P) /\ (OrStmtEnd => P) /\ (EntryEnd => P)
       /\ (Path => P) /\ (TypeRest => P) /\ (TypeArg => P) /\ (PatternPayload => P) /\ (Binding
       => P) /\ (BoundField => P) /\ (Operand => P) /\ (Unary => P) /\ (NoPathEnd => P) /\
       (Primary => P) /\ (LambdaEnd => P) /\ (ZeroLambdaEnd => P) /\ (GroupEnd => P) /\ (Postfix
       => P) /\ (Args => P) /\ (Arg => P) /\ (List => P) /\ (Element => P) /\ (RecordLit => P)
       /\ (Value => P) /\ (Match => P) /\ (Arms => P) /\ (ArmBody => P) /\ (ImportRest => P) /\
       (AliasEnd => P) /\ (ExternName => P) /\ (ImportedName => P) /\ (Field => P) /\ (Variant
       => P) /\ (Payload => P) /\ (PayloadType => P) /\ (Param => P) /\ (ParamEnd => P) /\
       (ExternUses => P) /\ (EffectEnd => P) /\ (Clause => P) /\ (BlockEnd => P) /\ (Statement
       => P) /\ (Then => P) /\ (LetValue => P) /\ (LetElse => P) /\ (StmtEnd => P)
  BY TasksFrame, Zenon DEF P
<1>49. P
  BY <1>48, Zenon DEF Running
<1>50. Kept
  BY <1>1, <1>2, <1>3, <1>4, <1>5, <1>6, <1>7, <1>8, <1>9, <1>10, <1>11, <1>12, <1>13, <1>14,
     <1>15, <1>16, <1>17, <1>18, <1>19, <1>20, <1>21, <1>22, <1>23, <1>24, <1>25, <1>26, <1>27,
     <1>28, <1>29, <1>30, <1>31, <1>32, <1>33, <1>34, <1>35, <1>36, <1>37, <1>38, <1>39, <1>40,
     <1>41, <1>42, <1>43, <1>44, <1>45, <1>46, <1>47, Zenon DEF Running
<1> QED BY <1>49, <1>50 DEF P

\* A piece of a file put in the place of another one leaves a file.
LEMMA PutLeavesFile ==
    ASSUME TokensOK, NEW p \in 0..(Len(tokens) - 1), NEW w \in Seq(Token),
           NEW q \in (p + 1)..(Len(tokens) + 1), Len(w) > 0,
           \A j \in 1..Len(w) : w[j] = "eof" <=> q = Len(tokens) + 1 /\ j = Len(w),
           NEW y, y = SubSeq(tokens, 1, p) \o w \o SubSeq(tokens, q, Len(tokens))
    PROVE  /\ y \in Seq(Token) /\ y # <<>>
           /\ \A i \in 1..Len(y) : y[i] = "eof" <=> i = Len(y)
<1> DEFINE n == Len(tokens)
           a == SubSeq(tokens, 1, p)
           c == SubSeq(tokens, q, n)
           m == Len(w)
<1>1. n \in Nat /\ n > 0 /\ tokens \in Seq(Token) /\ \A j \in 1..n : tokens[j] = "eof" <=> j = n
  BY DEF TokensOK
<1>2. /\ p \in Nat /\ q \in Nat /\ m \in Nat /\ p < n /\ p < q /\ q <= n + 1 /\ m > 0
      /\ w \in Seq(Token)
  BY <1>1
<1>3. \A j \in 1..m : w[j] = "eof" <=> q = n + 1 /\ j = m
  OBVIOUS
<1>4. y = (a \o w) \o c
  OBVIOUS
<1>5. a \in Seq(Token) /\ Len(a) = p /\ \A j \in 1..p : a[j] = tokens[j]
  <2>1. p \in 0..Len(tokens)
    BY <1>1, <1>2
  <2> QED BY <1>1, <2>1, Prefix
<1> HIDE DEF n
<1>6. c \in Seq(Token) /\ Len(c) = n - q + 1 /\ \A j \in 1..(n - q + 1) : c[j] = tokens[q + j - 1]
  <2>1. \A j \in q..n : tokens[j] \in Token
    BY <1>1, <1>2 DEF n
  <2>2. q \in Int /\ n \in Int
    BY <1>1, <1>2
  <2>3. /\ SubSeq(tokens, q, n) \in Seq(Token)
        /\ Len(SubSeq(tokens, q, n)) = IF q <= n THEN n - q + 1 ELSE 0
        /\ \A j \in 1..(n - q + 1) : SubSeq(tokens, q, n)[j] = tokens[q + j - 1]
    BY <2>1, <2>2, SubSeqProperties
  <2>4. (IF q <= n THEN n - q + 1 ELSE 0) = n - q + 1
    BY <1>1, <1>2
  <2> QED BY <2>3, <2>4
<1> HIDE DEF a, c
<1> DEFINE x == a \o w
<1>7. /\ x \in Seq(Token) /\ Len(x) = p + m
      /\ \A j \in 1..p : x[j] = tokens[j]
      /\ \A j \in 1..m : x[p + j] = w[j]
  <2>1. a \in Seq(Token) /\ w \in Seq(Token)
    BY <1>2, <1>5
  <2>2. /\ x \in Seq(Token) /\ Len(x) = Len(a) + Len(w)
        /\ \A j \in 1..Len(a) : x[j] = a[j]
        /\ \A j \in 1..Len(w) : x[Len(a) + j] = w[j]
    BY <2>1, ConcatProperties
  <2> QED BY <1>5, <2>2
<1> HIDE DEF x, m
<1>8. /\ y \in Seq(Token) /\ Len(y) = p + m + (n - q + 1)
      /\ \A j \in 1..(p + m) : y[j] = x[j]
      /\ \A j \in 1..(n - q + 1) : y[p + m + j] = tokens[q + j - 1]
  <2>1. y = x \o c /\ x \in Seq(Token) /\ c \in Seq(Token)
    BY <1>4, <1>6, <1>7 DEF x
  <2>2. /\ x \o c \in Seq(Token) /\ Len(x \o c) = Len(x) + Len(c)
        /\ \A j \in 1..Len(x) : (x \o c)[j] = x[j]
        /\ \A j \in 1..Len(c) : (x \o c)[Len(x) + j] = c[j]
    BY <2>1, ConcatProperties
  <2> QED BY <1>6, <1>7, <2>1, <2>2
<1>9. \A j \in 1..p : y[j] = tokens[j]
  <2>1. \A j \in 1..p : j \in 1..(p + m)
    BY <1>2
  <2> QED BY <1>7, <1>8, <2>1
<1>10. \A j \in 1..m : y[p + j] = w[j]
  <2>1. \A j \in 1..m : p + j \in 1..(p + m)
    BY <1>2
  <2> QED BY <1>7, <1>8, <2>1
<1>11. ASSUME NEW i \in 1..(p + m + (n - q + 1)) PROVE y[i] = "eof" <=> i = p + m + (n - q + 1)
  <2>1. n \in Nat /\ p \in Nat /\ q \in Nat /\ m \in Nat /\ p < n /\ p < q /\ q <= n + 1 /\ m > 0
    BY <1>1, <1>2
  <2>2. \A j \in 1..n : tokens[j] = "eof" <=> j = n
    BY <1>1
  <2>3. \A j \in 1..(n - q + 1) : y[p + m + j] = tokens[q + j - 1]
    BY <1>8
  <2>4. i \in 1..(p + m + (n - q + 1))
    OBVIOUS
  <2>5. CASE i <= p
    <3>1. i \in 1..p /\ i \in 1..n /\ i # n /\ i # p + m + (n - q + 1)
      BY <2>1, <2>4, <2>5
    <3> QED BY <1>9, <2>2, <3>1, Zenon
  <2>6. CASE i > p /\ i <= p + m
    <3> DEFINE j == i - p
    <3>1. j \in 1..m /\ i = p + j /\ (q = n + 1 /\ j = m <=> i = p + m + (n - q + 1))
      BY <2>1, <2>4, <2>6
    <3> HIDE DEF j
    <3> QED BY <1>3, <1>10, <3>1, Zenon
  <2>7. CASE i > p + m
    <3> DEFINE j == i - (p + m)
               k == q + j - 1
    <3>1. /\ j \in 1..(n - q + 1) /\ i = p + m + j
          /\ k \in 1..n /\ (k = n <=> i = p + m + (n - q + 1))
      BY <2>1, <2>4, <2>7
    <3>2. y[p + m + j] = tokens[q + j - 1]
      BY <2>3, <3>1, Zenon
    <3>3. y[i] = tokens[k]
      BY <3>1, <3>2
    <3> HIDE DEF k, j
    <3> QED BY <2>2, <3>1, <3>3, Zenon
  <2>8. i <= p \/ (i > p /\ i <= p + m) \/ i > p + m
    BY <2>1, <2>4
  <2> QED BY <2>5, <2>6, <2>7, <2>8
<1>12. p + m + (n - q + 1) > 0
  BY <1>1, <1>2
<1>13. y # <<>>
  <2>1. Len(y) > 0
    BY <1>8, <1>12
  <2> QED BY <2>1
<1> QED BY <1>8, <1>11, <1>13

\* The lexer makes tokens of tokens, and finds the end of the file where it was.
LEMMA WrittenTokens ==
    ASSUME NEW k \in Token, k # "eof", NEW l \in Token, NEW w \in Written(k, l)
    PROVE  /\ w \in Seq(Token) /\ Len(w) > 0
           /\ \A j \in 1..Len(w) : w[j] = "eof" <=> l = "eof" /\ j = Len(w)
<1>1. /\ {"id", "->", "=>", "+", ">", "="} \subseteq Token
      /\ "eof" \notin Word \cup {"int"}
  BY DEF Token, Word, Keyword, Identifier, DeclStart, Reserved, BinOp
<1>2. \/ w = <<k, l>>
      \/ l # "eof" /\ w \in {<<"id">>, <<"->">>, <<"=>">>, <<"+">>, <<"+", ">">>, <<"+", "=">>}
  <2>1. CASE k \in Word /\ l \in Word \cup {"int"}
    BY <1>1, <2>1 DEF Written
  <2>2. CASE ~(k \in Word /\ l \in Word \cup {"int"})
    <3>1. CASE l \in {"=", "=>", "+", ">"}
      BY <2>2, <3>1 DEF Written
    <3>2. CASE l \notin {"=", "=>", "+", ">"}
      BY <2>2, <3>2 DEF Written
    <3> QED BY <3>1, <3>2
  <2> QED BY <2>1, <2>2
<1>3. CASE w = <<k, l>>
  <2>1. w \in Seq(Token) /\ Len(w) = 2 /\ w[1] = k /\ w[2] = l
    BY <1>3
  <2>2. \A j \in 1..2 : w[j] = "eof" <=> l = "eof" /\ j = 2
    <3>1. \A j \in 1..2 : j = 1 \/ j = 2
      OBVIOUS
    <3> QED BY <2>1, <3>1
  <2> QED BY <2>1, <2>2
<1>4. CASE l # "eof" /\ w \in {<<"id">>, <<"->">>, <<"=>">>, <<"+">>, <<"+", ">">>, <<"+", "=">>}
  <2>1. CASE w \in {<<"id">>, <<"->">>, <<"=>">>, <<"+">>}
    <3>1. PICK a \in Token : a # "eof" /\ w = <<a>>
      BY <1>1, <2>1
    <3> QED BY <1>4, <3>1
  <2>2. CASE w \in {<<"+", ">">>, <<"+", "=">>}
    <3>1. PICK a \in Token, b \in Token : a # "eof" /\ b # "eof" /\ w = <<a, b>>
      BY <1>1, <2>2
    <3>2. w \in Seq(Token) /\ Len(w) = 2 /\ w[1] = a /\ w[2] = b
      BY <3>1
    <3>3. \A j \in 1..2 : w[j] # "eof"
      <4>1. \A j \in 1..2 : j = 1 \/ j = 2
        OBVIOUS
      <4> QED BY <3>1, <3>2, <4>1
    <3> QED BY <1>4, <3>2, <3>3
  <2> QED BY <1>4, <2>1, <2>2
<1> QED BY <1>2, <1>3, <1>4

\* The file a fix leaves is one the lexer could have yielded.
LEMMA FixLeavesFile ==
    ASSUME TokensOK, CursorInv(s), ApplyFix
    PROVE  TokensOK' /\ fixed' \subseteq Error
<1>1. PICK e \in s.errs : e.ins # "none" /\ fixed' = {e} /\ tokens' \in Edited(e)
  BY DEF ApplyFix
<1>2. e \in Error /\ Sound(e)
  BY <1>1, CursorType
<1> DEFINE i == e.ins
           m == e.at
           n == Len(tokens)
           l == tokens[m - 1]
           r == tokens[m]
           Put(p, w, q) == SubSeq(tokens, 1, p) \o w \o SubSeq(tokens, q, Len(tokens))
           File(y) == y \in Seq(Token) /\ y # <<>> /\ \A j \in 1..Len(y) : y[j] = "eof" <=> j = Len(y)
<1>3. n \in Nat /\ n > 0 /\ tokens \in Seq(Token) /\ \A j \in 1..n : tokens[j] = "eof" <=> j = n
  BY DEF TokensOK
<1>4. m \in 1..n /\ e.del \in {0, 1} /\ (e.del = 1 => m < n) /\ i # "eof" /\ i \in Token
  <2>1. i \in Insertion /\ e.del \in {0, 1}
    BY <1>2 DEF Error
  <2> QED BY <1>1, <1>2, <2>1 DEF Sound, Insertion
<1>5. r \in Token /\ (r = "eof" <=> m = n)
  BY <1>3, <1>4
<1>6. File(tokens')
  <2>1. \/ e.del = 1 /\ tokens' = Put(m - 1, <<i>>, m + 1)
        \/ \E w \in Written(i, r) : tokens' = Put(m - 1, w, m + 1)
        \/ m > 1 /\ \E w \in Written(l, i) : tokens' = Put(m - 2, w, m)
        \/ tokens' = tokens
    BY <1>1, <1>4 DEF Edited
  <2>2. CASE e.del = 1 /\ tokens' = Put(m - 1, <<i>>, m + 1)
    <3> DEFINE p == m - 1
               q == m + 1
               w == <<i>>
    <3>1. /\ p \in 0..(Len(tokens) - 1) /\ q \in (p + 1)..(Len(tokens) + 1)
          /\ q # Len(tokens) + 1
      BY <1>3, <1>4, <2>2
    <3>2. w \in Seq(Token) /\ Len(w) > 0 /\ \A j \in 1..Len(w) : w[j] # "eof"
      BY <1>4
    <3>3. tokens' = SubSeq(tokens, 1, p) \o w \o SubSeq(tokens, q, Len(tokens))
      BY <2>2
    <3> HIDE DEF p, q, w
    <3> QED BY <3>1, <3>2, <3>3, PutLeavesFile
  <2>3. CASE \E w \in Written(i, r) : tokens' = Put(m - 1, w, m + 1)
    <3>1. PICK w \in Written(i, r) : tokens' = Put(m - 1, w, m + 1)
      BY <2>3
    <3> DEFINE p == m - 1
               q == m + 1
    <3>2. /\ p \in 0..(Len(tokens) - 1) /\ q \in (p + 1)..(Len(tokens) + 1)
          /\ q = Len(tokens) + 1 <=> r = "eof"
      BY <1>3, <1>4, <1>5
    <3>3. /\ w \in Seq(Token) /\ Len(w) > 0
          /\ \A j \in 1..Len(w) : w[j] = "eof" <=> r = "eof" /\ j = Len(w)
      <4>1. i \in Token /\ i # "eof" /\ r \in Token /\ w \in Written(i, r)
        BY <1>4, <1>5, <3>1
      <4> HIDE DEF i, r
      <4> QED BY <4>1, WrittenTokens
    <3>4. tokens' = SubSeq(tokens, 1, p) \o w \o SubSeq(tokens, q, Len(tokens))
      BY <3>1
    <3> HIDE DEF p, q, r
    <3> QED BY <3>2, <3>3, <3>4, PutLeavesFile
  <2>4. CASE m > 1 /\ \E w \in Written(l, i) : tokens' = Put(m - 2, w, m)
    <3>1. PICK w \in Written(l, i) : tokens' = Put(m - 2, w, m)
      BY <2>4
    <3> DEFINE p == m - 2
    <3>2. /\ p \in 0..(Len(tokens) - 1) /\ m \in (p + 1)..(Len(tokens) + 1)
          /\ m # Len(tokens) + 1 /\ l \in Token /\ l # "eof"
      BY <1>3, <1>4, <2>4
    <3>3. /\ w \in Seq(Token) /\ Len(w) > 0
          /\ \A j \in 1..Len(w) : w[j] # "eof"
      BY <1>4, <3>1, <3>2, WrittenTokens
    <3>4. tokens' = SubSeq(tokens, 1, p) \o w \o SubSeq(tokens, m, Len(tokens))
      BY <3>1
    <3> HIDE DEF p, m, l
    <3> QED BY <3>2, <3>3, <3>4, PutLeavesFile
  <2>5. CASE tokens' = tokens
    BY <1>3, <2>5
  <2> QED BY <2>1, <2>2, <2>3, <2>4, <2>5
<1>7. TokensOK'
  BY <1>6 DEF TokensOK
<1> QED BY <1>1, <1>2, <1>7

-----------------------------------------------------------------------------
(* The whole machine.                                                      *)

\* A file is read from its beginning.
LEMMA Starting == Init => IInv
<1> SUFFICES ASSUME Init PROVE IInv
  OBVIOUS
<1>1. /\ tokens \in Seq(Token) /\ tokens # <<>>
      /\ \A i \in 1..Len(tokens) : tokens[i] = "eof" <=> i = Len(tokens)
  BY ProgramsAssumption DEF Init
<1> QED BY <1>1 DEF IInv, Init, TokensOK

LEMMA TakingInFile ==
    ASSUME TokensOK, Inv(s, stack, taken), taken \subseteq 1..Len(tokens), Declaration
    PROVE  taken' \subseteq 1..Len(tokens)
<1>1. taken' = taken \/ taken' = taken \cup {Here.pos}
  BY DEF Declaration
<1>2. Here.pos \in 1..Len(tokens)
  <2>1. CursorInv(s)
    BY DEF Inv
  <2>2. CursorInv(Here)
    BY <2>1, NewlinesAre DEF Here
  <2> QED BY <2>2, CursorType
<1> QED BY <1>1, <1>2

LEMMA DeclarationFrame ==
    /\ Declaration => Frame /\ phase = "decls" /\ phase' = phase
    /\ ModuleDecl => Frame /\ phase = "start" /\ phase' = "decls" /\ taken' = taken
    /\ EndOfFile => Frame /\ phase = "decls" /\ phase' = "done" /\ taken' = taken
<1>1. \A t, more : Becomes(t, more) => Frame
  BY Framed
<1>2. Declaration => Frame
  BY <1>1, Zenon DEF Declaration, TypeAlias, Header, Extern
<1>3. ModuleDecl => Frame
  BY <1>1, Zenon DEF ModuleDecl
<1>4. EndOfFile => Frame
  BY <1>1, Zenon DEF EndOfFile
<1>5. Declaration => phase = "decls" /\ phase' = phase
  BY Zenon DEF Declaration
<1>6. ModuleDecl => phase = "start" /\ phase' = "decls" /\ taken' = taken
  BY Zenon DEF ModuleDecl
<1>7. EndOfFile => phase = "decls" /\ phase' = "done" /\ taken' = taken
  BY Zenon DEF EndOfFile
<1> QED BY <1>2, <1>3, <1>4, <1>5, <1>6, <1>7, Zenon

\* The invariant holds behind every step.
LEMMA Stepping == IInv /\ [Next]_vars => IInv'
<1> SUFFICES ASSUME IInv, [Next]_vars PROVE IInv'
  OBVIOUS
<1>1. /\ TokensOK /\ taken \subseteq 1..Len(tokens) /\ fixed \subseteq Error
      /\ phase \in {"start", "decls", "done"}
      /\ phase = "start" => s = Begin /\ stack = <<>> /\ taken = {}
      /\ phase # "start" => Inv(s, stack, taken)
      /\ phase = "done" => stack = <<>> /\ s.pos = Len(tokens)
  BY DEF IInv
<1>2. ASSUME Frame, Kept, taken' \subseteq 1..Len(tokens), phase' \in {"decls", "done"},
             phase' = "done" => stack' = <<>> /\ s'.pos = Len(tokens)
      PROVE  IInv'
  <2>1. tokens' = tokens /\ fixed' = fixed
    BY <1>2 DEF Frame
  <2>2. Inv(s, stack, taken)'
    BY <1>2, <2>1, TokensStay
  <2>3. TokensOK'
    BY <1>1, <2>1 DEF TokensOK
  <2>4. Error' = Error
    BY DEF Error
  <2> QED BY <1>1, <1>2, <2>1, <2>2, <2>3, <2>4 DEF IInv
<1>3. CASE ModuleDecl
  <2>1. Frame /\ phase = "start" /\ phase' = "decls" /\ taken' = taken
    BY <1>3, DeclarationFrame
  <2>2. Kept
    BY <1>1, <1>3, <2>1, ModuleDeclStep
  <2> QED BY <1>1, <1>2, <2>1, <2>2
<1>4. CASE Declaration
  <2>1. Frame /\ phase = "decls" /\ phase' = phase
    BY <1>4, DeclarationFrame
  <2>2. Kept /\ taken' \subseteq 1..Len(tokens)
    BY <1>1, <1>4, <2>1, DeclarationStep, TakingInFile
  <2> QED BY <1>1, <1>2, <2>1, <2>2
<1>5. CASE EndOfFile
  <2>1. Frame /\ phase = "decls" /\ phase' = "done" /\ taken' = taken
    BY <1>5, DeclarationFrame
  <2>2. Kept /\ stack' = <<>> /\ s'.pos = Len(tokens)
    BY <1>1, <1>5, <2>1, EndOfFileStep
  <2> QED BY <1>1, <1>2, <2>1, <2>2
<1>6. CASE Running
  <2>1. phase = "decls"
    BY <1>6, TasksFrame, Zenon DEF Running
  <2>2. Kept /\ Frame /\ phase' = phase /\ taken' = taken
    BY <1>1, <1>6, <2>1, TaskSteps
  <2> QED BY <1>1, <1>2, <2>1, <2>2
<1>7. CASE ApplyFix
  <2>1. /\ s' = Begin /\ stack' = <<>> /\ taken' = {} /\ phase' = "start" /\ phase = "done"
    BY <1>7 DEF ApplyFix
  <2>2. CursorInv(s)
    BY <1>1, <2>1 DEF Inv
  <2>3. TokensOK' /\ fixed' \subseteq Error
    BY <1>1, <1>7, <2>2, FixLeavesFile
  <2>4. Error' = Error /\ Begin' = Begin
    BY DEF Error, Begin
  <2> QED BY <2>1, <2>3, <2>4 DEF IInv
<1>8. CASE UNCHANGED vars
  <2>1. /\ tokens' = tokens /\ s' = s /\ stack' = stack /\ taken' = taken /\ phase' = phase /\ fixed' = fixed
    BY <1>8 DEF vars
  <2>2. CASE phase # "start"
    <3>1. Kept
      BY <1>1, <2>1, <2>2 DEF Kept
    <3>2. phase' \in {"decls", "done"}
      BY <1>1, <2>1, <2>2
    <3> QED BY <1>1, <1>2, <2>1, <3>1, <3>2 DEF Frame
  <2>3. CASE phase = "start"
    <3>1. TokensOK'
      BY <1>1, <2>1 DEF TokensOK
    <3>2. Error' = Error /\ Begin' = Begin
      BY DEF Error, Begin
    <3> QED BY <1>1, <2>1, <2>3, <3>1, <3>2 DEF IInv
  <2> QED BY <2>2, <2>3
<1>9. Next => ModuleDecl \/ Declaration \/ EndOfFile \/ Running \/ ApplyFix \/ UNCHANGED vars
  BY Zenon DEF Next, Parse, Running, Stop
<1> QED BY <1>3, <1>4, <1>5, <1>6, <1>7, <1>8, <1>9

\* What the tasks under way know of the brackets holds in every state.
THEOREM Invariance == Spec => []IInv
<1>1. Init => IInv
  BY Starting
<1>2. IInv /\ [Next]_vars => IInv'
  BY Stepping
<1> QED BY <1>1, <1>2, PTL DEF Spec

LEMMA TypesOf == IInv => TypeOK
<1> SUFFICES ASSUME IInv PROVE TypeOK
  OBVIOUS
<1>1. /\ TokensOK /\ taken \subseteq 1..Len(tokens) /\ fixed \subseteq Error
      /\ phase \in {"start", "decls", "done"}
  BY DEF IInv
<1>2. Inv(s, stack, taken)
  BY <1>1, BeginInv DEF IInv
<1>3. CursorInv(s) /\ StackInv(stack, s.pos)
  BY <1>2 DEF Inv
<1>4. s.pos \in 1..Len(tokens) /\ s.lost \in SUBSET (1..Len(tokens)) /\ s.errs \in SUBSET {e \in Error : Sound(e)}
  BY <1>1, <1>3, CursorType
<1>5. \A e \in s.errs : e \in Error /\ e.pos \in 1..Len(tokens) /\ e.at \in 1..Len(tokens)
  BY <1>4 DEF Sound
<1>6. \A i \in DOMAIN stack : stack[i].open \in 0..Len(tokens)
  <2>1. stack \in Seq(TaskSet)
    BY <1>3 DEF StackInv
  <2>2. \A i \in DOMAIN stack : stack[i] \in TaskSet
    BY <2>1
  <2> QED BY <1>1, <2>2, TaskNumbers
<1>7. s.errs \subseteq Error
  BY <1>5
<1> QED BY <1>1, <1>4, <1>5, <1>6, <1>7 DEF TypeOK

\* Whatever a file contains, the cursor stays in it, and every error is at a token of
\* it and proposes an edit within it.
THEOREM Types == Spec => []TypeOK
  BY Invariance, TypesOf, PTL

LEMMA TakenOf == IInv => DeclarationsTaken
<1> SUFFICES ASSUME IInv, phase = "done", NEW p \in 2..Len(tokens), Declares(p)
             PROVE  p \in taken \/ \E q \in s.lost : q < p
  BY DEF DeclarationsTaken
<1>1. TokensOK /\ s.pos = Len(tokens) /\ Inv(s, stack, taken)
  BY DEF IInv
<1>2. Len(tokens) \in Nat /\ p # Len(tokens)
  <2>1. Len(tokens) \in Nat /\ p \in 1..Len(tokens)
    BY <1>1 DEF TokensOK
  <2>2. tokens[p] # "eof"
    BY DEF Declares, DeclStart
  <2> QED BY <1>1, <2>1, <2>2 DEF TokensOK
<1>3. p \in 2..(s.pos - 1)
  BY <1>1, <1>2
<1> QED BY <1>1, <1>3 DEF Inv, TakenInv

\* However broken a file is, a declaration that begins a line outside of brackets is
\* read as one, whatever stands before it, but behind a token passed unread.
THEOREM DeclarationsAreTaken == Spec => []DeclarationsTaken
  BY Invariance, TakenOf, PTL

LEMMA BalancedOf == IInv => BalancedWhenClean
<1> SUFFICES ASSUME IInv, phase = "done", s.errs = {}
             PROVE  Open[Len(tokens)] = <<>>
  BY DEF BalancedWhenClean
<1>1. TokensOK /\ s.pos = Len(tokens) /\ stack = <<>> /\ Inv(s, stack, taken)
  BY DEF IInv
<1>2. Opens(<<>>) = {}
  <2>1. \A i \in 1..Len(<<>>) : FALSE
    OBVIOUS
  <2> QED BY <2>1 DEF Opens
<1>3. Fit({}, Len(tokens))
  BY <1>1, <1>2 DEF Inv, BracketInv
<1>4. Len(tokens) \in 1..Len(tokens) /\ tokens[Len(tokens)] = "eof"
  <2>1. Len(tokens) \in 1..Len(tokens)
    BY <1>1 DEF TokensOK
  <2> QED BY <1>1, <2>1 DEF TokensOK
<1>5. "eof" \notin Bracket
  BY DEF Bracket, Opening, Closing
<1>6. /\ Open[Len(tokens)] = Open[Len(tokens) - 1]
      /\ Open[Len(tokens) - 1] \in Seq(Level) /\ L(Len(tokens) - 1) \in Nat
  BY <1>1, <1>4, <1>5, OpenStep
<1>7. L(Len(tokens) - 1) = 0
  BY <1>3, <1>6 DEF Fit
<1>8. Open[Len(tokens) - 1] = <<>>
  BY <1>6, <1>7 DEF L
<1> QED BY <1>6, <1>8

\* In a file that is read without an error every bracket is closed, in order.
THEOREM CleanIsBalanced == Spec => []BalancedWhenClean
  BY Invariance, BalancedOf, PTL
=============================================================================
