----------------------------- MODULE FmtProofs -----------------------------
(***************************************************************************)
(* Theorems about Fmt, for every file: whatever its lines are and whatever *)
(* the comments, formatting loses and garbles nothing, and comments stay   *)
(* with what they are about.                                               *)
(*                                                                         *)
(* The tasks that are left are one behind the other in the order of        *)
(* printing, so all that has begun or ended is in the places below the     *)
(* first of them.  `Good` says what is true of the output so far, at such  *)
(* a place, and `Need` what the next task must find of the line it is at.  *)
(***************************************************************************)
EXTENDS Fmt, SequenceTheorems, WellFoundedInduction, TLAPS

T == doc.tree

Formatter == [line : Nat, fresh : BOOLEAN, ended : BOOLEAN, garbled : BOOLEAN,
              from : [Nodes(T) -> Nat], to : [Nodes(T) -> Nat], placed : Seq(Nat),
              sep : BOOLEAN, top : Nat]

DocOK == IsLaid(doc) /\ IsComments(doc.comments)

\* All comments that are left are on the line or below it.
Pending(g, line) == \A i \in (Len(g.placed) + 1)..Len(doc.comments) : doc.comments[i] >= line

\* Comments stand on lines of their own or end one, and nothing is behind them.
Sound(g) == /\ ~g.garbled
            /\ g.fresh => ~g.ended
            /\ \A i, j \in 1..Len(g.placed) : i < j => g.placed[i] < g.placed[j]
            /\ \A i \in 1..Len(g.placed) : /\ g.placed[i] <= g.line
                                           /\ ~g.ended => g.placed[i] < g.line

\* What has begun before the place p did so on the line of the output or above.
BegunAbove(g, p) == \A x \in Nodes(T) : T.first[x] < p => g.from[x] <= g.line

\* What ends with the `}` of its last block does so in the output as well.
EndTogether(g, p) == \A s \in Of(T, {"if", "func"}) : T.last[s] < p => g.to[s] = g.to[LastPart(T, s)]

\* The comments printed are not below what comes next, nor beside it if it is alone.
NotPast(g, p) == \A i \in 1..Len(g.placed) : \A x \in Nodes(T) :
    /\ T.first[x] >= p => /\ doc.comments[i] <= doc.from[x]
                          /\ Alone(doc, x) => doc.comments[i] < doc.from[x]
    /\ T.last[x] >= p => /\ doc.comments[i] <= doc.to[x]
                         /\ Alone(doc, x) => doc.comments[i] < doc.to[x]

\* A comment below the line a node begins on is not above it in the output.
NotAbove(g, p) == \A x \in Nodes(T) : T.first[x] < p =>
    \A i \in 1..Len(g.placed) : doc.comments[i] > doc.from[x] => g.placed[i] >= g.from[x]

\* One above the line a block ends on was printed before that end.
NotBelow(g, p) == \A b \in Blocks(T) : T.last[b] < p =>
    \A i \in 1..Len(doc.comments) :
        doc.comments[i] < doc.to[b] => i <= Len(g.placed) /\ g.placed[i] < g.to[b]

\* One behind a node alone on its line is behind it in the output.
Beside(g, p, S) == \A n \in Nodes(T) \ S : (T.last[n] < p /\ Alone(doc, n)) =>
    \A i \in 1..Len(doc.comments) :
        doc.comments[i] = doc.to[n] => i <= Len(g.placed) /\ g.placed[i] = g.to[n]

Stays(g, p, S) == NotPast(g, p) /\ NotAbove(g, p) /\ NotBelow(g, p) /\ Beside(g, p, S)

\* The output when all before the place p is printed, save comments behind nodes of S.
GoodBut(g, p, S) ==
    /\ g \in Formatter /\ Len(g.placed) <= Len(doc.comments)
    /\ p \in Nat
    /\ Sound(g) /\ BegunAbove(g, p) /\ EndTogether(g, p)
    /\ InOrder(doc) => Stays(g, p, S)

Good(g, p) == GoodBut(g, p, {})
-----------------------------------------------------------------------------
\* A set of numbers that is not empty has a least one.
LEMMA NatLeast ==
    ASSUME NEW S \in SUBSET Nat, S # {}
    PROVE  \E m \in S : \A k \in S : m <= k
<1> DEFINE R == { ss \in Nat \X Nat : ss[1] < ss[2] }
<1>1. IsWellFoundedOn(R, Nat)
  BY NatLessThanWellFounded DEF OpToRel
<1> HIDE DEF R
<1>2. PICK x \in S : \A y \in S : ~(<<y, x>> \in R)
  BY <1>1, WFMin
<1>3. \A y \in S : ~(y < x)
  BY <1>2 DEF R
<1> QED BY <1>3

(* Trees.                                                                  *)
LEMMA TreeType ==
    ASSUME DocOK
    PROVE  /\ T.size \in Nat
           /\ \A x \in Nodes(T) : /\ T.first[x] \in 1..T.size /\ T.last[x] \in 1..T.size
                                  /\ T.first[x] < T.last[x]
           /\ \A x, y \in Nodes(T) : /\ T.first[x] # T.last[y]
                                     /\ x # y => T.first[x] # T.first[y] /\ T.last[x] # T.last[y]
           /\ \A x \in Nodes(T) : doc.from[x] \in Nat /\ doc.to[x] \in Nat
           /\ doc.comments \in Seq(Nat)
           /\ \A i, j \in 1..Len(doc.comments) : i < j => doc.comments[i] < doc.comments[j]
           /\ \A x \in Nodes(T) : IsNode(T, x)
<1>1. IsTree(T) /\ {doc.from, doc.to} \subseteq [Nodes(T) -> Nat]
  BY DEF DocOK, IsLaid, T
<1>2. doc.from \in [Nodes(T) -> Nat] /\ doc.to \in [Nodes(T) -> Nat]
  BY <1>1
<1>3. \A x \in Nodes(T) : doc.from[x] \in Nat /\ doc.to[x] \in Nat
  BY <1>2
<1>4. \A x \in Nodes(T) : /\ {T.first[x], T.last[x]} \subseteq 1..T.size
                          /\ T.first[x] < T.last[x] /\ IsNode(T, x)
  BY <1>1 DEF IsTree
<1>5. \A x \in Nodes(T) : /\ T.first[x] \in 1..T.size /\ T.last[x] \in 1..T.size
                          /\ T.first[x] < T.last[x]
  BY <1>4
<1>6. T.size \in Nat /\ \A x, y \in Nodes(T) : /\ T.first[x] # T.last[y]
                                               /\ x # y => T.first[x] # T.first[y] /\ T.last[x] # T.last[y]
  BY <1>1 DEF IsTree
<1>7. /\ doc.comments \in Seq(Nat)
      /\ \A i, j \in 1..Len(doc.comments) : i < j => doc.comments[i] < doc.comments[j]
  BY DEF DocOK, IsComments
<1> QED BY <1>3, <1>4, <1>5, <1>6, <1>7

LEMMA OnlyOne ==
    ASSUME NEW S, NEW s \in Seq(S), s # <<>>, Len(s) <= 1
    PROVE  Len(s) = 1 /\ s[1] \in S
<1>1. Len(s) \in Nat /\ Len(s) # 0
  BY EmptySeq, LenProperties
<1>2. Len(s) = 1
  BY <1>1
<1> QED BY <1>2, ElementOfSeq

LEMMA Kinds ==
    ASSUME DocOK, NEW x \in Nodes(T)
    PROVE  /\ x \in Of(T, Line) => T.last[x] = T.first[x] + 1
           /\ x \in Of(T, {"list"}) => /\ T.node[x].parts \in Seq(Of(T, {"text"}))
                                       /\ Fill(T, T.node[x].parts, T.first[x] + 1, T.last[x])
           /\ x \in Of(T, {"block"}) => /\ T.node[x].stmts \in Seq(Of(T, {"text", "if"}))
                                        /\ Fill(T, T.node[x].stmts, T.first[x] + 1, T.last[x])
           /\ x \in Of(T, {"if"}) => /\ T.node[x].then \in Of(T, {"block"})
                                     /\ T.node[x].else \in Seq(Of(T, {"block", "if"}))
                                     /\ Len(T.node[x].else) <= 1
                                     /\ T.first[T.node[x].then] = T.first[x] + 1
                                     /\ Fill(T, T.node[x].else, T.last[T.node[x].then] + 1, T.last[x])
           /\ x \in Of(T, {"func"}) =>
                 /\ T.node[x].sig \in Of(T, {"sig"})
                 /\ T.node[x].body \in Of(T, {"block"})
                 /\ {T.node[x].uses, T.node[x].requires, T.node[x].ensures} \subseteq Seq(Of(T, {"text"}))
                 /\ T.first[T.node[x].sig] = T.first[x] + 1
                 /\ Fill(T, Clauses(T.node[x]), T.last[T.node[x].sig] + 1, T.first[T.node[x].body])
                 /\ T.last[x] = T.last[T.node[x].body] + 1
<1>1. IsNode(T, x)
  BY TreeType
<1>2. x \in Of(T, Line) => T.last[x] = T.first[x] + 1
  BY <1>1 DEF IsNode, Of, Line
<1>3. x \in Of(T, {"list"}) => /\ T.node[x].parts \in Seq(Of(T, {"text"}))
                               /\ Fill(T, T.node[x].parts, T.first[x] + 1, T.last[x])
  <2>1. ASSUME T.node[x].k = "list"
        PROVE  /\ T.node[x].parts \in Seq(Of(T, {"text"}))
               /\ Fill(T, T.node[x].parts, T.first[x] + 1, T.last[x])
    BY <1>1, <2>1 DEF IsNode, Line
  <2> QED BY <2>1 DEF Of
<1>4. x \in Of(T, {"block"}) => /\ T.node[x].stmts \in Seq(Of(T, {"text", "if"}))
                                /\ Fill(T, T.node[x].stmts, T.first[x] + 1, T.last[x])
  <2>1. ASSUME T.node[x].k = "block"
        PROVE  /\ T.node[x].stmts \in Seq(Of(T, {"text", "if"}))
               /\ Fill(T, T.node[x].stmts, T.first[x] + 1, T.last[x])
    BY <1>1, <2>1 DEF IsNode, Line
  <2> QED BY <2>1 DEF Of
<1>5. x \in Of(T, {"if"}) => /\ T.node[x].then \in Of(T, {"block"})
                             /\ T.node[x].else \in Seq(Of(T, {"block", "if"}))
                             /\ Len(T.node[x].else) <= 1
                             /\ T.first[T.node[x].then] = T.first[x] + 1
                             /\ Fill(T, T.node[x].else, T.last[T.node[x].then] + 1, T.last[x])
  <2>1. ASSUME T.node[x].k = "if"
        PROVE  /\ T.node[x].then \in Of(T, {"block"})
               /\ T.node[x].else \in Seq(Of(T, {"block", "if"}))
               /\ Len(T.node[x].else) <= 1
               /\ T.first[T.node[x].then] = T.first[x] + 1
               /\ Fill(T, T.node[x].else, T.last[T.node[x].then] + 1, T.last[x])
    BY <1>1, <2>1 DEF IsNode, Line
  <2> QED BY <2>1 DEF Of
<1>6. x \in Of(T, {"func"}) =>
         /\ T.node[x].sig \in Of(T, {"sig"})
         /\ T.node[x].body \in Of(T, {"block"})
         /\ {T.node[x].uses, T.node[x].requires, T.node[x].ensures} \subseteq Seq(Of(T, {"text"}))
         /\ T.first[T.node[x].sig] = T.first[x] + 1
         /\ Fill(T, Clauses(T.node[x]), T.last[T.node[x].sig] + 1, T.first[T.node[x].body])
         /\ T.last[x] = T.last[T.node[x].body] + 1
  <2>1. ASSUME T.node[x].k = "func"
        PROVE  /\ T.node[x].sig \in Of(T, {"sig"})
               /\ T.node[x].body \in Of(T, {"block"})
               /\ {T.node[x].uses, T.node[x].requires, T.node[x].ensures} \subseteq Seq(Of(T, {"text"}))
               /\ T.first[T.node[x].sig] = T.first[x] + 1
               /\ Fill(T, Clauses(T.node[x]), T.last[T.node[x].sig] + 1, T.first[T.node[x].body])
               /\ T.last[x] = T.last[T.node[x].body] + 1
    BY <1>1, <2>1 DEF IsNode, Line
  <2> QED BY <2>1 DEF Of
<1> QED BY <1>2, <1>3, <1>4, <1>5, <1>6

\* What a function or an `if` ends with is in the place before its end.
LEMMA LastPartEnds ==
    ASSUME DocOK, NEW s \in Of(T, {"if", "func"})
    PROVE  /\ s \in Nodes(T) /\ LastPart(T, s) \in Nodes(T)
           /\ T.last[s] = T.last[LastPart(T, s)] + 1
           /\ doc.to[s] = doc.to[LastPart(T, s)]
<1>1. s \in Nodes(T) /\ T.node[s].k \in {"if", "func"}
  BY DEF Of
<1>2. doc.to[s] = doc.to[LastPart(T, s)]
  BY DEF DocOK, IsLaid, T
<1>3. CASE T.node[s].k = "func"
  <2>1. s \in Of(T, {"func"})
    BY <1>1, <1>3 DEF Of
  <2>2. LastPart(T, s) = T.node[s].body
    BY <1>3 DEF LastPart
  <2>3. T.node[s].body \in Of(T, {"block"}) /\ T.last[s] = T.last[T.node[s].body] + 1
    BY <1>1, <2>1, Kinds
  <2> QED BY <1>1, <1>2, <2>2, <2>3 DEF Of
<1>4. CASE T.node[s].k = "if"
  <2> DEFINE n == T.node[s]
  <2>1. s \in Of(T, {"if"})
    BY <1>1, <1>4 DEF Of
  <2>2. LastPart(T, s) = IF n.else = <<>> THEN n.then ELSE n.else[1]
    BY <1>4 DEF LastPart
  <2>3. /\ n.then \in Of(T, {"block"}) /\ n.else \in Seq(Of(T, {"block", "if"})) /\ Len(n.else) <= 1
        /\ Fill(T, n.else, T.last[n.then] + 1, T.last[s])
    BY <1>1, <2>1, Kinds
  <2>4. CASE n.else = <<>>
    BY <1>1, <1>2, <2>2, <2>3, <2>4 DEF Fill, Of
  <2>5. CASE n.else # <<>>
    <3>1. Len(n.else) = 1 /\ n.else[1] \in Of(T, {"block", "if"})
      BY <2>3, <2>5, OnlyOne
    <3>2. T.last[n.else[1]] + 1 = T.last[s]
      BY <2>3, <2>5, <3>1 DEF Fill
    <3> QED BY <1>1, <1>2, <2>2, <2>5, <3>1, <3>2 DEF Of
  <2> QED BY <2>4, <2>5
<1> QED BY <1>1, <1>3, <1>4

-----------------------------------------------------------------------------
(* Output.                                                                 *)

\* The fields of what is written, one operation after the other.
LEMMA PushFields ==
    ASSUME NEW g \in Formatter
    PROVE  LET h == Push(g)
           IN  /\ h \in Formatter
               /\ h.line = g.line /\ h.from = g.from /\ h.to = g.to /\ h.placed = g.placed
               /\ ~h.fresh /\ (h.ended <=> g.ended) /\ (h.garbled <=> (g.garbled \/ g.ended))
               /\ h.sep = g.sep /\ h.top = g.top
<1> DEFINE b == g.garbled \/ g.ended
<1>1. Push(g) = [g EXCEPT !.fresh = FALSE, !.garbled = b]
  BY DEF Push
<1>2. b \in BOOLEAN /\ (b <=> (g.garbled \/ g.ended))
  OBVIOUS
<1> HIDE DEF b
<1> QED BY <1>1, <1>2 DEF Formatter

LEMMA NewlineFields ==
    ASSUME NEW g \in Formatter
    PROVE  LET h == Newline(g)
           IN  /\ h \in Formatter
               /\ h.line = g.line + 1 /\ h.from = g.from /\ h.to = g.to /\ h.placed = g.placed
               /\ h.fresh /\ ~h.ended /\ (h.garbled <=> g.garbled)
               /\ h.sep = g.sep /\ h.top = g.top
<1>1. Newline(g) = [g EXCEPT !.line = g.line + 1, !.fresh = TRUE, !.ended = FALSE]
  BY DEF Newline
<1>2. g.line + 1 \in Nat
  BY DEF Formatter
<1>3. Newline(g) \in Formatter
  BY <1>1, <1>2 DEF Formatter
<1> QED BY <1>1, <1>3 DEF Formatter

LEMMA BeginsFields ==
    ASSUME NEW g \in Formatter, NEW id \in Nodes(T)
    PROVE  LET h == Begins(g, id)
           IN  /\ h \in Formatter
               /\ h.from = [g.from EXCEPT ![id] = g.line]
               /\ h.line = g.line /\ h.to = g.to /\ h.placed = g.placed
               /\ (h.fresh <=> g.fresh) /\ (h.ended <=> g.ended) /\ (h.garbled <=> g.garbled)
               /\ h.sep = g.sep /\ h.top = g.top
BY DEF Begins, Formatter

LEMMA EndsFields ==
    ASSUME NEW g \in Formatter, NEW id \in Nodes(T)
    PROVE  LET h == Ends(g, id)
           IN  /\ h \in Formatter
               /\ h.to = [g.to EXCEPT ![id] = g.line]
               /\ h.line = g.line /\ h.from = g.from /\ h.placed = g.placed
               /\ (h.fresh <=> g.fresh) /\ (h.ended <=> g.ended) /\ (h.garbled <=> g.garbled)
               /\ h.sep = g.sep /\ h.top = g.top
BY DEF Ends, Formatter

LEMMA TrailingFields ==
    ASSUME NEW g \in Formatter, NEW line
    PROVE  LET h == FlushTrailing(g, line)
           IN  \/ h = g /\ ~(Left(g) > 0 /\ Peek(g, 1) = line)
               \/ /\ Left(g) > 0 /\ Peek(g, 1) = line
                  /\ h \in Formatter
                  /\ h.placed = Append(g.placed, g.line)
                  /\ h.line = g.line /\ h.from = g.from /\ h.to = g.to
                  /\ ~h.fresh /\ h.ended /\ (h.garbled <=> (g.garbled \/ g.ended))
                  /\ h.sep = g.sep /\ h.top = g.top
<1> DEFINE b == g.garbled \/ g.ended
           P == Append(g.placed, g.line)
<1>1. FlushTrailing(g, line) = IF Left(g) > 0 /\ Peek(g, 1) = line
                               THEN [g EXCEPT !.placed = P, !.fresh = FALSE, !.ended = TRUE, !.garbled = b]
                               ELSE g
  BY DEF FlushTrailing
<1>2. b \in BOOLEAN /\ (b <=> (g.garbled \/ g.ended))
  OBVIOUS
<1>3. P \in Seq(Nat)
  BY AppendProperties DEF Formatter
<1> HIDE DEF b, P
<1>4. CASE Left(g) > 0 /\ Peek(g, 1) = line
  <2> DEFINE h == [g EXCEPT !.placed = P, !.fresh = FALSE, !.ended = TRUE, !.garbled = b]
  <2>1. FlushTrailing(g, line) = h
    BY <1>1, <1>4
  <2>2. /\ h \in Formatter /\ h.placed = P
        /\ h.line = g.line /\ h.from = g.from /\ h.to = g.to
        /\ ~h.fresh /\ h.ended /\ (h.garbled <=> b)
        /\ h.sep = g.sep /\ h.top = g.top
    BY <1>2, <1>3 DEF Formatter
  <2> QED BY <1>2, <1>4, <2>1, <2>2 DEF P
<1>5. CASE ~(Left(g) > 0 /\ Peek(g, 1) = line)
  BY <1>1, <1>5
<1> QED BY <1>4, <1>5

LEMMA CommentTypes ==
    ASSUME DocOK, NEW g \in Formatter
    PROVE  /\ Len(g.placed) \in Nat /\ Len(doc.comments) \in Nat
           /\ g.line \in Nat
           /\ \A i \in 1..Len(g.placed) : g.placed[i] \in Nat
           /\ \A i \in 1..Len(doc.comments) : doc.comments[i] \in Nat
           /\ \A i, j \in 1..Len(doc.comments) : i < j => doc.comments[i] < doc.comments[j]
<1>1. g.placed \in Seq(Nat) /\ g.line \in Nat
  BY DEF Formatter
<1>2. doc.comments \in Seq(Nat)
  BY TreeType
<1> QED BY <1>1, <1>2, TreeType, LenProperties, ElementOfSeq

\* The loop that prints the comments above a line ends, before one that is not.
LEMMA DueCounts ==
    ASSUME DocOK, NEW g \in Formatter, Len(g.placed) <= Len(doc.comments), NEW line \in Nat
    PROVE  /\ Due(g, line) \in 0..Left(g)
           /\ \A i \in 1..Due(g, line) : Peek(g, i) < line
           /\ Due(g, line) < Left(g) => Peek(g, Due(g, line) + 1) >= line
<1> DEFINE m == Left(g)
           S == { i \in 1..(m + 1) : i <= m => Peek(g, i) >= line }
           P(n) == /\ \A i \in 1..n : Peek(g, i) < line
                   /\ n < m => Peek(g, n + 1) >= line
<1>1. m \in Nat
  BY CommentTypes DEF Left
<1>2. \A i \in 1..m : Peek(g, i) \in Nat
  BY CommentTypes DEF Peek, Left
<1>3. Due(g, line) = CHOOSE n \in 0..m : P(n)
  BY DEF Due
<1> HIDE DEF m
<1>4. m + 1 \in S /\ S \in SUBSET Nat
  BY <1>1
<1>5. PICK l \in S : \A k \in S : l <= k
  BY <1>4, NatLeast
<1>6. l - 1 \in 0..m /\ P(l - 1)
  <2>1. l \in 1..(m + 1) /\ (l <= m => Peek(g, l) >= line)
    OBVIOUS
  <2>2. \A i \in 1..(l - 1) : Peek(g, i) < line
    <3>1. SUFFICES ASSUME NEW i \in 1..(l - 1) PROVE Peek(g, i) < line
      OBVIOUS
    <3>2. i \notin S /\ i \in 1..m
      BY <1>1, <1>5, <2>1
    <3>3. ~(Peek(g, i) >= line)
      BY <1>1, <3>2
    <3> QED BY <1>2, <3>2, <3>3
  <2> QED BY <1>1, <2>1, <2>2
<1> HIDE DEF P
<1>7. P(CHOOSE n \in 0..m : P(n)) /\ (CHOOSE n \in 0..m : P(n)) \in 0..m
  BY <1>6
<1>8. P(Due(g, line)) /\ Due(g, line) \in 0..m
  BY <1>3, <1>7
<1> QED BY <1>8 DEF P, m

LEMMA Extended ==
    ASSUME NEW p \in Seq(Nat), NEW l \in Nat, NEW n \in Nat
    PROVE  LET P == p \o [i \in 1..n |-> l + i - 1]
           IN  /\ P \in Seq(Nat) /\ Len(P) = Len(p) + n
               /\ \A i \in 1..Len(p) : P[i] = p[i]
               /\ \A i \in (Len(p) + 1)..(Len(p) + n) : P[i] = l + (i - Len(p)) - 1
<1> DEFINE N == [i \in 1..n |-> l + i - 1]
           P == p \o N
           k == Len(p)
<1>1. N \in Seq(Nat) /\ Len(N) = n
  OBVIOUS
<1>2. \A i \in 1..n : N[i] = l + i - 1
  OBVIOUS
<1>3. k \in Nat
  BY LenProperties
<1> HIDE DEF N
<1>4. P \in Seq(Nat) /\ Len(P) = Len(p) + Len(N)
  BY <1>1, ConcatProperties
<1>5. \A i \in 1..(Len(p) + Len(N)) : P[i] = IF i <= Len(p) THEN p[i] ELSE N[i - Len(p)]
  BY <1>1, ConcatProperties
<1> HIDE DEF P
<1>6. \A i \in 1..(k + n) : P[i] = IF i <= k THEN p[i] ELSE N[i - k]
  BY <1>1, <1>5
<1>7. Len(P) = k + n
  BY <1>1, <1>4
<1> HIDE DEF k
<1>8. \A i \in 1..k : P[i] = p[i]
  BY <1>3, <1>6
<1>9. \A i \in (k + 1)..(k + n) : P[i] = l + (i - k) - 1
  BY <1>2, <1>3, <1>6
<1> QED BY <1>4, <1>7, <1>8, <1>9 DEF k, P, N

\* The comments above a line are printed, and what is left is not above it.
Leads(g, h, line) ==
    /\ h \in Formatter /\ Len(g.placed) <= Len(h.placed) /\ Len(h.placed) <= Len(doc.comments)
    /\ h.line = g.line + (Len(h.placed) - Len(g.placed))
    /\ h.from = g.from /\ h.to = g.to /\ h.sep = g.sep /\ h.top = g.top
    /\ \A i \in 1..Len(g.placed) : h.placed[i] = g.placed[i]
    /\ \A i \in (Len(g.placed) + 1)..Len(h.placed) :
          h.placed[i] = g.line + (i - Len(g.placed)) - 1 /\ doc.comments[i] < line
    /\ Pending(h, line)
    /\ (g.fresh /\ ~g.ended /\ ~g.garbled) => (h.fresh /\ ~h.ended /\ ~h.garbled)

LEMMA LeadingFields ==
    ASSUME DocOK, NEW g \in Formatter, Len(g.placed) <= Len(doc.comments), NEW line \in Nat
    PROVE  Leads(g, FlushLeading(g, line), line)
<1> DEFINE h == FlushLeading(g, line)
           n == Due(g, line)
           k == Len(g.placed)
           c == Len(doc.comments)
           P == g.placed \o [i \in 1..n |-> g.line + i - 1]
           b == g.garbled \/ g.ended \/ ~g.fresh
<1>1. /\ n \in 0..(c - k)
      /\ \A i \in 1..n : doc.comments[k + i] < line
      /\ n < c - k => doc.comments[k + (n + 1)] >= line
  BY DueCounts DEF Left, Peek
<1>2. k \in Nat /\ c \in Nat /\ k <= c /\ g.line \in Nat
  BY CommentTypes
<1>3. \A i \in 1..c : doc.comments[i] \in Nat
  BY CommentTypes
<1>4. \A i, j \in 1..c : i < j => doc.comments[i] < doc.comments[j]
  BY CommentTypes
<1>5. b \in BOOLEAN /\ (b <=> (g.garbled \/ g.ended \/ ~g.fresh))
  OBVIOUS
<1>6. h = IF n = 0 THEN g
          ELSE [g EXCEPT !.placed = P, !.garbled = b, !.line = @ + n, !.fresh = TRUE, !.ended = FALSE]
  BY DEF FlushLeading, OwnLines, Formatter
<1>7. n \in Nat /\ g.placed \in Seq(Nat)
  BY <1>1, <1>2 DEF Formatter
<1>8. /\ P \in Seq(Nat) /\ Len(P) = k + n
      /\ \A i \in 1..k : P[i] = g.placed[i]
      /\ \A i \in (k + 1)..(k + n) : P[i] = g.line + (i - k) - 1
  <2> HIDE DEF n
  <2> QED BY <1>2, <1>7, Extended
<1> HIDE DEF n, k, c, P, b, h
<1>9. \A i \in (k + n + 1)..c : doc.comments[i] >= line
  <2>1. SUFFICES ASSUME NEW i \in (k + n + 1)..c PROVE doc.comments[i] >= line
    OBVIOUS
  <2>2. n < c - k /\ k + (n + 1) \in 1..c /\ i \in 1..c
    BY <1>1, <1>2
  <2>3. doc.comments[k + (n + 1)] >= line
    BY <1>1, <2>2
  <2>4. k + (n + 1) = i \/ doc.comments[k + (n + 1)] < doc.comments[i]
    BY <1>1, <1>2, <1>4, <2>2
  <2> QED BY <1>3, <2>2, <2>3, <2>4
<1>10. \A i \in (k + 1)..(k + n) : doc.comments[i] < line
  <2>1. SUFFICES ASSUME NEW i \in (k + 1)..(k + n) PROVE doc.comments[i] < line
    OBVIOUS
  <2>2. i - k \in 1..n /\ k + (i - k) = i
    BY <1>1, <1>2
  <2>3. doc.comments[k + (i - k)] < line
    BY <1>1, <2>2
  <2> QED BY <2>2, <2>3
<1>11. CASE n = 0
  <2>1. h = g
    BY <1>6, <1>11
  <2>2. Pending(g, line)
    BY <1>2, <1>9, <1>11 DEF Pending, k, c
  <2>3. h.line = g.line + (k - k)
    BY <1>2, <2>1
  <2>4. (k + 1)..k = {}
    BY <1>2
  <2> QED BY <1>2, <2>1, <2>2, <2>3, <2>4 DEF Leads, h, k, c
<1>12. CASE n # 0
  <2>1. h = [g EXCEPT !.placed = P, !.garbled = b, !.line = g.line + n, !.fresh = TRUE, !.ended = FALSE]
    BY <1>6, <1>12
  <2>2. g.line + n \in Nat
    BY <1>1, <1>2
  <2>3. h \in Formatter
    BY <1>5, <1>8, <2>1, <2>2 DEF Formatter
  <2>4. /\ h.line = g.line + n /\ h.placed = P
        /\ h.from = g.from /\ h.to = g.to /\ h.sep = g.sep /\ h.top = g.top
    BY <2>1 DEF Formatter
  <2>5. (g.fresh /\ ~g.ended /\ ~g.garbled) => (h.fresh /\ ~h.ended /\ ~h.garbled)
    BY <1>5, <2>1 DEF Formatter
  <2>6. Pending(h, line)
    BY <1>8, <1>9, <2>4 DEF Pending, c
  <2>7. Len(h.placed) = k + n /\ k + n <= c /\ k <= k + n /\ n = (k + n) - k
    <3>1. Len(h.placed) = k + n
      BY <1>8, <2>4
    <3>2. k + n <= c /\ k <= k + n /\ n = (k + n) - k
      BY <1>1, <1>2
    <3> QED BY <3>1, <3>2
  <2>8. \A i \in 1..k : h.placed[i] = g.placed[i]
    BY <1>8, <2>4
  <2>9. \A i \in (k + 1)..(k + n) : h.placed[i] = g.line + (i - k) - 1 /\ doc.comments[i] < line
    BY <1>8, <1>10, <2>4
  <2>10. h.line = g.line + (Len(h.placed) - k) /\ k <= Len(h.placed) /\ Len(h.placed) <= c
    BY <2>4, <2>7
  <2>11. \A i \in (k + 1)..Len(h.placed) : h.placed[i] = g.line + (i - k) - 1 /\ doc.comments[i] < line
    BY <2>7, <2>9
  <2> QED BY <2>3, <2>4, <2>5, <2>6, <2>8, <2>10, <2>11 DEF Leads, h, k, c
<1> QED BY <1>11, <1>12
-----------------------------------------------------------------------------
(* What is printed so far.                                                 *)

\* Only the line, and what is on it, is another.
LEMMA Kept ==
    ASSUME DocOK, NEW g, NEW p, Good(g, p), NEW h \in Formatter,
           h.from = g.from, h.to = g.to, h.placed = g.placed, h.line >= g.line, Sound(h)
    PROVE  Good(h, p)
<1>1. g \in Formatter /\ Len(g.placed) <= Len(doc.comments) /\ p \in Nat
  BY DEF Good, GoodBut
<1>2. BegunAbove(h, p)
  <2>1. \A x \in Nodes(T) : g.from[x] \in Nat
    BY <1>1 DEF Formatter
  <2>2. g.line \in Nat /\ h.line \in Nat
    BY <1>1 DEF Formatter
  <2> QED BY <2>1, <2>2 DEF Good, GoodBut, BegunAbove
<1>3. EndTogether(h, p)
  BY DEF Good, GoodBut, EndTogether
<1>4. Stays(g, p, {}) => Stays(h, p, {})
  BY DEF Stays, NotPast, NotAbove, NotBelow, Beside
<1> QED BY <1>1, <1>2, <1>3, <1>4 DEF Good, GoodBut

LEMMA GoodPush ==
    ASSUME DocOK, NEW g, NEW p, Good(g, p), ~g.ended
    PROVE  Good(Push(g), p) /\ ~Push(g).ended
<1> DEFINE h == Push(g)
<1>1. g \in Formatter /\ Sound(g)
  BY DEF Good, GoodBut
<1>2. /\ h \in Formatter /\ h.line = g.line /\ h.from = g.from /\ h.to = g.to /\ h.placed = g.placed
      /\ ~h.fresh /\ ~h.ended /\ (h.garbled <=> (g.garbled \/ g.ended))
  BY <1>1, PushFields
<1> HIDE DEF h
<1>3. Sound(h)
  BY <1>1, <1>2 DEF Sound
<1>4. h.line >= g.line
  BY <1>1, <1>2 DEF Formatter
<1>5. Good(h, p)
  BY <1>2, <1>3, <1>4, Kept
<1> QED BY <1>2, <1>5 DEF h

LEMMA GoodNewline ==
    ASSUME DocOK, NEW g, NEW p, Good(g, p)
    PROVE  Good(Newline(g), p) /\ Newline(g).fresh /\ ~Newline(g).ended
<1> DEFINE h == Newline(g)
<1>1. g \in Formatter /\ Sound(g)
  BY DEF Good, GoodBut
<1>2. /\ h \in Formatter /\ h.line = g.line + 1 /\ h.from = g.from /\ h.to = g.to
      /\ h.placed = g.placed /\ h.fresh /\ ~h.ended /\ (h.garbled <=> g.garbled)
  BY <1>1, NewlineFields
<1> HIDE DEF h
<1>3. g.line \in Nat /\ \A i \in 1..Len(g.placed) : g.placed[i] \in Nat
  BY <1>1, CommentTypes
<1>4. Sound(h)
  BY <1>1, <1>2, <1>3 DEF Sound
<1>5. h.line >= g.line
  BY <1>2, <1>3
<1>6. Good(h, p)
  BY <1>2, <1>4, <1>5, Kept
<1> QED BY <1>2, <1>6 DEF h

\* What begins at the place does so on this line.
LEMMA GoodBegins ==
    ASSUME DocOK, NEW g, NEW p, Good(g, p), NEW id \in Nodes(T), T.first[id] = p
    PROVE  Good(Begins(g, id), p + 1)
<1> DEFINE h == Begins(g, id)
<1>1. g \in Formatter /\ Len(g.placed) <= Len(doc.comments) /\ p \in Nat
  BY DEF Good, GoodBut
<1>2. /\ h \in Formatter /\ h.from = [g.from EXCEPT ![id] = g.line]
      /\ h.line = g.line /\ h.to = g.to /\ h.placed = g.placed
      /\ (h.fresh <=> g.fresh) /\ (h.ended <=> g.ended) /\ (h.garbled <=> g.garbled)
  BY <1>1, BeginsFields
<1> HIDE DEF h
<1>3. g.from \in [Nodes(T) -> Nat] /\ g.line \in Nat
  BY <1>1 DEF Formatter
<1>4. \A x \in Nodes(T) : h.from[x] = IF x = id THEN g.line ELSE g.from[x]
  BY <1>2, <1>3
<1>5. \A x \in Nodes(T) : /\ T.first[x] \in Nat /\ T.last[x] \in Nat /\ T.last[x] # p
                          /\ x # id => T.first[x] # p
                          /\ doc.from[x] \in Nat
  BY TreeType
<1>6. Sound(h)
  BY <1>2 DEF Good, GoodBut, Sound
<1>7. BegunAbove(h, p + 1)
  BY <1>1, <1>2, <1>3, <1>4, <1>5 DEF Good, GoodBut, BegunAbove
<1>8. EndTogether(h, p + 1)
  BY <1>1, <1>2, <1>5 DEF Good, GoodBut, EndTogether, Of
<1>9. ASSUME Stays(g, p, {}) PROVE Stays(h, p + 1, {})
  <2>1. NotPast(h, p + 1)
    BY <1>1, <1>2, <1>5, <1>9 DEF Stays, NotPast
  <2>2. NotAbove(h, p + 1)
    <3>1. SUFFICES ASSUME NEW x \in Nodes(T), T.first[x] < p + 1,
                          NEW i \in 1..Len(g.placed), doc.comments[i] > doc.from[x]
                   PROVE  g.placed[i] >= h.from[x]
      BY <1>2 DEF NotAbove
    <3>2. i \in 1..Len(doc.comments) /\ doc.comments[i] \in Nat
      BY <1>1, CommentTypes
    <3>3. x # id
      BY <1>5, <1>9, <3>1, <3>2 DEF Stays, NotPast
    <3>4. T.first[x] < p
      BY <1>1, <1>5, <3>1, <3>3
    <3> QED BY <1>4, <1>9, <3>1, <3>3, <3>4 DEF Stays, NotAbove
  <2>3. NotBelow(h, p + 1)
    BY <1>1, <1>2, <1>5, <1>9 DEF Stays, NotBelow, Blocks, Of
  <2>4. Beside(h, p + 1, {})
    <3>1. SUFFICES ASSUME NEW x \in Nodes(T) \ {}, T.last[x] < p + 1, Alone(doc, x),
                          NEW i \in 1..Len(doc.comments), doc.comments[i] = doc.to[x]
                   PROVE  i <= Len(g.placed) /\ g.placed[i] = g.to[x]
      BY <1>2 DEF Beside
    <3>2. T.last[x] < p
      BY <1>1, <1>5, <3>1
    <3> QED BY <1>9, <3>1, <3>2 DEF Stays, Beside
  <2> QED BY <2>1, <2>2, <2>3, <2>4 DEF Stays
<1>10. p + 1 \in Nat /\ Len(h.placed) <= Len(doc.comments)
  BY <1>1, <1>2
<1>11. Good(h, p + 1)
  BY <1>2, <1>6, <1>7, <1>8, <1>9, <1>10 DEF Good, GoodBut
<1> QED BY <1>11 DEF h

\* What ends at the place does so on this line: a block or a list when all that
\* is above its end is printed, a function or an `if` with its last block.
LEMMA EndsBut ==
    ASSUME DocOK, NEW g, NEW p, Good(g, p), NEW id \in Nodes(T), T.last[id] = p,
           id \in Of(T, {"if", "func"}) => g.to[LastPart(T, id)] = g.line,
           id \in Blocks(T) \ Of(T, {"func"}) => ~g.ended /\ Pending(g, doc.to[id])
    PROVE  GoodBut(Ends(g, id), p + 1, {id})
<1> DEFINE h == Ends(g, id)
<1>1. g \in Formatter /\ Len(g.placed) <= Len(doc.comments) /\ p \in Nat
  BY DEF Good, GoodBut
<1>2. /\ h \in Formatter /\ h.to = [g.to EXCEPT ![id] = g.line]
      /\ h.line = g.line /\ h.from = g.from /\ h.placed = g.placed
      /\ (h.fresh <=> g.fresh) /\ (h.ended <=> g.ended) /\ (h.garbled <=> g.garbled)
  BY <1>1, EndsFields
<1> HIDE DEF h
<1>3. g.to \in [Nodes(T) -> Nat] /\ g.line \in Nat
  BY <1>1 DEF Formatter
<1>4. \A x \in Nodes(T) : h.to[x] = IF x = id THEN g.line ELSE g.to[x]
  BY <1>2, <1>3
<1>5. \A x \in Nodes(T) : /\ T.first[x] \in Nat /\ T.last[x] \in Nat /\ T.first[x] # p
                          /\ x # id => T.last[x] # p
                          /\ doc.from[x] \in Nat /\ doc.to[x] \in Nat
  BY TreeType
<1>6. Sound(h)
  BY <1>2 DEF Good, GoodBut, Sound
<1>7. BegunAbove(h, p + 1)
  BY <1>1, <1>2, <1>5 DEF Good, GoodBut, BegunAbove
<1>8. EndTogether(h, p + 1)
  <2>1. SUFFICES ASSUME NEW s \in Of(T, {"if", "func"}), T.last[s] < p + 1
                 PROVE  h.to[s] = h.to[LastPart(T, s)]
    BY DEF EndTogether
  <2> DEFINE l == LastPart(T, s)
  <2>2. s \in Nodes(T) /\ l \in Nodes(T) /\ T.last[s] = T.last[l] + 1
    BY LastPartEnds
  <2> HIDE DEF l
  <2>3. l # id
    BY <1>1, <1>5, <2>1, <2>2
  <2>4. CASE s = id
    BY <1>4, <2>2, <2>3, <2>4 DEF l
  <2>5. CASE s # id
    <3>1. T.last[s] < p
      BY <1>1, <1>5, <2>1, <2>2, <2>5
    <3>2. g.to[s] = g.to[l]
      BY <3>1 DEF Good, GoodBut, EndTogether, l
    <3> QED BY <1>4, <2>2, <2>3, <2>5, <3>2 DEF l
  <2> QED BY <2>4, <2>5
<1>9. ASSUME Stays(g, p, {}) PROVE Stays(h, p + 1, {id})
  <2>1. NotPast(h, p + 1)
    BY <1>1, <1>2, <1>5, <1>9 DEF Stays, NotPast
  <2>2. NotAbove(h, p + 1)
    <3>1. SUFFICES ASSUME NEW x \in Nodes(T), T.first[x] < p + 1,
                          NEW i \in 1..Len(g.placed), doc.comments[i] > doc.from[x]
                   PROVE  g.placed[i] >= g.from[x]
      BY <1>2 DEF NotAbove
    <3>2. T.first[x] < p
      BY <1>1, <1>5, <3>1
    <3> QED BY <1>9, <3>1, <3>2 DEF Stays, NotAbove
  <2>3. NotBelow(h, p + 1)
    <3>1. SUFFICES ASSUME NEW b \in Blocks(T), T.last[b] < p + 1,
                          NEW i \in 1..Len(doc.comments), doc.comments[i] < doc.to[b]
                   PROVE  i <= Len(g.placed) /\ g.placed[i] < h.to[b]
      BY <1>2 DEF NotBelow
    <3>2. b \in Nodes(T)
      BY DEF Blocks, Of
    <3>3. CASE b # id
      <4>1. T.last[b] < p
        BY <1>1, <1>5, <3>1, <3>2, <3>3
      <4> QED BY <1>4, <1>9, <3>1, <3>2, <3>3, <4>1 DEF Stays, NotBelow
    <3>4. CASE b = id /\ b \in Of(T, {"func"})
      <4> DEFINE l == LastPart(T, b)
      <4>1. b \in Of(T, {"if", "func"}) /\ T.node[b].k = "func"
        BY <3>4 DEF Of
      <4>2. l \in Nodes(T) /\ T.last[b] = T.last[l] + 1 /\ doc.to[b] = doc.to[l]
        BY <4>1, LastPartEnds
      <4>3. l \in Blocks(T)
        BY <3>2, <3>4, <4>1, Kinds DEF LastPart, Blocks, Of
      <4> HIDE DEF l
      <4>4. T.last[l] < p
        BY <1>1, <1>5, <3>4, <4>2
      <4>5. i <= Len(g.placed) /\ g.placed[i] < g.to[l]
        BY <1>9, <3>1, <4>2, <4>3, <4>4 DEF Stays, NotBelow
      <4> QED BY <1>4, <3>2, <3>4, <4>1, <4>5 DEF l
    <3>5. CASE b = id /\ b \notin Of(T, {"func"})
      <4>1. ~g.ended /\ Pending(g, doc.to[id])
        BY <3>5
      <4>2. doc.comments[i] \in Nat /\ Len(g.placed) \in Nat /\ Len(doc.comments) \in Nat
        BY <1>1, CommentTypes
      <4>3. i <= Len(g.placed)
        BY <1>5, <3>1, <3>2, <3>5, <4>1, <4>2 DEF Pending
      <4>4. g.placed[i] < g.line
        BY <4>1, <4>2, <4>3 DEF Good, GoodBut, Sound
      <4> QED BY <1>4, <3>2, <3>5, <4>3, <4>4
    <3> QED BY <3>3, <3>4, <3>5
  <2>4. Beside(h, p + 1, {id})
    <3>1. SUFFICES ASSUME NEW n \in Nodes(T) \ {id}, T.last[n] < p + 1, Alone(doc, n),
                          NEW i \in 1..Len(doc.comments), doc.comments[i] = doc.to[n]
                   PROVE  i <= Len(g.placed) /\ g.placed[i] = h.to[n]
      BY <1>2 DEF Beside
    <3>2. n \in Nodes(T) /\ n # id
      OBVIOUS
    <3>3. T.last[n] < p
      BY <1>1, <1>5, <3>1, <3>2
    <3> QED BY <1>4, <1>9, <3>1, <3>2, <3>3 DEF Stays, Beside
  <2> QED BY <2>1, <2>2, <2>3, <2>4 DEF Stays
<1>10. p + 1 \in Nat /\ Len(h.placed) <= Len(doc.comments)
  BY <1>1, <1>2
<1>11. GoodBut(h, p + 1, {id})
  BY <1>2, <1>6, <1>7, <1>8, <1>9, <1>10 DEF Good, GoodBut
<1> QED BY <1>11 DEF h

LEMMA GoodEnds ==
    ASSUME DocOK, NEW g, NEW p, Good(g, p), NEW id \in Nodes(T), T.last[id] = p,
           id \notin Of(T, Line \ {"sig"}),
           id \in Of(T, {"if", "func"}) => g.to[LastPart(T, id)] = g.line,
           id \in Blocks(T) \ Of(T, {"func"}) => ~g.ended /\ Pending(g, doc.to[id])
    PROVE  Good(Ends(g, id), p + 1)
<1> DEFINE h == Ends(g, id)
<1>1. GoodBut(h, p + 1, {id})
  BY EndsBut
<1>2. ~Alone(doc, id)
  BY DEF Alone, T
<1> HIDE DEF h
<1>3. Beside(h, p + 1, {id}) => Beside(h, p + 1, {})
  BY <1>2 DEF Beside
<1>4. Stays(h, p + 1, {id}) => Stays(h, p + 1, {})
  BY <1>3 DEF Stays
<1>5. Good(h, p + 1)
  BY <1>1, <1>4 DEF Good, GoodBut
<1> QED BY <1>5 DEF h

\* The line is not below what comes at the place p and behind it.
AboveAll(line, p) == InOrder(doc) =>
    \A x \in Nodes(T) : /\ T.first[x] >= p => line <= doc.from[x]
                        /\ T.last[x] >= p => line <= doc.to[x]

\* Nor beside it, where that is alone on its line.
BeforeAll(line, p) == InOrder(doc) =>
    \A x \in Nodes(T) : /\ T.first[x] >= p => /\ line <= doc.from[x]
                                              /\ Alone(doc, x) => line < doc.from[x]
                        /\ T.last[x] >= p => /\ line <= doc.to[x]
                                             /\ Alone(doc, x) => line < doc.to[x]

LEMMA NextAboveAll ==
    ASSUME DocOK, NEW id \in Nodes(T)
    PROVE  AboveAll(doc.from[id], T.first[id]) /\ AboveAll(doc.to[id], T.last[id])
<1> SUFFICES ASSUME InOrder(doc), NEW x \in Nodes(T)
             PROVE  /\ T.first[x] >= T.first[id] => doc.from[id] <= doc.from[x]
                    /\ T.last[x] >= T.first[id] => doc.from[id] <= doc.to[x]
                    /\ T.first[x] >= T.last[id] => doc.to[id] <= doc.from[x]
                    /\ T.last[x] >= T.last[id] => doc.to[id] <= doc.to[x]
  BY DEF AboveAll
<1>1. /\ T.first[x] \in Nat /\ T.last[x] \in Nat /\ T.first[id] \in Nat /\ T.last[id] \in Nat
      /\ T.first[x] # T.last[id] /\ T.last[x] # T.first[id]
      /\ x # id => T.first[x] # T.first[id] /\ T.last[x] # T.last[id]
      /\ doc.from[id] \in Nat /\ doc.to[id] \in Nat
  BY TreeType
<1>2. /\ T.first[id] < T.first[x] => doc.from[id] <= doc.from[x]
      /\ T.last[id] < T.last[x] => doc.to[id] <= doc.to[x]
      /\ T.first[id] < T.last[x] => doc.from[id] <= doc.to[x]
      /\ T.last[id] < T.first[x] => doc.to[id] <= doc.from[x]
  BY DEF InOrder, T
<1>3. CASE x = id
  BY <1>1, <1>2, <1>3
<1>4. CASE x # id
  BY <1>1, <1>2, <1>4
<1> QED BY <1>3, <1>4

LEMMA LastBeforeAll ==
    ASSUME DocOK, NEW id \in Nodes(T), NEW p \in Nat, T.first[id] < p
    PROVE  /\ T.last[id] < p \/ ~Alone(doc, id) => BeforeAll(doc.from[id], p)
           /\ T.last[id] < p => BeforeAll(doc.to[id], p)
<1> SUFFICES ASSUME InOrder(doc), NEW x \in Nodes(T)
             PROVE  /\ T.last[id] < p \/ ~Alone(doc, id) =>
                          /\ T.first[x] >= p => /\ doc.from[id] <= doc.from[x]
                                                /\ Alone(doc, x) => doc.from[id] < doc.from[x]
                          /\ T.last[x] >= p => /\ doc.from[id] <= doc.to[x]
                                               /\ Alone(doc, x) => doc.from[id] < doc.to[x]
                    /\ T.last[id] < p =>
                          /\ T.first[x] >= p => /\ doc.to[id] <= doc.from[x]
                                                /\ Alone(doc, x) => doc.to[id] < doc.from[x]
                          /\ T.last[x] >= p => /\ doc.to[id] <= doc.to[x]
                                               /\ Alone(doc, x) => doc.to[id] < doc.to[x]
  BY DEF BeforeAll
<1>1. /\ T.first[x] \in Nat /\ T.last[x] \in Nat /\ T.first[id] \in Nat /\ T.last[id] \in Nat
      /\ doc.from[id] \in Nat /\ doc.to[id] \in Nat /\ doc.from[x] \in Nat /\ doc.to[x] \in Nat
  BY TreeType
<1>2. /\ T.first[id] < T.first[x] => doc.from[id] <= doc.from[x]
      /\ T.last[id] < T.last[x] => doc.to[id] <= doc.to[x]
      /\ T.first[id] < T.last[x] => doc.from[id] <= doc.to[x]
      /\ T.last[id] < T.first[x] => doc.to[id] <= doc.from[x]
  BY DEF InOrder, T
<1>3. Alone(doc, x) /\ x # id => /\ doc.from[x] # doc.from[id] /\ doc.from[x] # doc.to[id]
                                 /\ doc.from[x] = doc.to[x]
  BY DEF Alone, T
<1> QED BY <1>1, <1>2, <1>3

LEMMA PendingMore ==
    ASSUME DocOK, NEW g \in Formatter, Len(g.placed) <= Len(doc.comments), NEW line \in Nat,
           Left(g) > 0 => Peek(g, 1) >= line
    PROVE  Pending(g, line)
<1> DEFINE k == Len(g.placed)
           c == Len(doc.comments)
<1>1. /\ k \in Nat /\ c \in Nat
      /\ \A i \in 1..c : doc.comments[i] \in Nat
      /\ \A i, j \in 1..c : i < j => doc.comments[i] < doc.comments[j]
  BY CommentTypes
<1>2. Left(g) = c - k /\ Peek(g, 1) = doc.comments[k + 1]
  BY DEF Left, Peek
<1> HIDE DEF k, c
<1>3. k < c => doc.comments[k + 1] >= line
  BY <1>1, <1>2
<1>4. \A i \in (k + 1)..c : doc.comments[i] >= line
  BY <1>1, <1>3
<1> QED BY <1>4 DEF Pending, k, c

\* The comments above a line, which may be that of what is next.
LEMMA GoodLeading ==
    ASSUME DocOK, NEW g, NEW p, Good(g, p), g.fresh, NEW line \in Nat, AboveAll(line, p)
    PROVE  LET h == FlushLeading(g, line)
           IN  Good(h, p) /\ h.fresh /\ ~h.ended /\ Pending(h, line)
<1> DEFINE h == FlushLeading(g, line)
           k == Len(g.placed)
           m == Len(h.placed)
           c == Len(doc.comments)
<1>1. g \in Formatter /\ k <= c /\ p \in Nat
  BY DEF Good, GoodBut
<1>2. Leads(g, h, line)
  BY <1>1, LeadingFields
<1> HIDE DEF h
<1>3. /\ h \in Formatter /\ k <= m /\ m <= c /\ h.line = g.line + (m - k)
      /\ h.from = g.from /\ h.to = g.to
      /\ \A i \in 1..k : h.placed[i] = g.placed[i]
      /\ \A i \in (k + 1)..m : h.placed[i] = g.line + (i - k) - 1 /\ doc.comments[i] < line
      /\ Pending(h, line)
  BY <1>2 DEF Leads
<1>4. ~g.ended /\ ~g.garbled /\ h.fresh /\ ~h.ended /\ ~h.garbled
  BY <1>2 DEF Good, GoodBut, Sound, Leads
<1>5. /\ k \in Nat /\ m \in Nat /\ c \in Nat /\ g.line \in Nat /\ h.line \in Nat
      /\ \A i \in 1..k : g.placed[i] \in Nat
      /\ \A i \in 1..c : doc.comments[i] \in Nat
  BY <1>1, <1>3, CommentTypes
<1>6. \A i \in 1..k : g.placed[i] < g.line
  BY <1>4 DEF Good, GoodBut, Sound
<1>7. \A i, j \in 1..k : i < j => g.placed[i] < g.placed[j]
  BY DEF Good, GoodBut, Sound
<1>8. \A x \in Nodes(T) : g.from[x] \in Nat /\ doc.from[x] \in Nat /\ doc.to[x] \in Nat
  BY <1>1, TreeType DEF Formatter
<1> HIDE DEF k, m, c
<1>9. \A i, j \in 1..m : i < j => h.placed[i] < h.placed[j]
  <2> SUFFICES ASSUME NEW i \in 1..m, NEW j \in 1..m, i < j PROVE h.placed[i] < h.placed[j]
    OBVIOUS
  <2>1. CASE j <= k
    BY <1>3, <1>5, <1>7, <2>1
  <2>2. CASE k < i
    BY <1>3, <1>5, <2>2
  <2>3. CASE i <= k /\ k < j
    <3>1. i \in 1..k /\ j \in (k + 1)..m
      BY <1>5, <2>3
    <3>2. h.placed[i] < g.line /\ h.placed[j] >= g.line
      BY <1>3, <1>5, <1>6, <3>1
    <3>3. h.placed[i] \in Nat /\ h.placed[j] \in Nat
      BY <1>3, <1>5, <3>1
    <3> QED BY <1>5, <3>2, <3>3
  <2> QED BY <1>5, <2>1, <2>2, <2>3
<1>10. \A i \in 1..m : h.placed[i] < h.line /\ h.placed[i] <= h.line
  <2> SUFFICES ASSUME NEW i \in 1..m PROVE h.placed[i] < h.line /\ h.placed[i] <= h.line
    OBVIOUS
  <2>1. CASE i <= k
    BY <1>3, <1>5, <1>6, <2>1
  <2>2. CASE k < i
    BY <1>3, <1>5, <2>2
  <2> QED BY <1>5, <2>1, <2>2
<1>11. Sound(h)
  BY <1>4, <1>9, <1>10 DEF Sound, m
<1>12. BegunAbove(h, p)
  <2>1. g.line <= h.line
    BY <1>3, <1>5
  <2> QED BY <1>3, <1>5, <1>8, <2>1 DEF Good, GoodBut, BegunAbove
<1>13. EndTogether(h, p)
  BY <1>3 DEF Good, GoodBut, EndTogether
<1>14. ASSUME Stays(g, p, {}), InOrder(doc) PROVE Stays(h, p, {})
  <2>1. NotPast(h, p)
    <3>1. SUFFICES ASSUME NEW i \in 1..m, NEW x \in Nodes(T)
                   PROVE /\ T.first[x] >= p => /\ doc.comments[i] <= doc.from[x]
                                               /\ Alone(doc, x) => doc.comments[i] < doc.from[x]
                         /\ T.last[x] >= p => /\ doc.comments[i] <= doc.to[x]
                                              /\ Alone(doc, x) => doc.comments[i] < doc.to[x]
      BY DEF NotPast, m
    <3>2. CASE i <= k
      <4>1. i \in 1..Len(g.placed)
        BY <1>5, <3>2 DEF k
      <4> QED BY <1>14, <4>1 DEF Stays, NotPast
    <3>3. CASE k < i
      <4>1. doc.comments[i] < line /\ doc.comments[i] \in Nat
        BY <1>3, <1>5, <3>3
      <4>2. /\ T.first[x] >= p => line <= doc.from[x]
            /\ T.last[x] >= p => line <= doc.to[x]
        BY <1>14 DEF AboveAll
      <4> QED BY <1>8, <4>1, <4>2
    <3> QED BY <1>5, <3>2, <3>3
  <2>2. NotAbove(h, p)
    <3>1. SUFFICES ASSUME NEW x \in Nodes(T), T.first[x] < p, NEW i \in 1..m,
                          doc.comments[i] > doc.from[x]
                   PROVE  h.placed[i] >= g.from[x]
      BY <1>3 DEF NotAbove, m
    <3>2. CASE i <= k
      <4>1. i \in 1..k
        BY <1>5, <3>2
      <4> QED BY <1>3, <1>14, <3>1, <4>1 DEF Stays, NotAbove, k
    <3>3. CASE k < i
      <4>1. h.placed[i] >= g.line /\ h.placed[i] \in Nat
        BY <1>3, <1>5, <3>3
      <4>2. g.from[x] <= g.line
        BY <3>1 DEF Good, GoodBut, BegunAbove
      <4> QED BY <1>5, <1>8, <4>1, <4>2
    <3> QED BY <1>5, <3>2, <3>3
  <2>3. NotBelow(h, p)
    <3>1. SUFFICES ASSUME NEW b \in Blocks(T), T.last[b] < p,
                          NEW i \in 1..Len(doc.comments), doc.comments[i] < doc.to[b]
                   PROVE  i <= m /\ h.placed[i] < g.to[b]
      BY <1>3 DEF NotBelow, m
    <3>2. i <= k /\ g.placed[i] < g.to[b]
      BY <1>14, <3>1 DEF Stays, NotBelow, k
    <3> QED BY <1>3, <1>5, <3>2
  <2>4. Beside(h, p, {})
    <3>1. SUFFICES ASSUME NEW n \in Nodes(T), T.last[n] < p, Alone(doc, n),
                          NEW i \in 1..Len(doc.comments), doc.comments[i] = doc.to[n]
                   PROVE  i <= m /\ h.placed[i] = g.to[n]
      BY <1>3 DEF Beside, m
    <3>2. i <= k /\ g.placed[i] = g.to[n]
      BY <1>14, <3>1 DEF Stays, Beside, k
    <3> QED BY <1>3, <1>5, <3>2
  <2> QED BY <2>1, <2>2, <2>3, <2>4 DEF Stays
<1>15. Good(h, p)
  BY <1>1, <1>3, <1>11, <1>12, <1>13, <1>14 DEF Good, GoodBut, m, c
<1> QED BY <1>3, <1>4, <1>15 DEF h

\* The comment behind the end of a line is the first that is left.
LEMMA Placed ==
    ASSUME DocOK, NEW g \in Formatter, Len(g.placed) <= Len(doc.comments), NEW line \in Nat,
           Left(g) > 0, Peek(g, 1) = line
    PROVE  LET k == Len(g.placed)
               P == Append(g.placed, g.line)
           IN  /\ k \in Nat /\ k + 1 <= Len(doc.comments) /\ Len(P) = k + 1
               /\ P \in Seq(Nat) /\ doc.comments[k + 1] = line
               /\ \A i \in 1..k : P[i] = g.placed[i]
               /\ P[k + 1] = g.line
<1> DEFINE k == Len(g.placed)
           P == Append(g.placed, g.line)
<1>1. g.placed \in Seq(Nat) /\ g.line \in Nat
  BY DEF Formatter
<1>2. /\ P \in Seq(Nat) /\ Len(P) = Len(g.placed) + 1
      /\ \A i \in 1..Len(g.placed) : P[i] = g.placed[i]
      /\ P[Len(g.placed) + 1] = g.line
  BY <1>1, AppendProperties
<1>3. k \in Nat /\ Len(doc.comments) \in Nat
  BY CommentTypes
<1>4. k + 1 <= Len(doc.comments) /\ doc.comments[k + 1] = line
  <2>1. Left(g) = Len(doc.comments) - k /\ Peek(g, 1) = doc.comments[k + 1]
    BY DEF Left, Peek
  <2> HIDE DEF k
  <2> QED BY <1>3, <2>1
<1> QED BY <1>2, <1>3, <1>4

\* A comment behind the line of something that has begun or ended.
LEMMA TrailingBut ==
    ASSUME DocOK, NEW g, NEW p, NEW but, GoodBut(g, p, but), ~g.ended, NEW line \in Nat, BeforeAll(line, p)
    PROVE  LET h == FlushTrailing(g, line)
           IN  /\ GoodBut(h, p, but) /\ (h.ended => Pending(h, line + 1))
               /\ h.line = g.line /\ h.to = g.to
<1> DEFINE h == FlushTrailing(g, line)
           k == Len(g.placed)
           c == Len(doc.comments)
<1>1. g \in Formatter /\ k <= c /\ p \in Nat
  BY DEF GoodBut
<1>2. CASE h = g
  BY <1>2
<1>3. CASE h # g
  <2>1. /\ Left(g) > 0 /\ Peek(g, 1) = line
        /\ h \in Formatter /\ h.placed = Append(g.placed, g.line)
        /\ h.line = g.line /\ h.from = g.from /\ h.to = g.to
        /\ ~h.fresh /\ h.ended /\ (h.garbled <=> (g.garbled \/ g.ended))
    BY <1>1, <1>3, TrailingFields
  <2> HIDE DEF h
  <2>2. /\ k + 1 <= c /\ Len(h.placed) = k + 1 /\ doc.comments[k + 1] = line
        /\ \A i \in 1..k : h.placed[i] = g.placed[i]
        /\ h.placed[k + 1] = g.line
    BY <1>1, <2>1, Placed
  <2>3. /\ k \in Nat /\ c \in Nat /\ g.line \in Nat
        /\ \A i \in 1..k : g.placed[i] \in Nat
        /\ \A i \in 1..c : doc.comments[i] \in Nat
        /\ \A i, j \in 1..c : i < j => doc.comments[i] < doc.comments[j]
    BY <1>1, CommentTypes
  <2>4. /\ ~g.garbled /\ \A i \in 1..k : g.placed[i] < g.line
        /\ \A i, j \in 1..k : i < j => g.placed[i] < g.placed[j]
    BY DEF GoodBut, Sound
  <2>5. \A x \in Nodes(T) : g.from[x] \in Nat /\ doc.from[x] \in Nat /\ doc.to[x] \in Nat
    BY <1>1, TreeType DEF Formatter
  <2>6. /\ Stays(g, p, but) /\ InOrder(doc) => NotPast(g, p)
        /\ NotPast(g, p) => \A i \in 1..k : \A x \in Nodes(T) :
              /\ T.first[x] >= p => /\ doc.comments[i] <= doc.from[x]
                                    /\ Alone(doc, x) => doc.comments[i] < doc.from[x]
              /\ T.last[x] >= p => /\ doc.comments[i] <= doc.to[x]
                                   /\ Alone(doc, x) => doc.comments[i] < doc.to[x]
    BY DEF NotPast, Stays
  <2> HIDE DEF k, c
  <2>7. \A i \in 1..(k + 1) : i \in 1..k \/ i = k + 1
    BY <2>3
  <2>8. Sound(h)
    <3>1. \A i, j \in 1..(k + 1) : i < j => h.placed[i] < h.placed[j]
      <4>1. SUFFICES ASSUME NEW i \in 1..(k + 1), NEW j \in 1..(k + 1), i < j
                     PROVE  h.placed[i] < h.placed[j]
        OBVIOUS
      <4>2. i \in 1..k
        BY <2>3, <4>1
      <4>3. CASE j \in 1..k
        BY <2>2, <2>4, <4>1, <4>2, <4>3
      <4>4. CASE j = k + 1
        BY <2>2, <2>4, <4>2, <4>4
      <4> QED BY <2>7, <4>3, <4>4
    <3>2. \A i \in 1..(k + 1) : h.placed[i] <= h.line
      BY <2>1, <2>2, <2>3, <2>4, <2>7
    <3> QED BY <2>1, <2>2, <2>4, <3>1, <3>2 DEF Sound
  <2>9. BegunAbove(h, p)
    BY <2>1 DEF GoodBut, BegunAbove
  <2>10. EndTogether(h, p)
    BY <2>1 DEF GoodBut, EndTogether
  <2>11. ASSUME Stays(g, p, but), InOrder(doc) PROVE Stays(h, p, but)
    <3>1. NotPast(h, p)
      <4>1. SUFFICES ASSUME NEW i \in 1..(k + 1), NEW x \in Nodes(T)
                     PROVE /\ T.first[x] >= p => /\ doc.comments[i] <= doc.from[x]
                                                 /\ Alone(doc, x) => doc.comments[i] < doc.from[x]
                           /\ T.last[x] >= p => /\ doc.comments[i] <= doc.to[x]
                                                /\ Alone(doc, x) => doc.comments[i] < doc.to[x]
        BY <2>2 DEF NotPast
      <4>2. CASE i \in 1..k
        BY <2>6, <2>11, <4>2
      <4>3. CASE i = k + 1
        BY <2>2, <2>11, <4>3 DEF BeforeAll
      <4> QED BY <2>7, <4>2, <4>3
    <3>2. NotAbove(h, p)
      <4>1. SUFFICES ASSUME NEW x \in Nodes(T), T.first[x] < p, NEW i \in 1..(k + 1),
                            doc.comments[i] > doc.from[x]
                     PROVE  h.placed[i] >= g.from[x]
        BY <2>1, <2>2 DEF NotAbove
      <4>2. CASE i \in 1..k
        <5>1. g.placed[i] >= g.from[x]
          BY <2>11, <4>1, <4>2 DEF Stays, NotAbove, k
        <5> QED BY <2>2, <4>2, <5>1
      <4>3. CASE i = k + 1
        <5>1. g.from[x] <= g.line
          BY <4>1 DEF GoodBut, BegunAbove
        <5> QED BY <2>2, <2>3, <2>5, <4>3, <5>1
      <4> QED BY <2>7, <4>2, <4>3
    <3>3. NotBelow(h, p)
      <4>1. SUFFICES ASSUME NEW b \in Blocks(T), T.last[b] < p,
                            NEW i \in 1..c, doc.comments[i] < doc.to[b]
                     PROVE  i <= k + 1 /\ h.placed[i] < g.to[b]
        BY <2>1, <2>2 DEF NotBelow, c
      <4>2. i <= k /\ g.placed[i] < g.to[b]
        BY <2>11, <4>1 DEF Stays, NotBelow, k, c
      <4>3. i \in 1..k /\ i <= k + 1
        BY <2>3, <4>2
      <4> QED BY <2>2, <4>2, <4>3
    <3>4. Beside(h, p, but)
      <4>1. SUFFICES ASSUME NEW n \in Nodes(T) \ but, T.last[n] < p, Alone(doc, n),
                            NEW i \in 1..c, doc.comments[i] = doc.to[n]
                     PROVE  i <= k + 1 /\ h.placed[i] = g.to[n]
        BY <2>1, <2>2 DEF Beside, c
      <4>2. i <= k /\ g.placed[i] = g.to[n]
        BY <2>11, <4>1 DEF Stays, Beside, k, c
      <4>3. i \in 1..k /\ i <= k + 1
        BY <2>3, <4>2
      <4> QED BY <2>2, <4>2, <4>3
    <3> QED BY <3>1, <3>2, <3>3, <3>4 DEF Stays
  <2>12. GoodBut(h, p, but)
    BY <1>1, <2>1, <2>2, <2>8, <2>9, <2>10, <2>11 DEF GoodBut, c
  <2>13. Pending(h, line + 1)
    <3>1. \A i \in (k + 1 + 1)..c : doc.comments[i] >= line + 1
      <4>1. SUFFICES ASSUME NEW i \in (k + 1 + 1)..c PROVE doc.comments[i] >= line + 1
        OBVIOUS
      <4>2. k + 1 \in 1..c /\ i \in 1..c /\ k + 1 < i
        BY <2>2, <2>3
      <4>3. line < doc.comments[i]
        BY <2>2, <2>3, <4>2
      <4> QED BY <2>3, <4>2, <4>3
    <3> QED BY <2>2, <3>1 DEF Pending, c
  <2> QED BY <2>1, <2>12, <2>13 DEF h
<1> QED BY <1>2, <1>3

LEMMA GoodTrailing ==
    ASSUME DocOK, NEW g, NEW p, Good(g, p), ~g.ended, NEW line \in Nat, BeforeAll(line, p)
    PROVE  LET h == FlushTrailing(g, line)
           IN  /\ Good(h, p) /\ (h.ended => Pending(h, line + 1))
               /\ h.line = g.line /\ h.to = g.to
BY TrailingBut DEF Good

\* What is in one piece of text ends, and has the comment that is behind it.
LEMMA GoodText ==
    ASSUME DocOK, NEW g, NEW p, Good(g, p), ~g.ended, NEW id \in Of(T, Line), T.last[id] = p,
           Pending(g, doc.from[id])
    PROVE  Good(FlushTrailing(Ends(g, id), doc.to[id]), p + 1)
<1> DEFINE e == Ends(g, id)
           h == FlushTrailing(e, doc.to[id])
           k == Len(g.placed)
           c == Len(doc.comments)
<1>1. g \in Formatter /\ k <= c /\ p \in Nat /\ id \in Nodes(T) /\ doc.to[id] \in Nat
  BY TreeType DEF Good, GoodBut, Of
<1>2. id \notin Of(T, {"if", "func"}) /\ id \notin Blocks(T)
  BY DEF Of, Line, Blocks
<1>3. GoodBut(e, p + 1, {id})
  BY <1>1, <1>2, EndsBut
<1>4. /\ e \in Formatter /\ e.to = [g.to EXCEPT ![id] = g.line]
      /\ e.line = g.line /\ e.from = g.from /\ e.placed = g.placed /\ ~e.ended
  <2>1. /\ e \in Formatter /\ e.to = [g.to EXCEPT ![id] = g.line]
        /\ e.line = g.line /\ e.from = g.from /\ e.placed = g.placed /\ (e.ended <=> g.ended)
    BY <1>1, EndsFields
  <2> HIDE DEF e
  <2> QED BY <2>1
<1>5. T.first[id] < p + 1 /\ T.last[id] < p + 1 /\ p + 1 \in Nat
  BY <1>1, Kinds, TreeType
<1>6. BeforeAll(doc.to[id], p + 1)
  BY <1>1, <1>5, LastBeforeAll
<1>7. GoodBut(h, p + 1, {id})
  <2> HIDE DEF e
  <2> QED BY <1>1, <1>3, <1>4, <1>6, TrailingBut
<1>8. ASSUME InOrder(doc), Stays(h, p + 1, {id}) PROVE Stays(h, p + 1, {})
  <2>1. SUFFICES ASSUME Alone(doc, id), NEW i \in 1..c, doc.comments[i] = doc.to[id]
                 PROVE  i <= Len(h.placed) /\ h.placed[i] = h.to[id]
    BY <1>8 DEF Stays, Beside
  <2>2. /\ k \in Nat /\ c \in Nat
        /\ \A j \in 1..c : doc.comments[j] \in Nat
        /\ \A j, n \in 1..c : j < n => doc.comments[j] < doc.comments[n]
    BY <1>1, CommentTypes
  <2>3. doc.from[id] = doc.to[id]
    BY <2>1 DEF Alone
  <2>4. \A j \in 1..k : doc.comments[j] < doc.to[id]
    <3>1. NotPast(g, p) /\ T.last[id] >= p
      BY <1>1, <1>8 DEF Good, GoodBut, Stays
    <3> QED BY <1>1, <2>1, <3>1 DEF NotPast
  <2>5. \A j \in (k + 1)..c : doc.comments[j] >= doc.to[id]
    BY <2>3 DEF Pending
  <2> HIDE DEF k, c
  <2>6. i = k + 1 /\ k + 1 <= c
    BY <1>1, <2>1, <2>2, <2>4, <2>5
  <2>7. Left(e) > 0 /\ Peek(e, 1) = doc.to[id]
    <3>1. Left(e) = c - k /\ Peek(e, 1) = doc.comments[k + 1]
      BY <1>4 DEF Left, Peek, k, c
    <3> QED BY <1>1, <2>1, <2>2, <2>6, <3>1
  <2> HIDE DEF e
  <2>8. /\ h.placed = Append(e.placed, e.line) /\ h.to = e.to
    BY <1>4, <2>7, TrailingFields
  <2>9. Len(e.placed) <= Len(doc.comments)
    BY <1>1, <1>4 DEF k, c
  <2>10. Len(h.placed) = k + 1 /\ h.placed[k + 1] = e.line
    BY <1>1, <1>4, <2>7, <2>8, <2>9, Placed DEF k
  <2>11. e.to[id] = e.line
    BY <1>1, <1>4 DEF Formatter
  <2> QED BY <2>2, <2>6, <2>8, <2>10, <2>11
<1> HIDE DEF h, e
<1>9. Good(h, p + 1)
  BY <1>7, <1>8 DEF Good, GoodBut
<1> QED BY <1>9 DEF h, e
-----------------------------------------------------------------------------
(* What the handlers are made of.                                          *)
LEMMA GoodOpen ==
    ASSUME DocOK, NEW g, NEW p, Good(g, p), ~g.ended, NEW id \in Nodes(T), T.first[id] = p
    PROVE  LET h == Push(Begins(g, id))
           IN  Good(h, p + 1) /\ ~h.ended /\ h.placed = g.placed
<1> DEFINE b == Begins(g, id)
<1>1. g \in Formatter
  BY DEF Good, GoodBut
<1>2. Good(b, p + 1)
  BY GoodBegins
<1>3. b \in Formatter /\ ~b.ended /\ b.placed = g.placed
  BY <1>1, BeginsFields
<1> HIDE DEF b
<1>4. Good(Push(b), p + 1) /\ ~Push(b).ended
  BY <1>2, <1>3, GoodPush
<1>5. Push(b).placed = b.placed
  BY <1>3, PushFields
<1> QED BY <1>3, <1>4, <1>5 DEF b

LEMMA GoodSeparate ==
    ASSUME DocOK, NEW g, NEW p, Good(g, p)
    PROVE  LET h == Separate(g)
           IN  Good(h, p) /\ (g.sep \/ g.fresh => h.fresh)
<1> DEFINE n == Newline(Newline(g))
           h == [n EXCEPT !.sep = FALSE]
<1>1. CASE ~g.sep
  BY <1>1 DEF Separate
<1>2. CASE g.sep
  <2>1. Separate(g) = h
    BY <1>2 DEF Separate
  <2>2. Good(n, p) /\ n.fresh
    BY GoodNewline
  <2> HIDE DEF n
  <2>3. n \in Formatter
    BY <2>2 DEF Good, GoodBut
  <2>4. /\ h \in Formatter /\ h.from = n.from /\ h.to = n.to /\ h.placed = n.placed
        /\ h.line = n.line /\ n.line \in Nat
    BY <2>3 DEF Formatter
  <2>5. (h.fresh <=> n.fresh) /\ (h.ended <=> n.ended) /\ (h.garbled <=> n.garbled)
    BY <2>3 DEF Formatter
  <2> HIDE DEF h
  <2>6. Sound(h)
    BY <2>2, <2>4, <2>5 DEF Good, GoodBut, Sound
  <2>7. Good(h, p)
    BY <2>2, <2>4, <2>6, Kept
  <2> QED BY <2>1, <2>2, <2>5, <2>7
<1> QED BY <1>1, <1>2

\* What is remembered of a top-level node is not part of the output.
LEMMA GoodBehind ==
    ASSUME DocOK, NEW g, NEW p, NEW id \in Nodes(T), Good(FlushTrailing(g, doc.to[id]), p)
    PROVE  Good(Behind(g, id), p) /\ Behind(g, id).sep
<1> DEFINE t == FlushTrailing(g, doc.to[id])
           h == [t EXCEPT !.top = doc.to[id], !.sep = TRUE]
<1>1. Behind(g, id) = h
  BY DEF Behind
<1> HIDE DEF t
<1>2. t \in Formatter /\ doc.to[id] \in Nat /\ Good(t, p)
  BY TreeType DEF Good, GoodBut, t
<1>3. /\ h \in Formatter /\ h.from = t.from /\ h.to = t.to /\ h.placed = t.placed
      /\ h.line = t.line /\ t.line \in Nat
  BY <1>2 DEF Formatter
<1>4. (h.fresh <=> t.fresh) /\ (h.ended <=> t.ended) /\ (h.garbled <=> t.garbled) /\ h.sep
  BY <1>2 DEF Formatter
<1> HIDE DEF h
<1>5. Sound(h)
  BY <1>2, <1>3, <1>4 DEF Good, GoodBut, Sound
<1>6. Good(h, p)
  BY <1>2, <1>3, <1>5, Kept
<1> QED BY <1>1, <1>4, <1>6

\* Comments above a text, the text, and the comment behind it.
LEMMA GoodPiece ==
    ASSUME DocOK, NEW g, NEW p, Good(g, p), g.fresh, NEW id \in Of(T, Line), T.first[id] = p
    PROVE  LET t == Text(FlushLeading(g, doc.from[id]), id)
           IN  Good(FlushTrailing(t, doc.to[id]), T.last[id] + 1)
<1> DEFINE l == FlushLeading(g, doc.from[id])
           b == Push(Begins(l, id))
           w == IF id \in Tall THEN [b EXCEPT !.line = @ + 2] ELSE b
<1>1. id \in Nodes(T) /\ doc.from[id] \in Nat /\ p \in Nat
  BY TreeType DEF Of, Good, GoodBut
<1>2. T.last[id] = p + 1
  BY <1>1, Kinds
<1>3. Good(l, p) /\ ~l.ended /\ Pending(l, doc.from[id])
  BY <1>1, NextAboveAll, GoodLeading
<1>4. Good(b, p + 1) /\ ~b.ended /\ b.placed = l.placed
  <2> HIDE DEF l
  <2> QED BY <1>1, <1>3, GoodOpen
<1>5. Text(l, id) = Ends(w, id)
  BY DEF Text
<1> HIDE DEF b, l
<1>6. Good(w, p + 1) /\ ~w.ended /\ w.placed = b.placed
  <2> DEFINE v == [b EXCEPT !.line = b.line + 2]
  <2>1. b \in Formatter
    BY <1>4 DEF Good, GoodBut
  <2>2. b.line \in Nat /\ \A i \in 1..Len(b.placed) : b.placed[i] \in Nat
    BY <2>1, CommentTypes
  <2>3. b.line + 2 \in Nat
    BY <2>2
  <2>4. /\ v \in Formatter /\ v.from = b.from /\ v.to = b.to /\ v.placed = b.placed
        /\ v.line = b.line + 2
    BY <2>1, <2>3 DEF Formatter
  <2>5. (v.fresh <=> b.fresh) /\ (v.ended <=> b.ended) /\ (v.garbled <=> b.garbled)
    BY <2>1 DEF Formatter
  <2>6. w = IF id \in Tall THEN v ELSE b
    OBVIOUS
  <2> HIDE DEF v, w
  <2>7. Sound(v)
    BY <1>4, <2>2, <2>4, <2>5 DEF Good, GoodBut, Sound
  <2>8. v.line >= b.line
    BY <2>2, <2>4
  <2>9. Good(v, p + 1)
    BY <1>4, <2>4, <2>7, <2>8, Kept
  <2> QED BY <1>4, <2>4, <2>5, <2>6, <2>9
<1> HIDE DEF w
<1>7. Pending(w, doc.from[id])
  BY <1>3, <1>4, <1>6 DEF Pending
<1>8. Good(FlushTrailing(Ends(w, id), doc.to[id]), p + 1 + 1)
  BY <1>2, <1>6, <1>7, GoodText
<1> QED BY <1>2, <1>5, <1>8 DEF l

\* The `}` of a block, and the comment behind it unless `else` follows.
LEMMA GoodClosed ==
    ASSUME DocOK, NEW g, NEW p, Good(g, p), ~g.ended, NEW id \in Of(T, {"block"}), T.last[id] = p,
           Pending(g, doc.to[id]), NEW trailing \in BOOLEAN
    PROVE  LET h == Closed(g, id, trailing)
           IN  /\ Good(h, p + 1) /\ h.to[id] = h.line
               /\ h.ended => Pending(h, doc.to[id] + 1)
               /\ ~trailing => ~h.ended
<1> DEFINE b == Push(g)
           e == Ends(b, id)
           h == Closed(g, id, trailing)
<1>1. g \in Formatter /\ id \in Nodes(T) /\ doc.to[id] \in Nat /\ p \in Nat /\ p + 1 \in Nat
  BY TreeType DEF Good, GoodBut, Of
<1>2. Good(b, p) /\ ~b.ended
  BY GoodPush
<1>3. b \in Formatter /\ b.placed = g.placed
  BY <1>1, PushFields
<1>4. h = IF trailing THEN FlushTrailing(e, doc.to[id]) ELSE e
  BY DEF Closed
<1> HIDE DEF b
<1>5. Pending(b, doc.to[id])
  BY <1>3 DEF Pending
<1>6. id \notin Of(T, {"if", "func"}) /\ id \notin Of(T, Line \ {"sig"})
  BY DEF Of, Line
<1>7. Good(e, p + 1)
  BY <1>1, <1>2, <1>5, <1>6, GoodEnds
<1>8. e \in Formatter /\ ~e.ended /\ e.to[id] = e.line
  <2>1. e \in Formatter /\ ~e.ended /\ e.to = [b.to EXCEPT ![id] = b.line] /\ e.line = b.line
    BY <1>1, <1>2, <1>3, EndsFields
  <2>2. b.to \in [Nodes(T) -> Nat]
    BY <1>3 DEF Formatter
  <2> QED BY <1>1, <2>1, <2>2
<1>9. BeforeAll(doc.to[id], p + 1)
  <2>1. T.first[id] < T.last[id] /\ T.first[id] \in Nat
    BY <1>1, TreeType
  <2>2. T.first[id] < p + 1 /\ T.last[id] < p + 1
    BY <1>1, <2>1
  <2> QED BY <1>1, <2>2, LastBeforeAll
<1> HIDE DEF e, h
<1>10. CASE trailing
  <2>1. h = FlushTrailing(e, doc.to[id])
    BY <1>4, <1>10
  <2>2. /\ Good(h, p + 1) /\ (h.ended => Pending(h, doc.to[id] + 1))
        /\ h.line = e.line /\ h.to = e.to
    BY <1>1, <1>7, <1>8, <1>9, <2>1, GoodTrailing
  <2> QED BY <1>8, <1>10, <2>2 DEF h
<1>11. CASE ~trailing
  BY <1>4, <1>7, <1>8, <1>11 DEF h
<1> QED BY <1>10, <1>11

\* The comments that are left, each on a line of its own, are the last lines.
LEMMA GoodRemaining ==
    ASSUME DocOK, NEW g, Good(g, T.size + 1), g.fresh, Left(g) > 0
    PROVE  LET h == FlushRemaining(g)
           IN  Good(h, T.size + 1) /\ Len(h.placed) = Len(doc.comments)
<1> DEFINE p == T.size + 1
           c == Len(doc.comments)
           k == Len(g.placed)
           n == Left(g)
           line == doc.comments[c] + 1
           l == FlushLeading(g, line)
           P == g.placed \o [i \in 1..n |-> g.line + i - 1]
           b == g.garbled \/ g.ended \/ ~g.fresh
           h == FlushRemaining(g)
<1>1. g \in Formatter /\ k <= c /\ k \in Nat /\ c \in Nat /\ g.line \in Nat /\ p \in Nat
  BY CommentTypes, TreeType DEF Good, GoodBut
<1>0. n = c - k /\ n > 0
  BY DEF Left
<1> HIDE DEF c, k, n
<1>2. n = c - k /\ n \in Nat /\ n > 0 /\ n # 0 /\ c \in 1..c
  BY <1>0, <1>1
<1>3. /\ doc.comments[c] \in Nat /\ line \in Nat
      /\ \A i \in 1..c : doc.comments[i] < line
  <2>1. /\ \A i \in 1..c : doc.comments[i] \in Nat
        /\ \A i, j \in 1..c : i < j => doc.comments[i] < doc.comments[j]
    BY <1>1, CommentTypes DEF c
  <2>2. doc.comments[c] \in Nat
    BY <1>2, <2>1
  <2>3. \A i \in 1..c : i = c \/ doc.comments[i] < doc.comments[c]
    BY <1>1, <1>2, <2>1
  <2> QED BY <1>1, <2>1, <2>2, <2>3
<1>4. \A x \in Nodes(T) : T.first[x] < p /\ T.last[x] < p /\ T.first[x] \in Nat /\ T.last[x] \in Nat
  BY TreeType
<1>5. AboveAll(line, p)
  BY <1>1, <1>4 DEF AboveAll
<1>6. Good(l, p) /\ Pending(l, line) /\ ~l.ended /\ l.fresh
  <2> HIDE DEF line, p
  <2> QED BY <1>3, <1>5, GoodLeading DEF p
<1>7. Due(g, line) = n
  <2> DEFINE d == Due(g, line)
  <2> HIDE DEF line
  <2>1. d \in 0..n /\ (d < n => doc.comments[k + (d + 1)] >= line)
    <3>1. Len(g.placed) <= Len(doc.comments)
      BY <1>1 DEF k, c
    <3>2. /\ d \in 0..Left(g)
          /\ d < Left(g) => Peek(g, d + 1) >= line
      BY <1>1, <1>3, <3>1, DueCounts
    <3> QED BY <3>2 DEF Peek, n, k
  <2> HIDE DEF d
  <2>2. ASSUME d < n PROVE FALSE
    <3>1. doc.comments[k + (d + 1)] >= line
      BY <2>1, <2>2
    <3>2. k + (d + 1) \in 1..c
      BY <1>1, <1>2, <2>1, <2>2
    <3>3. doc.comments[k + (d + 1)] < line /\ doc.comments[k + (d + 1)] \in Nat
      BY <1>1, <1>3, <3>2, CommentTypes DEF c
    <3> QED BY <1>3, <3>1, <3>3
  <2> QED BY <1>2, <2>1, <2>2 DEF d
<1>8. l = [g EXCEPT !.placed = P, !.garbled = b, !.line = g.line + n, !.fresh = TRUE, !.ended = FALSE]
  <2> HIDE DEF line
  <2> QED BY <1>1, <1>2, <1>7 DEF FlushLeading, OwnLines, Formatter
<1>9. h = [g EXCEPT !.placed = P, !.garbled = b, !.line = g.line + n - 1, !.fresh = FALSE, !.ended = TRUE]
  BY <1>1 DEF FlushRemaining, OwnLines, Formatter, n
<1>10. g.line + n - 1 \in Nat /\ g.line + n - 1 >= g.line
  BY <1>1, <1>2
<1>11. P \in Seq(Nat) /\ Len(P) = k + n /\ k + n = c
  <2>1. g.placed \in Seq(Nat)
    BY <1>1 DEF Formatter
  <2>2. P \in Seq(Nat) /\ Len(P) = k + n
    BY <1>1, <1>2, <2>1, Extended DEF k
  <2>3. k + n = c
    BY <1>1, <1>2
  <2> QED BY <2>2, <2>3
<1>12. b \in BOOLEAN
  OBVIOUS
<1> HIDE DEF P, b, l, h, line
<1>13. /\ h \in Formatter /\ h.placed = P /\ h.from = g.from /\ h.to = g.to
       /\ h.line = g.line + n - 1 /\ ~h.fresh /\ h.ended /\ (h.garbled <=> b)
  BY <1>1, <1>9, <1>10, <1>11, <1>12 DEF Formatter
<1>14. /\ l.placed = P /\ l.from = g.from /\ l.to = g.to
       /\ l.line = g.line + n /\ (l.garbled <=> b)
  BY <1>1, <1>8, <1>12 DEF Formatter
<1>15. Sound(h)
  <2>1. Sound(l) /\ l \in Formatter
    BY <1>6 DEF Good, GoodBut
  <2>2. \A i \in 1..Len(P) : P[i] \in Nat /\ P[i] < g.line + n
    BY <1>6, <1>11, <1>14, <2>1, ElementOfSeq DEF Sound
  <2>3. \A i \in 1..Len(P) : P[i] <= g.line + n - 1
    BY <1>1, <1>2, <2>2
  <2> QED BY <1>13, <1>14, <2>1, <2>3 DEF Sound
<1>16. BegunAbove(h, p)
  <2>1. \A x \in Nodes(T) : g.from[x] \in Nat /\ g.from[x] <= g.line
    BY <1>1, <1>4 DEF Good, GoodBut, BegunAbove, Formatter
  <2> QED BY <1>1, <1>10, <1>13, <2>1 DEF BegunAbove
<1>17. EndTogether(h, p)
  BY <1>13 DEF Good, GoodBut, EndTogether
<1>18. Stays(l, p, {}) => Stays(h, p, {})
  BY <1>13, <1>14 DEF Stays, NotPast, NotAbove, NotBelow, Beside
<1>19. Len(h.placed) = Len(doc.comments)
  BY <1>11, <1>13 DEF c
<1>20. Good(h, p)
  BY <1>1, <1>6, <1>13, <1>15, <1>16, <1>17, <1>18, <1>19 DEF Good, GoodBut
<1> QED BY <1>19, <1>20 DEF h
-----------------------------------------------------------------------------
(* What is left to print.                                                  *)

\* The places of the first and the last token a task prints.
Start(t) == IF t.k \in {"close", "close then", "end stmt", "end if", "end func", "end list"}
            THEN T.last[t.id]
            ELSE IF t.k = "else" THEN T.first[T.node[t.id].else[1]] ELSE T.first[t.id]

Stop(t) == IF t.k = "else" THEN T.last[T.node[t.id].else[1]] ELSE T.last[t.id]

IsTask(t) ==
    \/ t.k \in {"line", "clause"} /\ t.id \in Of(T, {"text"})
    \/ t.k \in {"block", "body", "then", "close", "close then"} /\ t.id \in Of(T, {"block"})
    \/ t.k \in {"if", "end if", "end stmt"} /\ t.id \in Of(T, {"if"})
    \/ t.k = "else" /\ t.id \in Of(T, {"if"}) /\ T.node[t.id].else # <<>>
    \/ t.k \in {"list", "end list"} /\ t.id \in Of(T, {"list"})
    \/ t.k \in {"func", "end func"} /\ t.id \in Of(T, {"func"})
    \/ t.k \in {"item", "next"} /\ t.id \in Of(T, Line)

TaskSet == { t \in [k : Kind, id : Nodes(T)] : IsTask(t) }

\* The node whose `}` a task prints last.
Closing(t) == IF t.k = "else" THEN T.node[t.id].else[1] ELSE t.id

Begin  == {"list", "func", "item", "next"}
Whole  == {"block", "body", "close", "else", "end if"}
Ending == {"end stmt", "end if", "end func"}
Row    == {"line", "if", "end stmt"}

\* A task that may be followed by another.
Before(t, u) ==
    /\ Start(u) = Stop(t) + 1
    /\ \/ t.k \in Row /\ u.k \in {"line", "if", "close", "close then", "end list"}
       \/ t.k \in Whole /\ u.k \in Ending /\ LastPart(T, u.id) = Closing(t)
       \/ t.k \in {"then", "close then"} /\ u.k = "else"
       \/ t.k = "clause" /\ u.k \in {"clause", "body"}
       \/ t.k \in Begin \cup {"end list", "end func"} /\ u.k \in Begin

Chained(s) == s \in Seq(TaskSet) /\ \A i \in 1..Len(s) : i < Len(s) => Before(s[i], s[i + 1])

\* Chained up to the end of the file.
Covers(s) == Chained(s) /\ (s # <<>> => Stop(s[Len(s)]) = T.size)

Place(s) == IF s = <<>> THEN T.size + 1 ELSE Start(s[1])

\* What a task must find of the output, and what it leaves to the next.
Need(t, g) ==
    /\ t.k \in {"line", "if", "close", "close then", "end list"} => g.fresh
    /\ t.k \in {"block", "then", "else"} => ~g.ended
    /\ t.k \in Ending => LET l == LastPart(T, t.id)
                         IN  g.to[l] = g.line /\ (g.ended => Pending(g, doc.to[l] + 1))
    /\ t.k \in Begin \ {"next"} => g.sep \/ g.fresh

Gives(t, g) ==
    /\ t.k \in Row => g.fresh
    /\ t.k \in Whole => LET l == Closing(t)
                        IN  g.to[l] = g.line /\ (g.ended => Pending(g, doc.to[l] + 1))
    /\ t.k \in {"then", "close then"} => ~g.ended
    /\ t.k \in Begin \cup {"end list", "end func"} => g.sep

\* The printer may go on.
Ready(s, g) == Covers(s) /\ Good(g, Place(s)) /\ (s # <<>> => Need(s[1], g))

LEMMA GivesNeed ==
    ASSUME NEW t, NEW u, NEW g, Before(t, u), Gives(t, g)
    PROVE  Need(u, g)
BY DEF Before, Gives, Need, Row, Whole, Ending, Begin

LEMMA ConcatChained ==
    ASSUME NEW s, NEW r, Chained(s), Chained(r), r # <<>>,
           s # <<>> => Before(s[Len(s)], r[1])
    PROVE  /\ Chained(s \o r) /\ s \o r # <<>>
           /\ (s \o r)[1] = IF s = <<>> THEN r[1] ELSE s[1]
           /\ (s \o r)[Len(s \o r)] = r[Len(r)]
<1> DEFINE q == s \o r
           m == Len(s)
           n == Len(r)
<1>1. s \in Seq(TaskSet) /\ r \in Seq(TaskSet)
  BY DEF Chained
<1>2. /\ q \in Seq(TaskSet) /\ Len(q) = m + n
      /\ \A i \in 1..(m + n) : q[i] = IF i <= m THEN s[i] ELSE r[i - m]
  BY <1>1, ConcatProperties
<1>3. m \in Nat /\ n \in Nat \ {0} /\ (s = <<>> => m = 0) /\ (s # <<>> => m > 0)
  BY <1>1, EmptySeq, LenProperties
<1>4. /\ \A i \in 1..m : i < m => Before(s[i], s[i + 1])
      /\ \A i \in 1..n : i < n => Before(r[i], r[i + 1])
      /\ s # <<>> => Before(s[m], r[1])
  BY DEF Chained
<1> HIDE DEF q, m, n
<1>5. ASSUME NEW i \in 1..(m + n), i < m + n PROVE Before(q[i], q[i + 1])
  <2>1. CASE i < m
    BY <1>2, <1>3, <1>4, <1>5, <2>1
  <2>2. CASE i = m
    BY <1>2, <1>3, <1>4, <1>5, <2>2
  <2>3. CASE i > m
    <3>1. i - m \in 1..n /\ i - m < n /\ (i + 1) - m = (i - m) + 1
      BY <1>3, <1>5, <2>3
    <3>2. q[i] = r[i - m] /\ q[i + 1] = r[(i - m) + 1]
      BY <1>2, <1>3, <1>5, <2>3, <3>1
    <3> QED BY <1>4, <3>1, <3>2
  <2> QED BY <1>3, <1>5, <2>1, <2>2, <2>3
<1>6. Chained(q)
  BY <1>2, <1>5 DEF Chained
<1>7. q # <<>>
  BY <1>2, <1>3, EmptySeq
<1>8. q[1] = IF s = <<>> THEN r[1] ELSE s[1]
  BY <1>2, <1>3
<1>9. q[m + n] = r[n]
  BY <1>2, <1>3
<1> QED BY <1>2, <1>6, <1>7, <1>8, <1>9 DEF q, n

\* A task that is done gives way to the next.
LEMMA Done ==
    ASSUME DocOK, NEW s, s # <<>>, Covers(s), NEW g, Good(g, Stop(s[1]) + 1), Gives(s[1], g)
    PROVE  Ready(Tail(s), g)
<1> DEFINE r == Tail(s)
<1>1. s \in Seq(TaskSet) /\ Len(s) \in Nat /\ Len(s) # 0
  BY EmptySeq DEF Covers, Chained
<1>2. /\ r \in Seq(TaskSet) /\ Len(r) = Len(s) - 1
      /\ \A i \in 1..Len(r) : r[i] = s[i + 1]
  BY <1>1, HeadTailProperties
<1>3. /\ \A i \in 1..Len(s) : i < Len(s) => Before(s[i], s[i + 1])
      /\ Stop(s[Len(s)]) = T.size
  BY DEF Covers, Chained
<1> HIDE DEF r
<1>4. \A i \in 1..Len(r) : i < Len(r) => Before(r[i], r[i + 1])
  BY <1>1, <1>2, <1>3
<1>5. CASE r = <<>>
  <2>1. Len(s) = 1
    BY <1>1, <1>2, <1>5, EmptySeq
  <2> QED BY <1>2, <1>3, <1>4, <1>5, <2>1 DEF Ready, Covers, Chained, Place, r
<1>6. CASE r # <<>>
  <2>1. Len(r) \in Nat /\ Len(r) > 0
    BY <1>2, <1>6, EmptySeq
  <2>2. 1 < Len(s) /\ r[1] = s[2] /\ r[Len(r)] = s[Len(s)]
    BY <1>1, <1>2, <2>1
  <2>3. Before(s[1], r[1])
    BY <1>1, <1>3, <2>2
  <2>4. Need(r[1], g)
    BY <2>3, GivesNeed
  <2>5. Place(r) = Stop(s[1]) + 1
    BY <1>6, <2>3 DEF Place, Before
  <2> QED BY <1>2, <1>3, <1>4, <2>2, <2>4, <2>5 DEF Ready, Covers, Chained, r
<1> QED BY <1>5, <1>6

\* A task gives way to what it is made of.
LEMMA Calls ==
    ASSUME DocOK, NEW s, s # <<>>, Covers(s), NEW r, Chained(r), r # <<>>,
           Stop(r[Len(r)]) = Stop(s[1]),
           \A u : Before(s[1], u) => Before(r[Len(r)], u),
           NEW g, Good(g, Start(r[1])), Need(r[1], g)
    PROVE  Ready(r \o Tail(s), g)
<1> DEFINE q == Tail(s)
<1>1. s \in Seq(TaskSet) /\ Len(s) \in Nat /\ Len(s) # 0
  BY EmptySeq DEF Covers, Chained
<1>2. /\ q \in Seq(TaskSet) /\ Len(q) = Len(s) - 1
      /\ \A i \in 1..Len(q) : q[i] = s[i + 1]
  BY <1>1, HeadTailProperties
<1>3. /\ \A i \in 1..Len(s) : i < Len(s) => Before(s[i], s[i + 1])
      /\ Stop(s[Len(s)]) = T.size
  BY DEF Covers, Chained
<1> HIDE DEF q
<1>4. \A i \in 1..Len(q) : i < Len(q) => Before(q[i], q[i + 1])
  BY <1>1, <1>2, <1>3
<1>5. CASE q = <<>>
  <2>1. Len(s) = 1
    BY <1>1, <1>2, <1>5, EmptySeq
  <2>2. r \o q = r
    BY <1>5, ConcatEmptySeq DEF Chained
  <2> QED BY <1>3, <2>1, <2>2 DEF Ready, Covers, Place, q
<1>6. CASE q # <<>>
  <2>1. Len(q) \in Nat /\ Len(q) > 0
    BY <1>2, <1>6, EmptySeq
  <2>2. 1 < Len(s) /\ q[1] = s[2] /\ q[Len(q)] = s[Len(s)]
    BY <1>1, <1>2, <2>1
  <2>3. Before(r[Len(r)], q[1])
    BY <1>1, <1>3, <2>2
  <2>4. Chained(q)
    BY <1>2, <1>4 DEF Chained
  <2>5. /\ Chained(r \o q) /\ r \o q # <<>>
        /\ (r \o q)[1] = r[1] /\ (r \o q)[Len(r \o q)] = q[Len(q)]
    BY <1>6, <2>3, <2>4, ConcatChained
  <2> QED BY <1>3, <2>2, <2>5 DEF Ready, Covers, Place, q
<1> QED BY <1>5, <1>6

\* The tasks of nodes that follow each other.
LEMMA RowOf ==
    ASSUME DocOK, NEW K \in {{"line", "if"}, {"clause"}, Begin},
           NEW ids \in Seq(Nodes(T)), NEW s \in Seq(TaskSet), Len(s) = Len(ids),
           \A i \in 1..Len(ids) : s[i].id = ids[i] /\ s[i].k \in K,
           NEW a, NEW z, Fill(T, ids, a, z)
    PROVE  /\ Chained(s) /\ (s = <<>> <=> ids = <<>>) /\ (s = <<>> => a = z)
           /\ s # <<>> => /\ s[1].k \in K /\ s[Len(s)].k \in K
                          /\ Start(s[1]) = a /\ Stop(s[Len(s)]) + 1 = z
<1> DEFINE n == Len(s)
<1>1. n \in Nat /\ (s = <<>> <=> n = 0) /\ (ids = <<>> <=> n = 0)
  BY EmptySeq, LenProperties
<1>2. \A i \in 1..n : /\ s[i].id = ids[i] /\ s[i].k \in K
                      /\ Start(s[i]) = T.first[ids[i]] /\ Stop(s[i]) = T.last[ids[i]]
  BY DEF Start, Stop, Begin
<1>3. /\ IF n = 0 THEN z = a ELSE T.first[ids[1]] = a /\ T.last[ids[n]] + 1 = z
      /\ \A i \in 1..n : i < n => T.first[ids[i + 1]] = T.last[ids[i]] + 1
  BY <1>1 DEF Fill
<1> HIDE DEF n
<1>4. ASSUME NEW i \in 1..n, i < n PROVE Before(s[i], s[i + 1])
  <2>1. i + 1 \in 1..n
    BY <1>1, <1>4
  <2>2. Start(s[i + 1]) = Stop(s[i]) + 1
    BY <1>2, <1>3, <1>4, <2>1
  <2>3. s[i].k \in K /\ s[i + 1].k \in K
    BY <1>2, <2>1
  <2> QED BY <2>2, <2>3 DEF Before, Row, Begin
<1>5. Chained(s)
  BY <1>4 DEF Chained, n
<1>6. ASSUME s # <<>>
      PROVE  /\ s[1].k \in K /\ s[n].k \in K
             /\ Start(s[1]) = a /\ Stop(s[n]) + 1 = z
  <2>1. n # 0 /\ 1 \in 1..n /\ n \in 1..n
    BY <1>1, <1>6
  <2> QED BY <1>2, <1>3, <2>1
<1>7. s = <<>> => a = z
  BY <1>1, <1>3
<1> QED BY <1>1, <1>5, <1>6, <1>7 DEF n

LEMMA OneTask ==
    ASSUME NEW t \in TaskSet
    PROVE  Chained(<<t>>) /\ <<t>> # <<>> /\ Len(<<t>>) = 1 /\ <<t>>[1] = t
<1>1. <<t>> \in Seq(TaskSet) /\ Len(<<t>>) = 1 /\ <<t>>[1] = t
  OBVIOUS
<1>2. \A i \in 1..1 : ~(i < 1)
  OBVIOUS
<1> QED BY <1>1, <1>2 DEF Chained

LEMMA TwoTasks ==
    ASSUME NEW t \in TaskSet, NEW u \in TaskSet, Before(t, u)
    PROVE  Chained(<<t, u>>) /\ <<t, u>> # <<>> /\ Len(<<t, u>>) = 2 /\ <<t, u>>[1] = t /\ <<t, u>>[2] = u
<1>1. <<t, u>> \in Seq(TaskSet) /\ Len(<<t, u>>) = 2 /\ <<t, u>>[1] = t /\ <<t, u>>[2] = u
  OBVIOUS
<1>2. \A i \in 1..2 : i < 2 => i = 1 /\ i + 1 = 2
  OBVIOUS
<1> QED BY <1>1, <1>2 DEF Chained

LEMMA TaskIn ==
    ASSUME NEW k \in Kind, NEW id \in Nodes(T), IsTask([k |-> k, id |-> id])
    PROVE  Task(k, id) \in TaskSet /\ Task(k, id).k = k /\ Task(k, id).id = id
BY DEF Task, TaskSet

\* The task at the head.
LEMMA First ==
    ASSUME DocOK, Ready(todo, f), todo # <<>>
    PROVE  /\ Head(todo) = todo[1] /\ todo[1] \in TaskSet
           /\ IsTask(todo[1]) /\ todo[1].k \in Kind /\ todo[1].id \in Nodes(T) /\ Id = todo[1].id
           /\ Node = T.node[Id]
           /\ Good(f, Start(todo[1])) /\ Need(todo[1], f) /\ f \in Formatter
           /\ Covers(todo)
<1>1. todo \in Seq(TaskSet)
  BY DEF Ready, Covers, Chained
<1>2. todo[1] \in TaskSet /\ Head(todo) = todo[1]
  <2>1. Len(todo) \in Nat /\ Len(todo) # 0
    BY <1>1, EmptySeq
  <2>2. todo[1] \in TaskSet
    BY <1>1, <2>1, ElementOfSeq
  <2> QED BY <1>1, <2>2, HeadTailProperties
<1>3. Good(f, Start(todo[1])) /\ Need(todo[1], f) /\ f \in Formatter /\ Covers(todo)
  BY DEF Ready, Place, Good, GoodBut
<1> QED BY <1>2, <1>3 DEF TaskSet, Id, Node, T

\* What is printed and calls nothing.
LEMMA Finished ==
    ASSUME DocOK, Ready(todo, f), todo # <<>>,
           NEW g, Good(g, Stop(todo[1]) + 1), Gives(todo[1], g), Prints(g, <<>>)
    PROVE  Ready(todo', f')
<1>1. Tail(todo) \in Seq(TaskSet)
  BY HeadTailProperties DEF Ready, Covers, Chained
<1>2. todo' = Tail(todo) /\ f' = g
  BY <1>1, ConcatEmptySeq DEF Prints
<1>3. Ready(Tail(todo), g)
  BY First, Done
<1> QED BY <1>2, <1>3

\* What calls the tasks of r.
LEMMA Called ==
    ASSUME DocOK, Ready(todo, f), todo # <<>>,
           NEW r, Chained(r), r # <<>>, Stop(r[Len(r)]) = Stop(todo[1]),
           \A u : Before(todo[1], u) => Before(r[Len(r)], u),
           NEW g, Good(g, Start(r[1])), Need(r[1], g), Prints(g, r)
    PROVE  Ready(todo', f')
<1>1. todo' = r \o Tail(todo) /\ f' = g
  BY DEF Prints
<1>2. Ready(r \o Tail(todo), g)
  BY First, Calls
<1> QED BY <1>1, <1>2
-----------------------------------------------------------------------------
(* One lemma per action.                                                   *)

LEMMA SingleReady ==
    ASSUME DocOK, Ready(todo, f), Single
    PROVE  Ready(todo', f')
<1> DEFINE t == Text(FlushLeading(f, doc.from[Id]), Id)
           h == FlushTrailing(t, doc.to[Id])
<1>1. todo # <<>> /\ todo[1].k = "line" /\ Prints(Newline(h), <<>>)
  BY First DEF Single, At
<1>2. Id \in Of(T, Line) /\ Start(todo[1]) = T.first[Id] /\ Stop(todo[1]) = T.last[Id]
  BY <1>1, First DEF IsTask, Of, Line, Start, Stop
<1>3. Good(f, T.first[Id]) /\ f.fresh
  BY <1>1, <1>2, First DEF Need
<1>4. Good(h, T.last[Id] + 1)
  BY <1>2, <1>3, GoodPiece
<1> HIDE DEF h
<1>5. Good(Newline(h), T.last[Id] + 1) /\ Newline(h).fresh
  BY <1>4, GoodNewline
<1>6. Gives(todo[1], Newline(h))
  BY <1>1, <1>5 DEF Gives, Whole, Begin
<1> QED BY <1>1, <1>2, <1>5, <1>6, Finished

LEMMA ClauseReady ==
    ASSUME DocOK, Ready(todo, f), Clause
    PROVE  Ready(todo', f')
<1> DEFINE t == Text(FlushLeading(Newline(f), doc.from[Id]), Id)
           h == FlushTrailing(t, doc.to[Id])
<1>1. todo # <<>> /\ todo[1].k = "clause" /\ Prints(h, <<>>)
  BY First DEF Clause, At
<1>2. Id \in Of(T, Line) /\ Start(todo[1]) = T.first[Id] /\ Stop(todo[1]) = T.last[Id]
  BY <1>1, First DEF IsTask, Of, Line, Start, Stop
<1>3. Good(f, T.first[Id])
  BY <1>1, <1>2, First
<1>4. Good(Newline(f), T.first[Id]) /\ Newline(f).fresh
  BY <1>3, GoodNewline
<1>5. Good(h, T.last[Id] + 1)
  BY <1>2, <1>4, GoodPiece
<1> HIDE DEF h
<1>6. Gives(todo[1], h)
  BY <1>1 DEF Gives, Row, Whole, Begin
<1> QED BY <1>1, <1>2, <1>5, <1>6, Finished

LEMMA BlockEndReady ==
    ASSUME DocOK, Ready(todo, f), BlockEnd
    PROVE  Ready(todo', f')
<1> DEFINE l == FlushLeading(f, doc.to[Id])
           trailing == Head(todo).k = "close"
           h == Closed(l, Id, trailing)
<1>1. todo # <<>> /\ todo[1].k \in {"close", "close then"} /\ Prints(h, <<>>)
      /\ (trailing <=> todo[1].k = "close")
  BY First DEF BlockEnd, At
<1>2. Id \in Of(T, {"block"}) /\ Id \in Nodes(T) /\ Start(todo[1]) = T.last[Id] /\ Stop(todo[1]) = T.last[Id]
  BY <1>1, First DEF IsTask, Start, Stop
<1>3. Good(f, T.last[Id]) /\ f.fresh
  BY <1>1, <1>2, First DEF Need
<1>4. Good(l, T.last[Id]) /\ ~l.ended /\ Pending(l, doc.to[Id])
  BY <1>2, <1>3, TreeType, NextAboveAll, GoodLeading
<1>5. trailing \in BOOLEAN
  OBVIOUS
<1> HIDE DEF trailing, l
<1>6. /\ Good(h, T.last[Id] + 1) /\ h.to[Id] = h.line
      /\ h.ended => Pending(h, doc.to[Id] + 1)
      /\ ~trailing => ~h.ended
  BY <1>2, <1>4, <1>5, GoodClosed
<1> HIDE DEF h
<1>7. Gives(todo[1], h)
  <2>1. Closing(todo[1]) = Id
    BY <1>1, First DEF Closing
  <2> QED BY <1>1, <1>6, <2>1 DEF Gives, Row, Whole, Begin
<1> QED BY <1>1, <1>2, <1>6, <1>7, Finished

LEMMA BlockReady ==
    ASSUME DocOK, Ready(todo, f), Block
    PROVE  Ready(todo', f')
<1> DEFINE k     == Head(todo).k
           p     == T.first[Id]
           g     == IF k = "body" THEN Newline(f) ELSE f
           open  == Push(Begins(g, Id))
           inner == Newline(FlushTrailing(open, doc.from[Id]))
           close == Task(IF k = "then" THEN "close then" ELSE "close", Id)
           ids   == T.node[Id].stmts
           s     == Statements(ids)
           r     == s \o <<close>>
<1>1. todo # <<>> /\ todo[1].k \in {"block", "body", "then"} /\ k = todo[1].k /\ todo[1].id = Id
  BY First DEF Block, At
<1>2. IF ids = <<>> /\ ~Inside(open, Id) THEN Prints(Closed(open, Id, k # "then"), <<>>) ELSE Prints(inner, r)
  BY First, <1>1 DEF Block
<1>3. /\ Id \in Of(T, {"block"}) /\ Id \in Nodes(T)
      /\ Start(todo[1]) = p /\ Stop(todo[1]) = T.last[Id] /\ Closing(todo[1]) = Id
  BY <1>1, First DEF IsTask, Start, Stop, Closing
<1>4. /\ p \in Nat /\ T.last[Id] \in Nat /\ p < T.last[Id]
      /\ doc.from[Id] \in Nat /\ doc.to[Id] \in Nat /\ p + 1 \in Nat /\ p < p + 1
  BY <1>3, TreeType
<1>5. ids \in Seq(Of(T, {"text", "if"})) /\ Fill(T, ids, p + 1, T.last[Id])
  BY <1>3, Kinds
<1>6. Good(g, p) /\ ~g.ended
  <2>1. Good(f, p) /\ (k # "body" => ~f.ended)
    BY <1>1, <1>3, First DEF Need
  <2> QED BY <2>1, GoodNewline
<1> HIDE DEF g, p
<1>7. Good(open, p + 1) /\ ~open.ended
  BY <1>3, <1>6, GoodOpen DEF p
<1>8. open \in Formatter /\ Len(open.placed) <= Len(doc.comments)
  BY <1>7 DEF Good, GoodBut
<1> HIDE DEF open
<1>9. CASE ids = <<>> /\ ~Inside(open, Id)
  <2> DEFINE h == Closed(open, Id, k # "then")
             trailing == k # "then"
  <2>1. T.last[Id] = p + 1
    BY <1>5, <1>9 DEF Fill
  <2>2. Pending(open, doc.to[Id])
    <3>1. ASSUME Left(open) > 0 PROVE Peek(open, 1) >= doc.to[Id]
      <4>1. Peek(open, 1) \in Nat
        <5> DEFINE m == Len(open.placed)
                   c == Len(doc.comments)
        <5>1. m \in Nat /\ c \in Nat /\ c - m > 0 /\ \A i \in 1..c : doc.comments[i] \in Nat
          BY <1>8, <3>1, CommentTypes DEF Left
        <5> HIDE DEF m, c
        <5>2. doc.comments[m + 1] \in Nat
          BY <5>1
        <5> QED BY <5>2 DEF Peek, m
      <4>2. ~(Peek(open, 1) < doc.to[Id])
        BY <1>9, <3>1 DEF Inside
      <4> QED BY <1>4, <4>1, <4>2
    <3> QED BY <1>4, <1>8, <3>1, PendingMore
  <2>3. trailing \in BOOLEAN
    OBVIOUS
  <2>4. h = Closed(open, Id, trailing)
    OBVIOUS
  <2>5. Prints(h, <<>>)
    BY <1>2, <1>9
  <2> HIDE DEF trailing, h
  <2>6. /\ Good(h, T.last[Id] + 1) /\ h.to[Id] = h.line
        /\ h.ended => Pending(h, doc.to[Id] + 1)
        /\ ~trailing => ~h.ended
    BY <1>3, <1>7, <2>1, <2>2, <2>3, <2>4, GoodClosed
  <2>7. Gives(todo[1], h)
    BY <1>1, <1>3, <2>6 DEF Gives, Row, Whole, Begin, trailing
  <2> QED BY <1>1, <1>3, <2>5, <2>6, <2>7, Finished
<1>10. CASE ~(ids = <<>> /\ ~Inside(open, Id))
  <2>1. Good(inner, p + 1) /\ inner.fresh
    <3>1. ~Alone(doc, Id)
      BY <1>3 DEF Alone, Of, Line, T
    <3>2. BeforeAll(doc.from[Id], p + 1)
      BY <1>3, <1>4, <3>1, LastBeforeAll DEF p
    <3>3. Good(FlushTrailing(open, doc.from[Id]), p + 1)
      BY <1>4, <1>7, <3>2, GoodTrailing
    <3> QED BY <3>3, GoodNewline
  <2>2. Prints(inner, r)
    BY <1>2, <1>10
  <2>3. /\ close \in TaskSet /\ close.id = Id
        /\ close.k = IF k = "then" THEN "close then" ELSE "close"
    <3> DEFINE c == IF k = "then" THEN "close then" ELSE "close"
    <3>1. c \in Kind /\ c \in {"close", "close then"}
      BY DEF Kind
    <3>2. close = Task(c, Id)
      OBVIOUS
    <3>3. IsTask([k |-> c, id |-> Id])
      <4> HIDE DEF c
      <4> QED BY <1>3, <3>1 DEF IsTask
    <3>4. Task(c, Id) \in TaskSet /\ Task(c, Id).k = c /\ Task(c, Id).id = Id
      <4> HIDE DEF c
      <4> QED BY <1>3, <3>1, <3>3, TaskIn
    <3> QED BY <3>2, <3>4
  <2> HIDE DEF close, inner
  <2>4. Start(close) = T.last[Id] /\ Stop(close) = T.last[Id] /\ Closing(close) = Id
    BY <2>3 DEF Start, Stop, Closing
  <2>5. /\ s \in Seq(TaskSet) /\ Len(s) = Len(ids) /\ ids \in Seq(Nodes(T))
        /\ \A i \in 1..Len(ids) : s[i].id = ids[i] /\ s[i].k \in {"line", "if"}
    <3> DEFINE tk(i) == Task(IF T.node[ids[i]].k = "if" THEN "if" ELSE "line", ids[i])
    <3>1. s = [i \in 1..Len(ids) |-> tk(i)]
      BY DEF Statements, T
    <3>2. \A i \in 1..Len(ids) : ids[i] \in Of(T, {"text", "if"})
      BY <1>5, ElementOfSeq
    <3>3. \A i \in 1..Len(ids) : /\ tk(i) \in TaskSet
                                 /\ tk(i).id = ids[i] /\ tk(i).k \in {"line", "if"}
      <4>1. SUFFICES ASSUME NEW x \in Of(T, {"text", "if"})
                     PROVE  LET t == Task(IF T.node[x].k = "if" THEN "if" ELSE "line", x)
                            IN  t \in TaskSet /\ t.id = x /\ t.k \in {"line", "if"}
        BY <3>2
      <4>2. CASE T.node[x].k = "if"
        BY <4>2 DEF Task, TaskSet, Kind, IsTask, Of
      <4>3. CASE T.node[x].k # "if"
        BY <4>3 DEF Task, TaskSet, Kind, IsTask, Of
      <4> QED BY <4>2, <4>3
    <3>4. Len(ids) \in Nat /\ ids \in Seq(Nodes(T))
      <4>1. Of(T, {"text", "if"}) \subseteq Nodes(T)
        BY DEF Of
      <4> QED BY <1>5, <4>1, LenProperties, SeqMonotonic
    <3> HIDE DEF tk
    <3>5. s \in Seq(TaskSet) /\ Len(s) = Len(ids)
      BY <3>1, <3>3, <3>4
    <3> QED BY <3>1, <3>3, <3>4, <3>5
  <2> HIDE DEF s
  <2>6. /\ Chained(s) /\ (s = <<>> => p + 1 = T.last[Id])
        /\ s # <<>> => /\ s[1].k \in {"line", "if"} /\ s[Len(s)].k \in {"line", "if"}
                       /\ Start(s[1]) = p + 1 /\ Stop(s[Len(s)]) + 1 = T.last[Id]
    <3> HIDE DEF ids
    <3> QED BY <1>5, <2>5, RowOf
  <2> DEFINE c == <<close>>
  <2>7. Chained(c) /\ c # <<>> /\ Len(c) = 1 /\ c[1] = close
    BY <2>3, OneTask
  <2> HIDE DEF c
  <2>8. s # <<>> => Before(s[Len(s)], c[1])
    BY <2>3, <2>4, <2>6, <2>7 DEF Before, Row
  <2>9. /\ Chained(r) /\ r # <<>>
        /\ r[1] = (IF s = <<>> THEN close ELSE s[1])
        /\ r[Len(r)] = close
    <3>1. r = s \o c
      BY DEF c
    <3> HIDE DEF r
    <3> QED BY <2>6, <2>7, <2>8, <3>1, ConcatChained
  <2> HIDE DEF r
  <2>10. Start(r[1]) = p + 1 /\ r[1].k \in {"line", "if", "close", "close then"}
    BY <2>3, <2>4, <2>6, <2>9
  <2>11. Need(r[1], inner)
    BY <2>1, <2>10 DEF Need, Ending, Begin
  <2>12. ASSUME NEW u, Before(todo[1], u) PROVE Before(close, u)
    BY <1>1, <1>3, <2>3, <2>4, <2>12 DEF Before, Row, Whole, Begin
  <2>13. Stop(r[Len(r)]) = Stop(todo[1])
    BY <1>3, <2>4, <2>9
  <2> QED BY <1>1, <2>1, <2>2, <2>9, <2>10, <2>11, <2>12, <2>13, Called
<1> QED BY <1>9, <1>10

\* The branches of an `if`, and what ends it.
LEMMA BranchesChained ==
    ASSUME DocOK, NEW id \in Of(T, {"if"}), NEW k \in {"end stmt", "end if"}, NEW g, ~g.ended
    PROVE  LET r == Branches(id) \o <<Task(k, id)>>
           IN  /\ Chained(r) /\ r # <<>> /\ r[Len(r)] = Task(k, id)
               /\ Start(r[1]) = T.first[id] + 1 /\ Need(r[1], g)
<1> DEFINE n == T.node[id]
           end == Task(k, id)
           b == Branches(id)
           r == b \o <<end>>
<1>1. /\ id \in Nodes(T) /\ n.then \in Of(T, {"block"}) /\ n.then \in Nodes(T)
      /\ n.else \in Seq(Of(T, {"block", "if"})) /\ Len(n.else) <= 1
      /\ T.first[n.then] = T.first[id] + 1 /\ Fill(T, n.else, T.last[n.then] + 1, T.last[id])
  BY Kinds DEF Of
<1>2. b = IF n.else = <<>> THEN <<Task("block", n.then)>> ELSE <<Task("then", n.then), Task("else", id)>>
  BY DEF Branches, T
<1>3. end \in TaskSet /\ end.k = k /\ end.id = id /\ Start(end) = T.last[id]
  BY <1>1 DEF Task, TaskSet, Kind, IsTask, Start
<1> DEFINE c == <<end>>
<1>4. Chained(c) /\ c # <<>> /\ Len(c) = 1 /\ c[1] = end
  <2> HIDE DEF end
  <2> QED BY <1>3, OneTask
<1>5. LastPart(T, id) = IF n.else = <<>> THEN n.then ELSE n.else[1]
  BY DEF LastPart, Of
<1>0. r = b \o c
  OBVIOUS
<1> HIDE DEF end, b, c, r
<1>6. /\ Chained(b) /\ b # <<>> /\ Before(b[Len(b)], end)
      /\ Start(b[1]) = T.first[id] + 1 /\ b[1].k \in {"block", "then"}
  <2>1. CASE n.else = <<>>
    <3> DEFINE t == Task("block", n.then)
    <3>1. t \in TaskSet /\ t.k = "block" /\ t.id = n.then
      BY <1>1 DEF Task, TaskSet, Kind, IsTask
    <3> HIDE DEF t
    <3>2. Start(t) = T.first[id] + 1 /\ Stop(t) = T.last[n.then] /\ Closing(t) = n.then
      BY <1>1, <3>1 DEF Start, Stop, Closing
    <3>3. T.last[id] = T.last[n.then] + 1
      BY <1>1, <2>1 DEF Fill
    <3>4. b = <<t>> /\ Chained(<<t>>) /\ <<t>> # <<>> /\ Len(<<t>>) = 1 /\ <<t>>[1] = t
      BY <1>2, <2>1, <3>1, OneTask DEF t
    <3>5. Before(t, end)
      BY <1>3, <1>5, <2>1, <3>1, <3>2, <3>3 DEF Before, Whole, Ending
    <3> QED BY <3>1, <3>2, <3>4, <3>5
  <2>2. CASE n.else # <<>>
    <3> DEFINE t == Task("then", n.then)
               u == Task("else", id)
    <3>1. t \in TaskSet /\ t.k = "then" /\ t.id = n.then
      BY <1>1 DEF Task, TaskSet, Kind, IsTask
    <3>2. u \in TaskSet /\ u.k = "else" /\ u.id = id
      BY <1>1, <2>2 DEF Task, TaskSet, Kind, IsTask
    <3> HIDE DEF t, u
    <3>3. Len(n.else) = 1
      BY <1>1, <2>2, OnlyOne
    <3>4. T.first[n.else[1]] = T.last[n.then] + 1 /\ T.last[n.else[1]] + 1 = T.last[id]
      BY <1>1, <2>2, <3>3 DEF Fill
    <3>5. /\ Start(t) = T.first[id] + 1 /\ Stop(t) = T.last[n.then]
          /\ Start(u) = T.last[n.then] + 1 /\ Stop(u) + 1 = T.last[id] /\ Closing(u) = n.else[1]
      BY <1>1, <3>1, <3>2, <3>4 DEF Start, Stop, Closing
    <3>6. Before(t, u) /\ Before(u, end)
      BY <1>3, <1>5, <2>2, <3>1, <3>2, <3>5 DEF Before, Whole, Ending
    <3>7. /\ Chained(<<t, u>>) /\ <<t, u>> # <<>> /\ Len(<<t, u>>) = 2
          /\ <<t, u>>[1] = t /\ <<t, u>>[2] = u
      BY <3>1, <3>2, <3>6, TwoTasks
    <3>8. b = <<t, u>>
      BY <1>2, <2>2 DEF t, u
    <3> QED BY <3>1, <3>5, <3>6, <3>7, <3>8
  <2> QED BY <2>1, <2>2
<1>7. Chained(r) /\ r # <<>> /\ r[1] = b[1] /\ r[Len(r)] = end
  <2>1. b # <<>> => Before(b[Len(b)], c[1])
    BY <1>4, <1>6
  <2>2. /\ Chained(b \o c) /\ b \o c # <<>>
        /\ (b \o c)[1] = IF b = <<>> THEN c[1] ELSE b[1]
        /\ (b \o c)[Len(b \o c)] = c[Len(c)]
    BY <1>4, <1>6, <2>1, ConcatChained
  <2> QED BY <1>0, <1>4, <1>6, <2>2
<1>8. Need(b[1], g)
  BY <1>6 DEF Need, Ending, Begin
<1> QED BY <1>6, <1>7, <1>8 DEF r, c, end, b

LEMMA IfReady ==
    ASSUME DocOK, Ready(todo, f), If
    PROVE  Ready(todo', f')
<1> DEFINE p == T.first[Id]
           l == FlushLeading(f, doc.from[Id])
           g == Push(Begins(l, Id))
           e == Task("end stmt", Id)
           r == Branches(Id) \o <<e>>
<1>1. todo # <<>> /\ todo[1].k = "if" /\ Prints(g, r)
  BY First DEF If, At
<1>2. /\ Id \in Of(T, {"if"}) /\ Id \in Nodes(T)
      /\ Start(todo[1]) = p /\ Stop(todo[1]) = T.last[Id]
  BY <1>1, First DEF IsTask, Start, Stop
<1>3. Good(f, p) /\ f.fresh
  BY <1>1, <1>2, First DEF Need
<1>4. Good(l, p) /\ ~l.ended
  BY <1>2, <1>3, TreeType, NextAboveAll, GoodLeading
<1> HIDE DEF l
<1>5. Good(g, p + 1) /\ ~g.ended
  BY <1>2, <1>4, GoodOpen
<1> HIDE DEF g
<1>6. /\ Chained(r) /\ r # <<>> /\ r[Len(r)] = e
      /\ Start(r[1]) = p + 1 /\ Need(r[1], g)
  BY <1>2, <1>5, BranchesChained
<1> HIDE DEF r
<1>7. Stop(r[Len(r)]) = Stop(todo[1]) /\ r[Len(r)].k = "end stmt"
  <2>1. Stop(e) = T.last[Id] /\ e.k = "end stmt"
    BY DEF Stop, Task
  <2> HIDE DEF e
  <2> QED BY <1>2, <1>6, <2>1
<1>8. ASSUME NEW u, Before(todo[1], u) PROVE Before(r[Len(r)], u)
  BY <1>1, <1>7, <1>8 DEF Before, Row, Whole, Begin
<1> QED BY <1>1, <1>5, <1>6, <1>7, <1>8, Called

\* A comment behind what ends with its last block was printed with that block.
LEMMA TrailingOnce ==
    ASSUME DocOK, NEW g, NEW p, Good(g, p), NEW line \in Nat, BeforeAll(line, p),
           g.ended => Pending(g, line + 1)
    PROVE  Good(FlushTrailing(g, line), p)
<1>1. CASE ~g.ended
  BY <1>1, GoodTrailing
<1>2. CASE g.ended
  <2>1. g \in Formatter /\ Len(g.placed) <= Len(doc.comments)
    BY DEF Good, GoodBut
  <2>2. ASSUME Left(g) > 0 /\ Peek(g, 1) = line PROVE FALSE
    <3> DEFINE m == Len(g.placed)
               c == Len(doc.comments)
    <3>1. m \in Nat /\ c \in Nat /\ c - m > 0 /\ doc.comments[m + 1] = line
      BY <2>1, <2>2, CommentTypes DEF Left, Peek
    <3>2. \A i \in (m + 1)..c : doc.comments[i] >= line + 1
      BY <1>2 DEF Pending
    <3> HIDE DEF m, c
    <3>3. doc.comments[m + 1] >= line + 1
      BY <3>1, <3>2
    <3> QED BY <3>1, <3>3
  <2>3. FlushTrailing(g, line) = g
    BY <2>2 DEF FlushTrailing
  <2> QED BY <2>3
<1> QED BY <1>1, <1>2

LEMMA ElseReady ==
    ASSUME DocOK, Ready(todo, f), Else
    PROVE  Ready(todo', f')
<1> DEFINE n     == T.node[Id]
           e     == n.else[1]
           p     == T.first[e]
           close == doc.to[n.then]
           h     == IF Left(f) > 0 /\ Peek(f, 1) = close THEN Newline(FlushTrailing(f, close)) ELSE f
           g     == Push(h)
<1>1. todo # <<>> /\ todo[1].k = "else" /\ todo[1].id = Id
  BY First DEF Else, At
<1>2. IF T.node[e].k = "if" THEN Prints(Begins(g, e), Branches(e) \o <<Task("end if", e)>>)
      ELSE Prints(g, <<Task("block", e)>>)
  <2>1. Node = n
    BY <1>1, First
  <2> QED BY <2>1 DEF Else, T
<1>3. /\ Id \in Of(T, {"if"}) /\ Id \in Nodes(T) /\ n.else # <<>>
      /\ Start(todo[1]) = p /\ Stop(todo[1]) = T.last[e] /\ Closing(todo[1]) = e
  BY <1>1, First DEF IsTask, Start, Stop, Closing
<1>4. /\ n.then \in Of(T, {"block"}) /\ n.else \in Seq(Of(T, {"block", "if"})) /\ Len(n.else) <= 1
      /\ Fill(T, n.else, T.last[n.then] + 1, T.last[Id])
  BY <1>3, Kinds
<1>5. n.then \in Nodes(T) /\ e \in Of(T, {"block", "if"}) /\ e \in Nodes(T) /\ p = T.last[n.then] + 1
  BY <1>3, <1>4, OnlyOne DEF Fill, Of
<1>6. p \in Nat /\ T.first[n.then] < T.last[n.then] /\ T.first[n.then] < p /\ T.last[n.then] < p /\ close \in Nat
  BY <1>5, TreeType
<1>7. Good(f, p) /\ ~f.ended
  BY <1>1, <1>3, First DEF Need
<1> HIDE DEF e, p
<1>8. Good(h, p) /\ ~h.ended
  <2>1. BeforeAll(close, p)
    BY <1>5, <1>6, LastBeforeAll
  <2>2. Good(FlushTrailing(f, close), p)
    BY <1>6, <1>7, <2>1, GoodTrailing
  <2> QED BY <1>7, <2>2, GoodNewline
<1> HIDE DEF h
<1>9. Good(g, p) /\ ~g.ended
  BY <1>8, GoodPush
<1> HIDE DEF g
<1>10. CASE T.node[e].k = "if"
  <2> DEFINE b == Begins(g, e)
             t == Task("end if", e)
             r == Branches(e) \o <<t>>
  <2>1. Prints(b, r)
    BY <1>2, <1>10
  <2>2. Good(b, p + 1)
    BY <1>5, <1>9, GoodBegins DEF p
  <2>3. ~b.ended
    <3>1. g \in Formatter
      BY <1>9 DEF Good, GoodBut
    <3> QED BY <1>5, <1>9, <3>1, BeginsFields
  <2>4. e \in Of(T, {"if"})
    BY <1>5, <1>10 DEF Of
  <2> HIDE DEF b
  <2>5. /\ Chained(r) /\ r # <<>> /\ r[Len(r)] = t
        /\ Start(r[1]) = p + 1 /\ Need(r[1], b)
    BY <2>3, <2>4, BranchesChained DEF p
  <2>6. t.k = "end if" /\ Stop(t) = T.last[e] /\ Closing(t) = e
    BY DEF Task, Stop, Closing
  <2> HIDE DEF r, t
  <2>7. ASSUME NEW u, Before(todo[1], u) PROVE Before(r[Len(r)], u)
    BY <1>1, <1>3, <2>5, <2>6, <2>7 DEF Before, Row, Whole, Begin
  <2> QED BY <1>1, <1>3, <2>1, <2>2, <2>5, <2>6, <2>7, Called
<1>11. CASE T.node[e].k # "if"
  <2> DEFINE t == Task("block", e)
             r == <<t>>
  <2>1. Prints(g, r)
    BY <1>2, <1>11
  <2>2. e \in Of(T, {"block"})
    BY <1>5, <1>11 DEF Of
  <2>3. t \in TaskSet /\ t.k = "block" /\ Start(t) = p /\ Stop(t) = T.last[e] /\ Closing(t) = e
    BY <1>5, <2>2 DEF Task, TaskSet, Kind, IsTask, Start, Stop, Closing, p
  <2> HIDE DEF t
  <2>4. Chained(r) /\ r # <<>> /\ Len(r) = 1 /\ r[1] = t
    BY <2>3, OneTask
  <2> HIDE DEF r
  <2>5. Need(t, g)
    BY <1>9, <2>3 DEF Need, Ending, Begin
  <2>6. ASSUME NEW u, Before(todo[1], u) PROVE Before(t, u)
    BY <1>1, <1>3, <2>3, <2>6 DEF Before, Row, Whole, Begin
  <2> QED BY <1>1, <1>3, <1>9, <2>1, <2>3, <2>4, <2>5, <2>6, Called
<1> QED BY <1>10, <1>11

\* The end of a function or an `if` is on the line of its last block.
LEMMA GoodEnding ==
    ASSUME DocOK, Ready(todo, f), todo # <<>>, todo[1].k \in Ending
    PROVE  LET h == Ends(f, Id)
           IN  /\ Id \in Nodes(T) /\ Stop(todo[1]) = T.last[Id]
               /\ Good(h, T.last[Id] + 1) /\ h.to[Id] = h.line
               /\ h.ended => Pending(h, doc.to[Id] + 1)
               /\ BeforeAll(doc.to[Id], T.last[Id] + 1)
<1> DEFINE h == Ends(f, Id)
           l == LastPart(T, Id)
<1>1. /\ Id \in Of(T, {"if", "func"}) /\ Id \in Nodes(T) /\ todo[1].id = Id /\ f \in Formatter
      /\ Start(todo[1]) = T.last[Id] /\ Stop(todo[1]) = T.last[Id]
  BY First DEF IsTask, Ending, Of, Start, Stop
<1>2. Good(f, T.last[Id]) /\ f.to[l] = f.line /\ (f.ended => Pending(f, doc.to[l] + 1))
  BY <1>1, First DEF Need
<1>3. doc.to[Id] = doc.to[l]
  BY <1>1, LastPartEnds
<1>4. Id \notin Of(T, Line \ {"sig"}) /\ Id \notin Blocks(T) \ Of(T, {"func"})
  BY <1>1 DEF Of, Line, Blocks
<1>5. Good(h, T.last[Id] + 1)
  BY <1>1, <1>2, <1>4, GoodEnds
<1>6. /\ h.to = [f.to EXCEPT ![Id] = f.line] /\ h.line = f.line /\ h.placed = f.placed
      /\ (h.ended <=> f.ended)
  BY <1>1, EndsFields
<1>7. f.to \in [Nodes(T) -> Nat]
  BY <1>1 DEF Formatter
<1> HIDE DEF h, l
<1>8. h.to[Id] = h.line
  BY <1>1, <1>6, <1>7
<1>9. h.ended => Pending(h, doc.to[Id] + 1)
  BY <1>2, <1>3, <1>6 DEF Pending
<1>10. BeforeAll(doc.to[Id], T.last[Id] + 1)
  <2>1. T.first[Id] < T.last[Id] + 1 /\ T.last[Id] < T.last[Id] + 1 /\ T.last[Id] + 1 \in Nat
    BY <1>1, TreeType
  <2> QED BY <1>1, <2>1, LastBeforeAll
<1> QED BY <1>1, <1>5, <1>8, <1>9, <1>10 DEF h

LEMMA IfEndReady ==
    ASSUME DocOK, Ready(todo, f), IfEnd
    PROVE  Ready(todo', f')
<1> DEFINE h == Ends(f, Id)
<1>1. todo # <<>> /\ todo[1].k = "end if" /\ Prints(h, <<>>)
  BY First DEF IfEnd, At
<1>2. /\ Stop(todo[1]) = T.last[Id]
      /\ Good(h, T.last[Id] + 1) /\ h.to[Id] = h.line
      /\ h.ended => Pending(h, doc.to[Id] + 1)
  BY <1>1, GoodEnding DEF Ending
<1> HIDE DEF h
<1>3. Gives(todo[1], h)
  <2>1. Closing(todo[1]) = Id
    BY <1>1, First DEF Closing
  <2> QED BY <1>1, <1>2, <2>1 DEF Gives, Row, Whole, Begin
<1> QED BY <1>1, <1>2, <1>3, Finished

LEMMA StatementEndReady ==
    ASSUME DocOK, Ready(todo, f), StatementEnd
    PROVE  Ready(todo', f')
<1> DEFINE e == Ends(f, Id)
           h == Newline(FlushTrailing(e, doc.to[Id]))
<1>1. todo # <<>> /\ todo[1].k = "end stmt" /\ Prints(h, <<>>)
  BY First DEF StatementEnd, At
<1>2. /\ Stop(todo[1]) = T.last[Id] /\ Id \in Nodes(T)
      /\ Good(e, T.last[Id] + 1)
      /\ e.ended => Pending(e, doc.to[Id] + 1)
      /\ BeforeAll(doc.to[Id], T.last[Id] + 1)
  BY <1>1, GoodEnding DEF Ending
<1> HIDE DEF e
<1>3. Good(FlushTrailing(e, doc.to[Id]), T.last[Id] + 1)
  BY <1>2, TreeType, TrailingOnce
<1>4. Good(h, T.last[Id] + 1) /\ h.fresh
  BY <1>3, GoodNewline
<1> HIDE DEF h
<1>5. Gives(todo[1], h)
  BY <1>1, <1>4 DEF Gives, Row, Whole, Begin
<1> QED BY <1>1, <1>2, <1>4, <1>5, Finished

LEMMA FuncEndReady ==
    ASSUME DocOK, Ready(todo, f), FuncEnd
    PROVE  Ready(todo', f')
<1> DEFINE e == Ends(f, Id)
           h == Behind(e, Id)
<1>1. todo # <<>> /\ todo[1].k = "end func" /\ Prints(h, <<>>)
  BY First DEF FuncEnd, At
<1>2. /\ Stop(todo[1]) = T.last[Id] /\ Id \in Nodes(T)
      /\ Good(e, T.last[Id] + 1)
      /\ e.ended => Pending(e, doc.to[Id] + 1)
      /\ BeforeAll(doc.to[Id], T.last[Id] + 1)
  BY <1>1, GoodEnding DEF Ending
<1> HIDE DEF e
<1>3. Good(FlushTrailing(e, doc.to[Id]), T.last[Id] + 1)
  BY <1>2, TreeType, TrailingOnce
<1>4. Good(h, T.last[Id] + 1) /\ h.sep
  BY <1>2, <1>3, GoodBehind
<1> HIDE DEF h
<1>5. Gives(todo[1], h)
  BY <1>1, <1>4 DEF Gives, Row, Whole, Begin
<1> QED BY <1>1, <1>2, <1>4, <1>5, Finished

LEMMA FunctionIsSeq ==
    ASSUME NEW S, NEW n \in Nat, NEW s \in [1..n -> S]
    PROVE  s \in Seq(S) /\ Len(s) = n
OBVIOUS

\* What comes behind the last field or variant, and behind the last clause.
Follows(kind, t) == t.k = IF kind = "line" THEN "end list" ELSE "body"

\* The tasks of the parts of a node, and what comes behind them.
LEMMA PartsThen ==
    ASSUME DocOK, NEW kind \in {"line", "clause"}, NEW ids \in Seq(Of(T, {"text"})),
           NEW a, NEW z, Fill(T, ids, a, z), NEW e, Chained(e), e # <<>>, Start(e[1]) = z,
           Follows(kind, e[1])
    PROVE  LET r == Tasks(kind, ids) \o e
           IN  /\ Chained(r) /\ r # <<>> /\ r[Len(r)] = e[Len(e)]
               /\ Start(r[1]) = a /\ r[1].k \in {kind, e[1].k}
<1> DEFINE s == Tasks(kind, ids)
           r == s \o e
<1>1. s = [i \in 1..Len(ids) |-> Task(kind, ids[i])]
  BY DEF Tasks
<1>2. Len(ids) \in Nat /\ ids \in Seq(Nodes(T)) /\ \A i \in 1..Len(ids) : ids[i] \in Of(T, {"text"})
  <2>1. Of(T, {"text"}) \subseteq Nodes(T)
    BY DEF Of
  <2> QED BY <2>1, LenProperties, SeqMonotonic, ElementOfSeq
<1>3. \A i \in 1..Len(ids) : /\ Task(kind, ids[i]) \in TaskSet
                             /\ Task(kind, ids[i]).id = ids[i] /\ Task(kind, ids[i]).k = kind
  <2>1. SUFFICES ASSUME NEW x \in Of(T, {"text"})
                 PROVE  Task(kind, x) \in TaskSet /\ Task(kind, x).id = x /\ Task(kind, x).k = kind
    BY <1>2
  <2> QED BY DEF Task, TaskSet, Kind, IsTask, Of
<1> DEFINE n == Len(ids)
<1> HIDE DEF s, n
<1>4. s \in Seq(TaskSet) /\ Len(s) = n /\ n \in Nat /\ (s # <<>> => n # 0)
  <2>1. n \in Nat /\ s \in [1..n -> TaskSet]
    BY <1>1, <1>2, <1>3 DEF n
  <2>2. s \in Seq(TaskSet) /\ Len(s) = n
    BY <2>1, FunctionIsSeq
  <2> QED BY <2>1, <2>2, EmptySeq
<1>5. \A i \in 1..n : s[i].id = ids[i] /\ s[i].k = kind
  BY <1>1, <1>3 DEF n
<1> DEFINE K == IF kind = "line" THEN {"line", "if"} ELSE {"clause"}
<1>6. K \in {{"line", "if"}, {"clause"}, Begin} /\ kind \in K
  OBVIOUS
<1> HIDE DEF K, r
<1>7. /\ Chained(s) /\ (s = <<>> => a = z)
      /\ s # <<>> => /\ s[1].k = kind /\ s[Len(s)].k = kind
                     /\ Start(s[1]) = a /\ Stop(s[Len(s)]) + 1 = z
  <2>1. \A i \in 1..Len(ids) : s[i].id = ids[i] /\ s[i].k \in K
    BY <1>5, <1>6 DEF n
  <2>2. ids \in Seq(Nodes(T)) /\ Len(s) = Len(ids)
    BY <1>2, <1>4 DEF n
  <2>3. /\ Chained(s) /\ (s = <<>> => a = z)
        /\ s # <<>> => Start(s[1]) = a /\ Stop(s[Len(s)]) + 1 = z
    BY <1>4, <1>6, <2>1, <2>2, RowOf
  <2>4. ASSUME s # <<>> PROVE s[1].k = kind /\ s[n].k = kind
    <3>1. 1 \in 1..n /\ n \in 1..n
      BY <1>4, <2>4
    <3> QED BY <1>5, <3>1
  <2> QED BY <1>4, <2>3, <2>4
<1>8. s # <<>> => Before(s[Len(s)], e[1])
  BY <1>7 DEF Follows, Before, Row
<1>9. /\ Chained(s \o e) /\ s \o e # <<>>
      /\ (s \o e)[1] = IF s = <<>> THEN e[1] ELSE s[1]
      /\ (s \o e)[Len(s \o e)] = e[Len(e)]
  BY <1>7, <1>8, ConcatChained
<1>10. Start(r[1]) = a /\ r[1].k \in {kind, e[1].k}
  BY <1>7, <1>9 DEF r
<1> QED BY <1>9, <1>10 DEF r, s

\* A record, an enum or a function begins.
LEMMA GoodHead ==
    ASSUME DocOK, Ready(todo, f), todo # <<>>, todo[1].k \in {"list", "func"}
    PROVE  LET open == Push(Begins(FlushLeading(Separate(f), doc.from[Id]), Id))
           IN  /\ Id \in Nodes(T) /\ Id \in Of(T, {todo[1].k}) /\ Stop(todo[1]) = T.last[Id]
               /\ Good(open, T.first[Id] + 1) /\ ~open.ended
<1> DEFINE g    == Separate(f)
           l    == FlushLeading(g, doc.from[Id])
           open == Push(Begins(l, Id))
           p    == T.first[Id]
<1>1. /\ Id \in Nodes(T) /\ Id \in Of(T, {todo[1].k})
      /\ Start(todo[1]) = p /\ Stop(todo[1]) = T.last[Id]
  BY First DEF IsTask, Start, Stop, Of
<1>2. Good(f, p) /\ (f.sep \/ f.fresh)
  BY <1>1, First DEF Need, Begin
<1>3. Good(g, p) /\ g.fresh
  BY <1>2, GoodSeparate
<1> HIDE DEF g
<1>4. Good(l, p) /\ ~l.ended
  BY <1>1, <1>3, TreeType, NextAboveAll, GoodLeading
<1> HIDE DEF l
<1>5. Good(open, p + 1) /\ ~open.ended
  BY <1>1, <1>4, GoodOpen
<1> QED BY <1>1, <1>5 DEF l, g

\* A record or an enum ends, and has the comment that is behind it.
LEMMA GoodTail ==
    ASSUME DocOK, NEW g, NEW id \in Of(T, {"list"}), Good(g, T.last[id]), ~g.ended,
           id \in Blocks(T) => Pending(g, doc.to[id])
    PROVE  LET h == Behind(Ends(g, id), id) IN Good(h, T.last[id] + 1) /\ h.sep
<1> DEFINE e == Ends(g, id)
<1>1. id \in Nodes(T) /\ g \in Formatter
  BY DEF Of, Good, GoodBut
<1>2. id \notin Of(T, Line \ {"sig"}) /\ id \notin Of(T, {"if", "func"})
  BY DEF Of, Line
<1>3. Good(e, T.last[id] + 1)
  BY <1>1, <1>2, GoodEnds
<1>4. ~e.ended
  BY <1>1, EndsFields
<1>5. BeforeAll(doc.to[id], T.last[id] + 1)
  <2>1. T.first[id] < T.last[id] + 1 /\ T.last[id] < T.last[id] + 1 /\ T.last[id] + 1 \in Nat
    BY <1>1, TreeType
  <2> QED BY <1>1, <2>1, LastBeforeAll
<1> HIDE DEF e
<1>6. Good(FlushTrailing(e, doc.to[id]), T.last[id] + 1)
  BY <1>1, <1>3, <1>4, <1>5, TreeType, GoodTrailing
<1> QED BY <1>1, <1>6, GoodBehind DEF e

LEMMA RecordOrEnumReady ==
    ASSUME DocOK, Ready(todo, f), RecordOrEnum
    PROVE  Ready(todo', f')
<1> DEFINE open == Push(Begins(FlushLeading(Separate(f), doc.from[Id]), Id))
           ids  == T.node[Id].parts
           t    == Task("end list", Id)
           e    == <<t>>
           p    == T.first[Id]
<1>1. todo # <<>> /\ todo[1].k = "list" /\ Node = T.node[Id]
  BY First DEF RecordOrEnum, At
<1>2. IF ids = <<>> THEN Prints(Behind(Ends(open, Id), Id), <<>>)
      ELSE Prints(Newline(open), Tasks("line", ids) \o e)
  BY <1>1 DEF RecordOrEnum
<1>3. /\ Id \in Nodes(T) /\ Id \in Of(T, {"list"}) /\ Stop(todo[1]) = T.last[Id]
      /\ Good(open, p + 1) /\ ~open.ended
  BY <1>1, GoodHead
<1>4. ids \in Seq(Of(T, {"text"})) /\ Fill(T, ids, p + 1, T.last[Id])
  BY <1>3, Kinds
<1> HIDE DEF open, p
<1>5. CASE ids = <<>>
  <2> DEFINE h == Behind(Ends(open, Id), Id)
  <2>1. T.last[Id] = p + 1
    BY <1>4, <1>5 DEF Fill
  <2>2. Id \notin Blocks(T)
    BY <1>3, <1>5 DEF Blocks, Of
  <2>3. Good(h, T.last[Id] + 1) /\ h.sep
    BY <1>3, <2>1, <2>2, GoodTail
  <2>4. Prints(h, <<>>)
    BY <1>2, <1>5
  <2> HIDE DEF h
  <2>5. Gives(todo[1], h)
    BY <1>1, <2>3 DEF Gives, Row, Whole
  <2> QED BY <1>1, <1>3, <2>3, <2>4, <2>5, Finished
<1>6. CASE ids # <<>>
  <2> DEFINE h == Newline(open)
             r == Tasks("line", ids) \o e
  <2>1. Prints(h, r)
    BY <1>2, <1>6
  <2>2. Good(h, p + 1) /\ h.fresh
    BY <1>3, GoodNewline
  <2>3. t \in TaskSet /\ t.k = "end list" /\ Start(t) = T.last[Id] /\ Stop(t) = T.last[Id]
    BY <1>3 DEF Task, TaskSet, Kind, IsTask, Start, Stop
  <2> HIDE DEF t, h
  <2>4. Chained(e) /\ e # <<>> /\ Len(e) = 1 /\ e[1] = t
    BY <2>3, OneTask
  <2> HIDE DEF e, ids
  <2>5. /\ Chained(r) /\ r # <<>> /\ r[Len(r)] = e[Len(e)]
        /\ Start(r[1]) = p + 1 /\ r[1].k \in {"line", e[1].k}
    <3>1. Follows("line", e[1])
      BY <2>3, <2>4 DEF Follows
    <3> QED BY <1>4, <2>3, <2>4, <3>1, PartsThen
  <2> HIDE DEF r
  <2>6. Need(r[1], h)
    BY <2>2, <2>3, <2>4, <2>5 DEF Need, Ending, Begin
  <2>7. ASSUME NEW u, Before(todo[1], u) PROVE Before(t, u)
    BY <1>1, <1>3, <2>3, <2>7 DEF Before, Row, Whole, Begin
  <2> QED BY <1>1, <1>3, <2>1, <2>2, <2>3, <2>4, <2>5, <2>6, <2>7, Called
<1> QED BY <1>5, <1>6

LEMMA ListEndReady ==
    ASSUME DocOK, Ready(todo, f), ListEnd
    PROVE  Ready(todo', f')
<1> DEFINE l == FlushLeading(f, doc.to[Id])
           g == Push(l)
           h == Behind(Ends(g, Id), Id)
<1>1. todo # <<>> /\ todo[1].k = "end list" /\ Prints(h, <<>>)
  BY First DEF ListEnd, At
<1>2. /\ Id \in Of(T, {"list"}) /\ Id \in Nodes(T)
      /\ Start(todo[1]) = T.last[Id] /\ Stop(todo[1]) = T.last[Id]
  BY <1>1, First DEF IsTask, Start, Stop
<1>3. Good(f, T.last[Id]) /\ f.fresh
  BY <1>1, <1>2, First DEF Need
<1>4. Good(l, T.last[Id]) /\ ~l.ended /\ Pending(l, doc.to[Id])
  BY <1>2, <1>3, TreeType, NextAboveAll, GoodLeading
<1> HIDE DEF l
<1>5. Good(g, T.last[Id]) /\ ~g.ended
  BY <1>4, GoodPush
<1>6. Pending(g, doc.to[Id])
  <2>1. g.placed = l.placed
    BY <1>4, PushFields DEF Good, GoodBut
  <2> QED BY <1>4, <2>1 DEF Pending
<1> HIDE DEF g
<1>7. Good(h, T.last[Id] + 1) /\ h.sep
  BY <1>2, <1>5, <1>6, GoodTail
<1> HIDE DEF h
<1>8. Gives(todo[1], h)
  BY <1>1, <1>7 DEF Gives, Row, Whole
<1> QED BY <1>1, <1>2, <1>7, <1>8, Finished

LEMMA FuncReady ==
    ASSUME DocOK, Ready(todo, f), Func
    PROVE  Ready(todo', f')
<1> DEFINE open == Push(Begins(FlushLeading(Separate(f), doc.from[Id]), Id))
           n    == T.node[Id]
           sg   == n.sig
           b    == Begins(open, sg)
           sig  == Ends(b, sg)
           end  == Task("end func", Id)
           ids  == Clauses(n)
           p    == T.first[Id]
           q    == T.last[sg] + 1
<1>1. todo # <<>> /\ todo[1].k = "func" /\ Node = n
  BY First DEF Func, At
<1>2. IF ids = <<>> THEN Prints(sig, <<Task("block", n.body), end>>)
      ELSE Prints(FlushTrailing(sig, doc.to[sg]), Tasks("clause", ids) \o <<Task("body", n.body), end>>)
  BY <1>1 DEF Func
<1>3. /\ Id \in Nodes(T) /\ Id \in Of(T, {"func"}) /\ Stop(todo[1]) = T.last[Id]
      /\ Good(open, p + 1) /\ ~open.ended
  BY <1>1, GoodHead
<1>4. /\ sg \in Of(T, {"sig"}) /\ sg \in Nodes(T) /\ n.body \in Of(T, {"block"}) /\ n.body \in Nodes(T)
      /\ {n.uses, n.requires, n.ensures} \subseteq Seq(Of(T, {"text"}))
      /\ T.first[sg] = p + 1
      /\ Fill(T, ids, q, T.first[n.body])
      /\ T.last[Id] = T.last[n.body] + 1
  BY <1>3, Kinds DEF Of
<1>5. ids \in Seq(Of(T, {"text"}))
  <2>1. n.uses \in Seq(Of(T, {"text"})) /\ n.requires \in Seq(Of(T, {"text"})) /\ n.ensures \in Seq(Of(T, {"text"}))
    BY <1>4
  <2>2. n.uses \o n.requires \in Seq(Of(T, {"text"}))
    BY <2>1, ConcatProperties
  <2>3. (n.uses \o n.requires) \o n.ensures \in Seq(Of(T, {"text"}))
    BY <2>1, <2>2, ConcatProperties
  <2> QED BY <2>3 DEF Clauses
<1>6. /\ T.last[sg] = p + 1 + 1 /\ p \in Nat /\ T.last[sg] \in Nat /\ q \in Nat
      /\ T.first[sg] < q /\ T.last[sg] < q
  <2>1. sg \in Of(T, Line)
    BY <1>4 DEF Of, Line
  <2>2. T.last[sg] = T.first[sg] + 1
    BY <1>4, <2>1, Kinds
  <2>3. p \in Nat /\ T.last[sg] \in Nat /\ T.first[sg] \in Nat
    <3>1. Id \in Nodes(T) /\ sg \in Nodes(T)
      BY <1>3, <1>4
    <3> HIDE DEF sg
    <3> QED BY <3>1, TreeType
  <2>4. T.first[sg] = p + 1
    BY <1>4
  <2> HIDE DEF p, sg
  <2> QED BY <2>2, <2>3, <2>4
<1> HIDE DEF open, p, ids
<1>7. Good(b, T.last[sg]) /\ ~b.ended
  <2>1. Good(b, p + 1 + 1)
    BY <1>3, <1>4, GoodBegins
  <2>2. open \in Formatter
    BY <1>3 DEF Good, GoodBut
  <2> QED BY <1>3, <1>4, <1>6, <2>1, <2>2, BeginsFields
<1> HIDE DEF b
<1>8. Good(sig, q) /\ ~sig.ended
  <2>1. sg \notin Of(T, Line \ {"sig"}) /\ sg \notin Of(T, {"if", "func"}) /\ sg \notin Blocks(T)
    BY <1>4 DEF Of, Line, Blocks
  <2>2. Good(sig, q)
    BY <1>4, <1>7, <2>1, GoodEnds
  <2>3. b \in Formatter
    BY <1>7 DEF Good, GoodBut
  <2> QED BY <1>4, <1>7, <2>2, <2>3, EndsFields
<1> HIDE DEF sig, q
<1>9. end \in TaskSet /\ end.k = "end func" /\ Start(end) = T.last[Id] /\ Stop(end) = T.last[Id] /\ end.id = Id
  BY <1>3 DEF Task, TaskSet, Kind, IsTask, Start, Stop
<1>10. LastPart(T, Id) = n.body
  BY <1>3 DEF LastPart, Of
<1>11. ASSUME NEW k \in {"block", "body"}
       PROVE  LET t == Task(k, n.body)
              IN  /\ t \in TaskSet /\ t.k = k /\ Start(t) = T.first[n.body]
                  /\ Chained(<<t, end>>) /\ <<t, end>> # <<>> /\ Len(<<t, end>>) = 2
                  /\ <<t, end>>[1] = t /\ <<t, end>>[2] = end
  <2> DEFINE t == Task(k, n.body)
  <2>1. /\ t \in TaskSet /\ t.k = k /\ t.id = n.body
        /\ Start(t) = T.first[n.body] /\ Stop(t) = T.last[n.body] /\ Closing(t) = n.body
    BY <1>4 DEF Task, TaskSet, Kind, IsTask, Start, Stop, Closing
  <2> HIDE DEF t, end
  <2>2. Before(t, end)
    BY <1>4, <1>9, <1>10, <2>1 DEF Before, Whole, Ending
  <2> QED BY <1>9, <2>1, <2>2, TwoTasks DEF t
<1>12. ASSUME NEW u, Before(todo[1], u) PROVE Before(end, u)
  <2> HIDE DEF end
  <2> QED BY <1>1, <1>3, <1>9, <1>12 DEF Before, Row, Whole, Begin
<1> HIDE DEF end
<1>13. CASE ids = <<>>
  <2> DEFINE t == Task("block", n.body)
             r == <<t, end>>
  <2>1. /\ t.k = "block" /\ Start(t) = T.first[n.body]
        /\ Chained(r) /\ r # <<>> /\ Len(r) = 2 /\ r[1] = t /\ r[2] = end
    BY <1>11
  <2>2. Prints(sig, r)
    BY <1>2, <1>13
  <2> HIDE DEF t, r
  <2>3. Start(t) = q
    BY <1>4, <1>13, <2>1 DEF Fill
  <2>4. Need(t, sig)
    BY <1>8, <2>1 DEF Need, Ending, Begin
  <2> QED BY <1>1, <1>3, <1>8, <1>9, <1>12, <2>1, <2>2, <2>3, <2>4, Called
<1>14. CASE ids # <<>>
  <2> DEFINE t == Task("body", n.body)
             e == <<t, end>>
             r == Tasks("clause", ids) \o e
             h == FlushTrailing(sig, doc.to[sg])
  <2>1. /\ t.k = "body" /\ Start(t) = T.first[n.body]
        /\ Chained(e) /\ e # <<>> /\ Len(e) = 2 /\ e[1] = t /\ e[2] = end
    BY <1>11
  <2>2. Prints(h, r)
    BY <1>2, <1>14
  <2>3. Good(h, q)
    <3>1. BeforeAll(doc.to[sg], q)
      BY <1>4, <1>6, LastBeforeAll
    <3> QED BY <1>4, <1>8, <3>1, TreeType, GoodTrailing
  <2> HIDE DEF t, e, h
  <2>4. /\ Chained(r) /\ r # <<>> /\ r[Len(r)] = e[Len(e)]
        /\ Start(r[1]) = q /\ r[1].k \in {"clause", e[1].k}
    <3>1. Follows("clause", e[1])
      BY <2>1 DEF Follows
    <3> QED BY <1>4, <1>5, <2>1, <3>1, PartsThen
  <2> HIDE DEF r
  <2>5. Need(r[1], h)
    BY <2>1, <2>4 DEF Need, Ending, Begin
  <2> QED BY <1>1, <1>3, <1>9, <1>12, <2>1, <2>2, <2>3, <2>4, <2>5, Called
<1> QED BY <1>13, <1>14

LEMMA ItemReady ==
    ASSUME DocOK, Ready(todo, f), Item
    PROVE  Ready(todo', f')
<1> DEFINE w == [f EXCEPT !.sep = FALSE]
           g == IF Head(todo).k = "next" THEN Newline(w) ELSE Separate(f)
           t == Text(FlushLeading(g, doc.from[Id]), Id)
           h == Behind(t, Id)
           p == T.first[Id]
<1>1. todo # <<>> /\ todo[1].k \in {"item", "next"} /\ Head(todo) = todo[1] /\ Prints(h, <<>>)
  BY First DEF Item, At
<1>2. Id \in Of(T, Line) /\ Id \in Nodes(T) /\ Start(todo[1]) = p /\ Stop(todo[1]) = T.last[Id]
  BY <1>1, First DEF IsTask, Start, Stop
<1>3. Good(f, p) /\ f \in Formatter /\ (todo[1].k = "item" => f.sep \/ f.fresh)
  BY <1>1, <1>2, First DEF Need, Begin
<1>4. Good(w, p)
  <2>1. /\ w \in Formatter /\ w.from = f.from /\ w.to = f.to /\ w.placed = f.placed /\ w.line = f.line
        /\ (w.fresh <=> f.fresh) /\ (w.ended <=> f.ended) /\ (w.garbled <=> f.garbled)
    BY <1>3 DEF Formatter
  <2> HIDE DEF w
  <2>2. Sound(w)
    BY <1>3, <2>1 DEF Good, GoodBut, Sound
  <2>3. w.line >= f.line
    BY <1>3, <2>1 DEF Formatter
  <2> QED BY <1>3, <2>1, <2>2, <2>3, Kept
<1> HIDE DEF w, p
<1>5. Good(g, p) /\ g.fresh
  <2>1. Good(Newline(w), p) /\ Newline(w).fresh
    BY <1>4, GoodNewline
  <2>2. Good(Separate(f), p) /\ (f.sep \/ f.fresh => Separate(f).fresh)
    BY <1>3, GoodSeparate
  <2> QED BY <1>1, <1>3, <2>1, <2>2
<1> HIDE DEF g
<1>6. Good(FlushTrailing(t, doc.to[Id]), T.last[Id] + 1)
  BY <1>2, <1>5, GoodPiece DEF p
<1> HIDE DEF t
<1>7. Good(h, T.last[Id] + 1) /\ h.sep
  BY <1>2, <1>6, GoodBehind
<1> HIDE DEF h
<1>8. Gives(todo[1], h)
  BY <1>1, <1>7 DEF Gives, Row, Whole
<1> QED BY <1>1, <1>2, <1>7, <1>8, Finished

LEMMA EmitReady ==
    ASSUME DocOK, Ready(todo, f), Emit
    PROVE  Ready(todo', f')
BY SingleReady, ClauseReady, BlockReady, BlockEndReady, IfReady, ElseReady, IfEndReady,
   StatementEndReady, RecordOrEnumReady, ListEndReady, FuncReady, FuncEndReady, ItemReady DEF Emit
-----------------------------------------------------------------------------
(* The file.                                                               *)

LEMMA NewGood ==
    ASSUME DocOK
    PROVE  Good(New(doc), 1) /\ New(doc).fresh
<1> DEFINE g == New(doc)
<1>1. doc.from \in [Nodes(T) -> Nat] /\ doc.to \in [Nodes(T) -> Nat]
  BY DEF DocOK, IsLaid, T
<1>2. g \in Formatter /\ g.placed = <<>> /\ g.fresh /\ ~g.ended /\ ~g.garbled
  BY <1>1 DEF New, Formatter
<1> HIDE DEF g
<1>3. 1..Len(g.placed) = {} /\ Len(g.placed) = 0
  BY <1>2
<1>4. \A x \in Nodes(T) : ~(T.first[x] < 1) /\ ~(T.last[x] < 1)
  BY TreeType
<1>5. Len(g.placed) <= Len(doc.comments)
  BY <1>2, <1>3, CommentTypes
<1>6. Sound(g)
  BY <1>2, <1>3 DEF Sound
<1>7. BegunAbove(g, 1)
  BY <1>4 DEF BegunAbove
<1>8. EndTogether(g, 1)
  BY <1>4 DEF EndTogether, Of
<1>9. Stays(g, 1, {})
  <2>1. NotPast(g, 1) /\ NotAbove(g, 1)
    BY <1>3 DEF NotPast, NotAbove
  <2>2. NotBelow(g, 1)
    BY <1>4 DEF NotBelow, Blocks, Of
  <2>3. Beside(g, 1, {})
    BY <1>4 DEF Beside
  <2> QED BY <2>1, <2>2, <2>3 DEF Stays
<1>10. Good(g, 1)
  BY <1>2, <1>5, <1>6, <1>7, <1>8, <1>9 DEF Good, GoodBut
<1> QED BY <1>2, <1>10 DEF g

LEMMA TopType ==
    ASSUME DocOK
    PROVE  /\ Top(T) \in Seq(Nodes(T))
           /\ \A i \in 1..Len(Top(T)) : Top(T)[i] \in Of(T, Line \cup {"list", "func"})
           /\ Fill(T, Top(T), 1, T.size + 1)
<1> DEFINE S == Of(T, Line \cup {"list", "func"})
<1>1. /\ T.decl \in Seq(Of(T, {"text"})) /\ T.imports \in Seq(Of(T, {"import"}))
      /\ T.items \in Seq(Of(T, {"text", "extern", "list", "func"}))
      /\ Fill(T, Top(T), 1, T.size + 1)
  BY DEF DocOK, IsLaid, IsTree, T
<1>2. /\ Of(T, {"text"}) \subseteq S /\ Of(T, {"import"}) \subseteq S
      /\ Of(T, {"text", "extern", "list", "func"}) \subseteq S /\ S \subseteq Nodes(T)
  BY DEF Of, Line
<1> HIDE DEF S
<1>3. T.decl \in Seq(S) /\ T.imports \in Seq(S) /\ T.items \in Seq(S)
  BY <1>1, <1>2, SeqMonotonic
<1>4. T.decl \o T.imports \in Seq(S)
  BY <1>3, ConcatProperties
<1>5. (T.decl \o T.imports) \o T.items \in Seq(S)
  BY <1>3, <1>4, ConcatProperties
<1>6. Top(T) \in Seq(S)
  BY <1>5 DEF Top
<1>7. Top(T) \in Seq(Nodes(T))
  BY <1>2, <1>6, SeqMonotonic
<1>8. \A i \in 1..Len(Top(T)) : Top(T)[i] \in S
  BY <1>6, ElementOfSeq
<1> QED BY <1>1, <1>7, <1>8 DEF S

LEMMA ModuleReady ==
    ASSUME DocOK, f = New(doc), Module
    PROVE  Ready(todo', f')
<1> DEFINE ids == Top(T)
           n == Len(ids)
           s == [i \in 1..n |-> ItemTask(ids, i)]
           a == doc.from[ids[1]]
           g == IF ids = <<>> THEN f ELSE FlushLeading(f, a)
<1>1. todo' = s /\ f' = g
  BY DEF Module, T
<1>2. /\ ids \in Seq(Nodes(T)) /\ Fill(T, ids, 1, T.size + 1)
      /\ \A i \in 1..n : ids[i] \in Of(T, Line \cup {"list", "func"})
  BY TopType
<1>3. n \in Nat /\ (ids # <<>> => n # 0)
  BY <1>2, EmptySeq, LenProperties
<1> HIDE DEF ids, n
<1>4. \A i \in 1..n : ItemTask(ids, i) \in TaskSet /\ ItemTask(ids, i).id = ids[i] /\ ItemTask(ids, i).k \in Begin
  <2>1. SUFFICES ASSUME NEW i \in 1..n
                 PROVE  ItemTask(ids, i) \in TaskSet /\ ItemTask(ids, i).id = ids[i] /\ ItemTask(ids, i).k \in Begin
    OBVIOUS
  <2> DEFINE x  == ids[i]
             kx == T.node[x].k
             k  == IF kx \in {"list", "func"} THEN kx
                   ELSE IF i > 1 /\ kx \in {"import", "extern"} /\ T.node[ids[i - 1]].k = kx THEN "next"
                   ELSE "item"
  <2>2. ItemTask(ids, i) = Task(k, x)
    BY DEF ItemTask, T
  <2>3. x \in Nodes(T) /\ kx \in Line \cup {"list", "func"}
    BY <1>2 DEF Of
  <2>4. /\ k \in Begin /\ k \in Kind /\ (k \in {"item", "next"} => kx \in Line)
        /\ (k \in {"list", "func"} => kx = k)
    BY <2>3 DEF Begin, Kind
  <2> HIDE DEF x, k
  <2>5. IsTask([k |-> k, id |-> x])
    BY <2>3, <2>4 DEF IsTask, Of, Begin
  <2>6. Task(k, x) \in TaskSet /\ Task(k, x).k = k /\ Task(k, x).id = x
    BY <2>3, <2>4, <2>5, TaskIn
  <2> QED BY <2>2, <2>4, <2>6 DEF x
<1>5. s \in Seq(TaskSet) /\ Len(s) = n
  <2> DEFINE tk(i) == ItemTask(ids, i)
  <2>1. s \in [1..n -> TaskSet]
    BY <1>4
  <2> HIDE DEF s
  <2> QED BY <1>3, <2>1, FunctionIsSeq
<1>6. \A i \in 1..n : s[i].id = ids[i] /\ s[i].k \in Begin
  BY <1>4
<1> HIDE DEF s, g
<1>7. /\ Chained(s) /\ (s = <<>> <=> ids = <<>>) /\ (s = <<>> => 1 = T.size + 1)
      /\ s # <<>> => /\ s[1].k \in Begin
                     /\ Start(s[1]) = 1 /\ Stop(s[Len(s)]) + 1 = T.size + 1
  <2>1. Len(s) = Len(ids) /\ \A i \in 1..Len(ids) : s[i].id = ids[i] /\ s[i].k \in Begin
    BY <1>5, <1>6 DEF n
  <2> HIDE DEF ids
  <2> QED BY <1>2, <1>5, <2>1, RowOf
<1>8. Covers(s)
  <2>1. ASSUME s # <<>> PROVE Stop(s[Len(s)]) = T.size
    <3> DEFINE z == s[Len(s)]
    <3>1. n # 0 /\ Len(s) = n
      BY <1>3, <1>5, <1>7, <2>1
    <3>2. n \in 1..n
      BY <1>3, <3>1
    <3>3. z.id = ids[n] /\ z.k \in Begin /\ ids[n] \in Nodes(T)
      BY <1>2, <1>6, <3>1, <3>2 DEF Of
    <3>4. Stop(z) = T.last[ids[n]]
      BY <3>3 DEF Stop, Begin
    <3>5. Stop(z) \in Nat /\ T.size \in Nat
      BY <3>3, <3>4, TreeType
    <3>6. Stop(z) + 1 = T.size + 1
      BY <1>7, <2>1
    <3> HIDE DEF z
    <3>7. Stop(z) = T.size
      BY <3>5, <3>6
    <3> QED BY <3>7 DEF z
  <2> QED BY <1>7, <2>1 DEF Covers
<1>9. Place(s) = 1
  BY <1>7 DEF Place
<1>10. Good(g, 1) /\ g.fresh
  <2>1. Good(f, 1) /\ f.fresh
    BY NewGood
  <2>2. ASSUME ids # <<>> PROVE Good(FlushLeading(f, a), 1) /\ FlushLeading(f, a).fresh
    <3>1. 1 \in 1..n
      BY <1>3, <2>2
    <3>2. ids[1] \in Nodes(T)
      BY <1>2, <3>1 DEF Of
    <3>3. T.first[ids[1]] = 1
      BY <1>2, <2>2 DEF Fill
    <3>4. AboveAll(a, 1) /\ a \in Nat
      BY <3>2, <3>3, NextAboveAll, TreeType
    <3> HIDE DEF a
    <3> QED BY <2>1, <3>4, GoodLeading
  <2> QED BY <2>1, <2>2 DEF g
<1>11. s # <<>> => Need(s[1], g)
  BY <1>7, <1>10 DEF Need, Begin, Ending
<1> QED BY <1>1, <1>8, <1>9, <1>10, <1>11 DEF Ready

LEMMA FinishGood ==
    ASSUME DocOK, Ready(todo, f), Finish
    PROVE  Good(f', T.size + 1) /\ Len(f'.placed) = Len(doc.comments)
<1> DEFINE gap == f.top > 0 /\ Peek(f, 1) >= f.top + 2
           g   == IF f.fresh THEN f ELSE Newline(f)
           h   == IF gap /\ ~Empty(f) THEN Newline(g) ELSE g
           p   == T.size + 1
<1>1. todo = <<>> /\ f' = IF Left(f) > 0 THEN FlushRemaining(h) ELSE f
  BY DEF Finish
<1>2. Good(f, p) /\ f \in Formatter /\ Len(f.placed) <= Len(doc.comments)
  BY <1>1 DEF Ready, Place, Good, GoodBut
<1> HIDE DEF gap, p
<1>3. Good(g, p) /\ g.fresh /\ g.placed = f.placed /\ g \in Formatter
  BY <1>2, GoodNewline, NewlineFields
<1> HIDE DEF g
<1>4. Good(h, p) /\ h.fresh /\ h.placed = f.placed
  BY <1>3, GoodNewline, NewlineFields
<1> HIDE DEF h
<1>5. CASE Left(f) > 0
  <2>1. Left(h) > 0
    BY <1>4, <1>5 DEF Left
  <2> QED BY <1>1, <1>4, <1>5, <2>1, GoodRemaining DEF p
<1>6. CASE ~(Left(f) > 0)
  <2> DEFINE m == Len(f.placed)
             c == Len(doc.comments)
  <2>1. m \in Nat /\ c \in Nat /\ m <= c /\ ~(c - m > 0)
    BY <1>2, <1>6, CommentTypes DEF Left
  <2> HIDE DEF m, c
  <2>2. m = c
    BY <2>1
  <2> QED BY <1>1, <1>2, <1>6, <2>2 DEF m, c, p
<1> QED BY <1>5, <1>6
-----------------------------------------------------------------------------
(* The invariant.                                                          *)

Printed == [from : [Nodes(T) -> Nat], to : [Nodes(T) -> Nat], comments : Seq(Nat)]

IsDoc == doc = [tree |-> doc.tree, from |-> doc.from, to |-> doc.to, comments |-> doc.comments]

Inv ==
    /\ IsDoc /\ DocOK /\ result \in Seq(Printed)
    /\ phase \in {"head", "print", "done"}
    /\ phase = "head"  => f = New(doc) /\ todo = <<>> /\ Len(result) <= 1
    /\ phase = "print" => Ready(todo, f) /\ Len(result) <= 1
    /\ phase = "done"  => /\ todo = <<>> /\ Len(result) <= 2
                          /\ Good(f, T.size + 1) /\ Len(f.placed) = Len(doc.comments)

\* What is said of the output and of the tasks depends on the file only.
LEMMA SameTree ==
    ASSUME doc' = doc
    PROVE  /\ T' = T /\ (InOrder(doc)' <=> InOrder(doc)) /\ (DocOK' <=> DocOK) /\ (IsDoc' <=> IsDoc)
           /\ Formatter' = Formatter /\ Printed' = Printed /\ TaskSet' = TaskSet
<1>1. T' = T
  BY DEF T
<1>2. InOrder(doc)' <=> InOrder(doc)
  BY DEF InOrder
<1>3. DocOK' <=> DocOK
  BY DEF DocOK
<1>4. IsDoc' <=> IsDoc
  BY DEF IsDoc
<1>5. Formatter' = Formatter /\ Printed' = Printed
  BY <1>1 DEF Formatter, Printed
<1>6. \A t : IsTask(t)' <=> IsTask(t)
  BY <1>1 DEF IsTask
<1>7. TaskSet' = TaskSet
  BY <1>1, <1>6 DEF TaskSet
<1> QED BY <1>1, <1>2, <1>3, <1>4, <1>5, <1>7

LEMMA SameGood ==
    ASSUME doc' = doc
    PROVE  \A g, p : Good(g, p)' <=> Good(g, p)
<1>1. T' = T /\ (InOrder(doc)' <=> InOrder(doc)) /\ Formatter' = Formatter
  BY SameTree
<1>2. \A g, p : BegunAbove(g, p)' <=> BegunAbove(g, p)
  BY <1>1 DEF BegunAbove
<1>3. \A g, p : EndTogether(g, p)' <=> EndTogether(g, p)
  BY <1>1 DEF EndTogether
<1>4. \A x : Alone(doc, x)' <=> Alone(doc, x)
  BY DEF Alone
<1>5. \A g, p : NotPast(g, p)' <=> NotPast(g, p)
  BY <1>1, <1>4 DEF NotPast
<1>6. \A g, p : NotAbove(g, p)' <=> NotAbove(g, p)
  BY <1>1 DEF NotAbove
<1>7. \A g, p : NotBelow(g, p)' <=> NotBelow(g, p)
  BY <1>1 DEF NotBelow
<1>8. \A g, p, S : Beside(g, p, S)' <=> Beside(g, p, S)
  BY <1>1, <1>4 DEF Beside
<1>9. \A g, p, S : Stays(g, p, S)' <=> Stays(g, p, S)
  BY <1>5, <1>6, <1>7, <1>8 DEF Stays
<1>10. \A g, p, S : GoodBut(g, p, S)' <=> GoodBut(g, p, S)
  BY <1>1, <1>2, <1>3, <1>9 DEF GoodBut
<1> QED BY <1>10 DEF Good

LEMMA SameReady ==
    ASSUME doc' = doc
    PROVE  \A s, g : Ready(s, g)' <=> Ready(s, g)
<1>1. T' = T /\ TaskSet' = TaskSet
  BY SameTree
<1>2. \A t : Start(t)' = Start(t) /\ Stop(t)' = Stop(t) /\ Closing(t)' = Closing(t)
  BY <1>1 DEF Start, Stop, Closing
<1>3. \A t, u : Before(t, u)' <=> Before(t, u)
  BY <1>1, <1>2 DEF Before
<1>4. \A s : Chained(s)' <=> Chained(s)
  BY <1>1, <1>3 DEF Chained
<1>5. \A s : Covers(s)' <=> Covers(s)
  BY <1>1, <1>2, <1>4 DEF Covers
<1>6. \A s : Place(s)' = Place(s)
  BY <1>1, <1>2 DEF Place
<1>7. \A g, l : Pending(g, l)' <=> Pending(g, l)
  BY DEF Pending
<1>8. \A t, g : Need(t, g)' <=> Need(t, g)
  BY <1>1, <1>7 DEF Need
<1>9. \A g, p : Good(g, p)' <=> Good(g, p)
  BY SameGood
<1> QED BY <1>5, <1>6, <1>8, <1>9 DEF Ready

LEMMA InvInit == Init => Inv
<1> SUFFICES ASSUME Init PROVE Inv
  OBVIOUS
<1>1. PICK l \in Layouts, c \in Comments :
         doc = [tree |-> l.tree, from |-> l.from, to |-> l.to, comments |-> c]
  BY DEF Init
<1>2. IsLaid(l) /\ IsComments(c)
  BY LayoutsAssumption, CommentsAssumption
<1>3. doc.tree = l.tree /\ doc.from = l.from /\ doc.to = l.to /\ doc.comments = c
  BY <1>1
<1>4. IsDoc
  BY <1>1, <1>3 DEF IsDoc
<1>5. IsLaid(doc)
  BY <1>2, <1>3 DEF IsLaid
<1>6. DocOK
  BY <1>2, <1>3, <1>5 DEF DocOK
<1>7. f = New(doc) /\ todo = <<>> /\ phase = "head" /\ result = <<>>
  BY DEF Init
<1> QED BY <1>4, <1>6, <1>7 DEF Inv

LEMMA InvNext == Inv /\ [Next]_vars => Inv'
<1> SUFFICES ASSUME Inv, [Next]_vars PROVE Inv'
  OBVIOUS
<1>0. IsDoc /\ DocOK /\ result \in Seq(Printed)
  BY DEF Inv
<1>1. CASE UNCHANGED vars
  <2>1. doc' = doc /\ f' = f /\ todo' = todo /\ phase' = phase /\ result' = result
    BY <1>1 DEF vars
  <2>2. (DocOK' <=> DocOK) /\ (IsDoc' <=> IsDoc) /\ Printed' = Printed /\ T' = T
    BY <2>1, SameTree
  <2>3. (Ready(todo, f)' <=> Ready(todo, f)) /\ (Good(f, T.size + 1)' <=> Good(f, T.size + 1))
    BY <2>1, <2>2, SameReady, SameGood
  <2>4. New(doc)' = New(doc)
    BY <2>1 DEF New
  <2> QED BY <2>1, <2>2, <2>3, <2>4 DEF Inv
<1>2. CASE Module
  <2>1. phase = "head" /\ doc' = doc /\ phase' = "print" /\ result' = result
    BY <1>2 DEF Module
  <2>2. f = New(doc) /\ Len(result) <= 1
    BY <2>1 DEF Inv
  <2>3. Ready(todo', f')
    BY <1>0, <1>2, <2>2, ModuleReady
  <2>4. Ready(todo, f)'
    BY <2>1, <2>3, SameReady
  <2> QED BY <1>0, <2>1, <2>2, <2>4, SameTree DEF Inv
<1>3. CASE Emit
  <2>1. phase = "print" /\ doc' = doc /\ phase' = phase /\ result' = result
    BY <1>3 DEF Emit, Single, Clause, Block, BlockEnd, If, Else, IfEnd, StatementEnd, RecordOrEnum,
                ListEnd, Func, FuncEnd, Item, At, Prints
  <2>2. Ready(todo, f) /\ Len(result) <= 1
    BY <2>1 DEF Inv
  <2>3. Ready(todo', f')
    BY <1>0, <1>3, <2>2, EmitReady
  <2>4. Ready(todo, f)'
    BY <2>1, <2>3, SameReady
  <2> QED BY <1>0, <2>1, <2>2, <2>4, SameTree DEF Inv
<1>4. CASE Finish
  <2>1. phase = "print" /\ todo = <<>> /\ doc' = doc /\ phase' = "done" /\ todo' = todo
    BY <1>4 DEF Finish
  <2>2. Ready(todo, f) /\ Len(result) <= 1
    BY <2>1 DEF Inv
  <2>3. Good(f', T.size + 1) /\ Len(f'.placed) = Len(doc.comments)
    BY <1>0, <1>4, <2>2, FinishGood
  <2>4. Good(f, T.size + 1)' /\ Len(f.placed)' = Len(doc.comments)'
    BY <2>1, <2>3, SameGood, SameTree
  <2>5. result' \in Seq(Printed) /\ Len(result') <= 2
    <3> DEFINE out == [from |-> f'.from, to |-> f'.to, comments |-> f'.placed]
    <3>1. result' = Append(result, out)
      BY <1>4 DEF Finish
    <3>2. out \in Printed
      BY <2>3 DEF Good, GoodBut, Formatter, Printed
    <3> HIDE DEF out
    <3>3. Len(result') = Len(result) + 1 /\ result' \in Seq(Printed) /\ Len(result) \in Nat
      BY <1>0, <3>1, <3>2, AppendProperties, LenProperties
    <3> QED BY <2>2, <3>3
  <2> QED BY <1>0, <2>1, <2>4, <2>5, SameTree DEF Inv
<1>5. CASE Again
  <2>1. /\ phase = "done" /\ Len(result) = 1 /\ phase' = "head" /\ todo' = todo /\ result' = result
        /\ doc' = [doc EXCEPT !.from = f.from, !.to = f.to, !.comments = f.placed] /\ f' = New(doc')
    BY <1>5 DEF Again
  <2>2. todo = <<>> /\ Good(f, T.size + 1)
    BY <2>1 DEF Inv
  <2>3. f \in Formatter /\ Sound(f) /\ EndTogether(f, T.size + 1)
    BY <2>2 DEF Good, GoodBut
  <2>4. doc' = [tree |-> T, from |-> f.from, to |-> f.to, comments |-> f.placed]
    BY <1>0, <2>1 DEF IsDoc, T
  <2>5. doc'.tree = T /\ doc'.from = f.from /\ doc'.to = f.to /\ doc'.comments = f.placed
    BY <2>4
  <2>6. IsDoc'
    BY <2>4, <2>5 DEF IsDoc
  <2>7. IsComments(doc'.comments)
    BY <2>3, <2>5 DEF IsComments, Sound, Formatter
  <2>8. IsLaid(doc')
    <3>1. IsTree(T)
      BY <1>0 DEF DocOK, IsLaid, T
    <3>2. f.from \in [Nodes(T) -> Nat] /\ f.to \in [Nodes(T) -> Nat]
      BY <2>3 DEF Formatter
    <3>3. ASSUME NEW x \in Of(T, {"if", "func"}) PROVE f.to[x] = f.to[LastPart(T, x)]
      <4>1. T.last[x] \in 1..T.size /\ T.size \in Nat
        BY <1>0, TreeType DEF Of
      <4>2. T.last[x] < T.size + 1
        BY <4>1
      <4> QED BY <2>3, <4>2 DEF EndTogether
    <3> QED BY <2>5, <3>1, <3>2, <3>3 DEF IsLaid
  <2>9. DocOK'
    BY <2>7, <2>8 DEF DocOK
  <2>10. Printed' = Printed
    BY <2>5 DEF Printed, T
  <2>11. (f = New(doc))'
    BY <2>1 DEF New
  <2>12. result' = result /\ Len(result) = 1
    BY <2>1
  <2>13. Len(result') <= 1
    BY <2>12
  <2>14. (result \in Seq(Printed))'
    BY <1>0, <2>10, <2>12
  <2> QED BY <2>1, <2>2, <2>6, <2>9, <2>11, <2>13, <2>14 DEF Inv
<1> QED BY <1>1, <1>2, <1>3, <1>4, <1>5 DEF Next

LEMMA Invariance == Spec => []Inv
BY InvInit, InvNext, PTL DEF Spec

\* At any time what is printed is, up to some place, as it should be.
LEMMA InvGood ==
    ASSUME Inv
    PROVE  \E p : Good(f, p)
<1>1. DocOK /\ phase \in {"head", "print", "done"}
  BY DEF Inv
<1>2. CASE phase = "head"
  BY <1>1, <1>2, NewGood DEF Inv
<1>3. CASE phase = "print"
  BY <1>3 DEF Inv, Ready
<1>4. CASE phase = "done"
  BY <1>4 DEF Inv
<1> QED BY <1>1, <1>2, <1>3, <1>4

\* The tasks, the place of the output and the comments counted are of their types.
LEMMA InvTypes == Inv => TypeOK
<1> SUFFICES ASSUME Inv PROVE TypeOK
  OBVIOUS
<1>1. f \in Formatter /\ Len(f.placed) <= Len(doc.comments)
  BY InvGood DEF Good, GoodBut
<1>2. \A i \in 1..Len(todo) : todo[i].k \in Kind /\ todo[i].id \in Nodes(doc.tree)
  <2>1. CASE phase = "print"
    <3>1. todo \in Seq(TaskSet)
      BY <2>1 DEF Inv, Ready, Covers, Chained
    <3>2. \A i \in 1..Len(todo) : todo[i] \in TaskSet
      BY <3>1, ElementOfSeq
    <3> QED BY <3>2 DEF TaskSet, T
  <2>2. CASE phase # "print"
    BY <2>2 DEF Inv
  <2> QED BY <2>1, <2>2
<1>3. Len(result) <= 2
  <2>1. Len(result) \in Nat
    BY LenProperties DEF Inv
  <2> QED BY <2>1 DEF Inv
<1> QED BY <1>1, <1>2, <1>3 DEF TypeOK, Inv, Formatter

LEMMA InvText == Inv => TextIntact
<1> SUFFICES ASSUME Inv PROVE TextIntact
  OBVIOUS
<1>1. TypeOK
  BY InvTypes
<1>2. f \in Formatter /\ Sound(f) /\ DocOK
  BY InvGood DEF Good, GoodBut, Inv
<1>3. \A i \in 1..(Len(f.placed) - 1) : f.placed[i] < f.placed[i + 1]
  <2> DEFINE m == Len(f.placed)
  <2>1. m \in Nat /\ \A i, j \in 1..m : i < j => f.placed[i] < f.placed[j]
    BY <1>2, CommentTypes DEF Sound
  <2> HIDE DEF m
  <2>2. \A i \in 1..(m - 1) : f.placed[i] < f.placed[i + 1]
    BY <2>1
  <2> QED BY <2>2 DEF m
<1> QED BY <1>1, <1>2, <1>3 DEF TextIntact, Sound, Inv

LEMMA InvComments == Inv => CommentsStay
<1> SUFFICES ASSUME Inv, phase = "done", InOrder(doc), NEW i \in DOMAIN doc.comments
             PROVE  /\ \A b \in Blocks(doc.tree) :
                          (doc.comments[i] \in (doc.from[b] + 1)..(doc.to[b] - 1)) =>
                              (f.placed[i] \in f.from[b]..(f.to[b] - 1))
                    /\ \A n \in Nodes(doc.tree) :
                          (Alone(doc, n) /\ doc.comments[i] = doc.to[n]) => f.placed[i] = f.to[n]
  BY DEF CommentsStay
<1>1. /\ DocOK /\ Good(f, T.size + 1) /\ Len(f.placed) = Len(doc.comments)
  BY DEF Inv
<1>2. /\ f \in Formatter /\ NotAbove(f, T.size + 1) /\ NotBelow(f, T.size + 1)
      /\ Beside(f, T.size + 1, {})
  BY <1>1 DEF Good, GoodBut, Stays
<1>3. i \in 1..Len(doc.comments) /\ i \in 1..Len(f.placed) /\ doc.comments[i] \in Nat /\ f.placed[i] \in Nat
  <2>1. doc.comments \in Seq(Nat)
    BY <1>1, TreeType
  <2>2. i \in 1..Len(doc.comments)
    BY <2>1
  <2> QED BY <1>1, <1>2, <2>2, CommentTypes
<1>4. \A x \in Nodes(T) : /\ T.first[x] < T.size + 1 /\ T.last[x] < T.size + 1
                          /\ doc.from[x] \in Nat /\ doc.to[x] \in Nat
                          /\ f.from[x] \in Nat /\ f.to[x] \in Nat
  <2>1. \A x \in Nodes(T) : f.from[x] \in Nat /\ f.to[x] \in Nat
    BY <1>2 DEF Formatter
  <2>2. \A x \in Nodes(T) : T.first[x] < T.size + 1 /\ T.last[x] < T.size + 1
    BY <1>1, TreeType
  <2> QED BY <1>1, <2>1, <2>2, TreeType
<1>5. ASSUME NEW b \in Blocks(T), doc.comments[i] \in (doc.from[b] + 1)..(doc.to[b] - 1)
      PROVE  f.placed[i] \in f.from[b]..(f.to[b] - 1)
  <2>1. b \in Nodes(T)
    BY DEF Blocks, Of
  <2>2. doc.comments[i] > doc.from[b] /\ doc.comments[i] < doc.to[b]
    BY <1>3, <1>4, <1>5, <2>1
  <2>3. f.placed[i] >= f.from[b]
    BY <1>2, <1>3, <1>4, <2>1, <2>2 DEF NotAbove
  <2>4. f.placed[i] < f.to[b]
    BY <1>2, <1>3, <1>4, <2>1, <2>2 DEF NotBelow
  <2> QED BY <1>3, <1>4, <2>1, <2>3, <2>4
<1>6. ASSUME NEW n \in Nodes(T), Alone(doc, n), doc.comments[i] = doc.to[n]
      PROVE  f.placed[i] = f.to[n]
  BY <1>2, <1>3, <1>4, <1>6 DEF Beside
<1> QED BY <1>5, <1>6 DEF T

\* The formatter's own state is what its code takes it to be: what is left to
\* print are nodes of the file, and no more comments are printed than there are.
THEOREM Types == Spec => []TypeOK
BY Invariance, InvTypes, PTL

\* No file is garbled by its comments, whatever its lines are: no code is printed
\* behind a comment, none is on a line with another, and none is lost.
THEOREM TextStaysIntact == Spec => []TextIntact
BY Invariance, InvText, PTL

\* In every file that is in the order of printing, a comment in a block stays in
\* it, and one behind a node alone on its line stays behind it.
THEOREM CommentsStayWithNodes == Spec => []CommentsStay
BY Invariance, InvComments, PTL
=============================================================================
