-------------------------------- MODULE Fmt --------------------------------
(***************************************************************************)
(* How the formatter keeps comments.  The tree of a file does not hold     *)
(* them: they come as a list in the order of the source, and are put back  *)
(* by their lines while the tree is printed.  A cursor runs over the list; *)
(* before a node is printed the comments above its line are, and behind it *)
(* the comment on the line it ends on.  What is printed is formatted again.*)
(*                                                                         *)
(* The text is left out: what matters is on which line of the source a     *)
(* node begins and ends, and on which line of the output.  A statement or  *)
(* a clause that is printed on several lines is in Tall.  What is left to  *)
(* print, in the loops and the calls under way, is a sequence of tasks.    *)
(***************************************************************************)
EXTENDS Naturals, Sequences

CONSTANTS Layouts,   \* files: their trees, the lines of their nodes, the last line
          Comments,  \* lists of lines on which there are comments
          Tall       \* nodes printed on three lines, as a match expression is

VARIABLES doc,     \* the file that is formatted: tree, from, to, comments
          f,       \* the formatter
          todo,    \* what is printed next, a sequence of tasks
          phase,   \* "head", "print" or "done"
          result   \* the files formatted so far, each as it was printed

vars == <<doc, f, todo, phase, result>>

(***************************************************************************)
(* A tree: its nodes by name.  The nodes have `size` tokens that begin and *)
(* end them; `first` and `last` are the places of the two of a node in the *)
(* order of printing.                                                      *)
(***************************************************************************)
Nodes(t) == DOMAIN t.node

Of(t, kinds) == { id \in Nodes(t) : t.node[id].k \in kinds }

Line == {"text", "import", "extern", "sig"}

Top(t) == t.decl \o t.imports \o t.items

\* uses, requires, ensures are printed in this order, whatever the source has.
Clauses(n) == n.uses \o n.requires \o n.ensures

\* The part that ends where a function or an `if` does.
LastPart(t, id) == LET n == t.node[id]
                   IN  IF n.k = "func" THEN n.body
                       ELSE IF n.else = <<>> THEN n.then ELSE n.else[1]

\* These nodes, one behind the other, are all there is from a up to z.
Fill(t, ids, a, z) ==
    /\ IF ids = <<>> THEN z = a
       ELSE t.first[ids[1]] = a /\ t.last[ids[Len(ids)]] + 1 = z
    /\ \A i \in 1..Len(ids) : i < Len(ids) => t.first[ids[i + 1]] = t.last[ids[i]] + 1

IsNode(t, id) ==
    LET n == t.node[id]
        a == t.first[id]
        z == t.last[id]
    IN  \/ n.k \in Line /\ z = a + 1
        \/ n.k = "list" /\ n.parts \in Seq(Of(t, {"text"})) /\ Fill(t, n.parts, a + 1, z)
        \/ n.k = "block" /\ n.stmts \in Seq(Of(t, {"text", "if"})) /\ Fill(t, n.stmts, a + 1, z)
        \/ /\ n.k = "if" /\ n.then \in Of(t, {"block"})
           /\ n.else \in Seq(Of(t, {"block", "if"})) /\ Len(n.else) <= 1
           /\ t.first[n.then] = a + 1
           /\ Fill(t, n.else, t.last[n.then] + 1, z)
        \/ /\ n.k = "func" /\ n.sig \in Of(t, {"sig"}) /\ n.body \in Of(t, {"block"})
           /\ {n.uses, n.requires, n.ensures} \subseteq Seq(Of(t, {"text"}))
           /\ t.first[n.sig] = a + 1
           /\ Fill(t, Clauses(n), t.last[n.sig] + 1, t.first[n.body])
           /\ z = t.last[n.body] + 1

IsTree(t) ==
    /\ t.size \in Nat
    /\ {DOMAIN t.first, DOMAIN t.last} = {Nodes(t)}
    /\ \A id \in Nodes(t) : /\ {t.first[id], t.last[id]} \subseteq 1..t.size
                            /\ t.first[id] < t.last[id] /\ IsNode(t, id)
    /\ \A x, y \in Nodes(t) : /\ t.first[x] # t.last[y]
                              /\ x # y => t.first[x] # t.first[y] /\ t.last[x] # t.last[y]
    /\ t.decl \in Seq(Of(t, {"text"})) /\ t.imports \in Seq(Of(t, {"import"}))
    /\ t.items \in Seq(Of(t, {"text", "extern", "list", "func"}))
    /\ Fill(t, Top(t), 1, t.size + 1)

\* A function, and an `if`, end with the `}` of their last block.
IsLaid(l) ==
    /\ IsTree(l.tree)
    /\ {l.from, l.to} \subseteq [Nodes(l.tree) -> Nat]
    /\ \A id \in Of(l.tree, {"if", "func"}) : l.to[id] = l.to[LastPart(l.tree, id)]

\* A comment ends its line.
IsComments(c) == c \in Seq(Nat) /\ \A i, j \in 1..Len(c) : i < j => c[i] < c[j]

ASSUME LayoutsAssumption  == \A l \in Layouts : IsLaid(l)
ASSUME CommentsAssumption == \A c \in Comments : IsComments(c)

Task(k, id) == [k |-> k, id |-> id]

Tasks(k, ids) == [i \in 1..Len(ids) |-> Task(k, ids[i])]

\* Output so far: the line it is at, whether that line is still empty, whether a
\* comment ends it; the lines of what was printed; the comments printed.
New(d) == [line |-> 1, fresh |-> TRUE, ended |-> FALSE, garbled |-> FALSE,
           from |-> d.from, to |-> d.to, placed |-> <<>>, sep |-> FALSE, top |-> 0]

Init == /\ \E l \in Layouts, c \in Comments :
              /\ \A i \in 1..Len(c) : c[i] \in 1..l.end
              /\ doc = [tree |-> l.tree, from |-> l.from, to |-> l.to, comments |-> c]
        /\ f = New(doc) /\ todo = <<>> /\ phase = "head" /\ result = <<>>
-----------------------------------------------------------------------------
(* Output.                                                                 *)
Left(g) == Len(doc.comments) - Len(g.placed)

\* The line of the i-th comment that is left.
Peek(g, i) == doc.comments[Len(g.placed) + i]

Empty(g) == g.line = 1 /\ g.fresh

Push(g) == [g EXCEPT !.fresh = FALSE, !.garbled = @ \/ g.ended]

Newline(g) == [g EXCEPT !.line = @ + 1, !.fresh = TRUE, !.ended = FALSE]

Begins(g, id) == [g EXCEPT !.from[id] = g.line]
Ends(g, id)   == [g EXCEPT !.to[id] = g.line]

\* A node in one piece of text.
Text(g, id) == LET b == Push(Begins(g, id))
               IN  Ends(IF id \in Tall THEN [b EXCEPT !.line = @ + 2] ELSE b, id)

Separate(g) == IF g.sep THEN [Newline(Newline(g)) EXCEPT !.sep = FALSE] ELSE g

\* The next n comments, each on a line of its own, which must begin one.
OwnLines(g, n) == [g EXCEPT !.placed = @ \o [i \in 1..n |-> g.line + i - 1],
                            !.garbled = @ \/ g.ended \/ ~g.fresh]

\* How many comments come before one that is not above the line.
Due(g, line) == CHOOSE n \in 0..Left(g) : /\ \A i \in 1..n : Peek(g, i) < line
                                          /\ n < Left(g) => Peek(g, n + 1) >= line

FlushLeading(g, line) ==
    LET n == Due(g, line)
    IN  IF n = 0 THEN g
        ELSE [OwnLines(g, n) EXCEPT !.line = @ + n, !.fresh = TRUE, !.ended = FALSE]

FlushTrailing(g, line) ==
    IF Left(g) > 0 /\ Peek(g, 1) = line
    THEN [g EXCEPT !.placed = Append(@, g.line), !.fresh = FALSE, !.ended = TRUE,
                   !.garbled = @ \/ g.ended]
    ELSE g

FlushRemaining(g) == [OwnLines(g, Left(g)) EXCEPT !.line = @ + Left(g) - 1, !.fresh = FALSE,
                                                  !.ended = TRUE]
-----------------------------------------------------------------------------
(* Tasks.                                                                  *)
At(kinds) == phase = "print" /\ todo # <<>> /\ Head(todo).k \in kinds

Id   == Head(todo).id
Node == doc.tree.node[Id]

\* The output becomes g, and what is in `more` is printed before the rest.
Prints(g, more) == /\ f' = g /\ todo' = more \o Tail(todo)
                   /\ UNCHANGED <<doc, phase, result>>

\* The comment on the line a top-level node ends on, and that line kept.
Behind(g, id) == [FlushTrailing(g, doc.to[id]) EXCEPT !.top = doc.to[id], !.sep = TRUE]

\* A field, a variant or a statement: a line of its own.
Single == /\ At({"line"})
          /\ LET t == Text(FlushLeading(f, doc.from[Id]), Id)
             IN  Prints(Newline(FlushTrailing(t, doc.to[Id])), <<>>)

Clause == /\ At({"clause"})
          /\ LET t == Text(FlushLeading(Newline(f), doc.from[Id]), Id)
             IN  Prints(FlushTrailing(t, doc.to[Id]), <<>>)

\* Mutant: only a comment above the block counts as inside of it.
InsideAbove(g, b) == Left(g) > 0 /\ Peek(g, 1) < doc.from[b]

Inside(g, b) == Left(g) > 0 /\ Peek(g, 1) < doc.to[b]

\* Mutant: the comment behind `}` is always put there, before `else` as well.
ClosedAlways(g, b, trailing) == FlushTrailing(Ends(Push(g), b), doc.to[b])

Closed(g, b, trailing) ==
    LET e == Ends(Push(g), b) IN IF trailing THEN FlushTrailing(e, doc.to[b]) ELSE e

Statements(ids) == [i \in 1..Len(ids) |->
                       Task(IF doc.tree.node[ids[i]].k = "if" THEN "if" ELSE "line", ids[i])]

\* A block is "then" before `else`, and "body" where it begins a line.
Block ==
    LET k     == Head(todo).k
        open  == Push(Begins(IF k = "body" THEN Newline(f) ELSE f, Id))
        inner == Newline(FlushTrailing(open, doc.from[Id]))
        close == Task(IF k = "then" THEN "close then" ELSE "close", Id)
    IN  /\ At({"block", "body", "then"})
        /\ IF Node.stmts = <<>> /\ ~Inside(open, Id) THEN Prints(Closed(open, Id, k # "then"), <<>>)
           ELSE Prints(inner, Statements(Node.stmts) \o <<close>>)

BlockEnd == /\ At({"close", "close then"})
            /\ Prints(Closed(FlushLeading(f, doc.to[Id]), Id, Head(todo).k = "close"), <<>>)

Branches(id) ==
    LET n == doc.tree.node[id]
    IN  IF n.else = <<>> THEN <<Task("block", n.then)>>
        ELSE <<Task("then", n.then), Task("else", id)>>

If == /\ At({"if"})
      /\ Prints(Push(Begins(FlushLeading(f, doc.from[Id]), Id)),
                Branches(Id) \o <<Task("end stmt", Id)>>)

Else ==
    LET close == doc.to[Node.then]
        e     == Node.else[1]
        g     == Push(IF Left(f) > 0 /\ Peek(f, 1) = close
                      THEN Newline(FlushTrailing(f, close)) ELSE f)
    IN  /\ At({"else"})
        /\ IF doc.tree.node[e].k = "if"
           THEN Prints(Begins(g, e), Branches(e) \o <<Task("end if", e)>>)
           ELSE Prints(g, <<Task("block", e)>>)

IfEnd == At({"end if"}) /\ Prints(Ends(f, Id), <<>>)

StatementEnd == /\ At({"end stmt"})
                /\ Prints(Newline(FlushTrailing(Ends(f, Id), doc.to[Id])), <<>>)

RecordOrEnum ==
    LET open == Push(Begins(FlushLeading(Separate(f), doc.from[Id]), Id))
    IN  /\ At({"list"})
        /\ IF Node.parts = <<>> THEN Prints(Behind(Ends(open, Id), Id), <<>>)
           ELSE Prints(Newline(open), Tasks("line", Node.parts) \o <<Task("end list", Id)>>)

\* Mutant: the comments before `}` are left for what comes next.
ListEndOpen == At({"end list"}) /\ Prints(Behind(Ends(Push(f), Id), Id), <<>>)

ListEnd == /\ At({"end list"})
           /\ Prints(Behind(Ends(Push(FlushLeading(f, doc.to[Id])), Id), Id), <<>>)

Func ==
    LET open == Push(Begins(FlushLeading(Separate(f), doc.from[Id]), Id))
        sig  == Ends(Begins(open, Node.sig), Node.sig)
        end  == Task("end func", Id)
    IN  /\ At({"func"})
        /\ IF Clauses(Node) = <<>> THEN Prints(sig, <<Task("block", Node.body), end>>)
           ELSE Prints(FlushTrailing(sig, doc.to[Node.sig]),
                       Tasks("clause", Clauses(Node)) \o <<Task("body", Node.body), end>>)

FuncEnd == At({"end func"}) /\ Prints(Behind(Ends(f, Id), Id), <<>>)

\* Imports, and externs next to each other, have no empty line between them.
Item ==
    /\ At({"item", "next"})
    /\ LET g == IF Head(todo).k = "next" THEN Newline([f EXCEPT !.sep = FALSE]) ELSE Separate(f)
       IN  Prints(Behind(Text(FlushLeading(g, doc.from[Id]), Id), Id), <<>>)
-----------------------------------------------------------------------------
(* The file.                                                               *)
ItemTask(ids, i) ==
    LET k == doc.tree.node[ids[i]].k
    IN  Task(IF k \in {"list", "func"} THEN k
             ELSE IF i > 1 /\ k \in {"import", "extern"} /\ doc.tree.node[ids[i - 1]].k = k THEN "next"
             ELSE "item", ids[i])

Module ==
    /\ phase = "head"
    /\ f' = IF Top(doc.tree) = <<>> THEN f ELSE FlushLeading(f, doc.from[Top(doc.tree)[1]])
    /\ todo' = [i \in 1..Len(Top(doc.tree)) |-> ItemTask(Top(doc.tree), i)]
    /\ phase' = "print"
    /\ UNCHANGED <<doc, result>>

\* Comments that are left come last, behind an empty line if the source has one.
Finish ==
    LET gap == f.top > 0 /\ Peek(f, 1) >= f.top + 2
        g   == IF f.fresh THEN f ELSE Newline(f)
        h   == IF gap /\ ~Empty(f) THEN Newline(g) ELSE g
        out == IF Left(f) > 0 THEN FlushRemaining(h) ELSE f
    IN  /\ phase = "print" /\ todo = <<>>
        /\ f' = out
        /\ phase' = "done"
        /\ result' = Append(result, [from |-> out.from, to |-> out.to, comments |-> out.placed])
        /\ UNCHANGED <<doc, todo>>

\* What was printed is formatted again.
Again == /\ phase = "done" /\ Len(result) = 1
         /\ doc' = [doc EXCEPT !.from = f.from, !.to = f.to, !.comments = f.placed]
         /\ f' = New(doc')
         /\ phase' = "head"
         /\ UNCHANGED <<todo, result>>

Emit == \/ Single \/ Clause \/ Block \/ BlockEnd \/ If \/ Else \/ IfEnd \/ StatementEnd
        \/ RecordOrEnum \/ ListEnd \/ Func \/ FuncEnd \/ Item

Next == Module \/ Emit \/ Finish \/ Again

Spec == Init /\ [][Next]_vars
-----------------------------------------------------------------------------
(* Properties.                                                             *)
Kind == {"line", "clause", "block", "body", "then", "close", "close then", "if", "else", "end if",
         "end stmt", "list", "end list", "func", "end func", "item", "next"}

TypeOK ==
    /\ phase \in {"head", "print", "done"}
    /\ \A i \in 1..Len(todo) : todo[i].k \in Kind /\ todo[i].id \in Nodes(doc.tree)
    /\ f.line \in Nat /\ Len(f.placed) <= Len(doc.comments)
    /\ Len(result) <= 2

\* Formatting changes neither the program nor its comments: no code stands behind
\* a comment on a line, no comment on its own line behind code, no two comments
\* are on a line, and none is lost.
TextIntact == /\ TypeOK
              /\ ~f.garbled
              /\ \A i \in 1..(Len(f.placed) - 1) : f.placed[i] < f.placed[i + 1]
              /\ phase = "done" => Len(f.placed) = Len(doc.comments)

\* The source has imports, items and clauses in the order they are printed in:
\* what has its place before another is not below it.
InOrder(d) == LET t == d.tree IN \A x, y \in Nodes(t) :
    /\ t.first[x] < t.first[y] => d.from[x] <= d.from[y]
    /\ t.last[x] < t.last[y] => d.to[x] <= d.to[y]
    /\ t.first[x] < t.last[y] => d.from[x] <= d.to[y]
    /\ t.last[x] < t.first[y] => d.to[x] <= d.from[y]

Blocks(t) == Of(t, {"block", "func"}) \cup { id \in Of(t, {"list"}) : t.node[id].parts # <<>> }

Alone(d, id) == /\ d.from[id] = d.to[id] /\ id \in Of(d.tree, Line \ {"sig"})
                /\ \A o \in Nodes(d.tree) \ {id} : d.from[id] \notin {d.from[o], d.to[o]}

\* A comment does not change what it is about: one in a block, a record or an
\* enum that is not empty stays in it, one behind a node alone on its line stays
\* behind it.  Where the printer reorders, comments keep their own order instead.
CommentsStay ==
    (phase = "done" /\ InOrder(doc)) =>
        \A i \in DOMAIN doc.comments :
            /\ \A b \in Blocks(doc.tree) : (doc.comments[i] \in (doc.from[b] + 1)..(doc.to[b] - 1)) =>
                                         (f.placed[i] \in f.from[b]..(f.to[b] - 1))
            /\ \A n \in Nodes(doc.tree) : (Alone(doc, n) /\ doc.comments[i] = doc.to[n]) =>
                                         f.placed[i] = f.to[n]

\* A comment stands on a line where one block ends and another begins: `} else { //`.
BesideElse(d) == \E i \in DOMAIN d.comments : \E x, y \in Blocks(doc.tree) :
                    x # y /\ d.to[x] = d.comments[i] /\ d.from[y] = d.comments[i]

\* fmt(fmt(x)) = fmt(x) (kei_fmt/src/lib.rs:3-5): formatting what was formatted
\* changes nothing, whatever was moved the first time, unless it left a comment on
\* a line with `} else`, which the second formatting takes for the brace's.
IdempotentButElse == (Len(result) = 2 /\ ~BesideElse(result[1])) => result[2] = result[1]
=============================================================================
