------------------------------- MODULE MCFmt -------------------------------
(* Small files, laid out in every way the bounds of `Sources` allow: tight, *)
(* on lines of their own, and with a line between; up to two comments.     *)
EXTENDS Fmt, TLC

MCTall == {"match"}

List(parts) == [k |-> "list", parts |-> parts]
Fn(sig, uses, requires, ensures, body) ==
    [k |-> "func", sig |-> sig, uses |-> uses, requires |-> requires, ensures |-> ensures,
     body |-> body]
IfThen(then, else) == [k |-> "if", then |-> then, else |-> else]
Body(stmts) == [k |-> "block", stmts |-> stmts]

Each(ids, k) == [id \in ids |-> [k |-> k]]

\* `order` has every node twice, where it begins and where it ends in what is printed.
File(decl, imports, items, node, order) ==
    [decl |-> decl, imports |-> imports, items |-> items, node |-> node,
     first |-> [id \in DOMAIN node |->
                  CHOOSE n \in DOMAIN order : order[n] = id /\ \A m \in 1..(n - 1) : order[m] # id],
     size  |-> Len(order),
     last  |-> [id \in DOMAIN node |->
                  CHOOSE n \in DOMAIN order : order[n] = id /\ \E m \in 1..(n - 1) : order[m] = id]]

\* The ends of the nodes of a file as they follow each other in the source: the
\* node, which end, and by how many lines, at least and at most, it is below the
\* one before.
From(id, lo, hi) == [id |-> id, end |-> "from", lo |-> lo, hi |-> hi]
To(id, lo, hi)   == [id |-> id, end |-> "to", lo |-> lo, hi |-> hi]
One(id, lo, hi)  == <<From(id, lo, hi), To(id, 0, 0)>>
Two(id, lo, hi)  == <<From(id, lo, hi), To(id, 0, 1)>>

Header == File(<<"m">>, <<"i", "j">>, <<"e", "x", "t">>,
               Each({"m", "t"}, "text") @@ Each({"i", "j"}, "import") @@ Each({"e", "x"}, "extern"),
               <<"m", "m", "i", "i", "j", "j", "e", "e", "x", "x", "t", "t">>)

Lists == File(<<>>, <<"i">>, <<"r", "q">>,
              Each({"i"}, "import") @@ Each({"a", "b"}, "text")
              @@ ("r" :> List(<<"a", "b">>)) @@ ("q" :> List(<<>>)),
              <<"i", "i", "r", "a", "a", "b", "b", "r", "q", "q">>)

Disorder == File(<<>>, <<>>, <<"f">>,
                 Each({"u", "p", "match", "n", "s"}, "text") @@ Each({"fsig"}, "sig")
                 @@ ("f" :> Fn("fsig", <<"u">>, <<"p", "match">>, <<"n">>, "fbody"))
                 @@ ("fbody" :> Body(<<"s">>)),
                 <<"f", "fsig", "fsig", "u", "u", "p", "p", "match", "match", "n", "n",
                   "fbody", "s", "s", "fbody", "f">>)

Pair == File(<<>>, <<>>, <<"f", "g">>,
             Each({"u", "p", "n", "s"}, "text") @@ Each({"fsig", "gsig"}, "sig")
             @@ ("f" :> Fn("fsig", <<"u">>, <<"p">>, <<"n">>, "fbody"))
             @@ ("fbody" :> Body(<<"s">>))
             @@ ("g" :> Fn("gsig", <<>>, <<>>, <<>>, "gbody")) @@ ("gbody" :> Body(<<>>)),
             <<"f", "fsig", "fsig", "u", "u", "p", "p", "n", "n", "fbody", "s", "s", "fbody", "f",
               "g", "gsig", "gsig", "gbody", "gbody", "g">>)

Branching ==
    File(<<>>, <<>>, <<"f">>,
         Each({"match", "s", "t"}, "text") @@ Each({"fsig"}, "sig")
         @@ ("f" :> Fn("fsig", <<>>, <<>>, <<>>, "fbody")) @@ ("fbody" :> Body(<<"match", "c">>))
         @@ ("c" :> IfThen("then", <<"d">>)) @@ ("then" :> Body(<<"s">>))
         @@ ("d" :> IfThen("elif", <<"else">>)) @@ ("elif" :> Body(<<>>))
         @@ ("else" :> Body(<<"t">>)),
         <<"f", "fsig", "fsig", "fbody", "match", "match", "c", "then", "s", "s", "then",
           "d", "elif", "elif", "else", "t", "t", "else", "d", "c", "fbody", "f">>)

Sources == {
  [file |-> Header,
   ends |-> One("m", 0, 1) \o Two("i", 0, 2) \o One("j", 0, 1) \o One("e", 0, 2)
            \o Two("x", 0, 1) \o One("t", 1, 2)],
  [file |-> Header,
   ends |-> One("m", 0, 1) \o One("t", 0, 1) \o Two("j", 1, 2) \o One("e", 0, 1)
            \o Two("i", 0, 1) \o One("x", 0, 2)],
  [file |-> Lists,
   ends |-> One("i", 0, 1) \o <<From("r", 0, 1)>> \o One("a", 0, 2) \o One("b", 0, 2)
            \o <<To("r", 0, 2), From("q", 0, 2), To("q", 0, 2)>>],
  [file |-> Disorder,
   ends |-> <<From("f", 0, 0), From("fsig", 0, 0), To("fsig", 0, 1)>> \o One("n", 0, 1) \o One("p", 0, 1)
            \o One("u", 0, 1) \o Two("match", 0, 1) \o <<From("fbody", 0, 1)>> \o One("s", 0, 1)
            \o <<To("fbody", 0, 1), To("f", 0, 0)>>],
  [file |-> Pair,
   ends |-> <<From("f", 0, 0), From("fsig", 0, 0), To("fsig", 0, 1)>> \o One("u", 1, 2) \o One("p", 1, 1)
            \o One("n", 1, 2) \o <<From("fbody", 0, 1)>> \o One("s", 1, 2) \o <<To("fbody", 1, 2), To("f", 0, 0),
               From("g", 0, 1), From("gsig", 0, 0), To("gsig", 0, 1),
               From("gbody", 0, 0), To("gbody", 0, 2), To("g", 0, 0)>>],
  [file |-> Branching,
   ends |-> <<From("f", 0, 0), From("fsig", 0, 0), To("fsig", 0, 0), From("fbody", 0, 0)>>
            \o Two("match", 0, 1) \o <<From("c", 1, 1), From("then", 0, 0)>> \o One("s", 0, 1)
            \o <<To("then", 0, 1), From("d", 0, 0), From("elif", 0, 1), To("elif", 0, 1), From("else", 0, 1)>>
            \o One("t", 0, 1)
            \o <<To("else", 0, 1), To("d", 0, 0), To("c", 0, 0), To("fbody", 0, 1), To("f", 0, 0)>>],
  [file |-> Branching,
   ends |-> <<From("f", 0, 0), From("fsig", 0, 0), To("fsig", 0, 0), From("fbody", 0, 0)>>
            \o One("match", 1, 1) \o <<From("c", 1, 2), From("then", 0, 0)>> \o One("s", 1, 2)
            \o <<To("then", 1, 2), From("d", 0, 0), From("elif", 0, 1), To("elif", 0, 2), From("else", 0, 1)>>
            \o One("t", 1, 1)
            \o <<To("else", 1, 2), To("d", 0, 0), To("c", 0, 0), To("fbody", 1, 2), To("f", 0, 0)>>] }

\* The lines of these ends, behind the line 1 the file begins with.
RECURSIVE Lines(_)
Lines(ends) ==
    IF ends = <<>> THEN {<<1>>}
    ELSE LET n == Len(ends)
             lines == Lines(SubSeq(ends, 1, n - 1))
         IN  UNION { { Append(l, l[n] + d) : d \in ends[n].lo..ends[n].hi } : l \in lines }

Place(ends, end) == [id \in { ends[n].id : n \in DOMAIN ends } |->
                       1 + CHOOSE n \in DOMAIN ends : ends[n].id = id /\ ends[n].end = end]

Laid(file, ends, from, to) ==
    { [tree |-> file, end |-> lines[Len(lines)] + 2,
       from |-> [id \in DOMAIN from |-> lines[from[id]]],
       to   |-> [id \in DOMAIN to |-> lines[to[id]]]] : lines \in Lines(ends) }

MCLayouts == UNION { Laid(s.file, s.ends, Place(s.ends, "from"), Place(s.ends, "to")) : s \in Sources }

\* Two comments are enough for one to hold up the other; the last may be behind
\* the last node as well.
MCComments == {<<>>} \cup { <<a>> : a \in 1..20 } \cup { c \in (1..20) \X (1..20) : c[1] < c[2] }
=============================================================================
