---------------------------- MODULE ParserCursor ----------------------------
(***************************************************************************)
(* The parser's cursor over the tokens of a file, what it expects at it,   *)
(* and how it goes on from an error, as operators from a state of the      *)
(* parser to the state after it.  A token is its kind.  "id" is any        *)
(* identifier; "query", "require" and "use" are identifiers whose spelling *)
(* the parser looks at; "+" stands for every binary operator that is no    *)
(* prefix, type bracket or keyword, "true" for false as well.              *)
(*                                                                         *)
(* A state is the position, whether the last construct was read, whether   *)
(* the last expression is a plain path, the errors reported so far, and    *)
(* the tokens passed unread.  An error carries the edit its fix proposes:  *)
(* put the text of `ins`, without a space around it, where token `at`      *)
(* begins, in the place of `del` tokens.  What the lexer makes of it is    *)
(* Written below.  A fix that is a direction only has no edit.             *)
(***************************************************************************)
EXTENDS Sequences, Naturals

VARIABLE tokens     \* what the lexer yields, comments left out; ends in "eof"

DeclStart == {"module", "import", "type", "record", "enum", "func", "extern"}

Reserved == (DeclStart \ {"func", "extern"})
            \cup {"tagged", "as", "uses", "requires", "ensures"}

Keyword == DeclStart \cup Reserved
           \cup {"let", "if", "else", "fail", "return", "true", "implies", "match"}

Identifier == {"id", "query", "require", "use"}

BinOp == {"implies", "<", ">", "-", "+"}

ExprStart == Identifier \cup {"int", "str", "true", "(", "[", "-", "!", "match"}

Token == Keyword \cup Identifier \cup BinOp
         \cup {"int", "str", "(", ")", "[", "]", "{", "}", ",", ".", ":", "=", "!", "->", "=>", "nl", "eof"}

Word == Keyword \cup Identifier

\* What the lexer may make of the texts of k and l written without a space
\* between them.  It reads the longest token it can; of the texts that "+"
\* stands for, `==` is the one a text before it can take a part of.
Written(k, l) ==
    IF k \in Word /\ l \in Word \cup {"int"} THEN {<<"id">>}
    ELSE IF k = "-" /\ l = ">" THEN {<<"->">>}
    ELSE IF k = "=" /\ l = ">" THEN {<<"=>">>}
    ELSE IF k \notin {"=", "!", "<", ">"} THEN {<<k, l>>}
    ELSE CASE l = "="  -> {<<"+">>}
           [] l = "=>" -> {<<"+", ">">>}
           [] l = "+"  -> {<<"+", "=">>, <<k, l>>}
           [] OTHER    -> {<<k, l>>}
-----------------------------------------------------------------------------
At(s) == tokens[s.pos]

\* The last token, the end of the file, is never passed.
Bump(s) == [s EXCEPT !.pos = IF @ < Len(tokens) THEN @ + 1 ELSE @]

Eat(s, k) == IF At(s) = k THEN Bump(s) ELSE s

Fail(s) == [s EXCEPT !.ok = FALSE]

Go(s) == [s EXCEPT !.ok = TRUE]

\* No construct reaches beyond the end of the file.
SkipTo(s, stop) ==
    [s EXCEPT !.ok = TRUE,
              !.pos = CHOOSE p \in s.pos..Len(tokens) :
                          /\ tokens[p] \in stop \cup {"eof"}
                          /\ \A q \in s.pos..(p - 1) : tokens[q] \notin stop \cup {"eof"}]

SkipNewlines(s) ==
    [s EXCEPT !.pos = CHOOSE p \in s.pos..Len(tokens) :
                          /\ tokens[p] # "nl"
                          /\ \A q \in s.pos..(p - 1) : tokens[q] = "nl"]

RecoverInBraces(s)   == SkipTo(s, {"nl", ",", "}"})
RecoverInParens(s)   == SkipTo(s, {"nl", ",", ")"})
RecoverInBrackets(s) == SkipTo(s, {"nl", ",", "]"})

OrInBraces(s) == IF s.ok THEN s ELSE RecoverInBraces(s)

Report(s, code, pos, at, del, ins) ==
    [s EXCEPT !.errs = @ \cup {[code |-> code, pos |-> pos, at |-> at, del |-> del, ins |-> ins]}]

Unexpected(s) == Report(s, "E0101", s.pos, s.pos, 0, "none")

\* Mutant: the fix goes behind the token that was found.
MissingBehind(s, k) == Report(s, "E0101", s.pos, s.pos + 1, 0, k)

Missing(s, k) == Report(s, "E0101", s.pos, s.pos, 0, k)

Rename(s) == Report(s, "E0102", s.pos, s.pos, 1, "id")

Unclosed(s, open, close) == Report(s, "E0103", open, s.pos, 0, close)

\* Mutant: a missing token is taken as given.
ExpectSilently(s, k) == IF At(s) = k THEN Bump(s) ELSE s

Expect(s, k) == IF At(s) = k THEN Bump(s) ELSE Missing(s, k)

\* A keyword is reported and taken for a name.
ExpectIdent(s) == IF At(s) \in Identifier THEN Bump(s)
                  ELSE IF At(s) \in Keyword THEN Bump(Rename(s))
                  ELSE Fail(Unexpected(s))

ExpectMember(s) == IF At(s) \in Identifier \cup Keyword THEN Bump(s) ELSE Fail(Unexpected(s))

NoPath(s) == [s EXCEPT !.path = FALSE]

AsPath(s) == [s EXCEPT !.path = TRUE]

\* The separator behind an element; without one, the rest is skipped.
Separated(s, close) ==
    LET m == SkipNewlines(s)
    IN  IF At(m) = "," THEN Bump(m)
        ELSE IF At(m) \in {close, "eof"} THEN m
        ELSE SkipTo(Missing(m, ","), {"nl", ",", close})

\* A name and the `k` behind it; a name in the place of `k` is read as what follows.
Named(s, k) ==
    LET n == ExpectIdent(s)
    IN  IF n.ok /\ At(n) \notin {k} \cup Identifier THEN Fail(Missing(n, k))
        ELSE IF n.ok THEN Expect(n, k) ELSE n

\* Ends of a list of parameters, empty or not, with `=>` behind, from `(` on.
LambdaEnds(s) ==
    { e \in (s.pos + 1)..(Len(tokens) - 1) :
        /\ tokens[e] = ")" /\ tokens[e + 1] = "=>"
        /\ e = s.pos + 1 \/ (e - s.pos) % 2 = 0
        /\ \A i \in (s.pos + 1)..(e - 1) :
              IF (i - s.pos) % 2 = 1 THEN tokens[i] \in Identifier ELSE tokens[i] = "," }

=============================================================================
