------------------------------- MODULE Parser -------------------------------
(***************************************************************************)
(* The parser of one source file, a recursive descent, as a machine: what  *)
(* its functions still have to do is a stack of tasks, the innermost last, *)
(* and every step runs a task until it asks for another one.  A task that  *)
(* reads what is in brackets knows the position of the bracket it opened.  *)
(* A task that fails returns with s.ok = FALSE, and the tasks that called  *)
(* it fail in turn, up to one that recovers.                               *)
(* When the file is read, the edit one of the errors proposes may be made  *)
(* in its text, and the file lexed and read again.                         *)
(***************************************************************************)
EXTENDS ParserCursor, FiniteSets

CONSTANT Programs   \* token sequences, each ending in "eof"

ASSUME ProgramsAssumption ==
    \A p \in Programs : /\ p \in Seq(Token) /\ p # <<>>
                        /\ \A i \in 1..Len(p) : p[i] = "eof" <=> i = Len(p)

VARIABLES s,        \* the state of the parser, see ParserCursor
          stack,    \* the tasks under way
          taken,    \* positions at which a declaration was begun
          phase,    \* "start", "decls" or "done"
          fixed,    \* the error whose fix was applied, a set of at most one
          round     \* flips with every step, as an endless loop still reports errors

vars == <<tokens, s, stack, taken, phase, fixed, round>>

Loop(k, open, of) == [k |-> k, open |-> open, of |-> of, depth |-> 0]

Task(k) == Loop(k, 0, "none")

Begin == [pos |-> 1, ok |-> TRUE, path |-> FALSE, errs |-> {}, lost |-> {}]

Init == /\ tokens \in Programs
        /\ s = Begin /\ stack = <<>> /\ taken = {}
        /\ phase = "start" /\ fixed = {} /\ round = 0
-----------------------------------------------------------------------------
Top   == stack[Len(stack)]
Outer == SubSeq(stack, 1, Len(stack) - 1)
Here  == SkipNewlines(s)

\* The innermost task is replaced by `more`, which may begin with the task itself.
Becomes(t, more) == /\ stack' = Outer \o more /\ s' = t /\ round' = 1 - round
                    /\ UNCHANGED <<tokens, fixed>>

In(k) == /\ phase = "decls" /\ stack # <<>> /\ Top.k = k
         /\ UNCHANGED <<taken, phase>>

As(k) == [Top EXCEPT !.k = k]

\* What is asked for to read a type, a pattern and an expression; one that is
\* a condition ("cond") has no record literal.
Type     == <<Task("type"), Task("path")>>
Pattern  == <<Task("pattern"), Task("path")>>
Expr(of) == <<Loop("operand", 0, of), Loop("unary", 0, of)>>

\* An entry of a list in braces, and what may stand behind it.
Entry == <<Top, Task("entry end")>>

\* A list in brackets whose loop reads the closing one: closed, not closed, or with more.
Until(close, t, more) ==
    IF At(Here) = close THEN Becomes(NoPath(Bump(Here)), <<>>)
    ELSE IF At(Here) = "eof" THEN Becomes(NoPath(Unclosed(Here, Top.open, close)), <<>>)
    ELSE Becomes(t, more)

\* A list whose closing bracket is expected behind its loop.
UntilThen(close, t, more) ==
    IF At(Here) = close THEN Becomes(NoPath(Bump(Here)), <<>>)
    ELSE IF At(Here) = "eof" THEN Becomes(NoPath(Missing(Unclosed(Here, Top.open, close), close)), <<>>)
    ELSE Becomes(t, more)
-----------------------------------------------------------------------------
(* Recovery over nested braces; a `}` too many is passed.                  *)

\* Mutant: a closing brace does not count.
DeeperOnly(t, depth) == IF At(t) = "{" THEN depth + 1 ELSE depth

Deeper(t, depth) == IF At(t) = "{" THEN depth + 1
                    ELSE IF At(t) = "}" /\ depth > 0 THEN depth - 1 ELSE depth

Onward == Becomes(Bump(s), <<[Top EXCEPT !.depth = Deeper(s, @)]>>)

ToDecl == /\ In("to decl")
          /\ IF At(s) = "eof" \/ (At(s) \in DeclStart /\ Top.depth = 0)
             THEN Becomes(Go(s), <<>>) ELSE Onward

ToStmtEnd == /\ In("to stmt end")
             /\ IF At(s) = "eof" \/ (At(s) = "}" /\ Top.depth = 0) THEN Becomes(Go(s), <<>>)
                ELSE IF At(s) = "nl" /\ Top.depth = 0 THEN Becomes(Go(Here), <<>>)
                ELSE Onward

OrDecl == In("or decl") /\ Becomes(s, IF s.ok THEN <<>> ELSE <<Task("to decl")>>)

OrStmtEnd == In("or stmt end") /\ Becomes(s, IF s.ok THEN <<>> ELSE <<Task("to stmt end")>>)

\* Mutant: a separator at which recovery stops is not passed.
EntryEndNoComma == /\ In("entry end")
                   /\ Becomes(IF s.ok THEN Eat(s, ",") ELSE RecoverInBraces(s), <<>>)

\* Behind an entry of a list in braces, read or not.
EntryEnd == In("entry end") /\ Becomes(Eat(OrInBraces(s), ","), <<>>)
-----------------------------------------------------------------------------
(* Names, types and patterns.                                              *)
Path ==
    LET n == ExpectIdent(s)
    IN  /\ In("path")
        /\ IF n.ok /\ At(n) = "." THEN Becomes(Bump(n), <<Top>>) ELSE Becomes(n, <<>>)

TypeRest ==
    /\ In("type")
    /\ IF s.ok /\ At(s) = "<" THEN Becomes(Bump(s), <<Task("type args")>> \o Type)
       ELSE Becomes(s, <<>>)

TypeArg ==
    /\ In("type args")
    /\ IF ~s.ok THEN Becomes(s, <<>>)
       ELSE IF At(s) = "," THEN Becomes(Bump(s), <<Top>> \o Type)
       ELSE Becomes(Expect(s, ">"), <<>>)

PatternPayload ==
    /\ In("pattern")
    /\ IF s.ok /\ At(s) = "(" THEN Becomes(Bump(s), <<Loop("bindings", s.pos, "none")>>)
       ELSE IF s.ok /\ At(s) = "{" THEN Becomes(Bump(s), <<Loop("bound fields", s.pos, "none")>>)
       ELSE Becomes(s, <<>>)

Binding ==
    LET b == ExpectIdent(Here)
    IN  /\ In("bindings")
        /\ IF b.ok /\ At(b) = "," THEN UntilThen(")", Bump(b), <<Top>>)
           ELSE UntilThen(")", Expect(IF b.ok THEN b ELSE RecoverInParens(b), ")"), <<>>)

BoundField == /\ In("bound fields")
              /\ UntilThen("}", ExpectIdent(Here), Entry)
-----------------------------------------------------------------------------
(* Expressions.                                                            *)

\* parse_implies to parse_mul: the five levels read the same tokens.
Operand ==
    /\ In("operand")
    /\ IF s.ok /\ At(s) \in BinOp THEN Becomes(Bump(s), <<Task("no path")>> \o Expr(Top.of))
       ELSE Becomes(s, <<>>)

Unary ==
    /\ In("unary")
    /\ IF At(s) \in {"-", "!"} THEN Becomes(Bump(s), <<Task("no path"), Top>>)
       ELSE Becomes(s, <<As("postfix"), Task("primary")>>)

NoPathEnd == In("no path") /\ Becomes(NoPath(s), <<>>)

\* `(`: a lambda, one without a parameter, which is reported, or an expression.
Parenthesis(s1) ==
    LET e == CHOOSE e \in LambdaEnds(s1) : TRUE
        b == [s1 EXCEPT !.pos = e + 2]
    IN  IF LambdaEnds(s1) = {}
        THEN Becomes(Bump(s1), <<Loop("group", s1.pos, "none")>> \o Expr("none"))
        ELSE IF e = s1.pos + 1
        THEN Becomes(Report(b, "E0101", s1.pos, e, 0, "id"), <<Task("zero lambda")>> \o Expr("none"))
        ELSE IF At(b) = "{" THEN Becomes(Fail(Unexpected(b)), <<Task("lambda")>>)
        ELSE Becomes(b, <<Task("lambda")>> \o Expr("none"))

\* A name: a path, or the parameter of a lambda.
Name ==
    LET b == Bump(Bump(s))
    IN  IF At(Bump(s)) # "=>" THEN Becomes(AsPath(Bump(s)), <<>>)
        ELSE IF At(b) = "{" THEN Becomes(Fail(Unexpected(b)), <<>>)
        ELSE Becomes(b, <<Task("no path")>> \o Expr("none"))

Primary ==
    LET k == At(s)
    IN  /\ In("primary")
        /\ CASE k = "match"                -> Becomes(Bump(s), <<Task("match")>> \o Expr("cond"))
             [] k \in {"int", "str", "true"} -> Becomes(NoPath(Bump(s)), <<>>)
             [] k \in Identifier            -> Name
             [] k = "("                    -> Parenthesis(s)
             [] k = "["                    -> Becomes(Bump(s), <<Loop("list", s.pos, "none")>>)
             [] k \in Reserved             -> Becomes(AsPath(Bump(Rename(s))), <<>>)
             [] OTHER                      -> Becomes(Fail(Unexpected(s)), <<>>)

\* What cannot be read as a lambda is read as an expression in parentheses,
\* from where the lambda failed and not from its start: a token is passed unread.
LambdaEnd ==
    /\ In("lambda")
    /\ IF s.ok THEN Becomes(NoPath(s), <<>>)
       ELSE Becomes([Go(Bump(s)) EXCEPT !.lost = @ \cup {s.pos}], <<Task("group")>> \o Expr("none"))

ZeroLambdaEnd == In("zero lambda") /\ Becomes(NoPath(Go(s)), <<>>)

GroupEnd == In("group") /\ Becomes(IF s.ok THEN Expect(s, ")") ELSE s, <<>>)

\* Members, calls and, behind a path, the fields of a record literal.
Postfix ==
    /\ In("postfix")
    /\ IF ~s.ok THEN Becomes(s, <<>>)
       ELSE IF At(s) = "." THEN Becomes(ExpectMember(Bump(s)), <<Top>>)
       ELSE IF At(s) = "(" THEN Becomes(Bump(s), <<Top, Loop("args", s.pos, "none")>>)
       ELSE IF At(s) = "{" /\ Top.of # "cond" /\ s.path
            THEN Becomes(Bump(s), <<Top, Loop("record literal", s.pos, "none")>>)
       ELSE Becomes(s, <<>>)

Args == In("args") /\ UntilThen(")", Here, <<As("arg")>> \o Expr("none"))

Arg ==
    /\ In("arg")
    /\ IF ~s.ok THEN Becomes(s, <<>>)
       ELSE IF At(Here) = "," THEN Becomes(Bump(Here), <<As("args")>>)
       ELSE Becomes(NoPath(Expect(Here, ")")), <<>>)

List == In("list") /\ Until("]", Here, <<As("element")>> \o Expr("none"))

Element ==
    /\ In("element")
    /\ Becomes(IF s.ok THEN Separated(s, "]") ELSE Eat(RecoverInBrackets(s), ","), <<As("list")>>)

RecordLit ==
    LET f == ExpectIdent(Here)
    IN  /\ In("record literal")
        /\ IF ~f.ok THEN Until("}", Eat(RecoverInBraces(f), ","), <<Top>>)
           ELSE IF At(f) = ":" THEN Until("}", Bump(f), <<As("value")>> \o Expr("none"))
           ELSE Until("}", Separated(f, "}"), <<Top>>)

Value ==
    /\ In("value")
    /\ IF s.ok THEN Becomes(Separated(s, "}"), <<As("record literal")>>) ELSE Becomes(s, <<>>)

Match ==
    /\ In("match")
    /\ IF ~s.ok THEN Becomes(s, <<>>)
       ELSE IF At(s) = "{" THEN Becomes(Bump(s), <<Loop("arms", s.pos, "none")>>)
       ELSE Becomes(Fail(Missing(s, "{")), <<>>)

Arms == In("arms") /\ Until("}", Here, Entry \o (<<Task("arm body")>> \o Pattern))

ArmBody == /\ In("arm body")
           /\ IF s.ok THEN Becomes(Expect(s, "=>"), Expr("none")) ELSE Becomes(s, <<>>)
-----------------------------------------------------------------------------
(* Declarations.                                                           *)

\* An optional module declaration comes first.
ModuleDecl ==
    /\ phase = "start"
    /\ phase' = "decls"
    /\ IF At(Here) = "module" THEN Becomes(Bump(Here), <<Task("or decl"), Task("path")>>)
       ELSE Becomes(Here, <<>>)
    /\ UNCHANGED taken

\* A name and a list in brackets behind it.
Header(n, bracket, k, of) ==
    IF n.ok /\ At(n) = bracket THEN Becomes(Bump(n), <<Loop(k, n.pos, of)>>)
    ELSE Becomes(IF n.ok THEN Missing(n, bracket) ELSE n, <<Task("to decl")>>)

TypeAlias(n) == Becomes(n, <<Task("alias")>> \o IF n.ok THEN Type ELSE <<>>)

Extern(q) == Becomes(ExpectIdent(IF At(q) = "query" /\ At(Bump(q)) \in Identifier THEN Bump(q) ELSE q),
                     <<Task("extern name")>>)

Declaration ==
    LET k == At(Here)
        n == ExpectIdent(Bump(Here))
    IN  /\ phase = "decls" /\ stack = <<>>
        /\ k # "eof"
        /\ CASE k = "import" -> Becomes(Bump(Here), <<Task("import"), Task("path")>>)
             [] k = "type"   -> TypeAlias(Named(Bump(Here), "="))
             [] k = "record" -> Header(n, "{", "fields", "none")
             [] k = "enum"   -> Header(n, "{", "variants", "none")
             [] k = "func"   -> Header(n, "(", "params", "func")
             [] k = "extern" -> Extern(Bump(Here))
             [] OTHER        -> Becomes(Bump(Unexpected(Here)), <<Task("to decl")>>)
        /\ taken' = IF k \in DeclStart \ {"module"} THEN taken \cup {Here.pos} ELSE taken
        /\ UNCHANGED phase

EndOfFile == /\ phase = "decls" /\ stack = <<>> /\ At(Here) = "eof"
             /\ phase' = "done"
             /\ Becomes(Here, <<>>)
             /\ UNCHANGED taken

ImportRest ==
    /\ In("import")
    /\ IF ~s.ok THEN Becomes(s, <<Task("to decl")>>)
       ELSE IF At(s) = "{" THEN Becomes(Bump(s), <<Loop("names", s.pos, "none")>>)
       ELSE IF At(s) = "as" THEN Becomes(Go(ExpectIdent(Bump(s))), <<>>)
       ELSE Becomes(s, <<>>)

AliasEnd ==
    /\ In("alias")
    /\ IF ~s.ok THEN Becomes(s, <<Task("to decl")>>)
       ELSE IF At(s) # "tagged" THEN Becomes(s, <<>>)
       ELSE IF At(Bump(s)) = "str" THEN Becomes(Bump(Bump(s)), <<>>)
       ELSE Becomes(Unexpected(Bump(s)), <<>>)

\* Behind the first name of an extern, a namespace, keywords are names.
ExternName ==
    /\ In("extern name")
    /\ IF s.ok /\ At(s) = "." THEN Becomes(ExpectMember(Bump(s)), <<Top>>)
       ELSE Header(s, "(", "params", "extern")

ImportedName == In("names") /\ Until("}", ExpectIdent(Here), Entry)

Field ==
    LET n == Named(Here, ":")
    IN  In("fields") /\ Until("}", n, Entry \o IF n.ok THEN Type ELSE <<>>)

Variant ==
    LET n == ExpectIdent(Here)
        Data(k) == Entry \o <<Loop(k, n.pos, "none")>>
    IN  /\ In("variants")
        /\ IF n.ok /\ At(n) = "(" THEN Until("}", Bump(n), Data("payload"))
           ELSE IF n.ok /\ At(n) = "{" THEN Until("}", Bump(n), Data("fields"))
           ELSE Until("}", n, Entry)

\* The types of a tuple variant.
Payload == In("payload") /\ UntilThen(")", Here, <<As("payload type")>> \o Type)

PayloadType ==
    /\ In("payload type")
    /\ IF s.ok /\ At(s) = "," THEN Becomes(Bump(s), <<As("payload")>>)
       ELSE Becomes(Expect(OrInBraces(s), ")"), <<>>)

\* Behind the parameters: a result type, and what an extern declares in its line.
Signature(t) ==
    LET n == SkipNewlines(t)
    IN  IF Top.of = "extern"
        THEN IF At(t) = "->" THEN Becomes(Bump(t), <<Task("extern uses")>> \o Type)
             ELSE Becomes(t, <<Task("extern uses")>>)
        ELSE IF At(n) = "->" THEN Becomes(Bump(n), <<Task("clauses"), Task("or stmt end")>> \o Type)
        ELSE Becomes(t, <<Task("clauses")>>)

\* A comma that recovery stops at is not passed.
Param ==
    LET n == Named(Here, ":")
    IN  /\ In("params")
        /\ IF At(Here) = ")" THEN Signature(Bump(Here))
           ELSE IF \/ At(Here) = "eof"
                   \/ At(Here) \in DeclStart /\ At(Bump(Here)) # ":"
                THEN Signature(Unclosed(Here, Top.open, ")"))
           ELSE IF n.ok THEN Becomes(n, <<As("param")>> \o Type)
           ELSE Becomes(RecoverInParens(n), <<Top>>)

ParamEnd ==
    /\ In("param")
    /\ IF ~s.ok THEN Becomes(RecoverInParens(s), <<As("params")>>)
       ELSE IF At(Here) \in {",", ")"} THEN Becomes(Eat(Here, ","), <<As("params")>>)
       ELSE Signature(Missing(Here, ")"))

Effects == <<Task("effects"), Task("path")>>

ExternUses ==
    /\ In("extern uses")
    /\ IF ~s.ok THEN Becomes(s, <<Task("to decl")>>)
       ELSE IF At(s) = "uses" THEN Becomes(Bump(s), Effects)
       ELSE Becomes(s, <<>>)

EffectEnd ==
    /\ In("effects")
    /\ IF ~s.ok THEN Becomes(s, <<Task("to stmt end")>>)
       ELSE IF At(s) = "," THEN Becomes(Bump(s), Effects)
       ELSE Becomes(s, <<>>)

\* A word close to the name of a clause is reported and read as that clause.
Clause ==
    LET k == At(Here)
        misspelt(kw) == Report(Here, "E0104", Here.pos, Here.pos, 1, kw)
        Condition == <<Top, Task("or stmt end")>> \o Expr("none")
    IN  /\ In("clauses")
        /\ CASE k = "uses"                   -> Becomes(Bump(Here), <<Top>> \o Effects)
             [] k \in {"requires", "ensures"} -> Becomes(Bump(Here), Condition)
             [] k = "use"                    -> Becomes(Bump(misspelt("uses")), <<Top>> \o Effects)
             [] k = "require"                -> Becomes(Bump(misspelt("requires")), Condition)
             [] k = "{"                      -> Becomes(Bump(Here), <<Loop("block", Here.pos, "func")>>)
             [] OTHER                        -> Becomes(Missing(Here, "{"), <<Task("to decl")>>)
-----------------------------------------------------------------------------
(* Statements.                                                             *)
If == <<Task("then")>> \o Expr("cond")

\* Behind `else`, from a block that has just ended.
Else(b) ==
    IF At(b) = "if" THEN Becomes(Bump(b), If)
    ELSE IF At(b) = "{" THEN Becomes(Bump(b), <<Loop("block", b.pos, "else")>>)
    ELSE Becomes(Missing(b, "{"), <<Task("stmt end")>>)

BlockEnd ==
    LET t == IF At(Here) = "}" THEN Bump(Here) ELSE Unclosed(Here, Top.open, "}")
        e == SkipNewlines(t)
    IN  /\ In("block") /\ At(Here) \in {"}", "eof"}
        /\ IF Top.of = "then" /\ At(e) = "else" THEN Else(Bump(e))
           ELSE Becomes(t, IF Top.of = "func" THEN <<>> ELSE <<Task("stmt end")>>)

Statement ==
    LET k == At(Here)
        n == ExpectIdent(Bump(Here))
        Stmt == <<Top, Task("stmt end")>>
    IN  /\ In("block") /\ k \notin {"}", "eof"}
        /\ CASE k = "if"     -> Becomes(Bump(Here), <<Top>> \o If)
             [] k = "let"    -> IF n.ok /\ At(n) = ":"
                                THEN Becomes(Bump(n), Stmt \o (<<Task("let value")>> \o Type))
                                ELSE Becomes(n, Stmt \o <<Task("let value")>>)
             [] k = "return" -> Becomes(Bump(Here), Stmt \o IF At(Bump(Here)) \in {"nl", "}", "eof"}
                                                            THEN <<>> ELSE Expr("none"))
             [] OTHER        -> Becomes(Here, Stmt \o Expr("none"))

\* Behind the condition of an `if`; one that fails ends the statement.
Then ==
    /\ In("then")
    /\ IF s.ok /\ At(s) = "{" THEN Becomes(Bump(s), <<Loop("block", s.pos, "then")>>)
       ELSE Becomes(IF s.ok THEN Missing(s, "{") ELSE s, <<Task("to stmt end")>>)

LetValue ==
    /\ In("let value")
    /\ IF ~s.ok THEN Becomes(s, <<>>)
       ELSE IF At(s) \in {"="} \cup ExprStart THEN Becomes(Expect(s, "="), <<Task("let else")>> \o Expr("none"))
       ELSE Becomes(Fail(Missing(s, "=")), <<>>)

LetElse ==
    /\ In("let else")
    /\ IF s.ok /\ At(s) = "else" THEN Becomes(Expect(Bump(s), "fail"), Expr("none"))
       ELSE Becomes(s, <<>>)

StmtEnd ==
    /\ In("stmt end")
    /\ IF s.ok /\ At(s) \in {"nl", "}", "eof"} THEN Becomes(Here, <<>>)
       ELSE Becomes(IF s.ok THEN Missing(s, "nl") ELSE s, <<Task("to stmt end")>>)
-----------------------------------------------------------------------------
\* What the lexer may make of the file when the edit of an error is made in its
\* text.  A word is replaced by a word; a text put in front of a token is read
\* with it, and with the token before where nothing is between the two.  Behind
\* a comment, which only a line end or the end of the file may follow, it is a
\* part of the comment.
Edited(e) ==
    LET l == tokens[e.at - 1]
        r == tokens[e.at]
        Put(from, w, to) == SubSeq(tokens, 1, from) \o w \o SubSeq(tokens, to, Len(tokens))
        Before == IF e.at > 1 /\ <<l, r>> \in Written(l, r) THEN Written(l, e.ins) ELSE {}
    IN  IF e.del = 1 THEN { Put(e.at - 1, <<e.ins>>, e.at + 1) }
        ELSE { Put(e.at - 1, w, e.at + 1) : w \in Written(e.ins, r) }
             \cup { Put(e.at - 2, w, e.at) : w \in Before \ {<<l, e.ins>>} }
             \cup (IF r \in {"nl", "eof"} THEN {tokens} ELSE {})

\* The file is edited as one of its errors proposes, and read again.
ApplyFix ==
    /\ phase = "done" /\ fixed = {}
    /\ \E e \in {e \in s.errs : e.ins # "none"} : fixed' = {e} /\ tokens' \in Edited(e)
    /\ s' = Begin /\ stack' = <<>> /\ taken' = {} /\ phase' = "start" /\ round' = 0

Stop == phase = "done" /\ UNCHANGED vars

Parse == \/ ModuleDecl \/ Declaration \/ EndOfFile
         \/ ToDecl \/ ToStmtEnd \/ OrDecl \/ OrStmtEnd \/ EntryEnd
         \/ Path \/ TypeRest \/ TypeArg \/ PatternPayload \/ Binding \/ BoundField
         \/ Operand \/ Unary \/ NoPathEnd \/ Primary \/ LambdaEnd \/ ZeroLambdaEnd \/ GroupEnd
         \/ Postfix \/ Args \/ Arg \/ List \/ Element \/ RecordLit \/ Value
         \/ Match \/ Arms \/ ArmBody
         \/ ImportRest \/ AliasEnd \/ ExternName \/ ImportedName \/ Field
         \/ Variant \/ Payload \/ PayloadType \/ Param \/ ParamEnd \/ ExternUses \/ EffectEnd \/ Clause
         \/ BlockEnd \/ Statement \/ Then \/ LetValue \/ LetElse \/ StmtEnd

Next == Parse \/ ApplyFix \/ Stop

\* A step is always possible before the file is read, and makes `round` flip.
Round == phase # "done" /\ round' = 1 - round

\* The parser is one thread that runs its tasks until it returns.
Spec == Init /\ [][Next]_vars /\ WF_round(Round)
-----------------------------------------------------------------------------
(* Properties.                                                             *)
\* What a fix puts into the file; nothing, where it is a direction only.
Insertion == Token \cup {"none"}

Error == [code : {"E0101", "E0102", "E0103", "E0104"}, pos : Nat, at : Nat, del : {0, 1},
          ins : Insertion]

\* The kinds of values the variables hold.
TypeOK ==
    /\ s.pos \in 1..Len(tokens) /\ s.errs \subseteq Error /\ s.lost \subseteq 1..Len(tokens)
    /\ \A e \in s.errs : e.pos \in 1..Len(tokens) /\ e.at \in 1..Len(tokens)
    /\ \A i \in DOMAIN stack : stack[i].open \in 0..Len(tokens)
    /\ taken \subseteq 1..Len(tokens)
    /\ phase \in {"start", "decls", "done"} /\ fixed \subseteq Error

Opening == {"(", "[", "{"}
Closing == {")", "]", "}"}

Closer(k) == CASE k = "(" -> ")" [] k = "[" -> "]" [] k = "{" -> "}"

\* The open brackets `o`, each by the one that closes it, behind another token k;
\* one that closes no other stays as an open one that nothing closes.
Behind(o, k) == IF k \in Opening THEN Append(o, Closer(k))
                ELSE IF k \notin Closing THEN o
                ELSE IF o # <<>> /\ o[Len(o)] = k THEN SubSeq(o, 1, Len(o) - 1)
                ELSE Append(o, "bad")

\* The brackets open behind the first n tokens.
Open[n \in 0..Len(tokens)] == IF n = 0 THEN <<>> ELSE Behind(Open[n - 1], tokens[n])

\* A declaration that begins a line outside of brackets.
Declares(p) == /\ tokens[p] \in DeclStart \ {"module"}
               /\ tokens[p - 1] = "nl" /\ Open[p - 1] = <<>>

\* However broken the declarations before it are, one that begins a line
\* outside of brackets is read as a declaration: errors do not hide what follows
\* (parser.rs, the recovery rules at the head of the file).  Not so behind a
\* token that was passed unread, where a lambda in parentheses had no body.
DeclarationsTaken ==
    phase = "done" => \A p \in 2..Len(tokens) :
                          Declares(p) => p \in taken \/ \E q \in s.lost : q < p

\* A file without errors has every bracket closed, in order: no recovery is
\* silent, whichever of the loops met the end of the file or a stray bracket.
BalancedWhenClean == phase = "done" /\ s.errs = {} => Open[Len(tokens)] = <<>>

\* What every parser state proposes is within the file.  The edit can be made
\* mechanically (SKILL.md:699, diagnostic-schema.md:63), and the error is gone when
\* the file is read again, whatever loop the parser was in, if the lexer makes of
\* the text that was put in the token the parser asked for, and not a part of a
\* longer one, as of `else failc` and `==>`, or of a comment.
FixRemovesErrorUnlessFused ==
    /\ TypeOK
    /\ phase = "done" /\ (\A e \in fixed : tokens[e.at] = e.ins) => fixed \cap s.errs = {}

\* A parameter list stands at a comma it will not pass.
StuckAtComma == phase = "decls" /\ stack # <<>> /\ Top.k = "params" /\ At(s) = ","

\* Every file is read to its end, but for a comma where a parameter should be.
EndsUnlessStuck == []<>(phase = "done" \/ StuckAtComma)

\* Every file is read to its end, whatever it contains: the parser recovers
\* from errors and returns what it could read (parser.rs:1-2).
Ends == <>(phase = "done")
=============================================================================
