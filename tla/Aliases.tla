------------------------------- MODULE Aliases -------------------------------
(***************************************************************************)
(* Type aliases are resolved twice in kei_check, by two recursive walks:   *)
(*   - ensure_alias (check.rs) resolves the aliases of the module under    *)
(*     check, in declaration order, and reports cycles;                    *)
(*   - ty_of_alias (imports.rs) resolves the same aliases again for every  *)
(*     module that imports them, silently, and starting from the keys of a *)
(*     HashMap, that is, in an order that differs from process to process. *)
(* Both recursions are kept as explicit stacks.  One module is resolved    *)
(* locally, then imported by two processes one after the other.            *)
(***************************************************************************)
EXTENDS Sequences, Naturals, FiniteSets

CONSTANTS
    Alias,      \* the aliases of the module
    DeclOrder,  \* the order of their declarations in the source
    Tag,        \* the tags of tagged aliases
    NoTag,
    Decls,      \* the sets of declarations to resolve
    MaxFrames   \* bound on the frames of a walk, beyond what it may ever use

Shape == {"int", "record", "opaque", "same", "option", "result"}

Arity(shape) == IF shape = "result" THEN 2
                ELSE IF shape \in {"same", "option"} THEN 1 ELSE 0

\* `type A = <shape over refs> [tagged "tag"]`; "same" is `type A = B`.
Decl == { d \in [shape : Shape, refs : UNION {[1..n -> Alias] : n \in 0..2},
                 tag : Tag \cup {NoTag}] : Len(d.refs) = Arity(d.shape) }

ASSUME AliasAssumption == /\ IsFiniteSet(Alias) /\ NoTag \notin Tag
                          /\ DeclOrder \in Seq(Alias)
                          /\ \A a \in Alias : \E i \in 1..Len(DeclOrder) : DeclOrder[i] = a
ASSUME DeclsAssumption == Decls \subseteq [Alias -> Decl]
ASSUME BoundAssumption == MaxFrames \in Nat /\ MaxFrames > Cardinality(Alias)

VARIABLES
    decl,       \* the declarations of the module
    phase,      \* "local", "first", "second" or "done"
    pending,    \* roots the current walk has not started from, a sequence
    stack,      \* frames of the recursion
    visiting,   \* the walk's guard against cycles
    resolved,   \* the types found so far by the current walk
    errors,     \* aliases reported by E1002
    local,      \* result of ensure_alias
    import1     \* result of the first importing process

vars == <<decl, phase, pending, stack, visiting, resolved, errors, local, import1>>

Unknown == [k |-> "_"]

\* The type an alias declaration denotes once its references have types.
Build(shape, args) ==
    IF shape = "same" THEN args[1]
    ELSE IF shape = "option" THEN [k |-> "option", of |-> args[1]]
    ELSE IF shape = "result" THEN [k |-> "result", ok |-> args[1], err |-> args[2]]
    ELSE IF shape = "opaque" THEN Unknown
    ELSE [k |-> shape]

Tagged(name, ty) == [k |-> "tagged", name |-> name, of |-> ty]

\* check.rs names a tagged type after the alias, imports.rs after the tag.
LocalNames    == [a \in Alias |-> a]
ImportedNames == [a \in Alias |-> decl[a].tag]

TypeOf(names, a, args) == LET ty == Build(decl[a].shape, args)
                          IN  IF decl[a].tag = NoTag THEN ty ELSE Tagged(names[a], ty)

Frame(a) == [alias |-> a, args |-> <<>>]

Lookup(a) == IF a \in DOMAIN resolved THEN resolved[a] ELSE Unknown

Bind(a, ty) == [b \in DOMAIN resolved \cup {a} |-> IF b = a THEN ty ELSE resolved[b]]

EmptyMap == [a \in {} |-> Unknown]

\* Mutant: the guard is never consulted.
IsVisitingNever(a) == FALSE

IsVisiting(a) == \E i \in 1..Len(visiting) : visiting[i] = a

Top == stack[Len(stack)]

NextRef == decl[Top.alias].refs[Len(Top.args) + 1]

HasRef == stack # <<>> /\ Len(Top.args) < Len(decl[Top.alias].refs)

Front(s) == SubSeq(s, 1, Len(s) - 1)

\* The top frame has dealt with its next reference.
Took(ty) == [stack EXCEPT ![Len(stack)].args = Append(@, ty)]

\* The top frame returns; a caller that waited for it goes on.
Returned(ty) == LET s == Front(stack)
                IN  IF s = <<>> THEN s
                    ELSE [s EXCEPT ![Len(s)].args = Append(@, ty)]
-----------------------------------------------------------------------------
Init == /\ decl \in Decls
        /\ phase = "local"
        /\ pending = DeclOrder
        /\ stack = <<>> /\ visiting = <<>>
        /\ resolved = EmptyMap
        /\ errors = {}
        /\ local = EmptyMap /\ import1 = EmptyMap

\* Mutant: a nested call starts with a guard of its own.
PushFresh(a) == /\ Len(stack) < MaxFrames
                /\ stack' = Append(stack, Frame(a))
                /\ visiting' = <<a>>
                /\ UNCHANGED <<resolved, errors>>

\* Enter the walk of `a`: the frame and the guard grow together.
Push(a) == /\ Len(stack) < MaxFrames
           /\ stack' = Append(stack, Frame(a))
           /\ visiting' = Append(visiting, a)
           /\ UNCHANGED <<resolved, errors>>

\* Env::build calls ensure_alias for every alias in declaration order.
LocalRoot == /\ phase = "local" /\ stack = <<>> /\ pending # <<>>
             /\ pending' = Tail(pending)
             /\ IF Head(pending) \in DOMAIN resolved
                THEN UNCHANGED <<stack, visiting, resolved, errors>>
                ELSE Push(Head(pending))
             /\ UNCHANGED <<decl, phase, local, import1>>

\* Mutant: the walk ends without the cycle being reported.
LocalDepSilent ==
    /\ phase = "local" /\ HasRef
    /\ UNCHANGED <<decl, phase, pending, local, import1, errors>>
    /\ LET r == NextRef IN
       \/ /\ r \in DOMAIN resolved \/ IsVisiting(r)
          /\ stack' = Took(Unknown)
          /\ UNCHANGED <<visiting, resolved>>
       \/ /\ r \notin DOMAIN resolved /\ ~IsVisiting(r)
          /\ Push(r)

\* ensure_alias on the next dependency: done, on the way (a cycle), or walked.
LocalDep ==
    /\ phase = "local" /\ HasRef
    /\ UNCHANGED <<decl, phase, pending, local, import1>>
    /\ LET r == NextRef IN
       \/ /\ r \in DOMAIN resolved
          /\ stack' = Took(Unknown)
          /\ UNCHANGED <<visiting, resolved, errors>>
       \/ /\ r \notin DOMAIN resolved /\ IsVisiting(r)
          /\ stack' = Took(Unknown)
          /\ resolved' = Bind(r, Unknown)
          /\ errors' = errors \cup {r}
          /\ UNCHANGED visiting
       \/ /\ r \notin DOMAIN resolved /\ ~IsVisiting(r)
          /\ Push(r)

\* Mutant: the alias stays in the guard after its walk.
LocalFinishKeepsGuard ==
    /\ phase = "local" /\ stack # <<>> /\ ~HasRef
    /\ resolved' = Bind(Top.alias, Unknown)
    /\ stack' = Returned(Unknown)
    /\ UNCHANGED <<visiting, decl, phase, pending, errors, local, import1>>

\* All dependencies are in place: resolve_ty looks each reference up again.
LocalFinish ==
    /\ phase = "local" /\ stack # <<>> /\ ~HasRef
    /\ LET a    == Top.alias
           args == [i \in DOMAIN decl[a].refs |-> Lookup(decl[a].refs[i])]
       IN  resolved' = Bind(a, TypeOf(LocalNames, a, args))
    /\ stack' = Returned(Unknown) /\ visiting' = Front(visiting)
    /\ UNCHANGED <<decl, phase, pending, errors, local, import1>>

LocalDone == /\ phase = "local" /\ stack = <<>> /\ pending = <<>>
             /\ local' = resolved /\ resolved' = EmptyMap
             /\ phase' = "first"
             /\ pending' = DeclOrder
             /\ UNCHANGED <<decl, stack, visiting, errors, import1>>
-----------------------------------------------------------------------------
Importing == phase \in {"first", "second"}

\* module_type_defs iterates over the keys of a HashMap: any key may be next.
ImportRoot ==
    /\ Importing /\ stack = <<>>
    /\ \E i \in 1..Len(pending) :
         /\ pending' = [j \in 1..(Len(pending) - 1) |->
                           IF j < i THEN pending[j] ELSE pending[j + 1]]
         /\ IF pending[i] \in DOMAIN resolved
            THEN UNCHANGED <<stack, visiting, resolved, errors>>
            ELSE Push(pending[i])
    /\ UNCHANGED <<decl, phase, local, import1>>

\* Mutant: an alias met before is not looked up in the cache.
ImportRefUncached ==
    /\ Importing /\ HasRef
    /\ UNCHANGED <<decl, phase, pending, resolved, errors, local, import1>>
    /\ LET r == NextRef IN
       \/ /\ r \in DOMAIN resolved \/ IsVisiting(r)
          /\ stack' = Took(Unknown)
          /\ UNCHANGED visiting
       \/ /\ r \notin DOMAIN resolved /\ ~IsVisiting(r)
          /\ Push(r)

\* ty_of_alias on the next reference: cached, on the way, or walked.
ImportRef ==
    /\ Importing /\ HasRef
    /\ UNCHANGED <<decl, phase, pending, local, import1>>
    /\ LET r == NextRef IN
       \/ /\ r \in DOMAIN resolved
          /\ stack' = Took(resolved[r])
          /\ UNCHANGED <<visiting, resolved, errors>>
       \/ /\ r \notin DOMAIN resolved /\ IsVisiting(r)
          /\ stack' = Took(Unknown)
          /\ UNCHANGED <<visiting, resolved, errors>>
       \/ /\ r \notin DOMAIN resolved /\ ~IsVisiting(r)
          /\ Push(r)

ImportFinish ==
    /\ Importing /\ stack # <<>> /\ ~HasRef
    /\ LET ty == TypeOf(ImportedNames, Top.alias, Top.args)
       IN  /\ resolved' = Bind(Top.alias, ty)
           /\ stack' = Returned(ty)
    /\ visiting' = Front(visiting)
    /\ UNCHANGED <<decl, phase, pending, errors, local, import1>>

ImportDone ==
    /\ Importing /\ stack = <<>> /\ pending = <<>>
    /\ \/ /\ phase = "first"
          /\ import1' = resolved /\ resolved' = EmptyMap
          /\ phase' = "second" /\ pending' = DeclOrder
       \/ /\ phase = "second"
          /\ phase' = "done"
          /\ UNCHANGED <<import1, resolved, pending>>
    /\ UNCHANGED <<decl, stack, visiting, errors, local>>

Next == \/ LocalRoot \/ LocalDep \/ LocalFinish \/ LocalDone
        \/ ImportRoot \/ ImportRef \/ ImportFinish \/ ImportDone

Spec == Init /\ [][Next]_vars /\ WF_vars(Next)
-----------------------------------------------------------------------------
(***************************************************************************)
(* Properties.                                                             *)
(***************************************************************************)
Edge(a, b) == \E i \in DOMAIN decl[a].refs : decl[a].refs[i] = b

\* b is in every set that holds what a refers to and all its members refer to.
Path(a, b) == \A S \in SUBSET Alias :
                 /\ \A x \in Alias : Edge(a, x) => x \in S
                 /\ \A x \in S, y \in Alias : Edge(x, y) => y \in S
                 => b \in S

OnCycle(a) == Path(a, a)

ReachesCycle(a) == OnCycle(a) \/ \E b \in Alias : Path(a, b) /\ OnCycle(b)

\* The reference: an alias that reaches no cycle is expanded to its full depth.
Expansion(names) ==
    LET Depth == Cardinality(Alias)
        expand[n \in 0..Depth] ==
            [a \in Alias |->
                IF n = 0 THEN Unknown
                ELSE TypeOf(names, a,
                            [i \in DOMAIN decl[a].refs |-> expand[n - 1][decl[a].refs[i]]])]
    IN  expand[Depth]

TypeOK == /\ decl \in Decls
          /\ phase \in {"local", "first", "second", "done"}
          /\ \A i \in DOMAIN pending : pending[i] \in Alias
          /\ \A i \in DOMAIN stack : /\ stack[i].alias \in Alias
                                     /\ Len(stack[i].args) <= Len(decl[stack[i].alias].refs)
          /\ visiting = [i \in DOMAIN stack |-> stack[i].alias]
          /\ DOMAIN resolved \subseteq Alias /\ errors \subseteq Alias

\* Neither recursion is deeper than there are aliases, cyclic declarations or
\* not: the guard of a walk is shared by all of its frames.  A guard that is
\* fresh in a nested call let `type A = B`, `type B = A` overflow the stack.
RecursionBounded == Len(stack) <= Cardinality(Alias)

\* E1002 names an alias of every cycle of declarations and nothing else: each
\* reported alias lies on a cycle, and every alias on a cycle shares one with
\* a reported alias.  Violated if a root or a dependency is skipped, or an
\* alias shared by two declarations is taken for a cycle.
CyclesReported ==
    phase # "local" =>
        /\ \A a \in errors : OnCycle(a)
        /\ \A a \in Alias : OnCycle(a) =>
               \E b \in errors : a = b \/ (Path(a, b) /\ Path(b, a))

\* An alias that reaches no cycle gets its declared type wherever it is looked
\* up: in its own module, whether it is declared before or after what refers to
\* it, and in every process that imports it, whatever key of the HashMap the walk
\* began with and whatever was cached or on the way when the alias was met.
ReferencesResolved ==
    \A a \in Alias : ~ReachesCycle(a) =>
        /\ phase # "local" => local[a] = Expansion(LocalNames)[a]
        /\ phase = "done" => /\ import1[a] = Expansion(ImportedNames)[a]
                             /\ resolved[a] = Expansion(ImportedNames)[a]

\* Both walks end for every set of declarations.
Terminates == <>(phase = "done")
=============================================================================
