# Verification of the Kei compiler in TLA+

Kei is a small language with contracts and effect capabilities that compiles to TypeScript. The
crates under `crates/` are its parser, checker, generative tester, emitter, build command, language
server and tool server. This directory holds TLA+ modules that model the parts of it whose
correctness is not visible in a single function, TLC configurations that check them on small
instances, and proofs checked by TLAPS.

Paths below are relative to the repository.

## 1. The system

| Component | State | Operations | Hard behaviour | What makes it correct |
|---|---|---|---|---|
| effect checker `kei_check/src/{check,effects}.rs` | `Env` (signatures), current mode, lambda floor, diagnostics with fixes | `Env::build`, `FnChecker::check`, the call rules, proposed fixes | many rules for one principle; fixes change the signatures other calls were checked against | an accepted program performs only declared effects, none in contracts or lambdas; repair by fixes ends |
| alias resolution `check.rs`, `imports.rs` | resolved types, the stack `visiting`, errors | `ensure_alias`, `ty_of`, `ty_of_alias` | mutual recursion over cyclic data, HashMap order | bounded recursion, all cycles reported, right types for the rest in any order |
| generative testing `pbt.rs`, `report.rs` | outcomes, levels of clauses, downgrades | `run_module`, `run_function`, `apply_generative`, `check_seeds` | errors of evaluation, partial results, seeds against cases | a level is raised only by evidence; no report contradicts itself; counterexamples are real and smallest |
| emitter `kei_emit` | output text, captures of `old` | `emit_func`, `emit_contract_check`, `emit_call` | the order of checks at run time | emitted code throws where the interpreter says so, and on no other input of a raised clause that the interpreter has judged |
| build `kei_cli/src/{build,resolve}.rs` | outputs, failures, resolver cache, `dist/` | check phase, write phase | saves while it runs, reads and writes that fail, torn files, kills | all or nothing; a success is complete; one view of each import |
| check command `kei_cli/src/check.rs` | none | `derive_root`, check one file | another root than the build's | the verdict of the build, or a milder one where it finds no root |
| language server `kei_lsp` | document store | didOpen/Change/Close, hover, shutdown, the join of its threads | messages under way in both directions, bounded channels, lost editor | what is shown settles to the text; hovers are answered, and about their text; its loop returns |
| MCP server `kei_mcp` | none between requests | `handle` | malformed requests, notifications | one response per request |
| match expressions `check.rs`, `emit.rs` | keys covered, type so far, diagnostics | `infer_match`, `check_exhaustiveness`, `emit_match` | two views of a constructor, unknown types | an accepted match takes the right arm for every value, without an error |
| type checker `check.rs`, `types.rs` | scopes, types | inference, assignability | unknown types fit everywhere | what is accepted does not go wrong at run time |
| parser `kei_syntax/src/parser.rs` | token cursor, errors with fixes | the loops of declarations, fields, variants, parameters, clauses, statements, lists; five recoveries | each loop recovers in its own way, and must make progress from wherever it stops | it ends; declarations behind an error are read; brackets are reported; a fix whose text stays a token of its own removes its error |
| formatter `kei_fmt` | output, comment cursor, separator, last line | `emit_module` ... `emit_if`, `flush_leading`, `flush_trailing_on` | comments have lines only, and nodes are printed in another order than they are read | no comment lost, none swallows code, each stays with its node; idempotent |
| source maps, CLI, runtime package, editors, skills | - | input and output | - | - |

How they interact: the front end parses a file; `check_module_with_resolver` asks the resolver for
the definitions of imported modules, builds the environment, resolves aliases and checks every
function; `check_module_report_with_resolver` adds the levels of contracts, runs the generated
cases and the seeds; the emitter runs on a module without errors only (`emit_checked`); `kei build`
drives this for every file of a directory with one shared resolver; the language server runs the
checker on the text of an open document, with no resolver. `kei test` is `kei build` followed by
`npm test`.

Nothing in the code is multi-threaded except the reader and writer threads under the language
server. Concurrency comes from outside: editors that save or type, failing writes, kills, the run
of the emitted program, and the order of a HashMap.

## 2. Modules

| Module | Models | Corresponds to |
|---|---|---|
| `Effects` | the effect tree | `effects.rs`: `STANDARD_EFFECTS`, `covers` is prefix order |
| `Capabilities` | abstract specification: a stack of activations with a set of rights each; a call hands on no more than the caller may do where it stands, which is nothing in a contract or a lambda, so whoever performs an effect answers for itself alone | README "effects are capabilities" |
| `EffectCheck` | the checker, the author who applies fixes, and the run of the emitted module | `BuildEnv` = `Env::build`; `CheckSite` = one call expression under `call_local`, `call_extern`, `check_combinator_fn_arg`; `Finish` = `emit_checked`; `ApplyFix` = the author follows a fix of `check_call_effects`, by its edit or, where there is no uses clause to edit, by its direction; `Enter ... Violate` = an activation in the order `emit_func` lays out: requires, captures, body, ensures |
| `EffectCheckProofs` | theorems about `EffectCheck` | |
| `Aliases` | both walks, one recursive call or return per step | `stack` is the call stack, `visiting` the guard, `LocalDep`/`LocalFinish` = `ensure_alias`, `ImportRef`/`ImportFinish` = `ty_of`, `ty_of_alias`; two imports run one after the other as two processes would; `TypeOf` takes the names of tagged types as a parameter, since the two walks name them differently |
| `AliasesProofs` | theorems about `Aliases` | |
| `PbtEval` | evaluation of expressions, twice: by the interpreter (`Eval`) and by emitted code (`Ts`) | `eval_expr`, `eval_func_call`; `emit_func`, `emit_contract_check` |
| `Pbt` | `kei check --generative` on one module, evaluation left to constant operators | `StaticCheck`, `StartFunction`/`Skip`/`RunCase`/`GiveUp`/`FinishFunction` = `run_function`; `ApplyGenerative`; `ValidateSeed`, `Demote` = `check_seeds` |
| `PbtRuntime` | `Pbt` with the evaluators of `PbtEval`, and the promise about run time | |
| `PbtProofs` | theorems about `Pbt` | |
| `Build` | `kei build` with its resolver, an editor, failing reads (of a file, which ends the build, and of an import, which the resolver takes for none), failing writes and kills; `kei check`'s verdict, from any directory | `CheckNext`, `Decide`, `WriteTs`, `WriteMap`; `MayTear`: `fs::write` truncates before it writes; `Resolve` with `cache`; `missed` remembers that a read of an import failed; `DeriveRoot`, `CheckClean` |
| `BuildProofs` | theorems about `Build` | |
| `Lsp` | the server's loop and the join behind it, and an editor, with the messages between them | `main_loop`, `handle_request`, `handle_notification`; `Join` = `io_threads.join` in `run_stdio`; the framing library and its threads are external: the writer thread ends when it cannot write (`Lose`, `Vanish`) or its channel has no sender |
| `LspProofs` | theorems about `Lsp` | |
| `Match` | one match: its check arm by arm, then its run on a value, test by test | `CheckArm`, `CheckExhaustiveness` = `infer_match`, `check_pattern`, `check_exhaustiveness`; `TryArm`, `FallThrough` = what `emit_match_arm`, `emit_pattern_bindings` and `emit_match` lay out; `Loads` is what the host asks of the emitted block, that no `const` is declared twice; values as `emit_enum` and the runtime build them |
| `MatchProofs` | theorems about `Match` | |
| `ParserCursor` | the cursor over the tokens, what is expected at it and how an error is passed, as operators from a state of the parser to the next | `bump`, `expect`, `expect_ident`, `recover_in_*`, `skip_newlines`; `Report` keeps the edit of the fix; `Written` = how the lexer reads two texts without a space between them |
| `Parser` | the recursive descent as a machine of tasks, and an editor that makes the edit of a fix in the text, where it may fuse with its neighbours or be swallowed by a comment (`Edited`), and has the file lexed and read again | `stack` holds what the functions under way have left to do, as the call stack does; `Path`, `TypeRest`, `TypeArg` = `parse_type`; `PatternPayload` ... = `parse_pattern`; `Operand` ... `Primary`, `Postfix` = `parse_implies` ... `parse_primary`; `Declaration` = `parse_module`, `Field` = `parse_field_list`, `Param` = `parse_params`, `Clause` = `parse_func`, `Statement`, `BlockEnd` = `parse_block`, `parse_if`; `ToDecl`, `ToStmtEnd` = the recoveries |
| `ParserProofs` | theorems about `Parser` | |
| `Fmt` | the printer, one node or one end of a node per step, and the second formatting of what was printed | `f` is `Fmt` with its output reduced to lines; `todo` holds what the loops and the calls under way have left to print; `FlushLeading`, `FlushTrailing`, `FlushRemaining`; `Module` = `emit_module`; `Item`, `RecordOrEnum`, `ListEnd` = `emit_item`, `emit_record`, `emit_enum`; `Func`, `Clause`, `FuncEnd` = `emit_func`; `Block`, `BlockEnd` = `emit_block_inner`; `Single`, `StatementEnd` = `emit_stmt`; `If`, `Else`, `IfEnd` = `emit_if`; `Finish` = `finish` |
| `FmtProofs` | theorems about `Fmt` | |
| `MC*` | the small instances | |

`EffectCheck` instantiates `Capabilities`, `PbtRuntime` composes `Pbt` and `PbtEval`, and `Build`
holds resolver, build and check command in one module, since the resolver has no state but the
cache a build owns. `PbtEval` is recursive (an expression evaluates its parts) and kept apart from
`Pbt`, whose proofs then hold for every evaluator. `Parser` is a machine although the code is recursive,
since progress and recovery are decided between the calls; what a call returns is `s.ok` and `s.path`.

## 3. Runs

| Run | Instance | Shows |
|---|---|---|
| `effect_check` | all modules of two functions and one extern with at most one call expression per function, in every mode, in and out of a lambda, direct, by function reference, imported or of a namespace, under clauses {}, a leaf, its parent, `IO`; stacks to depth 3 | type invariant, `EffectsCovered`, `ContractsPure`, refinement of `Capabilities`, `RepairConverges` |
| `effect_imports` | the same | `ImportedEffectsCovered` fails (finding 1) |
| `aliases` | all declarations of three aliases over integer, renaming, option, result and tagged forms, hence every reference graph on three nodes of out-degree two | recursion bounded, cycles reported, order irrelevant where there is no cycle, both walks end |
| `pbt` | 5280 pairs of a function and the helper it calls, over requires, bodies and ensures that can be true, false, trap, fall outside the interpreter, or break a callee's precondition, with `old` in front of and behind a short circuit, two generated inputs in an order in which the first failure is not the smallest, one input of seeds only, one wrongly typed | levels, reports and counterexamples, and what `generative` promises of the emitted code on judged inputs (`GenerativeHoldsIfJudged`) |
| `pbt_generative` | the same | `GenerativeHolds`, without those exceptions, fails (finding 3) |
| `pbt_depth` | the same | `RecursionLimited` fails (finding 2) |
| `build` | three files that import each other, one in a subdirectory, three or four versions of each, two saves, two builds, failing reads of files and imports, failing and torn writes, kills: 3.5 million states | all or nothing, completeness, one view of imports, agreement with `kei check` given from every directory above the file |
| `lsp` | two documents, three texts, four messages, one reply under way at most | settling, hovers, return of the loop, end of the server unless it waits for its own writer thread (`EndsUnlessJoinWaits`) |
| `match` | options, results, a tagged option, enums of one to three variants, unknown and plain types; any pattern alone or next to one that can be right, three arms of those that can be right, arms of all types on three variants: 17529 matches | `NeverFallsThrough`, `BindingsAsTyped`, `VerdictsExact` |
| `parser` | ten files that hold every kind of declaration, clause, statement and expression, each with one token removed, added or replaced, with two removed, with one removed and one added, before a good declaration, and cut off behind every token: 17393 files, 1.7 million states; then every fix of every error, as the lexer may read it | `DeclarationsTaken`, `BalancedWhenClean`, `FixRemovesErrorUnlessFused`, `EndsUnlessStuck` |
| `parser_ends` | the same | `Ends` fails (finding 4) |
| `fmt` | files with a header, lists, functions with clauses in and out of order, and nested branches, in all layouts in which a node is at most two lines below the one before, with up to two comments on any line; each formatted twice | `TextIntact`, `CommentsStay`, `IdempotentButElse` |

Why the bounds are enough. Effects: a violation of propagation needs a caller, a callee and an
effect; depth 3 gives a middle activation, and the proofs remove the bounds. Aliases: two
references on three nodes give self loops, two- and three-cycles, shared nodes and cycles reached
from outside; the guard and the caches never compare more than two names. Cases: two inputs are
enough to tell the first from the smallest and one passing from all; the proofs hold for any
number. Build: two builds are needed for a stale or partial output of the first, two saves to put
one before and one within a build; any read or write may fail, and the second build
may come upon a torn file of the first. Language server: four messages give open, edit, hover, close
in every order and an edit on either side of a hover; a capacity of one is the tightest channel
that moves, so a full channel happens in most behaviours. Matches: a duplicate needs two arms, an arm missing
behind a duplicate three; payloads of two names give a wrong number, a wrong order and a
repetition. Parser: one edit
makes each loop meet each kind of token it does not expect, in every place; a second one, near or
far, makes recovery meet an error again before it has found its footing, or cancels the first. A good
declaration behind the edit is what recovery must find. Formatter: two comments are enough
for one to hold up the other; a gap of two lines is the smallest that differs from one line; the
files have every place where comments are flushed, and orders of clauses and of imports that printing
changes.

Deadlock is not checked, because each model may really stop: a checker that has finished with an
error nobody can fix, a walk that is done, a server that has ended, a match that has taken an arm, a
file that is printed. `Parser` has a step for the end (`Stop`) and is checked for deadlock: no task
of it is ever without a next step.

### Fairness

- `EffectCheck`: weak fairness of the checker's steps and of the author's repair, and none of the run.
  The checker is a terminating loop; `RepairConverges` is about an author who keeps applying fixes.
- `Aliases`: weak fairness of the next step of a sequential program.
- `Lsp`: weak fairness of the server's loop (`Serve`), which always takes the next message when
  it can send, and of the editor's reader (`Receive`), a thread of its own in every editor. None
  is assumed of the editor's requests, of its leaving or of its vanishing.
- `Parser`: weak fairness of a step of its tasks, whichever it is: it is one thread that goes on until
  it returns. `Round` names the effect of a step (it flips `round`), because some step is always
  possible until the file is read, which the check for deadlock confirms; none is assumed of an editor
  applying fixes. A loop that reports the same error for ever still takes steps, so only the
  code's own progress can make `EndsUnlessStuck` true.
- `Build`, `Pbt`, `Match` and `Fmt` have safety properties only and assume no fairness.

## 4. Proofs

Every safety property the runs check is proved, except `GenerativeHoldsIfJudged`, `CounterexampleReal`,
`FixRemovesErrorUnlessFused` and `IdempotentButElse` (see the end of this section). `EffectCheckProofs`,
`AliasesProofs`, `PbtProofs`, `BuildProofs`, `LspProofs`, `MatchProofs`, `FmtProofs` and
`ParserProofs` are checked by TLAPS with no unproved leaf. They use the assumptions named in the
modules they extend, which every run evaluates: the sets of names are disjoint; modules, seeds and
matches are well formed as the parser and `Env::build` leave them; a file is a tree whose nodes follow each
other without gaps in the order of printing, in which a function and an `if` end where their last block
does, and comments come in the order of their lines, one on a line, since a comment ends its line
(of the lines of the nodes nothing else is assumed); a list of tokens has `eof` at its end and nowhere else;
"none", the model's mark of a hover without an answer, is no answer; the order of functions and of files
has no repetition; the sets of aliases, of functions and of the call expressions of a function are finite; paths are sequences; the size of an input is an
integer (not a natural number: `value_size` wraps at the least `i64`).

**Effects.** `EffectsCovered` is not inductive: it speaks of the effect being performed and of
the whole stack, so a call must be known to have been checked. The invariant is
`TypeOK /\ CheckedInv /\ AcceptedInv /\ StackInv`. `CheckedInv`: a site taken off the list has
left its diagnostics behind. `AcceptedInv`: a module that runs has no site with a diagnostic.
`StackInv`: every activation on the stack dominates those above it, that is, its rights permit
all of theirs, and those above a pure part have none. Domination is transitive because `Covers`
is (lemma `CoversTransitive` and its lift to sets), which is where the shape of the effect tree
matters. From this follow `TypeCorrect`, `EffectSoundness`, `ContractPurity` and, since every step
maps to a step of `Capabilities` or a stutter, `Refinement`.

`RepairsAdvance` is the safety half of `RepairConverges`: whatever the checker or the author does leaves
less in the lexicographic order of three numbers, the effects the clauses do not declare yet, the stage of
a check, and the sites it has not visited. A repair could undo this by inserting what is declared
already; `FixInv` excludes it: signatures are those of the clauses as they stand, and a fix is for a
function whose signature lacks what it inserts.

**Generative testing.** The invariant is `TypeOK` with `CaseInv` (all cases the current function
has been through hold), `OnceInv` (a function has one outcome, after its turn), `OutcomeInv` (a
passed outcome means all samples hold), `LevelInv` and `DiagInv` (while seeds are run, a clause
that a counterexample breaks is not generative or is among the downgrades). `OnceInv` carries the
argument: a counterexample from cases and a raised level cannot belong to the same function. The
evaluators are arbitrary operators, so the theorems hold for any interpreter. Proved:
`TypeCorrect`, `NoFalseGenerative`, `RaisedSoundness`, `LevelDiscipline`.

`ExactCounterexamples` adds `LeastInv`: `failures` holds exactly what the inputs run so far break
(`FailureInv`), and an outcome and a diagnostic carry an exact counterexample (`OutcomeLeast`,
`DiagLeast`). That `Smallest` chooses anything needs an argument: sizes are integers, perhaps negative,
so the least one exists because there are finitely many inputs (lemma `LeastValue`: the input below
which the fewest are), then the first input of that size, then its first clause. The theorem states
`CounterexamplesExact`, the part of `CounterexampleReal` that does not depend on the evaluators.

**Aliases.** `RecursionBounded` follows from the pigeonhole principle once the guard has no repetition.
`StackInv` says that the guard lists the aliases of the frames in their order, that none occurs
twice, and that every frame but the last waits for a reference it has; a push, a reference dealt
with and a return each preserve it (lemmas `PushKeeps`, `TookKeeps`, `ReturnKeeps`), and every action of
either walk is one of the three. `MaxFrames`, the model's own bound, plays no part in the argument.

`ExactCycles` and `ResolvedReferences` come from one larger invariant, `WalkInv`, about both walks.
`OrderInv`: each frame waits for the one above it, so there is a path from a frame to every frame above,
and an alias found on the way closes a cycle (lemma `VisitingIsCyclic`). `ErrorInv`: what is reported
lies on a cycle, and only a report gives an alias a type while its walk is under way. `CoverInv`: no
alias is forgotten. `GraphInv` carries the completeness of the reports: the aliases that are resolved
and not reported are `Founded`, every part of them has a member that refers to none of that part.
Leaving an alias keeps this, since all it refers to was resolved before, and a cycle without a report
would be a part without such a member. That every cycle has a report, and not only some alias
that reaches one, is why it is stated for sets. `ValueInv` is about types: off the cycles, a resolved
alias has the type its references make of theirs (`FinalInv`), a frame of an importing walk holds the final
types of what it has dealt with (`ArgsInv`), and the results that were put away do too (`SavedInv`). Such
a solution is `Expansion` (lemma `SolutionIsExpansion`): by the pigeonhole principle no alias off the
cycles needs more levels than there are aliases. `Path` is the intersection of the closed sets, a form
that needs no induction to reason about.

`WalksAdvance` is the safety half of `Terminates`: each step leaves less in the lexicographic order of four
numbers, the walks to make, the aliases a walk has not met, the frames on the stack, and the references
of the top frame (or the roots, between two frames). Entering an alias uses one up, since a walk never enters
one it has met; leaving one gives none back, because its type is remembered by then.

**Build.** All properties of the run are proved, for any files, saves, number of builds and place where
one fails or is killed. `ProgressInv` ties `next` to what is done: every file checked has left
an output or a failure, and writing starts with all of them clean and none missing. `AllOrNothingHolds`
follows. `OneViewOfImports` needs `CacheInv` (an answer an output was checked with is still in the cache);
`SuccessComplete` needs `WrittenInv` (what is before `next` is in the directory, and no
later write of the same build replaces it unless it has the same path); `CheckAgreesWithBuild` needs
`AgreeInv`: until something is saved the cache is what the files say, or opaque in a build that has missed an
import, and a failure is one under what the files say. The lemma `RootIsDir` says that `derive_root` of a well
placed file is the directory of the build, whichever directory down to it the path is given from, and `NoRoot`
that from further down there is none; then `check` sees less, and nothing becomes an error by it
(`OpaqueIsClean`). Torn files never count as written: `WrittenInv` speaks of whole ones.

**Language server.** Both properties are about messages under way, so the invariant says what they
will do. `Leaves(q, n, u, d, t)`: with d stored for u, the first n messages of q leave t there.
`StoreInv`: the whole inbox leaves the editor's text. `AskedInv`: what is in front of a hover leaves the
text the hover was asked about. `ViewInv` (with `WillShow`) is the same of the other channel: when the editor
has read what is on the way, it shows the diagnostics of what is stored. A message at the end of a queue
and one taken from its front each move one step of this (`LeavesAppend`, `LeavesTail` and their like for
`WillShow`). Proved: `TypeCorrect`, with the bound on the channel, `ViewSettlesAlways`, `HoverAnswered`,
for any capacity and any number of messages.

`NothingIsForgotten` and `ServingAdvances` are the safety halves of `HoversAnswered` and `EndsUnlessJoinWaits`. The first
says that an unanswered hover has its request or its answer in a channel (`PendingInv`), and that a shutdown
that was asked for has not been met yet while the loop runs. The second is a natural number that every
step of `Serve` and `Receive` decreases: a message to the server counts two, since it may be answered; a message to the
editor one; the loop one more, and the join behind it another; and the editor two until it has left, which pays for the `exit` it says when it
reads the answer to its shutdown. That it says so once needs `ShutdownInv`: an answer to a shutdown is alone of
its kind, and comes from a loop that has ended.

**Match expressions.** `MemoryInv` says that `seen` and `scopes` are functions of the arms behind the loop;
`DiagInv` that their diagnostics have been made and no others, and that code is emitted only without
any; `RunInv` that a running match has failed the tests before `next`. What remains is about
constructors: a pattern without diagnostics is that of exactly one constructor (`Fits`), and its
emitted test is true of the values of that one alone. For an enum this rests on its variants having
distinct names, which `Env::build` sees to and `ProgramsAssumption` states. Proved, for any enum and
any number of arms: `NoValueFallsThrough`, `BindingsTyped`, which states the type invariant as well, and
`VerdictsAreExact`.

**Formatter.** Every node has two places in the order of printing, one where it begins and one where it ends. The tasks in
`todo` are one behind the other in that order up to the end of the file (`Chained`, `Covers`), so the printer is
always at a place p, below which everything has been printed and from which nothing has. The
invariant `Inv` says what the output is then: `Sound` (comments stand on growing lines, none above another's and none in
front of code; a line that is still empty has no comment at its end), `BegunAbove`, `EndTogether`, and in a file in the order of printing
`Stays`: the comments printed are not below what comes next (`NotPast`), not above a node they were below (`NotAbove`), in front
of the end of the block they were in (`NotBelow`) and on the line of the node they were behind (`Beside`). Each flush
and each piece of text is one lemma about this predicate, and a task must find (`Need`) what the task in front
of it leaves (`Gives`): a statement an empty line, a clause a line that is not, `else` the comment behind `}` not flushed yet.
Then each action is a short composition. `TextStaysIntact` needs nothing of the order, and so holds of the
second formatting whatever the first one moved; `CommentsStayWithNodes` is about files in order. Both hold
for any tree, any nesting and any number of comments. TLC has also checked `Inv` on the whole instance of `fmt`.

**Parser.** `CleanIsBalanced` and `DeclarationsAreTaken` hold for every list of tokens, and again after any
fix. Neither property is inductive, since both speak of the end of the file. The invariant `IInv` says of a
parser at any token which brackets are open in front of it (`Open`, a recursive function over the tokens; that
it exists is `OpenExists`, and the proof uses only how one token changes it, `OpenStep`):

- `StackInv`: a task knows the bracket it opened, an inner task a later one; what may call a task is given by
  its kind (`Placed`).
- `BracketInv`: while there is no error, the brackets the tasks opened are open (`Holds`) and no others are
  (`Fit`). With errors, `Holds` is still true as long as a declaration to be taken is ahead. Where one
  begins no bracket is open, and a bracket that closed another than the innermost would stay
  open for ever, so in front of it there is none (`Sane`); a recovery, which stops at the closing bracket of
  its own task, therefore cannot pass the bracket its task opened.
- `RecoveryInv`: a recovery that counts braces never counts more than are open (`Above`). It would
  pass a declaration if it did.
- `LineInv`: the cursor is never at a declaration to be taken (`Off`), except where the next step takes it: the
  line end in front of one is outside of brackets, and the tasks that pass line ends are inside of some.
  `TakenInv`: those behind the cursor were taken.
- `LostInv`: an expression in parentheses without an opening one is what is left of a lambda, and
  has passed a token unread.

Each action has a lemma that it preserves this (`PathStep`, `FieldStep`, ... `ToDeclStep`, `EndOfFileStep`);
they rest on one lemma per operator of `ParserCursor` (`Bumping`, `Expecting`, `Recovering`, ...) and on
three ways to change the stack (`Calls`, `Change`, `Return`). `Types` follows from the same invariant, with the
half of `FixRemovesErrorUnlessFused` that every error is at a token of the file and proposes an edit within it.
That the properties hold again after a fix needs that the edited text is a file: however it fuses, `eof` stays
its last token and its only one (lemmas `WrittenTokens`, `PutLeavesFile`, `FixLeavesFile`).

**Only model-checked.** `RepairConverges`, `Terminates`, `HoversAnswered`,
`EndsUnlessJoinWaits` and `EndsUnlessStuck` are liveness, outside the prover's reach: of the first four, that every step is
progress is proved, and that a step is always taken is not. `GenerativeHoldsIfJudged` and the half of
`CounterexampleReal` about emitted code rest on recursive definitions over expressions, over which the
prover has no induction. `IdempotentButElse`, and the half of `FixRemovesErrorUnlessFused` that the error is gone when
the file is read again, compare two printings or readings from end to end; an invariant of one does not
speak of the other, and a proof would have to run both side by side.

## 5. Findings

1. `effect_imports`: effects do not propagate through imported functions, although README.md says
   they propagate transitively and an undeclared use is a compile error.
2. `pbt_depth`: the depth limit of the interpreter restarts in every clause.
3. `pbt_generative`: a clause is raised although the emitted code throws on an input of the cases, where
   spec/kei-spec-v0.2.md:358 raises it when there is no counterexample over all inputs that `requires` accepts. There
   are two ways. Emitted code evaluates `old(...)` at entry and the interpreter where it stands: in
   `x == 0 || old(g(x))` the interpreter skips it at `x = 0`, and the emitted code throws when the `requires` of
   `g` fail. And where the interpreter traps, as on `1 / 0`, the input counts for nothing, while the emitted
   `Math.trunc(1 / 0)` goes on to the checks. `GenerativeHoldsIfJudged` names these two and passes: in the
   instance there is no third.
4. `parser_ends`: a comma in place of a parameter (`func f(,)`), or behind a broken one
   (`func f(a, b: Int)`), is never passed: `recover_in_parens` stops at it and the loop of
   `parse_params` does not consume it, as all other lists do. The parser promises to recover and to return.

Three more disagreements are the exceptions in a property's name; without the exception TLC finds each of them:

- `EndsUnlessJoinWaits`: when `main_loop` has returned, `run_stdio` joins the io threads (`server.rs:48`), and
  the writer thread waits for a message, since `connection.sender` lives until `run_stdio` returns. So the
  process stays after a proper shutdown and exit, although `server.rs:42` says that it serves until the client
  disconnects and docs/kei-roadmap-goals.md:293 asks for a normal end. It ends where the writer thread
  has died of writing to an editor that is gone, or where the loop returns an error.
- `FixRemovesErrorUnlessFused`: a fix is a text put at a point without a space (`parser.rs:127-133`). The `fail`
  put into `let a = b else c` gives `else failc`, the `=` in front of `=>` gives `==`, and a text put at a line end
  behind a comment becomes a part of the comment. The error is then reported again, where skills/kei/SKILL.md:699
  says that the edit can be made mechanically.
- `IdempotentButElse`: where `}` and `else { // c` are on two lines, `} else { // c` is printed; formatting
  that moves the comment behind the brace and `else` to the next line (`kei_fmt/src/lib.rs:446`). The formatter
  promises `fmt(fmt(x)) == fmt(x)`. Within the instance nothing else breaks the promise; there is no proof that
  nothing else does.

Behaviours that the models or the reading of the code showed, and no run is about:

- A lambda in parentheses that has no body is read again as an expression, but from where it
  failed and not from its start: `parse_lambda` fails in `try_parse_paren_lambda` (`parser.rs:1626-1677`) with the position
  behind `=>`, and `parse_primary` passes one more token, the `(` it believes to stand at (the comment at
  `parser.rs:1716` says that the position is put back). Where that token is a brace, as in `let a = (b) => }`, the
  declarations that follow are read as part of the function. `s.lost` has the token, and
  `DeclarationsTaken` speaks of declarations in front of the first one.
- The build never deletes: outputs of modules that were removed or renamed stay in the directory.
- Two files with the same module declaration share one output path; the later one wins and the build
  succeeds (`build.rs:98`). `SuccessIsComplete` speaks of paths that are not shared.
- The arms `None()`, `Some(1)`, `Some("x")` are accepted: the type of a match so far is replaced only when
  it is exactly unknown, and an option of unknown fits every option (`check.rs:3072`).
- A value of hand-written code without `ok` takes the arm of `None` or `Err`, emitted as `!v.ok` (`emit.rs:981`).
- A seed that refutes a clause of level `bounded` leaves the level as it is, and a counterexample found
  in an early case is dropped when a later case cannot be evaluated.
- The types seen of an imported module with a cycle of aliases, which is itself refused, depend on the
  order of a HashMap.
- Where the formatter reorders clauses or prints imports before items, comments keep their own order and may
  end up at another node; a comment inside an empty record or enum leaves it. `CommentsStay` speaks
  of files in the printed order and of lists that are not empty.

## 6. What is not modelled

- Expressions and types of the language other than what contracts, calls, matches and aliases need: the
  type checker's inference, assignability and tables of methods are pure recursive functions over the
  tree, and a model of them would be the same text in another language.
- The lexer: the model is given tokens, and a comment only where it matters to an edit; what the lexer makes of
  an edited text is modelled at the edit. Files with lexical errors are left out.
- The tree the parser builds: `Parser` says which declarations are begun and which errors are reported, not what is read. `false` is read as `true`
  is, and binary operators are one token, since the five levels of precedence read the same tokens.
- The text the formatter prints for a node: operators, parentheses, strings.
- Source maps (a pure encoder) and the MCP server (one message, one answer, no state between them).
- The inside of the library under the language server: its threads are modelled by when they end.
- The grammar of seed files, and how candidate values of records and lists are produced: the model
  takes a sequence of inputs in the order the code yields them.
- The text of emitted TypeScript; for example, that the negation of a negation is emitted as two
  minus signs in a row.
- Rendering, JSON, command line parsing, file listing, editors, skills, examples: input and
  output, or not part of the program.

## 7. Plan

Done, in this order: effects and their proofs, aliases and their proofs, generative testing and its
proofs, build, language server, match expressions, parser, formatter, the proofs of the build, of the
language server, of match expressions, of the results of alias resolution and of generative
testing, of the progress of repairs, of alias walks and of the language server, and of the formatter, whose
printer was restated as a machine of tasks for them, and of the parser, whose expressions were
restated in the same way. What is left:

1. `IdempotentButElse` and `FixRemovesErrorUnlessFused` for every file, from invariants that relate the second
   printing or reading to the first.
2. The hazards without a property in `PROJECT.json`, each with a note: mostly rules of the type
   checker, of which only the part about matches and aliases is modelled.
