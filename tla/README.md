# tygr in TLA+

`tygr` turns Rust types into grammars: `#[derive(Grammar)]` on a struct or an
enum gives it a parser, a scanner, a printer, error reports and an EBNF
presentation. This directory models the parser the library and its derive macro
generate, the FIRST sets its dispatch tables are made of, the EBNF it shows, the
line index that locates its errors, and the JSON grammars among its examples;
model-checks all of them; and proves, for every grammar and every input, that the
parser answers what its grammar means as an ordered choice, that its entry points
agree, errors included, and the safety properties of the parser, of the FIRST sets,
of separated lists and of the line index.

## The system

A grammar is a type with an `impl Grammar`. The calls between grammars are
ordinary synchronous calls on one thread: there are no threads, callbacks,
messages or persisted state. What is hard lies elsewhere:

- **Dispatch.** An enum of four or more variants looks its next byte up in a
  table built at compile time from the FIRST sets of its variants, and starts at
  the variant it finds. Nothing at run time notices if a FIRST set is too small.
- **Three readings of one grammar.** `parse_at`, `scan_at` and `fail_at` are
  generated separately for each type and have to agree: what is parsed and
  scanned, and what `fail_at` reports without looking at the input.
- **Backtracking.** Whatever fails half way, the caller goes on from its own
  position, while the history of failures, which is shared, keeps growing.
- **Error reports.** They are what is left of all failures on the way: the ones
  at the deepest position, with the rules that enclosed them.
- **Two descriptions of one grammar.** `to_bnf` is generated beside `parse_at`, and
  only the generator relates them.
- **Bytes and characters.** Positions are byte offsets; slicing inside a
  character panics; an error is located for a user in UTF-16 units.

| component | state | operations | what makes it correct |
|---|---|---|---|
| Combinators (`src/grammar.rs`): `Option`, `Vec`, `Vec1`, `Box`, `()`, tuples, `Either`, `Raw`, `Range`, `PhantomData`, `NotFollowedBy`, `FollowedBy`, `Hidden` | position, fields or items so far | `parse_at`, `scan_at`, `fail_at`, `print_to`, `First` | ordered-choice semantics; repetition ends; scan agrees with parse; printing gives the text back |
| Entry points (`Grammar::parse`, `scan`, `parse_prefix`, `scan_prefix`) | a fresh history and context | one call of the root, then a verdict | the whole input is wanted, or a prefix |
| Literals and classes (`src/char.rs`) | – | match character by character, report the rest of the literal | never slice inside a character |
| FIRST sets (`src/first.rs`) | none: types | `Nullable`, `Concat`, `Union`, `WithChar` | contain every byte a match can start with, and nil if one can be empty |
| Error state (`src/state.rs`) | `History` (position, traces), `Context` (enclosing rules) | `expect`, `node`, `probe`, `into_error` | deepest failures only, none invented, none from lookahead |
| Derive (`tygr-derive/src/lib.rs`) | the dispatch table; per call, the variant | fields, validation, dispatch and miss, `fail_at` chains, three conversions | the table never shows |
| Line index (`src/olc.rs`) | lines, checkpoints | `new`, two lookups | agree with the definition of an LSP position and invert each other |
| Separated lists and shorthands (`src/lib.rs`) | – | `VecSep` conversion and printer; `Wrap`, `Prefix`, `Suffix` | separators lie between items |
| EBNF presentation (`src/bnf.rs`, `to_bnf` of every grammar) | `Expr` | simplifying constructors, precedence, side-condition numbers | shown grammar is the parsed one |
| JSON examples (`examples/`) | – | two grammars of one language | they are; and the language is JSON |

The components meet in one place: a running parse is a stack of activations of
`parse_at`, `scan_at` or `fail_at`, one per grammar, and all of them write to one
history.

## Modules

| module | what it is |
|---|---|
| `Utf8` | a `&str` as its bytes: character boundaries, slices, ASCII case |
| `FirstSets` | FIRST sets as what the types of `first.rs` denote |
| `FirstAlgebra`, `FirstAlgebraProofs` | the types themselves, and the associated types that join them; the proofs |
| `Grammar` | grammars as nodes of a graph (`Def`), one kind per `impl Grammar`, and the equations of their FIRST sets |
| `History` | `Context`, `History`, `Expectation`, `Error` |
| `Parser` | the state machine: the call stack of a running entry point; and the properties |
| `Peg`, `AtomicParser`, `ParserVsPeg` | what a grammar means, the contract "each call is answered once with that", and the parser against it |
| `Meaning`, `MeaningProofs` | the meaning as a table, the contract with it, and the invariant that keeps it; the proofs |
| `Reports`, `ReportProofs` | what a grammar leaves in an error report, as a table, and the invariant that says what is still to be reported; the proofs |
| `ParserInvariant` | the two inductive invariants: what is read, and why nothing panics |
| `Depth` | a rank of the grammars along calls that consume nothing, and the bound on the stack |
| `TextTheorems`, `ParserProofs`, `SafetyProofs` | the proofs: character boundaries; FIRST sets, slices and stacks; what is read; panics, contexts and the depth of the stack |
| `Bnf`, `BnfBuilder` | `Expr`, its constructors, its formatter, and a reader of what is shown; every `Expr` a grammar can have |
| `Presentation` | `to_bnf` of every grammar, and what somebody recognises with the rules as shown |
| `VecSep`, `VecSepProofs` | the conversion and the printer of a separated list; the proofs |
| `OLC`, `OLCInvariant`, `OLCProofs` | the line index, its lookups, its definition and its properties; the inductive invariant; the proofs |
| `GrammarTable` | how grammars are written down for TLC, and their FIRST sets solved |
| `TestGrammars`/`MCParser`, `FamilyGrammars`/`MCFamily`, `ConstructGrammars`/`MCConstructs`/`MCReports`, `JsonGrammars`/`MCJson`, `MCFirstAlgebra`, `MCBnf`, `MCOLC` | the instances that are model-checked |

### From the code to `Parser`

| in the model | in the code |
|---|---|
| a node `n`, `Kind(n)`, `Kids(n)` | a type, its `impl Grammar`, the types it is made of; each enum variant is a node of its own |
| a frame of `stack` | an activation of `parse_at`, `scan_at` or `fail_at` (`op`), with its locals: where it started (`pos`), where it is (`cur`), which field or variant it is at (`i`), what it has built (`out`, `items`) |
| `op = "miss"` | `parse_case_miss` or `scan_case_miss` of a dispatching enum |
| `frame.ctx` | the `Context` its `State` carries; pushed by `with_node` unless the rule is inline |
| `ret` | the value just returned: `Option<(Self, usize)>`, `Option<usize>` or `bool`. A parsed value is represented by what it prints, and by whether it has items if it is a `Vec` |
| `history` | the `History` all `State`s borrow |
| `frame.saved` | the history set aside while `probe` runs on a scratch one |
| `Schedule`, `outcomes` | a caller that calls the entry points in turn on one input, and what it got |

An action is what an activation does between two calls: make the next call
(`Call`, `Probe`), or take an answer and go on or return. `Begin` and `Finish` are
the two halves of an entry point. The two `match`es of a dispatching enum are
`DispatchHit` and `DispatchMiss`; `VariantMatched`, `NextVariant` and `NoVariant`
are the chain of `parse_case_k`, and also the plain chain of a small enum and of
`Either`. Merged kinds: `Range` and `Box` forward alike; `StringOf` and `StringOf1`
are the `Raw` they wrap; `Hidden` is an inline struct; `FollowedBy` is
`NotFollowedBy` twice; a conversion from `Wrap`, `Prefix` or `Suffix` is a struct.

User code enters as data: a character class is the set of its characters;
validation and conversion are the sets of texts they reject; a printer is the set
of texts it prints differently. So they are functions of the matched text, as they
are of the value built from it.

A panic is a step that cannot be taken: where the code would slice inside a
character the guard of the action is false and TLC reports a deadlock, and
`NeverPanics` says of the state before what went wrong.

### The meaning of a grammar

`Peg` reads a grammar in one recursive definition: ordered choice without tables,
one reading instead of three, and a log of every failed expectation instead of a
history that forgets. `AtomicParser` is the promise to a caller: every call of
the schedule is answered, once, with the meaning. `ParserVsPeg` refines it:
`outcomes` without their errors are the answers. The errors are compared with the
deepest entries of the log (`ErrorIsBest`, `ErrorWithinBest`), and what `Display`
makes of them (`Shown`) with what could have been read there (`ShownIsMissing`).

A recursive definition cannot be proved about, so `Meaning` has the same meaning,
without the log, as a table: `Reads(n, s, p)` is what grammar `n` reads of `s` at `p`,
and `Rest(n, i, s, p)` what its fields read there from the `i`-th on. Both are
parameters, and `MeaningAssumption` says that they solve the equations of ordered
choice (`ReadsAt`, `RestAt`), as `First` solves those of FIRST sets. The equations
say nothing of tables, histories, operations or stacks. A grammar without left
recursion has exactly one solution, since what a grammar reads at a position
depends on what others read further on, or on what grammars of lower rank read
there. The run `constructs` gives both from `Peg`, so TLC checks there that what
`Peg` reads solves the equations, at every position of every text, and that the
parser keeps the contract with it (`KeepsPromise`).

### What a grammar reports

`parse_at` and `scan_at` are generated separately, and both write to a history that
forgets and that lookaheads swap. `Reports` says what is left of all that, as a
second table beside `Reads`: `Leaves(n, mode, s, p)` is the history that one run of
`n` at `p` leaves behind if it starts with an empty one and outside of any rule, and
`LeavesFrom(n, mode, i, s, p)` what its kids leave from the `i`-th on. There are two
modes: `"match"` stands for `parse_at` and for `scan_at` alike, `"fail"` for
`fail_at` and the miss functions. `ReportsAssumption` says that the table solves
equations (`LeavesGiven`, `LeavesFromAt`) in which a grammar's report is put together
from those of its kids by two operations: `Joined`, which keeps the deeper of two
histories, or both in their order, and `InContext`, which puts the rules around a
report round each of its traces. That this is possible is the point: `Joined` is
associative and `InContext` distributes over it, so neither what was recorded before
nor the rules a call comes from matter to what it adds. The equations know which
variant a dispatching enum begins with, since its table decides what is reported
(see Findings); they know nothing of operations, stacks, probes or the order in which
frames return.

`MCReports` computes the table for the grammars of `constructs`, by recursion, for a
text that begins at the position, and shifts the positions.

### FIRST sets as types

A FIRST set is a type, and `Concat`, `Union`, `UnionByteSet`, `Nullable`, `WithChar`
and `WithCharCI` are associated types that the compiler normalises. `Union` turns
its operands round so that the impl of the other one decides, and `OptionalFirst`
takes its argument apart and wraps the result again. `FirstAlgebra` has one term
per impl (`AddChar`, `AddCharCI` and `UnionSet` implement everything alike and are
one) and one operator per associated type. Its state machine is the chain a derive,
a tuple or a manual impl writes: `NextField` for the fields of a struct, which
start from `EmptyFirst`; `NextVariant` for enums, which start from `Never`, and for
`Either`; `AddAlternative` for what only manual impls use. `DenotesFirst` says
that the type the chain ends with denotes what `FirstSets`, and so the equations of
`Grammar`, say of the parts.

### The presentation

`Bnf` is `bnf.rs` with tokens for characters: the constructors with their
flattening and dropping of hidden parts, the numbering of side-conditions, and the
formatter with its precedences. `BnfBuilder` calls the constructors as `to_bnf`
does, bottom-up, in every order: `BuildLeaf` and `BuildHidden` are the `to_bnf` of
literals, classes, named rules and hidden grammars, `BuildSequence` of structs and
tuples, `BuildAlternation` of enums and `Either`, `Wrap` of `Vec`, `Option`,
`NotFollowedBy` and of validated or fallible rules. A reader of the notation stands
beside the formatter and knows only what the crate documentation says of it.

`Presentation` joins the two halves of a derive. `to_bnf` and `to_bnf_def` are
computed for the grammars the parser runs, printed, read back, and used to
recognise texts, with the footnotes as the only knowledge of user code:
`ReadsAsParsed` compares that with the answers of the parser. The rules as shown
are read as a PEG (`README.md:54`).

### Separated lists

A `VecSep` is parsed as `T { S T }`; the run `constructs` has it as a conversion of
that sequence. `VecSep` is the code between: `From` takes the source apart into
`items` and `seps` (`Take`), and `print_to` zips them together again (`PrintFirst`,
`PrintPair`). The proofs bound nothing, so it has no run.

### The line index

`OLC::new` is a loop with one action per character: `EndLine`, `Character`, and
`Built` when it returns. The lookups are functions of `lines`, as in the code they
read nothing else. `PartitionPoint` is the library's binary search by its
contract, which only holds on a partitioned slice: `IndexSorted` is that
precondition. `Position` is the reference function of the unit tests, counted
over sets of offsets.

## Runs

| run | instance | distinct states | what it shows |
|---|---|---|---|
| `parser_tests` | grammars of `tests/` and of the documentation (literals shortened), texts of up to three characters, all four entry points in turn | 137,052 | the parser answers what the PEG means; scan agrees with parse in answer and error, and no entry point has an error of its own; reports are unmet expectations, and rules named by `Display` are not there; values print back; `fail_at` is "not nullable" |
| `dispatch_family` | all 120 enums of four different variants out of five, in every order, inside a struct; texts of up to three characters | 180,152 | dispatch is invisible in answers, FIRST sets are sound, and errors name nothing an ordered choice would not |
| `constructs` | recursion through `Box`, separated lists, `Vec` and `Vec1` of something empty, lookahead of lookahead, conversions, validation, characters sharing a lead byte, an enum that misses on all of these; `trace_all_nodes` on | 207,054 | the inductive invariants, the one of the reports included; no panic, contexts nest, no grammar is entered again where it is running; the PEG solves the equations of the table, and the parser answers with it |
| `plain_errors` | the grammars of `constructs` without the dispatching enum | 138,189 | errors are exactly the deepest failures, in order, with their contexts; the EBNF of the rules, as printed, recognises the same texts; every call returns |
| `olc` | every text of up to five characters out of a newline and characters of one, two, three and four bytes | 26,367 | the inductive invariant; lookups agree with the reference and invert each other |
| `first_algebra` | chains of four over never, any, known, nullable and multi-byte types | 33,732 | the compiler finds every impl, and the type denotes the FIRST set |
| `bnf` | the `Expr`s of up to six nodes, two leaves, two side-conditions, hidden parts, but no choice, lookahead or condition over nothing but hidden parts | 115,831 | normal form, parentheses, footnotes |
| `json` | 6,494 texts, of which 288 are JSON: numbers of up to four characters, strings with escapes, lists, objects, space | 866,280 | the optimized grammar accepts what the plain one means |
| `dispatch_traces` | `NullableOpThenTail` of `tests/error_behavior.rs` | violation | see Findings |
| `trailing_input` | one case-insensitive literal | violation | see Findings |
| `hidden_braces` | the expressions of `bnf`, and choices all of whose variants are hidden | violation | see Findings |
| `json_org` | the plain grammar on the numbers of `json` | violation | see Findings |

**Bounds.** Grammars, inputs and the schedule are constants; nothing in the state
is capped. An input bounds the depth of the stack for a grammar without left
recursion, so the state spaces are finite as they are. Texts of three characters
are enough to match a literal of the tables in part, in full, and with something
left over, before and after an optional field; four brackets and a few longer
texts nest lists three deep. Five variants, of which two share their first byte,
one is nullable, one is any byte (a class), and one starts with an optional field,
give every kind of table entry in every order: shared, shadowed by a nullable
variant, hit late, missed, and at the end of the input. Five characters make two
lines with two non-ASCII characters in each. A chain of four FIRST types brings
each impl before and behind each other one, twice. `MaxSize` counts the nodes of
all expressions made and not yet joined; six nodes are an alternation or a
condition inside a sequence inside a repetition, with a second part beside each.
Four characters of a number reach sign, leading zero, fraction and exponent in
pairs; the classes of the JSON grammars are limited to ASCII, since no rule
distinguishes two characters above it.

**Fairness.** `WF_vars(Next)`: a parse is an ordinary call on its caller's thread;
once it is entered the thread goes on executing it. No action waits for anything,
so weak fairness of the whole step is all that "the thread runs" says.
`EveryCallReturns` is then about the loops of the code: `Vec` over something empty,
and the chains of variants and fields. It is checked on grammars without left
recursion, which is all the compiler lets through except behind a lookahead.

**Deadlock** is checked in the parser's runs: `Done` stutters once every call of
the schedule is answered, and any other stop would be a panic. `OLC`, a chain of
FIRST types and a bounded construction of expressions really end.

## What is proved

**The parser.** For every grammar graph (finite or not), every solution of the FIRST equations,
every input, root and schedule, with and without `trace_all_nodes`
(`ParserProofs`):

| theorem | property |
|---|---|
| `Invariance` | `IInv` |
| `TypeCorrect` | `TypeOK` |
| `DispatchSkipsNoMatch` | `FirstSound`: no match where the FIRST set excludes one, so the table skips no match |
| `EmptyMatchIsNullable` | `NilSound` |
| `FailAtIsRequired` | `RequiredIffNotNullable`: what the documentation of `fail_at` says |
| `ActivationsNest` | `PositionsNest` |
| `ReportsAreTrue` | `TracesUnmet` |
| `PrintingRoundTrips` | `PrintsBack` |

and in `SafetyProofs`:

| theorem | property |
|---|---|
| `SafetyInvariance` | `SafetyInv` |
| `NothingPanics` | `NeverPanics`: no slice inside a character, no error reported there |
| `TracesNest` | `ContextNested` |
| `NeverReenteredInPlace` | `ReentersFurtherOn` |
| `StackIsBounded` | `StackBounded`: never more activations than grammars times positions |

and in `MeaningProofs`, for every table that solves the equations:

| theorem | property |
|---|---|
| `ReadsInvariance` | `ReadsInv` |
| `Refinement` | `KeepsPromise`: each call is answered once, with what the root means |
| `SameVerdicts` | `VerdictsAgree`: `scan` accepts what `parse` accepts, and all entry points read equally far |

and in `ReportProofs`, for every table of reports that solves the equations too:

| theorem | property |
|---|---|
| `ReportsInvariance` | `ReportsInv` |
| `ErrorsAgreeAlways` | `ErrorsAgree`: the error depends on the root and the input alone |
| `ScansAgree` | `ScanAgreesWithParse`: `scan` answers as `parse` and `scan_prefix` as `parse_prefix`, with the same error |

The assumptions are `GrammarAssumption` (each grammar is well-formed, as the types,
macros and derives enforce, its literals are UTF-8, and `First` solves the
equations the compiler solves) and `ParserAssumption` (the constants have their
types, the inputs are UTF-8, which a `&str` is, and `Lossless` is a set of grammars
that print what they consume, closed under their parts). TLC evaluates both in
every run of the parser. The theorems on the stack, and those of `MeaningProofs` and
`ReportProofs`, also need
`NoLeftRecursion`, which `src/grammar.rs:8` asks of the user: a rank of the grammars
that decreases along every call made before anything is consumed. The compiler
rejects left recursion where it would make a FIRST type infinite, not behind a
lookahead, whose FIRST set does not mention its grammar; so it is an assumption,
and the rank is a constant (`LeftRank`) that the runs compute. `StackIsBounded` needs
`NodesFinite` too. The theorems of `MeaningProofs` need `MeaningAssumption`, and nothing
else of the table; those of `ReportProofs` need `ReportsAssumption` as well. Both say
that a table solves equations in which a grammar at a position depends only on
grammars further on, or on grammars of lower rank there, so without left recursion
each has exactly one solution; `constructs` checks that the recursive
definitions give it.

**FIRST sets.** For every set of FIRST types and characters, and chains of any
length (`FirstAlgebraProofs`):

| theorem | property |
|---|---|
| `ChainsNormalise` | `TypesHaveImpls`: every type a chain mentions has an impl |
| `ChainsDenoteFirst` | `DenotesFirst`: the equations `GrammarAssumption` asks of `First` are those the compiler solves |

The second is inductive together with the first. It rests on one lemma for each
associated type, that what it rewrites to denotes the union or concatenation of
what its operands denote, and on one for each of `ConcatFirst` and `UnionFirst`,
that a part more adds what the definition says.

**Separated lists.** For every source, of any length (`VecSepProofs`):
`OneSeparatorFewer`, and `PrintsItsSource`: what is printed is the source, piece by
piece, to the end (`PrintsSource`). The invariant says that both vectors hold in order what was
taken so far, and that `print_to` finds them complete.

**The argument for the parser.** The properties speak of the answer just returned, and say
nothing of the activations below it, so none of them is inductive. `IInv` says of
every frame what it may already rely on:

- `StackOK`, with `Waits`: each frame runs the operation its caller called, on the
  kid it is at, from where the caller is; so an answer is always one to the call
  the frame below made.
- `Advanced`: if the fields so far consumed something, then it began with a byte
  of the FIRST set of one of them, all before it being nullable; if they consumed
  nothing, all are nullable. This is what makes `Concat` sound field by field.
- `FailsRightly`: `fail_at` and the miss functions run only where the grammar
  cannot start. It holds when the table misses, since the miss is taken when no
  variant may start there, and is handed down: to every variant, as their FIRST
  sets are contained in the enum's, and along a sequence as far as the fields are
  nullable, which is exactly how far `fail_at` goes because a required field stops
  it. It gives `TracesUnmet` for expectations written without looking.
- `Built`: what is built so far prints what is consumed so far.
- `AnswerOK`: the answer satisfies all this for the grammar that was asked.

`IInv` is an invariant of the run `constructs`. The proof has one lemma per
action; stack lemmas reduce each to its top frame.

**The argument for panics and contexts.** `SafetyInv`, inductive together with
`IInv`, says of every frame, of the answer and of the history (and of a history
set aside by a probe) that their positions are character boundaries, that the
rules in a context start where the failure is or before, the inner ones no earlier
than the outer, and that a `Vec` never answers `None`. A boundary is never
computed by the code: it follows from the input and the literal both being UTF-8,
because what a literal, or one character of a class, matches starts at a boundary
and is itself a sequence of whole characters (`TextTheorems`). `Range` and `Raw`
hand on the position of an answer, and a probe gives back the position it started
from.

**The argument for the stack.** A call is made where its caller started, or further
on. In the first case its rank is smaller (`CallsDescend`), so along the stack
positions never decrease, and where they stay ranks do (`StackDescends`). Hence no
grammar occurs twice at one position, the map from activations to pairs of a
grammar and a position is injective, and there are no more activations than pairs.

**The argument for the contract.** `ReadsInv`, inductive together with `IInv`, says of
every activation that what it has read so far, and then what the table says is left,
is what the table says of it: a sequence at field `i` has `Rest(n, i, s, cur)` to
read, a `Vec` reads on as itself from where it is, an enum at variant `i` has seen
all variants before it fail. An answer is then the table's, also that of a scan,
which prints nothing, and a `Vec1` that looks at its items and one that looks at
the end decide alike because the first item of a `Vec` is one that consumes. The
one step that needs more is dispatch: skipping variants is right only if the
table reads nothing where their FIRST sets exclude it (`SkipsNothing`). That is
a fact about all solutions (`AllReadWell`), proved by a least counterexample: the last
position at which some grammar violates it, and there a grammar of least rank;
what it reads is made of what others read further on or of what its left kids
read, so they would violate it earlier. `Refinement` follows, since `outcomes` changes in
`Finish` only, and there by what the invariant says of the root's answer.

**The argument for the errors.** `ReportsInv`, inductive together with `IInv` and
`ReadsInv`, says outside of lookaheads that the history, joined with what is still to
come, is the report of the root (`Recorded`). What is still to come is what the
activations have left to report, the innermost first: the one whose turn it is what
it leaves from where it is (`LeftHere`), the others what they leave once their kid
has answered (`LeftAfter`), each inside the rules it was called in (`Owed`). A call
splits the first into what its kid tells and the second (`CallSplits`), a return
moves what the top had left into the history (`ReturnReports`), and a step that only
goes on leaves both alone (`ContinueReports`), so that each action is left with one
equation of the table to show. What a kid reads decides what comes after it, which
is where `ReadsInv` is needed: the next field and where it starts, the next
variant, another item, what user code refuses. Inside of lookaheads nothing recorded
counts. There `SetAside` keeps what the outermost of them put away, joined with what
the activations around it will report; it becomes the history again when that
lookahead returns, and inner lookaheads may do what they like. `BegunRightly` says
that only a dispatching enum begins before its first variant. In `Finish` nothing is
still to come, so each error is that report (`Reported`), whatever the operation of
any activation on the way was: the table has one row for parsing and scanning.

**The line index.** For every text of UTF-8, of any length (`OLCProofs`):

| theorem | property |
|---|---|
| `IndexInvariance` | `IndexInv` |
| `TypeCorrect` | `TypeOK` |
| `Sorted` | `IndexSorted`: both binary searches are on partitioned slices |
| `Agreement` | `AgreesWithReference`: the answer is the line and the UTF-16 column of the definition |
| `Inversion` | `RoundTrips`: the second lookup undoes the first |

`IndexInv` relates the lines collected so far to the text read so far: a line starts
at the text's beginning or behind a newline, has none in it, and is preceded by as
many newlines as lines; a checkpoint counts the UTF-16 units from the start of its
line; and there is one between any two characters of which the first is not one
byte long. The last is what `AgreesWithReference` rests on: behind the last
checkpoint at or before an offset every byte is one unit, so the arithmetic of the
lookup (`utf16 + (offset - byte)`) counts right. Both lookups are then functions of
the invariant alone.

**Out of the prover's reach, and model-checked only:** `EveryCallReturns` (liveness
under fairness); `ImplementsPeg`, `ErrorIsBest`, `ErrorWithinBest` and `ShownIsMissing` (`Peg` is a
recursive definition, and an induction on it is needed; that the answers are those
of a solution of its equations, and the errors those of a table of reports, is
proved, what they say of its log is not); `ReadsAsParsed` and the properties of `BnfBuilder` (an
expression is a tree, and what is done with it recursive); `SameLanguage`.

## Findings

1. *Dispatch still drops traces* (`dispatch_traces`). `CHANGELOG.md:165` reports as
   fixed that enum dispatch silently dropped the traces of earlier variants. The
   fix covers a byte no variant can start with (the miss functions). On a byte
   that starts a later variant, or when a later variant is nullable, the table
   still enters the chain there (`tygr-derive/src/lib.rs:792`), and the variants
   before it report nothing. `NullableOpThenTail` of the tests, parsed directly
   on `"x"`, reports `"y"` and `"TAIL"` at 0 and not `"+"`, `"-"`, `"*"`, although
   the same grammar reports all five inside `Outermost`.
2. *The position of trailing input* (`trailing_input`). `Error::pos` is documented
   as "The deepest byte offset the parser reached before giving up"
   (`src/state.rs:361`). When the root matches and input is left over, nothing is
   recorded at the end of the match (`src/grammar.rs:80`): a lone literal followed
   by anything fails at position 0 without traces.

3. *Empty braces* (`hidden_braces`). `src/bnf.rs:92` and `:103` say that an
   entirely hidden expression vanishes "rather than showing as `{ }`" or `[ ]`.
   `remove_empties` (`src/bnf.rs:234`) looks into sequences only, so a `Vec` or
   an `Option` of an enum or `Either` all of whose variants are hidden is shown as
   empty braces.
4. *Numbers without digits* (`json_org`). `examples/json.rs` is said to be the
   grammar of json.org, but `Digits` may be empty, so `0.` and `1e` are accepted;
   `json_optimized.rs` does the same.

Observed on the way, without a run of their own:

- `Vec1<Option<T>>` is shown as `T { T }` with its `T` in brackets, as `src/lib.rs:19`
  says it is; as a PEG that matches the empty text, which `Vec1` refuses. `Vec1` of
  a grammar that is not nullable reads as it parses. The grammar `Some` of
  `ConstructGrammars` is therefore not among the `Listed` rules.
- `!` in front of a hidden grammar is shown as a lone `!`, which a reader attaches
  to the next element; `AllHidden` is FALSE in `bnf` for this reason.
- An inlined rule loses the side-condition of its conversion, as a comment in
  `impl_convert` says it should; `PresentationAssumption` leaves such grammars out.
- The side-condition of a validated enum is shown round all its variants, while a
  rejected variant makes the parser try the next one.
- `\u` takes three hexadecimal digits in both JSON examples and the benchmark, which
  says it is a copy of the optimized example and keeps strings differently.

## Not modelled

- The wording of `Display` and `Debug` of `Error` and `Expectation`, escaping and
  spacing of the EBNF, and builds without tracing.
- Manual impls of `Grammar` beyond the FIRST types they build.
- The command line of the examples, the benchmark.
- Syntax of attributes, generics, visibility in the derive; `Clone`, `Deref`,
  `Hash`, `map`, `transpose` and the like.
- The native stack itself: `StackBounded` is a bound on its depth, linear in the
  length of the input, and the code has no other limit.

## Plan

1. Done: `Utf8`, `Grammar`, `History`, `Parser` with all operations; the PEG
   contract; three families of grammars; the line index; the inductive invariant
   and eight theorems.
2. Done: `FirstAlgebra` with its proofs; `Bnf`, `BnfBuilder`, `Presentation`;
   `VecSep` with its proofs; what `Display` shows; the JSON examples.
3. Done: the proofs of `NeverPanics` and `ContextNested` from character boundaries,
   of `ReentersFurtherOn` and the bound on the stack from a rank, and of the line index.
4. Done: the contract, proved: the meaning as a table that solves the equations of
   `Peg`, and `AtomicParser` with that table refined by `Parser`.
5. Done: the reports of every grammar as a table, and with it `ErrorsAgree` and
   `ScanAgreesWithParse` proved.
6. Open: `ErrorIsBest` against a log of all failures as a table beside `Reports`, for
   grammars without dispatch tables, and for which grammars with them `ErrorWithinBest`
   holds: `fail_at` of a sequence goes on behind a nullable field that would have
   failed, a lookahead for example, where an ordered choice would stop.
