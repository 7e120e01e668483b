# A verification of the Ni language runtime

Ni is a small scripting language for games and other host programs: a lexer,
parser and compiler produce bytecode, and a virtual machine (`ni_vm`) embedded in
the host runs it as cooperative fibers over a garbage-collected heap. This
directory holds TLA+ specifications of its heap, scheduler, interpreter and
compiler, and of the front end (lexer, parser, formatter, linter, language
server), the TLC configurations that check them, and TLAPS proofs.
All paths below are under `src/`, those without a directory under
`src/crates/ni_vm/src/`.

## The system

| Component | State | Operations | Talks to |
|---|---|---|---|
| Heap (`gc.rs`, `object.rs`) | slots, generations, free list, object count, bytes, threshold | `alloc`, `get`, `get_mut`, `mark`, `sweep` | the VM roots it; natives and the compiler allocate |
| Interpreter (`vm.rs` `run_fiber`) | stack, frames, open upvalues, catch points of the fiber in `self.fiber`; globals | one instruction per turn, then memory limit, then GC | heap, scheduler instructions, natives |
| Scheduler (`vm.rs`, `fiber.rs`) | main slot, ready, suspended and parked fibers, `last_pending`, finished list, id counters | `run_ready`, `resume`, `cancel_fiber`, `load`, `spawn_closure`, `spawn_call`, `interpret`, `call`; spawn, yield, wait, await, return, error | host, `IoProvider`, `VmObserver` |
| Debugger hooks (`debug.rs`) | breakpoints, stepping, `last_debug_line` | one callback per line, call and park | host |
| Values and library (`value.rs`, `stdlib.rs`, `native.rs`) | none of their own; iterators keep a position in a collection | operators, methods, JSON and NION | heap |
| Compiler (`ni_compiler`) | function compilers with scopes, locals, upvalues, loop contexts; import stack | one routine per statement and expression; imports run a VM of their own | heap, lexer, parser |
| Lexer (`ni_lexer`) | cursor; the indentation stack | tokens, then Indent and Dedent; a second scan for comments | parser, formatter |
| Parser (`ni_parser`) | position, depth | recursive descent, binding powers; lexes what is in an interpolated string | compiler, formatter, linter, language server |
| Code generation (`ni_codegen`), its runtime (`ni_runtime`) | output text; reference-counted values | Rust and C text, coroutine split, name mangling | |
| Formatter (`ni_fmt`) | text, indentation, comments not yet written | print a program; print tokens | language server, command line |
| Linter (`ni_lint`) | scope stack, diagnostics | visit a program | language server, command line |
| Language server (`ni_lsp`) | documents behind a mutex, each with the program last parsed | open, change, close, format; look names up | editor |
| Command line (`ni_repl`) | one VM across REPL inputs | run, specs, fmt, lint, codegen | all |
| Editor extension, error type, examples, docs | | | |

What makes a component correct, and what is hard about it:

* **Heap.** A reference never finds another object than its own, a collection
  frees exactly the unreachable objects and always ends, the counters stay
  exact. Hard: slot reuse, cycles, the state halfway through a sweep, objects
  that change size.
* **Memory limit and trigger.** No instruction starts above the limit or above
  the threshold. Hard: the order of the two checks and the instructions that
  skip them.
* **Scheduler.** A fiber is in one place, ends once, wakes only for its own
  answer or when its time has come, is not starved as long as `run_ready` comes back,
  which it does if there is an end to the spawning; the host's status is true.
  Hard: host calls in any order between runs, late answers, cancellations,
  errors that cut `run_ready` short, `interpret` and `call` next to `run_ready`,
  fibers that spawn fibers while the ready queue is drained.
* **Interpreter and compiler.** The compiler's idea of the stack and the
  interpreter's agree, an upvalue is its variable, an error reaches the
  innermost handler. Hard: errors and suspensions in the middle of scopes.
* **Lexer.** Every Indent has its Dedent, whatever the columns, blank lines,
  comments, brackets and line ends; the formatter's scan for comments agrees with
  the lexer; what is in an interpolated string reaches the parser unchanged. Hard:
  three places that read strings by rules of their own.
* **Parser and formatter.** Formatting a file keeps its program and its comments.
  Hard: the printer has no parentheses, so the tree must be what the binding
  powers make of the words; comments are attached by line.
* **Linter.** A variable is warned about exactly when it has no use. Hard: scopes,
  visiting every construct.
* **Language server.** What it holds and publishes is about the text the editor
  shows. Hard: limits, texts that do not parse, edits made by its own answers.
* **Others.** Imports are loaded once and cycles are refused.

There are no threads in the VM: concurrency is the interleaving of fibers and of
host calls. Nothing is persisted, so there is no crash recovery to model. The
hazards, each at its line, are in `PROJECT.json`.

## The modules

### ObjectStore and GcHeap

`ObjectStore` is what the heap promises: objects that are numbers never used
twice, and a store that may take back one unreachable object at a time.

`GcHeap` is `gc.rs`. `slots` is a function on the occupied indices (the `Some`
entries) and `pushed` is `slots.len()`; `generations`, `freeList`, `objectCount`,
`bytesAllocated` and `threshold` are the fields of that name. An object is its
references and its size. `Alloc` is `alloc`; `SetObject` is a write through
`get_mut`, which touches no counter; `AddRoot` and `DropRoot` stand for all that
changes stacks, globals and pins (`roots` is what `Vm::collect_garbage` would
mark). `StartCollect`, `MarkRoot`, `MarkStep`, `StartSweep`, `SweepSlot` and
`EndSweep` step through `collect_garbage`, `mark`'s worklist and `sweep`'s loop.
`mark` is called once per root and its worklist has the order of hash maps, so
the next root and the next reference are any. The code is never interrupted
there; the steps are visible so that invariants can speak of the middle.
`allocations`, `issued` and the `id` in an object are ghosts: they number the
objects, for `NoAlias` and for the refinement.

References the program does not root (in `fiber.result`, `finished_fibers`, or
kept by the host) can come back at any time: `AddRoot` takes any reference ever
issued, stale or not.

### VmMemory

The loop of `run_fiber` around `GcHeap`: `Instruction` is what an instruction
does to the heap, any number of heap operations with no check between;
`FailOnLimit`, `CollectAfterInstruction` and `NextInstruction` are its tail
(`vm.rs` 1714-1731), in the code's order; `LeaveFiber` is every `return` inside
an instruction, which skips the tail. `GcCollect`, `GcEnable` and
`GcSetThreshold` are the host's calls. `InPlaceGrowth` says whether objects may
change size after `alloc`.

### FiberLifecycle, FiberScheduler and FiberTurns

`FiberLifecycle` is the life of a fiber as scripts and hosts see it, without
queues: created, running, suspended, parked on one operation, ended.

`FiberScheduler` has one action per call of the host (`Load`, `SpawnClosure`,
`Resume`, `CancelFiber`, `Interpret`, `CallIn`, and `Promote`, the first part of
`run_ready`), per step of `run_ready` (`StartMain`, `SkipMain`, `TakeReady`,
`EndRun`) and per instruction that reaches the scheduler (`Spawn`,
`CallPending`, `PushValue`, `AwaitValue`, `AwaitPending`, `AwaitPendingSync`,
`Yield`, `Wait`, `Finish`, `Fail`). The moves that `run_ready` makes after
`run_fiber` has returned are part of the instruction's action. `control` is where
the code is; `saved` is the local `saved_main` with `saved_id`. A fiber is its
state, its timer, whether it has frames, and the token whose placeholder is on
top of its stack; scripts are all sequences of these instructions, and an error
may come at any of them (limits, `fail`, asserts). `fate`, `caller`, `told`,
`settled`, `uid`, `asked` and `slept` are ghosts. The `IoProvider` is the pair
of sets `told` and `settled`.

`FiberTurns` has the liveness, for which a bound on the fibers there ever are would
hide the very case that matters: spawning without end. So it adds one step to the
scheduler, `Forget`: fibers that have ended, their results, operations that are all
answered and identifiers no longer in use are forgotten as soon as they are, and those in
use are numbered anew in their order. The code has no such step, and it changes nothing that
the code goes by: no queue, status or timer depends on a fiber that has ended,
and identifiers are only compared. `MaxFibers` is then a bound on the fibers that live at
once.

### Bytecode and Interpreter

`Bytecode` is `compiler.rs` as far as it decides where values are on the
stack: scopes, locals, upvalues, jumps, loops, functions with defaults, classes, enums,
`assert`, every statement, and every expression but `await`. `Arithmetic`, `Compare` and
`Build` stand for the opcodes that differ only in the value they compute. A
piece of syntax becomes a sequence of tasks in the order of the `compile_...`
function of that name (emit, patch, open a scope, compile a part); `Run` carries
them out on the compiler's state, `Compile` gives the functions of a script.
Offsets count instructions. `starts`, `cases` and `class` are ghosts: where statements and
case bodies begin, what the source text means to be on the stack there, and the class that
declares a method.

`Interpreter` is `run_fiber` on those functions, one action per opcode, with
`call_value`, `call_closure`, `capture_upvalue`, `close_upvalues`,
`find_exception_handler` and the unwinding of `Fail` and `handle_runtime_error`
(`Throw`, one definition, as the two are the same code). `objects` are the classes,
instances and bound methods of the heap: `Inherit` copies the methods of the superclass,
`get_property` binds a method to its receiver, `invoke` prefers a field, `SuperInvoke`
looks above the class of the receiver. `stack`, `frames`, `openUpvalues` and `catchPoints`
are those of the fiber that runs, `others` are the fibers it left: `SpawnFiber` adds one,
`Switch` is `run_ready` taking any of them when one has yielded, waits or is done
(`FiberScheduler` has the order). `upvalues` are objects of the heap and belong to no fiber. A value is its kind and
the variable it was written for, so that a wrong slot shows; `Resume` is the host
running the fiber again. Natives (`cond`, `pick`, `risky`) return any of their
results, errors included. `Dies` is an error returned with `?`, which no `try`
catches: an undefined variable, a wrong arity, a value that cannot be called or
iterated, operands an operator does not take, a failed assertion, an unknown property or
method, the frame limit.

`MCInterpreter` holds the scripts: 420 with loops (what is captured, how the body
is left, kind of loop, where a `try` is, how the function is called), 75 with
nested `try` statements and the ways to raise an error, 300 with `match` (two
cases, their bodies, plain, in a loop, or on a caught error), 150 with classes (an instance
of a class or of one below it, a method called directly, through another method, bound,
static or from a field, what the method does, how the function is called), 4 with spawned
fibers that wait between their declarations, and 28 for the rest
(operators and collections, members, enums, three levels of classes, frame limit, arity, refused
programs, what ends a fiber, the log policy). TLC starts every script and takes every result of every native, so every path
of each is run.

`Verifier` says what the interpreter relies on in the code it runs, as a bytecode
verifier would: a check of the instructions alone. Nothing in ni makes such a check
(`run_fiber` takes what the compiler made on trust), so its definitions are in no place of
the source; it is the contract between `compiler.rs` and `vm.rs`, and the proofs about the
interpreter assume it. A shape is what is known of a frame when it comes to an instruction:
how many slots it has, the try expressions being evaluated with the height each was begun
at, which slots are known to hold a closure, an object or an iterator, and which of them an
open upvalue may refer to. `Flow` gives where control goes from an instruction with which shape,
to the handlers of its catch points and of the exception table included; `Allowed` what
the instruction asks for (the operands are there, a slot it writes exists, `Pop` takes no
captured slot, `Return` leaves no try expression open, `SuperInvoke` has an object below its
arguments). `FlowsInto` says that the shapes a function is said to have (`ShapesOf`) are
closed under this. `Trusted` are the programs whose functions pass.

In `MCInterpreter` the shapes are found by following the code from its entry (`Explore`).
All 792 compiled programs with one fiber in which no loop with a captured variable has
a `try` statement pass. Of the other 180 with one fiber 34 pass as well; in the rest an
error that a handler of the same function catches might drop a slot with an open upvalue (the
fault named below), which the check cannot tell from the ones that do not. `SpawnFiber` is
in no trusted code.

Left out of the scripts, because the code is wrong there and TLC finds a property
violated as soon as such a script is added:

* a variable captured in a `try` body that then fails: the handler truncates the
  stack without closing the upvalue (`vm.rs` 1575, 2800);
* a declaration, a `break` or a `try` in the body of a `match` case: the subject is
  on the stack but no local of the compiler (`compiler.rs` 981);
* a guard after a binding or a literal: when it fails, the copy of the subject stays on
  the stack, or the subject itself is dropped (`compiler.rs` 1039-1062, 1072);
* several alternatives in a case, and `yield` as a statement: these have runs of
  their own;
* `fail` as a statement under `FailPolicy::Log`, which pushes a None that nobody pops
  (`vm.rs` 1592);
* `super` in a method that two levels of classes below it inherit or call with `super`:
  the receiver's class decides where `super` looks, so the method in the middle finds itself
  and calls itself until the stack overflows (`vm.rs` 1364), where
  `docs/guide/06-classes.md` says that it calls the parent's;
* `spawn` of a closure over a variable that is still on the stack of the fiber that
  spawns it: read and written at that index of the new fiber's stack (`vm.rs` 2750).

Some things the model shows that no property speaks of: an instance has the field
defaults of its own class and not those of the classes above (`vm.rs` 1967); `self` in a
lambda inside a method is the lambda (`compiler.rs` 1542); `list[f()] += 1` evaluates
`f()` twice (`compiler.rs` 1660); `spawn f()`, as in `docs/guide/10-coroutines.md`, calls
`f` in the fiber that runs and then fails on what it returned (`vm.rs` 1464).

### Lexer, Parser, Printer, Lint

These four are functions from texts to tokens, programs, texts and warnings, with the
operators named for the functions of `cursor.rs`, `indent.rs`, `parser.rs`, `expr.rs`,
`printer.rs`, `formatter.rs`, `visitor.rs` and `checks/`. A text is a sequence of pieces: a
piece is a whole lexeme, a comment, a line end (`nl` or `crnl`), a tab, or the spaces at the
start of a line with their number. How a number or a name is spelled and which spaces the
formatter puts inside a line are left out.

`Lexer` has the cursor that refuses a text beyond `MaxSource` (`Cursor::new`) and decides
which line ends and leading spaces count (`ScanAll`), the indent processor (`Process`) and the formatter's scan for comments
(`ExtractComments`). It is written as runs: a turn of the cursor goes from one state of it to the
next (`Turn`), as a token takes the indent processor on (`IndentNext`), and the two scans are
recursive functions over the number of turns and of tokens, so that they can be proved
about. `Parser` has one operator per method; an error makes the position of
the parser 0, on which every check fails, which is what `?` does in the code. `Printer` turns a program into a
sequence of steps (write, begin or end a line, indent, write the comments due) in the order
of the `print_...` methods and carries them out on the printer's fields; `FormatTokens`
is what a file that does not parse gets. Spec and section labels, docstrings and the text of
interpolated strings are written as they are, without the escapes the lexer took
out of them, so what the printer makes of them is the pieces the lexer would read
there (`Raw`): the characters go through the scan of `StringScan`, escapes and interpolations
included, and through `dedent_triple_string` (`Dedented`). Other strings are
written with `escape_string` and stay the piece they are. `Lint` turns a program into the events the
checks react to, in the order of the visitor, and runs the two checks on them.

### LanguageServer and FrontEnd

`LanguageServer` is `ni_lsp` with the editor it serves: `DidOpen`, `DidChange`,
`DidClose` and `Formatting`, whose answer the editor applies and reports as a change.
`documents` is the store with its two limits, each document with its text and the set of at
most one program parsed from it (the lexer's limit is the same number as the store's, so a text
that the store refuses is a syntax error and has no program); `diagnostics` is what was last published. The mutex is
held inside a step of a handler and no handler reads the store after its only await, so a
handler is one step.

What the parser, the linter and the formatter answer are parameters of `LanguageServer`
(`Parsed`, `Linted`, `Formatted`); the runs give them `ParseText`, `LintProgram` and
`Format`. `Blocks` states what the lexer promises about the lines of the texts that are shown
(`BlocksMatchColumns`), with a second definition of blocks: columns that no later line goes left
of, the lines and the brackets open before them counted in the text. It says too what a text is
(`WellFormed`). `FrontEnd` joins all of them and states what they promise together, on
terms of its own. It has a second definition of grouping
(`ReadsSame`: an expression written without parentheses reads back as itself when each
operand's operator satisfies the demand of the operator around it), and of uses (a name
written twice). The demands were written down from the grammar's table of powers
and not from the recursion that implements it.

### StringScan

Quoted and backtick strings by the character: the lexer's scan with escapes and
interpolations (`Scan`), the text `__fstring__:` in which the parts travel (`Encode`), the
parser's reading of it (`Decode`), and `extract_comments`. Every loop of the code is a run: a
turn takes one state of the loop to the next (`StringTurn`, `FileTurn`, `DecodeTurn`,
`CommentTurn`), as often as the text has characters, since each turn takes one at least. The
state is a file that is typed one character at a time. Of what is done to a string of three quotes
after it was scanned, `StringScan` has the removal of a first and a last line end; that of the
margin is in `Printer`, where it decides whether a docstring survives.

## The runs

| Run | Configuration | Shows |
|---|---|---|
| `gc_heap` | 3 slots, 4 objects, 1 reference each, 2 roots, generations to 2 | types, `NoAlias`, `SlotsAccounted`, `CollectsExactlyGarbage`, `HeldRefsSurvive`, `CollectionEnds`, and that the heap implements `ObjectStore` |
| `vm_memory` | sizes 1 and 2, limit 3, thresholds 1 and 3, no growth in place | `BytesExact`, `MemoryCeiling`, `CollectorKeepsUp` |
| `memory_ceiling` | the same with growth in place | `MemoryCeiling` is violated |
| `scheduler` | 3 fibers, 1 token, waits to 1, all host calls and errors | `OnePlace`, `FinishedOnce` (with `interpret` and `call`: none that did not finish, none twice), `IoLedger`, `StatusTruthful`, and that the scheduler implements `FiberLifecycle` |
| `scheduler_live` | `FiberTurns`: any number of fibers, 3 at a time, 1 operation at a time, waits to 2, `load`/`spawn`/`run_ready` hosts, scripts that await at the call | `WaitsAsAsked`, `ParksForOwnCall`, `IdsDistinct`, `FinishedOnce` (each that finished is reported), `RunReadyReturns`, `NoStarvation` |
| `failed_fiber` | 2 fibers with errors | `ErrorTerminates` is violated |
| `stale_await` | 2 fibers, one leaves a pending call unawaited | `ParksForNoOther` is violated |
| `interpreter` | 977 scripts, 5 frames, 4 upvalues | `LocalsInTheirSlots`, `UpvaluesSeeTheirVariable`, `CatchPointsNested`, `MatchTakesFirst`, `InnermostTryCatches`, `CallsNearestMethod`, types, and that the code of 792 of them is trusted code (`CompiledCodeVerified`) |
| `yield_locals` | a function that yields between two declarations | `LocalsInTheirSlots` is violated |
| `match_cases` | a case of three alternatives, then a wildcard | `MatchTakesFirst` is violated |
| `front_end` | 7381 texts, 2 documents, one place in the store, texts to 60 pieces in the store and in the lexer | `BlocksMatchColumns`, `FormatKeepsProgram`, `CommentsKept`, `UnusedWarned`, `FollowsEditor` |
| `strings` | files to 6 characters of 6 kinds; one backtick string to 6, one of three backticks to 5 characters | `FStringPartsSurvive`, `CommentsAgree` |

Why the bounds are enough: three slots give a cycle, a chain through a slot
behind and a slot ahead of the sweep, and a free list of more than one entry;
four allocations and two generations give a reused slot with an old reference
to it still held, also as a child. `MinThreshold`, 256 in the code, is small in
`vm_memory` so that collections start by themselves, and above every count in
`gc_heap`, where they start at any time anyway. Three fibers fill the main slot,
`saved_main` and one queue at once, or two places of one queue, so order and
mistaken identity show; one token is enough for an answer that is late, doubled
or for a cancelled fiber; waits of 2 against ticks of 0 and 1 give early,
exact and late timers. In `interpreter` every structure is nested in every other one
once, which is where the compiler's bookkeeping for one can disturb the other's;
five frames are the script, a function, a method, the one it calls and the one above that,
and a recursion reaches the limit; four upvalues let two iterations capture twice; two
spawned fibers and the first interleave at every wait.

The texts of `front_end` are every expression of two operators, parenthesised (each
power with each other power, on each side, and every kind of operand); all labels, docstrings
and interpolated texts of up to three characters (quote, backslash, line end, braces,
backtick, space and another), and docstrings and interpolated texts with such a stretch between
others, so that every escape stands at the start, at the end and in the middle; 28 files that
have every declaration, statement, pattern and literal, well and badly formed, with comments in all
places; four lines at all columns to 3; and three lines of all kinds (blank,
comment, open bracket, trailing operator, CRLF, no line end). Two operators are
enough for grouping, since a demand is between an operator and the one around it.
Four lines are enough for a dedent over two levels and to a column between. Every text is opened and formatted, so the formatter also
sees its own output. `MaxText` and `MaxSource`, one number in the code too, are below the length of
two of the texts an edit gives, one that would parse and one that would not,
and `MaxDocuments` is below the number of documents. `MaxNesting` is the 256 of the code
(`parser.rs` 6), which no text reaches. Where the printer writes raw text, an unclosed
string of three quotes is an error even if a later one in the file would close it
again, and an expression in braces stands for its pieces; `StringScan` has the strings and braces
inside of expressions. In `strings`, six characters hold an escaped quote inside a string
before a comment, two strings, and a string of three quotes; in a backtick string they hold
a text, an expression with a string with a brace in it, and a text.

`CHECK_DEADLOCK FALSE` is set where bounded resources let the model really stop:
in `gc_heap` a collection always remains possible, but the scheduler runs end
when the bound on fibers is used up and the host does nothing more, a script
of the interpreter runs ends, and typing in `strings` stops at the longest file.

Fairness. In `gc_heap`, `WF(Collect)`: `collect_garbage` is a plain call that runs
on. In `scheduler_live` (`Fairness`): `run_ready` runs on (`WF(RunReady)`); a script leaves
the processor again (`WF(Leave)`), since one that does not meets the instruction
limit; the host calls `run_ready` with time passing again and again
(`SF(Promote)`) and answers each pending operation (`SF(Resume)`). Nothing is
assumed of cancellations, loads and spawns. `WF(Forget)` is of the bookkeeping, which no other
step may precede.

This fairness does not make `run_ready` come back. Its loop (`vm.rs` 416) drains the ready
queue while `spawn` appends to it (`vm.rs` 1464), so fibers that each spawn the next before they
end keep one call going for ever, and whoever is suspended or parked then is never
promoted or answered: `NoStarvation` without its hypothesis is violated in this run by
such a chain, and `RunReadyReturns` without its own. So the two say what holds besides: a call comes back
if from some time on nothing is spawned, and as long as calls come back nobody is
starved, spawning or not. What stops such a chain in the code is the instruction limit of the
whole VM (`vm.rs` 795, ten times that of a fiber unless the host sets one), an error that
from then on meets every fiber at its first instruction, the starved ones included; the
count is left out of the model and `scheduler_live` has no errors.

## What the violated runs show

* `memory_ceiling`: `bytes_allocated` knows the size an object had at `alloc`. A
  list that grows afterwards is not counted, so `memory_limit` is no "maximum heap
  bytes".
* `failed_fiber`: an error leaves the failed fiber in `self.fiber` with its frames.
  The documentation says exceeding a limit terminates the fiber; the next
  `run_ready` executes it again.
* `stale_await`: `last_pending` belongs to the VM. A call that was never awaited
  makes the next `await` of any fiber park, also one on a plain value.
* `yield_locals`: `yield` as a statement, as in the guide, costs the function its last
  local: the compiler pops a result that `Yield` never pushes.
* `match_cases`: of three alternatives the first is never taken (its jump is not
  patched), and the last drops the subject from the stack.

## What the front end keeps, and what it does not

The properties of the front end are equivalences: they say of which texts a promise
holds. The exceptions they name are the code's:

* Formatting changes a program that needs parentheses (`(a + b) * c`), since the
  printer writes none (`printer.rs` 671); comparison chains and `and`/`or` group
  from the right (`expr.rs` 446, 589), so a left grouping is lost. `f((k = 1))`
  becomes a named argument. A literal pattern that ends in a name before a guard is read
  as a conditional expression.
* A nested function or a lambda with a block is written over several lines that the parser
  accepts only at the end of a block; a lambda whose block is one expression returns
  it after formatting (`printer.rs` 859).
* `pass` is added to bodies that have only a docstring and to specs without statements;
  guards in a `catch`, and `each` clauses, are dropped (`printer.rs` 391, 596).
* Comments on class members, variants, cases, `elif`, `else`, `catch`, and after the
  last statement are dropped, and all of them in a file that does not parse.
* Labels of specs and sections, docstrings and the text of interpolated strings are
  written without escapes (`printer.rs` 105, 185, 245, 297, 393, 416, 684). A label with a quote, a
  backslash or a line end, an interpolated text with a backtick, a backslash, a line end
  or a left brace, a docstring with three quotes, a quote at its end or a backslash
  before a character that can be escaped is another one after formatting, or the text no longer
  parses; a docstring loses a first and a last line end and the margin of its lines.
* Spaces before the end of the file or on a blank line that ends in CRLF count as a line with that
  column and may open or close a block or be an error (`cursor.rs` 185).
* An update beyond the size limit is dropped: the server goes on answering from the text before
  and its program, while the diagnostics are those of the new text, an error since the
  lexer refuses at the same limit (`cursor.rs` 17). A document opened while the store is full is never held; diagnostics
  stay when a document is closed.
* The patterns of a `catch` are not visited by the linter and its cases have no scope
  (`visitor.rs` 190).
* A literal part that ends in a backslash makes the next expression text, and at the end
  of the string the parser never returns (`expr.rs` 723); braces inside a string inside an
  expression must match.
* The two scans for comments disagree on backticks inside an interpolation and on
  escaped quotes in strings of three quotes (`lib.rs` 46); the two cases are left out
  of `CommentsAgree`.

## The proofs

`GcHeapProofs` proves, for every value of the bounds:

* `TypeCorrect`: `Spec => []TypeOK`;
* `NoReferenceAliases`: `Spec => []NoAlias`;
* `SlotsAreAccounted`: `Spec => []SlotsAccounted`;
* `NothingHeldIsFreed`: `Spec => HeldRefsSurvive`;

from the assumptions named in `GcHeap` (the bounds are natural numbers) and one
inductive invariant, `HeapInv` (theorem `HeapInvariant`). `NoAlias` alone is not
inductive: an old reference must not equal one still to come. So
`GenerationsOK` says a slot in use has the last generation of its index, and
`IssuedOK` that no reference given out is newer than that and that a live object
is the first owner of its reference. `TypeOK` needs `SlotsAccounted`, or
`object_count` could go below zero in `Free`; that needs the free list to hold
exactly the empty slots, once each. `HeldRefsSurvive` needs `TriColor`: while the
collector marks, whatever a visited root or a marked object refers to is marked
or on the worklist; while it sweeps, whatever a root or a survivor refers to is
marked or behind the cursor; and `PhaseOK`: the program never sees a mark. Each
part has one lemma with a step per action.

and, for every object graph:

* `ExactlyGarbageIsCollected`: `Spec => []CollectsExactlyGarbage`;
* `HeapImplementsStore`: `Spec => ImplementsStore`.

Both rest on paths in the object graph. `Reachable` follows references a bounded
number of times; `ReachableLeast` says that this is the least set that holds the roots
and, with an object, what it refers to. One half is an induction over the length of
a walk (`WalkSteps`), the other a counting argument (`WalkCloses`: a walk that is not
closed yet gains a reference at each step, and there are only so many). The
library states induction with an operator as parameter, which the provers cannot
instantiate; `SetInduction` states it with a set, from the fact that the order of the
natural numbers is well-founded. `CollectInv` adds `MarksOK` to `HeapInv`: what is
marked, or waits on the worklist, is reachable, and a sweep passes only slots that
were (with `TriColor`, which is the other inclusion, this gives equality). The
refinement adds `IdsOK`: no two references were issued for one object, and roots and
references are to objects that were issued. `StoreStep` then has the step of `ObjectStore` for each
action: an allocation is `Create`, a sweep that frees is `Reclaim` of an object that
nothing reaches, a mark is no step.

`VmMemoryProofs` proves of the heap as `run_fiber` and the host drive it, for every
limit and every threshold:

* `MemoryKeepsHeap`: `MemorySpec => [](HeapInv /\ NoAlias /\ SlotsAccounted /\ CollectsExactlyGarbage)`
  and `MemoryImplementsStore`: `MemorySpec => ImplementsStore`;
* `CollectorAlwaysKeepsUp`: `MemorySpec => CollectorKeepsUp`;
* `BytesAreExact`: `MemorySpec => []BytesExact`;
* `LimitIsCeiling`: `~InPlaceGrowth => (MemorySpec => MemoryCeiling)`;

the first two because every step but `GcSetThreshold` is, to the heap, a step of
`GcHeap` or none (`HeapStepOrThreshold`), the third because only `EndSweep`
returns from a collection (`ReturnIsEndSweep`) and what it sets the threshold to is
more than the objects it left (`NextThresholdAbove`). That needs
`GrowthAssumption`: a growth factor of at least 2 and a floor of at least 1, as the
code's defaults 2.0 and 256 are. A host may set another factor; with one of at most
1 a collection can follow every instruction. `BytesAreExact` is about a sum over the
heap, which is a fold: `SumExists` shows that any finite set of sizes has one sum
(`IsSum`, by induction on its size), `SumTakeOut` what one object more or less does to
it, and `SumAgrees` that it depends on nothing else. `LimitIsCeiling` follows from it and the
check at the end of an instruction; the hypothesis cannot be dropped, as run
`memory_ceiling` shows.

`FiberSchedulerProofs` proves, for any number of fibers and tokens, every wait and
every use of the host API, with `AwaitDirectly` or without:

* `TypeCorrect`: `Spec => []TypeOK`;
* `FiberInOnePlace`: `Spec => []OnePlace`;
* `ResultReportedOnce`: `Spec => []FinishedOnce`, that is, `finished_fibers` lists only fibers that
  ran to their end, none twice, and if `~Sync` every one of them (`interpret` and `call` hand
  the result of a fiber back themselves, and it is not listed);
* `LedgerExact`: `Spec => []IoLedger`;
* `WaitsKept`: `Spec => []WaitsAsAsked`;
* `StatusIsTrue`: `Spec => []StatusTruthful`;

and `FiberLifecycleProofs` the refinement, and what holds if the VM is used with care:

* `LifecycleImplemented`: `Spec => ImplementsLifecycle`;
* `IdsAreDistinct`: `~Sync => (Spec => []IdsDistinct)`;
* `ParksOnOwnCall`: `AwaitDirectly /\ ~MayFail => (Spec => []ParksForOwnCall)`;

all from `BoundsAssumption` and `DeltasAssumption` alone (the bounds and the ticks
are natural numbers). The inductive invariant is `IInv` (theorem `InvariantHolds`). `OnePlace` says of every fiber
that the main slot, `saved_main`, the queues and the parked ones hold it once in
all while it is alive and never afterwards, so it is kept by counting: `Count`
says how often a queue holds a fiber, the lemmas `CountOf...` what every operation
on a queue does to it, and `PlacesSum` that `OnePlace` is a sum of such counts.
The one hard operation is the loop of `run_ready` that splits the suspended
fibers in two: `RankIsBijection` and `PickedPositions` show that the two parts
have every entry once, and `CountOfSplit` that the counts add up. `OnePlace` is
not inductive alone. `HoldersOK` says that what the queues hold has frames and
what executes too (or `run_ready` could drop a fiber as finished); `RoomOK`, that
a number is left for every fiber still to come; `DrainOK`, that a main fiber with
frames which `run_ready` passes by or sets aside was left suspended by a
synchronous call, and is not one that finished and left frames behind, as `call`
makes them: `StatusTruthful` needs it, and the refinement, where such a fiber is
"stranded". `LedgerOK` adds to `IoLedger` that the
operation noted in `last_pending` was never parked on, `EndOK` to `FinishedOnce`
that without `interpret` and `call` no fiber runs that `run_ready` will not report, and `SleepOK` to
`WaitsAsAsked` that the time slept and the time left on the timer are what was
asked for. `FiberStep` has one lemma per group of actions (`LoadStep` ...
`FailStep`).

The refinement reads the status of a fiber off the same counts: by `StatusForm`
`StatusOf` is a case analysis on which count is not zero, `TableHolds` says it
place by place, and `Undisturbed` that a fiber whose counts a step leaves alone
keeps its status. So each action has one lemma (`LoadMaps` ... `FailMaps`) that
names the fiber it moves and the step of `FiberLifecycle` that is; `Replace` and the
second case of `Stop` move two fibers, `Wake` any number. `ReleaseKeeps` is the one
subtle case: a stranded main fiber goes to `saved_main` and comes back while others
run, and must be as stranded as before. `Promote` picks its entries with `Rank` and `CHOOSE` rather than
`SelectSeq`, whose recursion the provers cannot expand.

For what holds with care `FiberLifecycleProofs` adds two invariants to `IInv`. `IdInv` says that a fiber that is
anywhere with frames has an identifier below `nextId`, and no other has the same;
each action either brings in no new holder of an identifier (`SameHolders`) or one,
under `nextId` (`OneHolderMore`). `interpret` does neither: it runs a new fiber
under the identifier of the last main one, which may be in a queue. `CallInv` says
that while `last_pending` is noted the fiber that executes is the one whose
placeholder is on top. An error between call and await leaves `last_pending`
behind, hence `~MayFail`; run `scheduler_live` checks both properties under stronger
assumptions than these theorems have.

`LanguageServerProofs` proves of the language server, whatever the parser, the linter
and the formatter make of a text, for any documents, texts and limits:

* `StoreWithinLimits`: `Spec => []TypeOK`;
* `ServerFollowsEditor`: `Spec => []FollowsEditor`, if among the texts there are (any set closed under
  what editors open, change to and get as answers) none that is too large for the store has a program;

from `LimitsAssumption` (the limits are natural numbers). The hypothesis is what the lexer's
own limit sees to, and `LexRefuses` below proves it of the lexer. The inductive invariant
`EditorInv` adds to the two that the store is finite and its entries are a text with its
programs. `DidOpen` and `DidChange` differ only in what they do to the store, so both are
brought to the same shape before the publication (`ReadyFor`: the entry is new, or it
is the one from before and the text is too large), and one lemma, `PublishKeeps`, has the
rest.

`BlocksProofs` proves of the lexer, for texts of any length over any set of pieces:

* `LexNests`: a well-formed and legible text (within the lexer's limit, without tabs and unclosed
  strings) lexes to tokens that nest as its columns do, `WellNested(src, Lex(src))`;
* `LexRefuses`: a text beyond the limit is refused, `~Lex(src).ok`;
* `ShownTextsNest`: `Spec => []BlocksMatchColumns`, if what editors open and change texts to is
  well formed and the formatter makes well-formed texts of such texts.

The hypotheses are those of the lexer's callers. `WellFormed` says where spaces and comments can
stand in a text, which the pieces cannot say one by one. That the formatter keeps to it is
not proved, since the printer is recursive; run `front_end` checks it of every text that is shown, formatted
ones included (the first part of `BlocksMatchColumns`). A tab outside brackets, a string without an end and
a text beyond the limit are errors of the cursor's own, whatever the columns, so `Legible`
leaves texts with them out of the promise.
The proof goes along the turns of the cursor. `CursorInv` says what the cursor
knows at a piece: its line is the line ends before it, `depth` the depth there (`DepthIs`, by
counting: `Nested` has no stack), `continuation` whether the last lexeme was an operator
(`GoesOn`), and whether it stands where a line may begin. A turn
is one of four moves (`TurnMoves`): `Quiet`, which writes nothing the indent processor sees,
`LineEnded`, `Indented` and `LexemeRead`. `BlockInv` ties the indent processor to them: its stack is
0 and the columns of `OpenBefore` in order (`StackOf`), the depth of the tokens is its height
(`Balanced`), and the first token of each line so far is as deep as the columns open there
(`Deep`). `StackPush` and `StackPop` are what a line further right or left does to the
stack and to the open columns alike; there `Aligned` decides between a pop and an error. Each move has
one lemma (`QuietBlocks` ... `LexemeBlocks`), the runs are by induction on turns
in set form (`FirstTurn`, `TurnBlocks`, `LastTurn`), and `CloseBlocks` is the end of the file.

`StringScanProofs` proves of the two scans for comments, and of the way of an interpolated
string from the lexer to the parser, for files of any length over any characters:

* `CommentsFound`: in a file that the lexer reads and that is `Agreeable`,
  `ExtractComments(s) = {CommentAt(s, i) : i \in Scan(s).comments}`;
* `CommentsAgreeHolds`: `Spec => []CommentsAgree`;
* `PartsSurvive`: of any parts that are well formed (no text is empty or follows a text),
  `Decode(Encode(parts)) = parts` if and only if every part is `Sturdy`;
* `FStringPartsSurviveHolds`: `Spec => []FStringPartsSurvive`.

The two scans do not go at the same pace: to the lexer's loop a whole string is one turn, to the
formatter's each character of it is. So the proof does not relate turns to turns. `CommentRun`
gives the set of states the formatter's scan goes through (`Visited`: it holds the first one
and is closed under `CommentTurn`, and a state of it past the end has found what there is), and
the lexer's run is followed through that set. `Along` says that while the lexer is in a string the
formatter's scan visits the same place, in a string of the same kind, on the line which that
place has; `Together` says it of the file, where both have found the same comments too. One lemma
each has the turn (`AlongTurn`, `TogetherTurn`), and the runs are by induction on turns in
set form. That a run of so many turns is long enough is proved as well: every turn goes on by
a character at least (`StringTurnStays`, `FileTurnStays`, `CommentTurnStays`), so a turn of the
lexer that closes a string is one in which the run of that string ended.

For `PartsSurvive` the encoded string is laid out first: `Encode` is `FlattenSeq`, and `Laid` says
at which place each part begins and which characters stand there (`FlattenIs`, `EscapedIs`,
`EncodeIs`). `Decoding` is the set of states the parser's loop goes through (`DecodeRun`), and it
is followed part by part: `TextRead` and `ExprRead` take it over a text and over an expression, and
`PartsRead` up to the first part that is not sturdy. That the parser's brace is the lexer's
if and only if the braces of the expression match is `ClosingMatches`, by counting. If all parts are
sturdy the loop ends with them all. If the k-th is not, then either the parser is stuck for ever
or its k-th part is another one (`ExprSpoils`, `TextSpoils`), and no later turn mends that,
since a turn only adds parts or lengthens the last text (`Other`, `GrowsKeeps`). That the strings of
a file are well formed comes from the lexer's run; the first and the last text
of a string may have lost a line end, or be empty (`StringsNearly`, `TrimmedIs`, `NotEmptyIs`).

`InterpreterProofs` proves of the interpreter, for every program of trusted code, of any
length, with any results of its natives and any depth of calls up to `MaxFrames`:

* `FramesAsExpected`: `Spec /\ program \in Trusted => []IInv`;
* `StackAndFramesWell`: `... => []TypeOK`;
* `TriesNest`: `... => []CatchPointsNested`;
* `FailFindsInnermost`: `... => InnermostTryCatches`;
* `StatementsFindTheirSlots`: `... => []SlotsAtStatements`, the part of `LocalsInTheirSlots`
  that is about the number of slots;
* `UpvaluesKeptInPlace`: `... => []UpvaluesInPlace`, the parts of
  `UpvaluesSeeTheirVariable` that are about where a variable is.

The only hypothesis is that the code is trusted; it is a statement about the code, which
run `interpreter` checks of the compiled programs (`CompiledCodeVerified`). So what the compiler has
to get right is separate from what the interpreter has to: TLC looks at the first, program by
program, and the proof has the second for all of them. `TypeOK` says little of a
frame and nothing of what its function expects, so it is far from inductive.
`IInv` says that there is a shape for each frame: one of those at its instruction for the frame that
runs (`Stands`), and for one that waits for a call a shape of the call with the callee and the
arguments taken off (`Waits`), that ends where the next frame begins. `Holds` is what it means
for a frame to have a shape: its slots end there, the known ones hold what is known of
them, an open upvalue into them is of a captured slot, and its catch points are, in one
piece of the list, those of its try expressions (`TriesStand`). `ValuesInv` says that every
value there is, on the stack, in a global, a field or an upvalue, has a function, upvalues and an
object of its kind that exist, so that a call never leaves the program.

There is one lemma per action (`ConstantKeeps` ... `ReturnKeeps`), and five for what the
actions have in common: `KeepsShape`, that a frame which is not the innermost one keeps its shape
while slots of it change only through open upvalues; `Lands`, that a step which leaves the
m-th frame innermost with a shape that its function has where it goes on keeps `FramesInv`;
`Continues`, the same for a step within a frame, on which `Pops`, `Leaves` and `Jumping`
rest; `EntersKeeps` for a call; and `Resumes` for a frame that is unwound to, by a return or
by an error (`Throws`, `CaughtKeeps`). `SetUpvalue` is the subtle case among the plain
ones: it writes a slot of any frame, so no slot that is captured may be known to hold anything.
`MakeClosure` captures any number of variables: `captured` is a recursive function, and
`CapturesMore` and `BuildExists` go along it by induction in set form (`SetInduction`).

Only model-checked: liveness (`CollectionEnds`, `RunReadyReturns`, `NoStarvation`);
which value is in a slot and behind an upvalue (`LocalsInTheirSlots`,
`UpvaluesSeeTheirVariable`), which case a match takes and which method a call finds, as
these depend on what the source text means, which trusted code does not say;
that compiled programs are trusted, since `Bytecode` is recursive; and of the front
end what goes through the parser and the printer, which are recursive (`FormatKeepsProgram`,
`CommentsKept`, `UnusedWarned`). `Interpreter`
and `LanguageServer` do not depend on them (the code, the programs of a text and the
formatted text are constants), so that they can be proved about.

## Plan

1. Fibers in `InterpreterProofs`: trusted code spawns none, so that an open upvalue is of the fiber
   that runs. With fibers the shapes of those in `others` belong to the invariant, and closures
   over variables that are still on the stack must not be spawned.
2. Kinds in the shapes of `Verifier`, so that `CallsNearestMethod` can be stated of them.
3. `VmRoots`: which references each part of the VM holds and which of them
   `collect_garbage` marks.
4. `Imports` (`compiler.rs` 1090-1366), specs (`compiler.rs` 366-511), the coroutine split and the debugger's stepping.

## Not modelled

The spelling of numbers and names and byte order marks; completion, hover, symbols and go-to-definition, which only read a program;
the code generators and their runtime (text output, and a second implementation of the
values); number formatting, JSON and the library of built-in methods (sequential functions of their
arguments); terminal and file I/O; the editor extension. They are case analyses
without state that outlives a call, where tests reach as far as a model.
