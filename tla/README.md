# A TLA+ model of the shell

This directory specifies, model-checks and proves properties of the shell in
`src/`: `bash` 0.4.0, a bash-compatible shell in Rust for Windows (a fork of
brush; 53,000 lines under `src/src`, no documentation besides the comments, many
of them in Chinese). The reference of every definition is that code; where the
shell differs from GNU bash or from POSIX, the model follows the shell.

Contents: 1 inventory; 2 how the modules correspond to the code; 3 runs, bounds
and what they show; 4 fairness; 5 disagreements found; 6 proofs; 7 abstractions;
8 oddities met on the way; 9 what is not modelled; 10 plan; 11 how to run it.

## 1. Inventory

### How the program executes

`main.rs` starts one compio runtime. Everything the shell does runs on its one
thread as cooperative tasks (`compio::runtime::spawn`); worker threads appear
only through `spawn_blocking` (waiting for processes, reading a terminal), and
external programs are processes. So two tasks interleave only at an `.await`,
and a synchronous function is atomic. Other sessions of the same user are other
processes that share the history file. Nothing else outlives a session. The
release build aborts on panic, so no destructor runs after one.

Dropping a task's handle does not stop the task at once: the runtime marks it and
destroys its future when it next comes to run. This, and the sharing of state by
`try_clone`/`Rc`, is where most of the hard concurrent behaviour comes from. The
other half of the program is sequential and hard for another reason: text is read,
expanded, quoted and printed by algorithms that must agree with one another.

### Components

| component | state | operations | talks to | model |
|---|---|---|---|---|
| job table (`engine/jobs.rs`, `builtins/wait.rs`) | `JobManager`: jobs with queues of tasks, next number, `%+`, `%-` | add, annotate, remove, wait for one or all, poll, sweep, fail | interpreter (adds), prompt (polls), tasks (awaits, drops) | whole |
| tasks, processes, process substitutions (`engine/results.rs`, `processes.rs`, `interp.rs`) | `ExecutionTask`: handle, armed flag, remembered result and error, producers; `TaskCancellation`: cancelled flag, registered processes; a registry of producers that clones of `ExecutionParameters` share | wait, poll, cancel, drop; register, terminate; set up, take | jobs, pipelines, external commands, redirections | whole |
| open files (`engine/openfiles.rs`, `builtins/exec.rs`) | the shell's descriptor table; a layer of overrides per command | redirect, duplicate, close, move, add, exec | interpreter, coprocesses | partly |
| call, scope and trap stacks (`engine/callstack.rs`, `engine/env.rs`, `engine/shell/*.rs`) | scopes, frames, two depth counters, active and suppressed traps | enter and leave functions, scripts, handlers, commands; fork | interpreter, builtins, completion | partly |
| variables (`engine/env.rs`, `variables.rs`, `builtins/{declare,export,unset}.rs`) | scopes of variables with attributes; a count of entries kept by hand; namerefs | look up, assign, declare, unset, export | everything that expands words | partly |
| interpreter (`engine/interp.rs`, `commands.rs`) | control flow (break, continue, return, exit), `$?`, options such as errexit | lists, pipelines, loops, case, dispatch | all of the above | partly |
| expansion and patterns (`engine/expansion.rs`, `braceexpansion.rs`, `patterns.rs`, `escape.rs`) | none: text to text | brace and parameter expansion, splitting, globbing, quoting | interpreter | partly |
| parser (`parser/`) | tokenizer state, nesting, pending here-documents | tokenize, parse words, parse commands, print trees | interpreter, completion, exported functions | partly |
| history (`engine/history.rs`, `builtins/history.rs`) | items with dirty marks, two revision counters; the file; the editor's copy | add, delete, clear, truncate, import, flush by append or replacement | editor, other sessions | partly |
| line editor and interactive loop (`interactive/`) | the line, cursor, history position, menu; the console it mirrors them on | keys, prompts, completion menu | history, completion, jobs, traps | partly |
| completion (`engine/completion.rs`, `builtins/complete.rs`) | specifications by command name | register, print, remove; answer a Tab, with restarts | call stack, editor | partly |
| lookup caches (`engine/pathcache.rs`, `cache.rs`, `builtins/hash.rs`) | where commands were found, and the PATH and directory that holds for | look up, hash, pin, forget | command dispatch, `cd` | partly |
| directory stack (`builtins/{cd,dirs,pushd,popd}.rs`, `engine/shell/fs.rs`) | working directory, stack, PWD and OLDPWD | move, push, pop, rotate, clear | variables, lookup caches | partly |
| builtins of variables and options (`builtins/getopts.rs`, `read.rs`, `set.rs`, ...) | options; OPTIND and the place inside a cluster | one command each | variables | partly |
| start-up (`shell/`, `main.rs`), `besh` (`bin/`), builtins that only print | | | | none |

### What is hard, and what makes each part correct

* **Job table.** Jobs end in any order while two designators are patched field by
  field; one stage of a job fails while others run; the same job is waited for,
  polled and waited for again through three code paths. Correct when `%+` and `%-`
  name the newest and the newest but one, no running task is out of reach, every
  answer is the job's status, finished jobs leave the table and waits return.
* **Tasks.** A poll consumes what has ended and remembers the rest; a wait may
  follow; a drop may come in the middle. Correct when the answer does not depend
  on how it was asked for and nothing outlives its owner.
* **Cancellation.** `cancel` reaches only what is registered when it runs, while the
  tasks below go on spawning until the executor destroys their futures; a producer's
  handle is in a registry that others share and may take. Correct when no process runs
  whose task is cancelled or over, at any depth, and when the drops reach every task
  that nobody else can still wait for.
* **Process substitutions.** A registry that several commands share is emptied by
  whichever ends first; errors leave at any depth; a producer with a full pipe and
  a waiting reader can wait for each other. Correct when each producer has one
  keeper, is not cancelled under its reader, and waits end.
* **Open files.** Layers of overrides lie over a table that `exec` and `coproc`
  change. Correct when a command sees what it would see in one table whose changes
  are undone command by command.
* **Stacks.** Pushes and pops are paired by hand, across errors, refusals, forks and
  function pointers. Correct when the stacks hold just what the calls in progress
  pushed, handlers do not recurse and counters agree with frames.
* **Variables.** One variable is reached by name, through a nameref, through a
  declaration, an append, an element and a placeholder that an unset left; five
  operations add or remove entries and each keeps the hidden count by itself.
  Correct when the count is the number of entries, a readonly value stays, and a
  local goes on hiding what it hides.
* **Control flow.** A request to break, continue, return or exit travels through every
  compound command, each of which takes its part of it; errexit is suppressed in
  conditions and in what they call. Correct when a loop is left exactly as often as
  asked, and errexit ends the shell at the untested failures and nowhere else.
* **Patterns and words.** Patterns become regular expressions; fields remember which of
  their text was quoted. Correct when a pattern matches what it denotes, whoever
  asks; when text is split where IFS says; and when quoted text is never split,
  globbed or dropped.
* **Reading and printing programs.** Here-documents are read when their line ends, inside
  nested substitutions too; quoting, printing and parsing are written separately.
  Correct when tokens are those the source was made of, what quoting writes reads
  back as one word, brace expressions expand in the order written, and an exported
  function is the same tree in the child.
* **History.** Sessions interleave record by record, fail or die half-way, and the
  editor decides from two counters whether its copy only lacks a tail. Correct when
  copies agree, saved means written, and the file is never torn.
* **Line editor.** It writes the least output that should do and never looks at the screen
  again; wide characters take two cells, the last row scrolls. Correct when after
  every key the screen shows the line and the cursor.
* **Completion.** Specifications are registered, changed, printed and removed while
  functions that answer run in copies of the shell. What `complete -p` prints is text,
  some of it in quotes, some bare, which is split into words and read as options again.
  Correct when that registers the same specification.
* **Lookups.** A location is remembered for one PATH and one working directory. Correct
  when a command is found where PATH says now, functions and builtins first.
* **Directory stack.** A move sets a directory, two variables and the stack, and may fail
  between them. Correct when all of them tell the same place.
* **getopts.** Its place is spread over OPTIND, which scripts assign, and two hidden
  variables. Correct when each call reads the next option.

`PROJECT.json` lists every hazard at its line with the properties that cover it, and
says why where none does. Hazards of less weight, not listed there: a cancellation
keeps a handle of every process ever registered with it (`engine/processes.rs:85`);
a child that cannot be opened after it was started is dropped
(`engine/commands.rs:971`); a coprocess that fails half-way leaves tombstones in the
descriptor table (`engine/interp.rs:959`); `fc -s` removes the newest history item
taking it for itself (`builtins/fc.rs:191`); `wait_all` returns at the first job
that fails, contrary to its comment (`engine/jobs.rs:169`).

## 2. Modules and code

Names of operators follow the functions they model; each module's header says what
it abstracts. Paths below are under `src/src`.

| module | models | state, and where it is in the code |
|---|---|---|
| `JobTable` | abstract: what the job table promises | the live numbers, the next one, the newest two |
| `Jobs` | `engine/jobs.rs`, the adders in `engine/interp.rs`, `builtins/wait.rs`, the prompt's poll | `jobs`, `next_job_id`, `current_job_id`, `previous_job_id` are the fields of `JobManager`; `task` is what the executor knows; `shell` is which loop of the code is under way and at which job; `report` is the answer a step gives |
| `ExecutionTask` | `ExecutionTask` and `ProcessSubstitutionTask` of `engine/results.rs` | its fields by name; `owner` is where `wait` is suspended |
| `Supervision` | abstract: cancelling takes a whole subtree at once | who is above whom, who is doomed, which processes run |
| `TaskCancellation` | `engine/processes.rs`, `install_task_cancellation`, the drop of an `ExecutionTask` | `task_cancellations`, `cancelled`, `processes`, `armed` are fields; `future` is the executor's view; `uses` is the registry a body's parameters have, `holder` the body or the registry that has a task's handle |
| `ProcessSubstitution` | the registry in `ExecutionParameters`, `setup_redirect`, `execute_in_pipeline`, `execute_compound` | `registry`; one `stack` of commands per thread of control (`Contexts`); each producer's task in `substitution`; `home` is the shell whose job table has the background list, `stopped` that it is gone |
| `OpenFiles` | `engine/openfiles.rs`, redirections and coprocesses in `interp.rs`, `builtins/exec.rs` | `files` per shell, `overlay` per command; `posix` is a ghost: one table with undo lists |
| `CallStack` | `engine/callstack.rs`, `engine/shell/{callstack,execution,funcs,traps}.rs`, the scopes of `engine/env.rs`, the call paths of `engine/commands.rs` and `interp.rs` | `scopes`, `frames`, the depth counters, `active_trap_signals` and the suppression count; `activity` is the interpreter's own Rust recursion |
| `Variables` | `engine/variables.rs`: one variable and what assignments make of it | none: operators |
| `Environment` | `engine/env.rs`, `apply_assignment` and `execute_command` of `interp.rs`, `builtins/{declare,export,unset}.rs` | `environment` and `entry_count` are the fields `scopes` and `entry_count` of `ShellEnvironment`; `last` tells the properties which operation a step was |
| `Locations` | `engine/shell/fs.rs`, `pathcache.rs`, `pathsearch.rs`, the resolution of names in `commands.rs`, `builtins/{cd,pushd,popd,dirs,hash,type}.rs` | `working_dir`, `directory_stack`, `program_location_cache` with its `key`; the variables PWD, OLDPWD, PATH; `existing` and `programs` are the file system; `halfway`, `previous`, `pinned` and `renewed` are ghosts |
| `Getopts` | `builtins/getopts.rs` | OPTIND and the two hidden variables; `start` and `read` are ghosts: where the scan began and what it has read |
| `ControlFlow` | `engine/interp.rs`, `results.rs`, the calls of `commands.rs` and `shell/execution.rs` | `st`: what a node of the tree reads and writes; the result with its flow; a log of what ran, which only properties read |
| `Patterns` | `engine/patterns.rs`, `engine/regex.rs`, `parser/pattern.rs` | none |
| `Expansion` | `engine/expansion.rs`; which words a list in braces gives | an environment is threaded through |
| `TextReference` | abstract: what patterns and field splitting mean, without an algorithm | |
| `Language` | `ControlFlow`, `Patterns` and `Expansion`, each given one input | `subject`, `input` |
| `Tokenizer` | `parser/tokenizer.rs` | the tokenizer and the token being read, as records |
| `Words` | `parser/word.rs`: the grammar of words | none |
| `Braces` | the brace grammar of `parser/word.rs`, `engine/braceexpansion.rs` | none |
| `Escapes` | `engine/escape.rs` | none |
| `Commands` | `parser/parse_impl/peg.rs`, the printing of `parser/ast.rs` | none |
| `SyntaxReference` | abstract: what sources and brace expressions mean, from what they were written of | |
| `Syntax` | the five above, each given one input, beside `Language` | `subject`, `input` of `Language` |
| `History` | `engine/history.rs`, `engine/shell/history.rs`, `builtins/history.rs`, `sync_history_entries` of the editor | `items`, `entries`, the revisions as two flags, the `file` as lines, `flush` as the loop of a write in progress |
| `LineEditor` | `interactive/basic/{term_line_reader,input_backend}.rs` | the fields of the reader by name; `terminal` is the console, cell by cell |
| `Specifications` | `Config` of `engine/completion.rs`, `builtins/complete.rs`: registering, changing, removing and printing specifications, and reading back what was printed | `specs` by name; `extglob` |
| `Completion` | the rest of `engine/completion.rs`, `compgen` of `builtins/complete.rs`, `interactive/completion.rs` | `specs`, `extglob`; the completion in progress and its restarts |
| `JobsProofs`, `TaskCancellationProofs`, `ProducersProofs`, `ScopesProofs`, `ShellStateProofs`, `LineEditorProofs`, `InteractiveProofs` | the theorems (section 6) | |
| `NatFacts` | lemmas about natural numbers: least and greatest, induction, recursion | |

Composition. `Jobs` implements `JobTable` and `TaskCancellation` implements
`Supervision` through `INSTANCE ... WITH`. `CallStack` and `Environment` are two views
of the scope stack: the first of who pushes and pops, the second of what is in it.
`Completion` extends `Specifications` and uses the quoting of `Escapes` and the unquoting
of `Tokenizer`; `Syntax` puts tokenizer, grammars, expansion and quoting in a row, as reading back a quoted
text needs them all.

Three model-checking modules put components side by side: `MCShellState`,
`MCProducers` and `MCInteractive`. A behaviour of theirs chooses a `part` at the start
and only that part moves; the others stay at their first state, which in `MCProducers`
is one where none of their fair steps is enabled. A run is thus the
disjoint union of its parts' state spaces. The parts do not interact there: where
components do (a redirection and its producer, a job and its tasks, a session and its
editor), the interaction is inside one module. `MCTaskCancellation` divides one module
in the same way: a process under the tasks of one line of input, or the handles alone
over several lines. So that such a module, and a module of
proofs, can extend several of them, all but one name their specification apart:
`ProgramSpec`, `FilesSpec`, `LocationsSpec`, `EnvironmentSpec`, `GetoptsSpec`,
`SpecificationsSpec`, `EditorSpec`.

A step of a model is one stretch of the code between two awaits, or one whole
synchronous operation: removing a job includes the patching of both designators
and of the flags; entering a function includes its scope, its frame and its
counter; a failing stage includes the cancellation of the stages behind it; a key
includes every cell it writes.

`Language` and `Syntax` are different. Their subjects are functions of their input, so
a state only holds the input, and a property is about the step that gives it: it
evaluates the algorithm as the code does it and compares that with what the input
was written to mean.

## 3. Runs

| run | instance | shows |
|---|---|---|
| `jobs` | 3 jobs, of at most 2 stages, at most 3 tasks tracked | `DesignatorsNameNewest`; `NoOrphanTask`; `ReportIsFinalStatus`; `FinishedJobsLeave`; `WaitReturns`; implements `JobTable` |
| `jobs_error` | 2 jobs of one stage | an error is forgotten (a disagreement, section 5) |
| `shell_state` | six parts: calls, files, variables, places, lookups, getopts | `CallsAccounted`; `UnmaskedSeenAsInOneTable`; `CountsEntries`, `ReadonlyKept`, `LocalsHide`; `PlacesAgree`; `FoundAsPathSays`; `OptionsReadInTurn` |
| `callstack_leak` | nesting 2, function depth 1 | a scope is left behind (section 5) |
| `relative_path` | the lookups of `shell_state` | a relative entry of PATH does not follow the shell (section 5) |
| `producers` | two parts: one command with 3 producers; a program with 2 producers, commands 2 deep and one background list | `NoneOutlives`, `AnswerIsTrue`, `CutOffOnlyWhenUnread`, `WaitAnswered`; `KeptOnce`, `AloneCancelledWithItsConsumer`, `WaitsEnd` |
| `process_substitution_nested` | the program of `producers` with 1 producer and no list | an inner command cancels the producer of the one around it (section 5) |
| `cancellation` | 3 tasks in every tree; two parts: 1 process; handles over 3 lines of input | `ProcessesSupervised`; implements `Supervision`; `CascadeCompletes` |
| `interactive` | three parts: history, editor, completion | `EntriesCurrent`, `RecordsWhole`, `SavedMeansWritten`, `NeverTorn`; `KeysKeepTheScreen`, `ReadsFailOnlyAtTheBottom`; `PrintedSpecificationsRestore` |
| `history_merge` | 2 sessions, 2 commands, 3 lines, HISTSIZE 2 | two commands are read back as one (section 5) |
| `language` | programs, patterns, paths, words; sources, quoted texts, words with braces, function bodies | `ErrexitAtUntestedFailures`, `LoopsLeftExactly`; `PatternsMatchAsWritten`; `SplitWhereIFSSays`, `QuotedWordsAreInert`; `SourcesReadAsWritten`; `QuotedTextReadsBack`; `BracesExpandAsWritten`; `ExportedFunctionsReadBack` |
| `language_stage` | the programs of `language`, without errexit | a stage of a pipeline makes the shell exit (section 5) |

Bounds, and why they are enough for what the runs ask:

* *jobs.* `MaxJobs` 3 is the least with which a removal can leave both designators to
  be recomputed from what is left; `MaxTasks` 2 is the least for a stage that fails
  in front of one that runs; `TaskBudget` only ends the run: job numbers are never
  reused. The safety properties are proved for every size.
* *calls.* A handler inside a function inside a script is three deep (`MaxNesting` 3); with
  `MaxFunctionCallDepth` 2 the limit is reached inside that.
* *files.* Descriptors 1 to 3: 3 is the last, so searches for a free descriptor fail as
  well as succeed; a process substitution looks from 2 down, past redirected ones.
  `MaxDepth` 2 levels of commands, `MaxFdChanges` 3.
* *variables.* A name, a nameref to it or to one of its elements, in every kind the
  variable can start with; at most 4 scopes (`MaxScopes`: global, command, local,
  command), so a local can be hidden, hiding and unset; `MaxVariableChanges` 2 operations
  on top of a start that is itself the result of earlier ones (`MCStarted`).
  `MAX_NAMEREF_DEPTH` 3 stands for the code's limit on a chain of namerefs: with two names
  a chain that ends has ended by then, and one that goes round has come to the limit.
  The properties of this part are proved for every limit and every depth.
* *places* and *lookups.* The root with two directories, both of which may go; one
  search path is absolute, one holds a relative entry, which means another directory
  from each of the three; stacks of at most
  `MaxStack` 2 below the working directory, the least that rotates; variables may become
  readonly. The part is unbounded otherwise.
* *getopts.* Up to two words of up to two letters: a cluster that ends inside, at, or before
  the word with the argument; four option strings with and without the leading colon
  and with doubled letters; OPTIND assigned every value in and beyond the range.
* *producers.* Three producers of a command give one before, at and after the first that runs
  or errs. The program is the smallest with a producer of an outer and of an inner command
  and with a list in the background at the same time. The violation needs neither the
  list nor the second producer, and leaves them out, so that its trace is the shortest one.
* *cancellation.* Three tasks give a chain with a middle and a tree with siblings. One process
  is registered before a cancellation or after it; processes do not act on each other, and
  what any number of them do is proved. The part of the handles leaves processes out, and
  lets the shell go on to other lines of input, which is what makes a list in the
  background the last to share a registry.
* *history.* Two sessions, each able to write a record with or without a boundary; a command
  is a plain line, two lines of which the second reads as a comment or as a boundary
  (`#5`), or a line that reads as a boundary itself; HISTSIZE 1 makes truncation happen with the second command; a write may start
  on a file that another session is writing (`MaxLines` is when a write starts).
* *editor.* A console of nine by three cells, so that menus of two columns, three rows and
  a scrolling last row occur; characters of one and two cells; lines of at most
  `MaxWidth` 3 columns. The editor is followed while line and screen are in step, that is
  as long as the property held: what a key does to a screen that is wrong already is
  of no interest to it. Both properties of this part are proved for every size, and
  `ReadsFailOnlyAtTheBottom` of every behaviour, in step or not.
* *completion.* Two specifications at a time (`MaxSpecs`), so that restoring one could
  disturb another; of four kinds that between them use every field, with a name that is two
  words and an option, a function whose name is two words, a filter with `!` and one that
  is an extended pattern; `extglob` turned on and off in between; a function that asks for a
  restart, with `MAX_RESTARTS` 1 in place of 10; lines with words in every kind of quotes.
* *language.* Every compound command with one leaf or one leaf and a command in each of
  its lists, and every compound command in every other; `break` and `continue` of one
  and two levels. `MaxCommands` 12 cuts off programs that loop for ever. Patterns of up
  to three atoms (two with groups) against every text of up to three characters;
  paths of two steps over a tree with hidden files. Words of up to two parts over
  values of up to four characters, one of them white and one not in IFS; every
  operator of parameter expansion in double quotes, with braces in, before and between
  quotes, and brace expansion on and off.
  Sources: lines with up to two here-documents among operators, comments and words that
  hold `#`, `<<` or brackets; all texts of up to two special characters and of three of
  the worst of them; brace expressions nested twice; bodies of functions with every
  command alone, in a list, in a pipeline, and in every compound command.
  `MaxNesting` 8, `MaxBraceDepth` 4, `MaxBraceResults` 400 and `MaxNumber` 100 stand for the
  code's limits and `UsizeModulus` 16 for 2^64; the inputs stay below them.

Deadlock is checked for `jobs` and `jobs_error`. In the others the system may stop:
programs end, bounded commands and tasks run out, an owner that has its answer does
nothing more, an input is given once.

## 4. Fairness

Used by `jobs`, `cancellation` and `producers`.

* The executor runs every task that is scheduled and resumes every future whose
  await is answered; compio's queue is first-in first-out. Hence weak fairness of
  the steps that follow an answered await (`Answer`, `Waits`, `WaitGoesOn`, `WaitFails`), of the
  destruction of dropped futures (`FutureDropped`, `ListDestroyed`), and of what a synchronous loop
  does next (`Work`).
* `PollBegins` is strongly fair in `Jobs`: the interactive loop polls before every
  prompt, and is disabled now and then while a wait is under way.
* A producer goes on with what it does (`Finish`): it is a program of its own. It is
  not assumed to end while its pipe is full and somebody could still read.
* Nothing is assumed of users, of scripts or of other sessions: no fairness makes a
  command read, end, or start; a running task may run for ever.

## 5. Where the code and its own words disagree

Each of these is a run whose one property TLC finds violated; `PROJECT.json` quotes
the lines.

1. *`jobs_error`.* A job whose task failed reports the error once. It is marked done
   without a result, so that the next `wait %n`, or the prompt, reports success.
2. *`callstack_leak`.* An external command with a `<(...)` operand is refused after its
   scope was pushed and its guard detached, and the scope stays. Inside a function
   this makes `leave_function` fail too, before it pops the frame.
3. *`history_merge`.* Whether a record is preceded by a `#timestamp` line is decided per
   write; when reading, it is believed for the rest of the file. A record without
   a timestamp after one with it is merged into that one.
4. *`process_substitution_nested`.* The registry of producers is shared with the commands
   inside a compound command, and each of them takes all of it when it ends. In
   `while read l; do false; done < <(p)` the first `false` cancels `p`.
5. *`language_stage`.* The last stage of a pipeline runs in a forked shell, but its whole
   result is handed on: in `: | { exit; }; cmd` the shell exits and `cmd` never runs.
6. *`relative_path`.* A search of PATH gives a relative entry to the operating system as it
   stands, which reads it from the process's working directory; that never changes. After
   `cd` it means the directory the shell was started in, where the comment says it changes
   with the working directory.

The other properties state what holds around these: `ReportIsFinalStatus` excepts
errors, `CallsAccounted` a refused command, `RecordsWhole` mixed files,
`AloneCancelledWithItsConsumer` shared registries, `FoundAsPathSays` relative entries of PATH
away from where the process is (`MeansTheSame`), and `ErrexitAtUntestedFailures` lets
the exit of such a stage pass. Each exception is a named ghost or condition, and the
violation run is the reason for it.

Further exceptions are behaviour that nothing in the repository speaks against, so
they have no run of their own: `exec` or `coproc` under a redirected command changes a
table that the command's own layer goes on to hide (`masked` in `OpenFiles`);
`exec 3< <(p)` waits for `p` with the read end open (`mixed` in
`ProcessSubstitution`); the exit code 148 is taken for a stopped job (`Jobs` models
what follows); a readonly OLDPWD stops a move half-way (`halfway` in `Locations`);
files that others changed since they were found (`renewed`); and function bodies whose
printed form says something else (`PrintsPlainly` in `Commands`).

## 6. Proofs

Checked by tlapm with its SMT, Zenon and PTL backends; no step is left out. The only
assumptions are the named ones on the constants, in the module that declares them:
that bounds are natural numbers (`JobsAssumption`, `ExecutionTaskAssumption`,
`HistoryAssumption`, `CallStackAssumption`, `LocationsAssumption`,
`OpenFilesAssumption`), that tasks are numbered (`TaskCancellationAssumption`), that the
shell's own signals are among the signals, that the descriptor a process substitution
looks from is one of the descriptors, that search paths are sequences of entries that are
not empty and none of them is the value that stands for "no key", and that a script has finitely many variable names, literals that are arrays
or not, and well-formed variables to begin with (`EnvironmentAssumption`), and that
arguments are words of characters, `:` and `?` among these (`GetoptsAssumption`), and that
prompts, lines of the history and candidates are texts of one row, a prompt leaving room
for the longest line (`EditorAssumption`). Each theorem holds for every value of the constants; the inductive
invariant of each module was checked by TLC, on the instance of its run or a larger one,
before it was proved. The types of the components are theorems and need no run.

**`JobsProofs`.** `JobsInv` is inductive. Type correctness and the two properties
do not carry themselves: to know that a removal leaves no orphan one must know that
the shell is only busy with a job of the table (`BusyWithLiveJob`), that a new number
is not in use (`NumbersFresh`), and that a job's stages are exactly its slots
(`StagesTracked`). The designators need that patching after a removal equals
recomputing from what is left: a lemma about greatest elements, from `NatFacts`.
`ReportIsFinalStatus` speaks of a step's answer; it needs `ResultsKept`: unless a stage
failed or stopped, the result stored for a job whose queue is empty, or the one the poll
holds at that moment, is that of the last stage. Theorems: `TypeCorrect`,
`DesignatorsCorrect`, `TasksStayReachable`, `ReportsAreFinal`, and `TableRefinement`:
every step of the table is an arrival, a departure or a stutter of `JobTable`.

**`TaskCancellationProofs`.** The invariant says that every started task's chain is
its parent's chain and itself, that a future that runs has a handle that would cancel
it, wherever that handle is, and that a registered process is registered with the whole
chain of its runner. From it: `Supervised` (no process runs under a cancelled or ended task) and
`SupervisionImplemented`: each step is a step of `Supervision`; the later steps of a
cascade are stutters, because everything below was doomed by the first.

**`ProducersProofs`**, about one command's producers (`ExecutionTask`) and about a whole
program's (`ProcessSubstitution`).
For one command, `TaskInv` orders the producers: those whose turn has passed come before
all others, none of them runs, and the error kept is the first among them. Hence every
way of asking gives the same answer (`EveryAnswerIsTrue`), nothing is left running
(`NothingOutlivesItsOwner`), and a producer is cut off only when unread
(`CutOffIsUnread`, an action property).
For a program, `ProducersInv` says where a producer can be: `Apart` (the registry and
what each context waits for are injective and share nothing), `Known` (one that runs is
in one of them, one that is in one was started), `OnlyTopWaits`, `OnlyLiveRun` and
`EmptyAtTheEnd`. Hence `ProducersKeptOnce`. `CancelledOnlyUnread` needs `Alone` as well:
until commands mix, a command that has producers is alone with those around it, and
the registry holds all of its producers, so that whoever takes the registry takes
nothing that another reads.

**`ScopesProofs`**, about `CallStack` and `Environment`. That each call finds on top of the two stacks just what it pushed is
not inductive: after it has popped, the call below must find its own. `CallsInv` cuts
each stack into layers: the layer of call `i` begins at the height noted when it began
(`under`), ends where the next one begins, and holds what such a call pushes; and each
signal being handled belongs to just one handler under way (`HandledBy`). The depth
counters need no layers and hold after a refused command, too. Theorems:
`CallsAlwaysAccounted`, and `OnlyRefusalLeavesScopes`: of the violation found by
`callstack_leak`, the refused command is the only cause.
For variables (`EnvironmentInv`) the invariant is small: the scopes are well formed, and counted. The
work is in the operations, which call one another five deep. Each is an operator from
one environment to another, and each has one lemma that says it is `Safe`: the result
is well formed and counted, has the same scopes, lets locals hide what they hid and keeps
what is readonly. `Safe` composes, so the lemma of an operation follows from those of
what it calls. At the bottom stand three facts: a map replaced in one scope changes the
entries by one at most (`PutIs`, `RemovedIs`, `EntriesElsewhere`); what is assigned to a variable
`Fits` it, which is well formed and has the old value if the old one was readonly; and a
change reaches behind no local (`Reaches`) if it is made where the name is found, as `get`
looks from the inside outwards. A nameref needs no more than that it leads to a name, to
an element or nowhere (`ResolvedIs`, by induction over the length of the chain): whatever
the name is, it is looked up from the inside again. Theorems: `EntriesAreCounted`,
and the action properties `LocalsAlwaysHide` and `ReadonlyIsKept`.
The proof changed two things. `Prepared` had two alternatives of a `CASE` that both held of
an untyped variable; and `ReadonlyKept` had excepted `declare -g` with the shell's own
settings, which it need not.

**`ShellStateProofs`**, about `OpenFiles`, `Locations` and `Getopts`. The layers of descriptors are compared with one table per process,
restored from undo lists. That the innermost command sees the same in both says
nothing about the command around it once the inner one has ended, so the invariant
says it of every depth: there is a shell for each depth (`Shells`), a table for each
(`Tables`, each the one inside it with its undo list applied) and at each depth every
descriptor leads to the same file (`Seen`). `Grows` (inner layers name at least the
descriptors of outer ones) and `Undoes` (an undo list names nothing else, or, of a
subshell, all) make the layer and its list fit together. Theorem:
`UnmaskedAlwaysAsInOneTable`.
For locations, `WhereItIs`: PWD is the working directory and OLDPWD the one before,
unless a move stopped half-way. `KeptAsFound`: a remembered location that was not
pinned is what a search under the PATH of its key finds, until files change; and a search
finds the first entry that holds the command (`SearchFindsTheFirst`), as seen from where the
shell is when the path means the same there.
Theorems: `PlacesAlwaysAgree` for a stack of any depth, and `AlwaysFoundAsPathSays`.
For getopts, that the answers so far are a prefix of what the arguments say does not tell
what the next call will add. `OnItsWay` does: what was answered, followed by what is
left of the word at the hidden position and by what the later words say, is all that they
say from where the reading began; and the hidden position is not beyond the letter that
takes an argument (`WithinWord`). What the words say is computed by recursion from the
last word back; `ReadingIs` gives its equation. One lemma for each kind of letter
(`TakingAnswers`, `FlagAnswers`) shows that a call takes just its answer off what is left.
Theorem: the action property `OptionsAlwaysReadInTurn`.

**`InteractiveProofs`**, about `History` and, with the lemmas of `LineEditorProofs`, the line
editor. For the history, `CopyFollows` is about the editor's copy even while it is stale: until
the history is rewritten its first entries are those of the history. Records are whole
because lines stand where their command put them (`Orderly`) and nothing of two lines
comes before the first written boundary (`SinglesFirst`); both must be kept by a write of which
any number of records is done, and by a replacement whose file is still a temporary one
(`WriteFollows`). What parsing a file returns is computed by recursion over its
lines; a lemma of induction over a line's number shows that every record it returns is a
command. Theorems: `EntriesAlwaysCurrent`, `RecordsAlwaysWhole`, and the action
properties `SavedItemsWritten` and `FileNeverTorn`.
What is said of a file is said of any file whose lines are plain, comments or boundaries,
written or typed, as long as it is `Regular`: no record without a boundary after a line
that reads as one, and no such line inside a command of several.

**`LineEditorProofs`** and the last part of **`InteractiveProofs`**, about the line editor.
A console is compared with texts, so first come what folds over texts compute:
`Display` writes the cells of a text and moves by its width (`DisplayWrites`), a line
scrolled or cleared moves or blanks whole rows (`ScrolledIs`, `ClearedRows`), and a row of a
menu shows its cells (`MenuRowIs`, `DrawnIs`). The lines of code that print are then
of four kinds, each with its lemma: written from the cursor on, with blanks over what was
there (`Rewrite`); the cursor moved only (`CursorAfter`); the line printed anew behind its
prompt (`PrintedAgain`); a row cleared (`MenuCleared`). One lemma for each key (`TypedKept` to
`SelectionKept`) has the key's own arithmetic: where the rest of the line begins, how
much wider the old one was, where the cursor comes to stand.
`EditorInv` is inductive and says nothing of what the screen shows: it holds when line and
screen have parted, too. It has the line fit behind the prompt, an open menu laid out
for its candidates (`OpenMenuOK`: rows, columns and drawn rows are functions of these), and
the menu's rows on the console (`terminal.y + rendered_lines <= Height`): so a menu drawn
anew finds its room without scrolling (`RoomKept`), and never leaves rows of its own above
the line, where nothing would clear them. A menu that is opened finds its room after
scrolling, unless the prompt printed anew begins with a newline (`RoomMade`); hence
`ReadsFailOnlyAtTheBottom`. That the screen stays in step is an action property, proved from `EditorInv` and from the step before: `EveryKey` has one case for each
action. Theorems: `EditorInvariant`, `EditorReadsFail`, `EditorKeepsTheScreen`, for every
keyboard, history, answer of the completion and size of console.
The proof changed the model in two places: `InStep` did not ask that the prompt fits before
the line (`origin.x` is at least its width), which its other conditions took for granted;
and a prompt shown is the prompt without its leading newline also where it is empty.

**`NatFacts`** has what the others need of natural numbers: least and greatest elements
of bounded sets, induction (over a set of numbers, as the provers cannot be given a
predicate), and that a function defined by recursion over the naturals satisfies its
equation. With it, functions defined by recursion can be reasoned about, as the folds of
`SequencesExt` are in `LineEditorProofs` and `InteractiveProofs`.

Only model-checked:

* Liveness, as fairness and `ENABLED` are out of the prover's reach: `FinishedJobsLeave`,
  `WaitReturns`, `WaitAnswered`, `CascadeCompletes`, `WaitsEnd`.
* Everything in `Language` and `Syntax`: these algorithms are `RECURSIVE` operators over
  trees and texts, which take a module out of the prover's reach; and what they
  compute would need induction over that data.
* `PrintedSpecificationsRestore`: reading options is a fold over words, and what a fold
  computes for every list of words needs induction over it.
* What `Completion` does with specifications between a line and its candidates, as it uses
  the recursive operators of `Tokenizer`; no property of a run is about it alone.

## 7. Abstractions

* *Exit codes* are success, failure and, for jobs, 148; errors of Rust are a value of
  their own. *Commands* in the history are numbers with a shape: one or two lines, each of
  them plain, a comment or a line `#<digits>`. *Files* are kinds, not contents.
* *Text* is a sequence of characters where an algorithm looks at it (`Patterns`,
  `Tokenizer`, `Words`, `Escapes`, `Braces`, `LineEditor`, `Completion`) and a token or a name
  where it does not (`Variables`, `Commands`, `Locations`).
* *Braces* of a word are lists of alternatives in `Expansion`; reading them from text, and
  ranges, are in `Braces`. An unquoted `}` ends a parameter expression, so the
  word of one holds braces only between quotes.
* *Tasks* are what the executor knows of them. Awaiting a handle a second time after it
  gave its value is an error, as compio reports it.
* *Script text* is left open in `CallStack`, `ProcessSubstitution` and `OpenFiles`: a call
  begins or ends wherever one could. One refused command is enough
  (`program.refused`).
* *Pipelines* in `ControlFlow` run one stage after another; what their stages do at the
  same time is not modelled. Loops are cut off after `MaxCommands` commands.
* *Arithmetic* is left open: an expression stands for its value, a condition for its result.
* *The regular expression engine* is external: `Ends` in `Patterns` says where a match of a
  tree may end, in the order backtracking tries them.
* *Revision counters* in `History` are two flags: whether the editor's remembered number
  differs from the counter. Only equality is ever tested.
* *Session exit* in `History` is a flush and then the end; a crash may come at any
  record.
* *Terminating a process* takes effect, except that one that is exiting has exited.
* *A background list* of `ProcessSubstitution` is started by a command of the program or of
  a subshell in it, not by a command substitution, whose shell ends with it.
* *Pipes* are `writing` or `blocked`; a producer that blocks stops itself only. A
  producer that is a builtin blocks on the shell's own thread in the code.
* *Completion functions* are records of what they do: reply, options changed,
  specifications registered, status. They run in a copy of the shell.
* *The file system* in `Locations` has no symbolic links, and a path that exists is a
  directory; the working directory of the process never changes, as in the code.
* *wait* for all jobs stops at the first that fails, as in the code.

## 8. Oddities met on the way

What the code does that a reader of GNU bash's manual would not expect, or that two of
its own parts see differently. The models do the same. Most are outside of what a run
asks; where a property would meet one, its comment says so.

*Variables.* `unset a[i]` ignores readonly; so do coprocesses and `$_`, which set
globals. `declare -n`, `-x` or a type on a readonly variable changes the attribute
although the command fails. Negative subscripts inside an array literal count as 0. A
failed `s[-5]=x` has turned the scalar into an array.

*Control.* `break n` with more levels than loops reaches the caller's loop or is an
error of its own; `continue` in the condition of a loop ends the loop; `cmd &` leaves
`$?` alone; `break` in a function called from a loop is status 99.

*Tasks.* The registry of producers is shared with the lists a command starts in the
background, and whichever command ends first takes all of it. In
`( read x < <(while :; do sleep 1; done) & sleep 5 )` the list is cancelled when the
subshell's job table goes, and with it every process its producer starts; but the subshell
command has taken the producer itself (`interp.rs:845`), waits for it, and never returns.
So `CascadeCompletes` speaks of what nobody else can take or has taken.

*Patterns and words.* `!(a|ab)` matches `ab`. Some quoted characters still act as special
ones: `"@"(a)`, `["!"a]`, `[a"-"c]`. `[!!]`, `[^^]` and `[!(]` are not taken for
patterns; `[]a]` is literal. A pathname whose last part has no pattern is returned
without looking whether it exists. With an empty IFS an unquoted
empty expansion leaves a word, and `"$*"` joins with a space. Inside double quotes the
word of a parameter loses its own quotes and has its braces expanded: `"${u-"{a,b}"}"` is
two words, where bash has one (`expansion.rs:702`, `UnquotesBraces`). `${!x:=w}` assigns `x`.

*Reading programs.* On the line of a here-document, an expansion with brackets
(`cat <<E ${x#b}`) sends the tokens after it astray (`tokenizer.rs:383`). In `$(...)`,
two blanks put one into the next token, `$(cat <<  E` takes an empty tag, and a `)` in
the body of a here-document ends the substitution for the grammar of words, though not
for the tokenizer. `$[((1))]` drives the depth of arithmetic below zero. `{,{x}}`
ends its list early. `( ( a ) )` is read as arithmetic, although a test
(`parse_impl/tests/compound_commands.rs:119`) is about nested subshells;
`( case x in a) b;; esac )` is refused. `for x in ; do` walks the positional
parameters. `coproc while {` and `coproc function g` take the first word for a name.
`time` and `!` alone are refused.

*Printing programs.* A condition that ends in `&` is printed with `& ;`; each export of
`|&` adds a redirection; here-documents in indented bodies lose their tag and quoted
newlines gain blanks; `function for { ...; }` is printed without its keyword; complete
commands are printed without a separator. `printf` expands escapes before it looks for `%`;
`declare -p` does not escape a `]` in a key; `quote_if_needed` leaves a leading `~` or
`#` bare; `$'\777'` is an error.

*History.* Any line `#<digits>` in the file is a boundary (`history.rs:127`): a command `#5`
is lost as a command, and in a file without boundaries what was entered after it is
read back as one command.

*Line editor.* Clearing the screen in the middle of a line leaves the console's cursor at
its end; a completion narrower than the word leaves the tail of the word on screen; a
menu that fills the last cell of the last row scrolls. After a blank line the prompt
begins with a newline, and a menu opened at the bottom then makes a read fail, which
ends the shell. Completing while browsing the history does not end the browsing.

*Completion.* A restart (status 124) is asked for after registering a specification, but
functions run in a copy of the shell (`completion.rs:311`), so the restart never sees
it. `complete -E` is never consulted; `complete -p` prints a `!` filter without the `!`
and prints `-D`, `-E` and `-I` only when asked for them; it leaves the names of commands
and functions bare (`complete.rs:515,547`), so that `complete -W x 'my cmd'` is printed as a
command that registers two other names, and a command named `-r x` prints one that
removes; `-A function` and `-A command` add every function
unfiltered; a quote after `=` or `:` separates words; `dirnames` adds directories even
to other candidates.

*Places and lookups.* `getopts` does not notice an OPTIND assigned the value it has inside
a cluster, although the comment at `getopts.rs:130` says that it restarts; `type` and
`command -v` read the cache without looking whether PATH changed
(`commands.rs:170`), and `command -v` leaves functions out. With a readonly OLDPWD, `cd`
fails after it has moved, `popd` puts back the entry though it has moved, and
`pushd` does not push. DIRSTACK omits the working directory.

## 9. Not modelled

* *Start-up and arguments.* Tables of options and one-time construction: no state evolves.
* *`besh`*, a small sequential console beside the shell that shares none of its state.
* *Builtins that only print* (`echo`, `printf` beyond its escapes, `help`, `times`, ...).
* *Arithmetic and test expressions*: evaluators over the system's integers and files; the
  control flow takes their results from the input.
* *Prompt strings, tracing, timing*, and the operating system's layers
  (`engine/sys`, terminals, path spelling, file modes and encodings).
* *`fc`*, printing and searching the history; *`read`* and *`mapfile`*, whose bytes
  come from outside; the parsing of builtins' options.
* *The caches* of parsed words, regular expressions and file names for completion: maps
  from a key to what is computed from it, emptied whole, so that a stale entry cannot
  differ from a new one.
* *The parser's nesting limit* (`parser/nesting.rs`), which looks at tokens before they
  are parsed and does not see commands after `&`, `)`, `;;` and in the bodies of functions.
* *Pipelines' interleaving.* Whether a builtin that fills its pipe on the shell's one thread
  can keep the stage behind it from reading depends on the executor and on the size of
  pipes; it needs a model of its own.
* *`PartialEq` of trees, wrappers, tests, and the vendored interfaces.*

## 10. Plan

Done: job table, tasks and cancellation, call stack, process
substitutions, open files, variables, places and lookups, getopts, control flow,
patterns, expansion, tokenizer, words, braces, quoting, commands and their printing,
history, line editor, completion. Proofs of the job table, tasks and cancellation,
producers, call stack, open files, places and lookups, getopts, variables, history and line
editor: every safety property of the runs but those of `language`, and but for
`PrintedSpecificationsRestore`.

Next, in order of what they would say:

1. `Pipeline`: stages on one thread and as processes, pipes of bounded size, pipefail,
   `lastpipe`; who waits for whom, and when nobody can go on.
2. `fc` on top of `History`; the nesting limit as an abstraction of `Commands`.

## 11. Running it

    tlc -workers 2 -config MCJobs.cfg MCJobs      # each run: module and cfg
    tlapm JobsProofs.tla                          # each *Proofs module

With two workers the longest runs (`shell_state`, `producers`, `interactive`) take two to three
minutes, most others some seconds; `LineEditorProofs` takes a
quarter of an hour from nothing, `InteractiveProofs` ten minutes, the other proofs some
minutes each.
