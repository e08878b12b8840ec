------------------------------ MODULE ControlFlow ------------------------------
(***************************************************************************)
(* How a program's commands hand control to one another: lists, `&&` and   *)
(* `||`, pipelines, compound commands, functions, sourced text and         *)
(* subshells (engine/interp.rs, results.rs, commands.rs, shell/            *)
(* execution.rs and the builtins that redirect control).                   *)
(*                                                                         *)
(* A program is a tree of nodes [op, arg, kids].  Exec computes what the   *)
(* code computes; `st` is the part of the shell it reads and writes, the   *)
(* latest ExecutionResult (code, flow, levels) and `log`, which only the   *)
(* properties read.  An Err is the flow "Error", whose level says that it  *)
(* is fatal.  What the stages of a pipeline do at the same time is         *)
(* abstracted to one stage after another.                                  *)
(***************************************************************************)
EXTENDS Integers, Sequences, SequencesExt

CONSTANT MaxCommands   \* bound: simple commands that one program may run

Node(op, arg, kids) == [op |-> op, arg |-> arg, kids |-> kids]

(* What an Execute::execute is given besides the shell: the parameters it  *)
(* clones (suppress), the options, and where the node stands in the tree.  *)
Params(errexit, pipefail, lastpipe, interactive) ==
  [suppress |-> FALSE, in_function |-> FALSE, errexit |-> errexit,
   pipefail |-> pipefail, lastpipe |-> lastpipe, interactive |-> interactive,
   path |-> <<>>]

Fresh == [code |-> 0, flow |-> "Normal", levels |-> 0,
          last_exit_status |-> 0, statuses |-> <<>>, log |-> <<>>, ran |-> 0]

Into(p, i) == [p EXCEPT !.path = Append(@, i)]
Tested(p) == [p EXCEPT !.suppress = TRUE]

Result(st, code, flow, levels) ==
  [st EXCEPT !.code = code, !.flow = flow, !.levels = levels]
Succeeds(st) == Result(st, 0, "Normal", 0)
SetsStatus(st) == [st EXCEPT !.last_exit_status = st.code]
Completes(st, code) == SetsStatus(Result(st, code, "Normal", 0))

(* `log`: the commands that run, the pipelines that fail, and each entry   *)
(* into a loop, a turn of a loop and a forked shell.                       *)
Logged(st, what, p) == [st EXCEPT !.log = Append(@, [what |-> what, path |-> p.path])]
Enters(st, p) == Logged(st, "enters", p)

IsErr(st) == st.flow \in {"Error", "Cut"}
IsNormal(st) == st.flow = "Normal"

(* ExecutionControlFlow::try_decrement_loop_levels *)
Undecremented(st) == Result(st, st.code, "Normal", 0)

try_decrement_loop_levels(st) ==
  IF st.flow \notin {"Break", "Continue"} THEN st
  ELSE IF st.levels = 0 THEN [st EXCEPT !.flow = "Normal"]
  ELSE [st EXCEPT !.levels = @ - 1]

(* Shell::apply_errexit_if_enabled *)
apply_errexit_if_enabled(p, st) ==
  IF p.errexit /\ st.code # 0 /\ IsNormal(st) THEN [st EXCEPT !.flow = "Exit"] ELSE st

(* Error::into_result: a fatal error ends a shell that is not interactive. *)
into_result(p, st) ==
  IF st.flow # "Error" THEN st
  ELSE Result(st, st.code, IF st.levels = 1 /\ ~p.interactive THEN "Exit" ELSE "Normal", 0)

UNIMPLEMENTED == 99
INVALID_USAGE == 2

RECURSIVE ExecCommand(_, _, _)

-----------------------------------------------------------------------------
(***************************************************************************)
(* Pipelines.  A stage that does not run in the current shell runs in a    *)
(* fork: what it does to last_exit_status or PIPESTATUS is lost, its result*)
(* is not.  An error of any stage is the error of the pipeline.            *)
(***************************************************************************)
InCurrentShell(p, i, n) == n = 1 \/ (i = n /\ p.lastpipe)

(* Any other node stands for the pipeline of that one command. *)
StagesOf(node) == IF node.op = "pipeline" THEN node.kids ELSE <<node>>
IsBang(node) == node.op = "pipeline" /\ node.arg = <<1>>
StageParams(node, p, i) == IF node.op = "pipeline" THEN Into(p, i) ELSE p

spawn_pipeline_processes(node, p, st) ==
  LET n == Len(StagesOf(node))
      Stage(acc, i) ==
        LET q == StageParams(node, p, i)
            before == IF n = 1 THEN acc.st ELSE Enters(acc.st, q)
            r == ExecCommand(StagesOf(node)[i], q, Succeeds(before))
            kept == IF InCurrentShell(p, i, n) THEN r
                    ELSE [r EXCEPT !.last_exit_status = acc.st.last_exit_status]
        IN IF IsErr(acc.st) THEN acc ELSE [st |-> kept, codes |-> Append(acc.codes, r.code)]
  IN FoldLeft(Stage, [st |-> st, codes |-> <<>>], [i \in 1..n |-> i])

wait_for_pipeline_processes_and_update_status(p, spawned) ==
  LET st == spawned.st
      failures == SelectSeq(spawned.codes, LAMBDA c : c # 0)
  IN IF IsErr(st) THEN st
     ELSE [st EXCEPT !.code = IF p.pipefail /\ failures # <<>> THEN Last(failures) ELSE @,
                     !.statuses = spawned.codes,
                     !.last_exit_status = Last(spawned.codes)]

SparedByBangOnly(bang, p) == bang
Spared(bang, p) == p.suppress \/ bang

ExecPipeline(node, p, st) ==
  LET bang == IsBang(node)
      q == [p EXCEPT !.suppress = @ \/ bang]
      waited == wait_for_pipeline_processes_and_update_status(
                  q, spawn_pipeline_processes(node, q, st))
      inverted == IF bang THEN [waited EXCEPT !.code = IF @ = 0 THEN 1 ELSE 0] ELSE waited
      done == SetsStatus(IF inverted.code # 0 /\ IsNormal(inverted)
                         THEN Logged(inverted, "failed", p) ELSE inverted)
  IN IF IsErr(waited) THEN waited
     ELSE IF Spared(bang, q) THEN done
     ELSE apply_errexit_if_enabled(q, done)

-----------------------------------------------------------------------------
(***************************************************************************)
(* Lists.  arg[i] of an "andor" node is 1 where `&&` stands before its kid *)
(* i + 1, and 0 for `||`.                                                  *)
(***************************************************************************)
ExecAndOrList(node, p, st) ==
  LET n == Len(node.kids)
      ShortCircuits(s, i) == IF node.arg[i - 1] = 1 THEN s.code # 0 ELSE s.code = 0
      Next(s, i) ==
        IF ~IsNormal(s) \/ ShortCircuits(s, i) THEN s
        ELSE ExecPipeline(node.kids[i], Into(IF i < n THEN Tested(p) ELSE p, i), s)
  IN IF node.op # "andor" THEN ExecPipeline(node, p, st)
     ELSE FoldLeft(Next, ExecPipeline(node.kids[1], Into(Tested(p), 1), st),
                   [i \in 1..(n - 1) |-> i + 1])

(* A list run in the background is another task: nothing of it comes back. *)
ExecCompoundList(kids, p, st) ==
  LET Item(s, i) ==
        IF ~IsNormal(s) THEN s
        ELSE IF kids[i].op = "async" THEN Succeeds(s)
        ELSE LET r == ExecAndOrList(kids[i], Into(p, i), s)
             IN IF IsErr(r) THEN r ELSE SetsStatus(r)
  IN FoldLeft(Item, Succeeds(st), [i \in 1..Len(kids) |-> i])

(* ast::Program: one command's error does not keep the next from running.  *)
ExecProgram(kids, p, st) ==
  LET Complete(s, i) ==
        IF ~IsNormal(s) THEN s
        ELSE LET r == into_result(p, ExecCompoundList(kids[i].kids, Into(p, i), s))
             IN SetsStatus(r)
  IN FoldLeft(Complete, Succeeds(st), [i \in 1..Len(kids) |-> i])

-----------------------------------------------------------------------------
(***************************************************************************)
(* Compound commands.  What follows a loop's body is common to all loops:  *)
(* it goes on only after a body that ends normally or with `continue` for  *)
(* this very loop.                                                         *)
(***************************************************************************)
EndsLoop(st) == IsErr(st) \/ st.flow \in {"Return", "Exit"} \/ st.flow = "Break"
                \/ (st.flow = "Continue" /\ st.levels > 0)

AfterBody(st) ==
  [st |-> IF IsErr(st) \/ st.flow \in {"Return", "Exit"} THEN st
          ELSE try_decrement_loop_levels(st),
   ends |-> EndsLoop(st)]

Turn(list, p, st) == AfterBody(ExecCompoundList(list.kids, p, Enters(st, p)))

LoopDone(st) == IF IsErr(st) THEN st ELSE SetsStatus(st)

(* arg: how many words the loop goes through. *)
ExecFor(node, p, st) ==
  LET Next(acc, i) == IF acc.ends THEN acc ELSE Turn(node.kids[1], Into(p, 1), acc.st)
  IN LoopDone(FoldLeft(Next, [st |-> Succeeds(st), ends |-> FALSE],
                       [i \in 1..node.arg[1] |-> i]).st)

(* arg: <<1>> for `while`, <<0>> for `until`.                              *)
RECURSIVE WhileLoop(_, _, _, _)
WhileLoop(node, p, st, result) ==
  LET condition == ExecCompoundList(node.kids[1].kids, Into(Tested(p), 1), st)
      body == Turn(node.kids[2], Into(p, 2), SetsStatus(condition))
      unchosen == Result(SetsStatus(condition), result.code, result.flow, result.levels)
  IN IF IsErr(condition) THEN condition
     ELSE IF ~IsNormal(condition) THEN LoopDone(try_decrement_loop_levels(condition))
     ELSE IF (condition.code = 0) # (node.arg[1] = 1) THEN LoopDone(unchosen)
     ELSE IF body.ends THEN LoopDone(body.st)
     ELSE WhileLoop(node, p, body.st, body.st)

(* `for ((...))`: arg says how often its condition holds, or -1 for one    *)
(* that is left empty.                                                     *)
RECURSIVE ArithmeticFor(_, _, _, _)
ArithmeticFor(node, p, st, turns) ==
  LET body == Turn(node.kids[1], Into(p, 1), st)
  IN IF turns = 0 THEN LoopDone(st)
     ELSE IF body.ends THEN LoopDone(body.st)
     ELSE ArithmeticFor(node, p, body.st, turns - 1)

(* kids: condition, body, condition, body, ..., and an `else` body if the  *)
(* number of kids is odd.                                                  *)
RECURSIVE IfFrom(_, _, _, _)
IfFrom(node, p, st, i) ==
  LET n == Len(node.kids)
      condition == ExecCompoundList(node.kids[i].kids, Into(Tested(p), i), st)
  IN IF i > n THEN Completes(st, 0)
     ELSE IF i = n THEN ExecCompoundList(node.kids[i].kids, Into(p, i), st)
     ELSE IF ~IsNormal(condition) THEN condition
     ELSE IF condition.code = 0
       THEN ExecCompoundList(node.kids[i + 1].kids, Into(p, i + 1), condition)
     ELSE IfFrom(node, p, condition, i + 2)

(* arg[2i - 1] says whether item i's patterns match, arg[2i] how it ends:  *)
(* 0 for `;;`, 1 for `;&`, 2 for `;;&`.                                    *)
ExecCase(node, p, st) ==
  LET Item(acc, i) ==
        LET runs == acc.forced \/ node.arg[2 * i - 1] = 1
            r == ExecCompoundList(node.kids[i].kids, Into(p, i), acc.st)
        IN IF acc.ended THEN acc
           ELSE IF ~runs THEN [acc EXCEPT !.forced = FALSE]
           ELSE [st |-> r, ended |-> ~IsNormal(r) \/ node.arg[2 * i] = 0,
                 forced |-> node.arg[2 * i] = 1]
      done == FoldLeft(Item, [st |-> Succeeds(st), ended |-> FALSE, forced |-> FALSE],
                       [i \in 1..Len(node.kids) |-> i]).st
  IN LoopDone(done)

ExecSubshellOpenly(node, p, st) == ExecCompoundList(node.kids, p, Succeeds(Enters(st, p)))

(* A subshell's requests to break, return or exit end with it.             *)
ExecSubshell(node, p, st) ==
  LET r == into_result(p, ExecCompoundList(node.kids, p, Succeeds(Enters(st, p))))
  IN IF r.flow = "Cut" THEN r
     ELSE [Result(r, r.code, "Normal", 0) EXCEPT !.last_exit_status = st.last_exit_status,
                                                !.statuses = st.statuses]


-----------------------------------------------------------------------------
(***************************************************************************)
(* Simple commands.  Their own errors become results where they are run;   *)
(* an error while their words are expanded ("raise") does not.             *)
(***************************************************************************)
BreakLevels(arg) == IF arg \in 1..127 THEN arg - 1 ELSE -1

BreakOrContinue(flow, arg, st) ==
  IF BreakLevels(arg) = -1 THEN Result(st, INVALID_USAGE, "Normal", 0)
  ELSE Result(st, 0, flow, BreakLevels(arg))

CodeGiven(arg, st) == IF arg = <<>> THEN st.last_exit_status ELSE arg[1] % 256

ReturnCommand(arg, p, st) ==
  IF p.in_function THEN Result(st, CodeGiven(arg, st), "Return", 0)
  ELSE Result(st, INVALID_USAGE, "Normal", 0)

Returned(st) == IF st.flow = "Return" THEN [st EXCEPT !.flow = "Normal"] ELSE st

(* A function: break and continue may not leave it.                        *)
invoke_shell_function(node, p, st) ==
  LET r == ExecCommand(node.kids[1], Into([p EXCEPT !.in_function = TRUE], 1), st)
  IN IF r.flow \in {"Break", "Continue"} THEN Result(r, UNIMPLEMENTED, "Normal", 0)
     ELSE into_result(p, Returned(r))

(* `.`: other requests than return pass through.                           *)
execute_script_file(node, p, st) ==
  Returned(ExecProgram(node.kids, [p EXCEPT !.in_function = TRUE], st))

ExecSimple(node, p, st) ==
  LET s == Logged([st EXCEPT !.ran = @ + 1], "runs", p)
  IN IF st.ran = MaxCommands THEN Result(st, 0, "Cut", 0)
     ELSE CASE node.op = "command"  -> Result(s, node.arg[1], "Normal", 0)
            [] node.op = "break"    -> BreakOrContinue("Break", node.arg[1], s)
            [] node.op = "continue" -> BreakOrContinue("Continue", node.arg[1], s)
            [] node.op = "return"   -> ReturnCommand(node.arg, p, s)
            [] node.op = "exit"     -> Result(s, CodeGiven(node.arg, s), "Exit", 0)
            [] node.op = "raise"    -> Result(s, 1, "Error", node.arg[1])
            [] node.op = "call"     -> invoke_shell_function(node, p, s)
            [] node.op = "source"   -> execute_script_file(node, p, s)
            [] node.op = "eval"     -> ExecProgram(node.kids, p, s)

(* `((...))`, arg: its value; `[[ ]]`, arg: whether it holds; a definition.*)
ExecArithmetic(node, st) == Completes(st, IF node.arg[1] # 0 THEN 0 ELSE 1)
ExecTest(node, st) == Result(st, IF node.arg[1] = 1 THEN 0 ELSE 1, "Normal", 0)

Loops == {"for", "while", "arithmetic_for"}

ExecCommand(node, p, st) ==
  LET into == IF node.op \in Loops THEN Enters(st, p) ELSE st
  IN CASE node.op = "brace"          -> ExecCompoundList(node.kids, p, st)
       [] node.op = "subshell"       -> ExecSubshell(node, p, st)
       [] node.op = "for"            -> ExecFor(node, p, into)
       [] node.op = "while"          -> WhileLoop(node, p, into, Succeeds(into))
       [] node.op = "arithmetic_for" -> ArithmeticFor(node, p, Succeeds(into), node.arg[1])
       [] node.op = "if"             -> IfFrom(node, p, st, 1)
       [] node.op = "case"           -> ExecCase(node, p, st)
       [] node.op = "arithmetic"     -> ExecArithmetic(node, st)
       [] node.op = "test"           -> ExecTest(node, st)
       [] node.op = "define"         -> Completes(st, 0)
       [] OTHER                      -> ExecSimple(node, p, st)

(* run_program, or the text given to the shell. *)
Execute(program, p) == ExecProgram(program.kids, p, Fresh)

-----------------------------------------------------------------------------
(***************************************************************************)
(* What the log of a run may look like, said of the program's text alone.  *)
(***************************************************************************)
NodeAt(program, path) == FoldLeft(LAMBDA n, i : n.kids[i], program, path)
OpAt(program, path) == NodeAt(program, path).op
Within(path, outer) == IsPrefix(outer, path)
Outward(path) == {SubSeq(path, 1, n) : n \in 0..(Len(path) - 1)}

(* Whether the kid on the way from `outer` to `path` is there to be tested.*)
TestedBy(program, outer, path) ==
  LET n == NodeAt(program, outer)
      k == path[Len(outer) + 1]
  IN CASE n.op = "while"    -> k = 1
       [] n.op = "if"       -> k % 2 = 1 /\ k < Len(n.kids)
       [] n.op = "andor"    -> k < Len(n.kids)
       [] n.op = "pipeline" -> n.arg = <<1>>
       [] OTHER             -> FALSE

IsTested(program, path) ==
  \/ \E outer \in Outward(path) : TestedBy(program, outer, path)
  \/ NodeAt(program, path).op = "pipeline" /\ NodeAt(program, path).arg = <<1>>

(* The subshells, and with `stages` the stages of pipelines, around a path.*)
ForkedAt(program, p, path, stages) ==
  \/ OpAt(program, path) = "subshell"
  \/ /\ stages /\ path # <<>>
     /\ LET above == NodeAt(program, Front(path))
        IN above.op = "pipeline" /\ ~InCurrentShell(p, Last(path), Len(above.kids))

(* A command runs in its stage's shell; a pipeline fails in the one around.*)
ShellOf(program, p, entry, stages) ==
  LET around == Outward(entry.path) \union (IF entry.what = "runs" THEN {entry.path} ELSE {})
      shells == {<<>>} \union {q \in around : ForkedAt(program, p, q, stages)}
  IN CHOOSE q \in shells : \A r \in shells : Len(r) <= Len(q)

(* Between entries i and j of the log, `path` was entered anew.            *)
EnteredBetween(log, i, j, path) ==
  \E k \in (i + 1)..(j - 1) : log[k].what = "enters" /\ log[k].path = path

RunsAfter(log, i) == {j \in (i + 1)..Len(log) : log[j].what = "runs"}

UntestedFailures(program, log) ==
  {i \in 1..Len(log) : log[i].what = "failed" /\ ~IsTested(program, log[i].path)}

(* What may make a shell leave. *)
Leaves(program, p, run) ==
  {i \in 1..Len(run.log) : run.log[i].what = "runs"
                           /\ OpAt(program, run.log[i].path) \in {"exit", "raise"}}
  \union (IF p.errexit THEN UntestedFailures(program, run.log) ELSE {})

LoopsAround(program, p, entry) ==
  LET path == entry.path
      home == ShellOf(program, p, entry, TRUE)
      functions == {q \in Outward(path) : OpAt(program, q) = "call"}
      loops == {q \in Outward(path) : OpAt(program, q) \in Loops /\ Len(q) >= Len(home)
                                      /\ \A f \in functions : Len(f) < Len(q)}
  IN SetToSortSeq(loops, LAMBDA q, r : Len(q) > Len(r))

BodyOf(program, loop) == Append(loop, IF OpAt(program, loop) = "while" THEN 2 ELSE 1)
===============================================================================
