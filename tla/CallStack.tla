----------------------------- MODULE CallStack -----------------------------
(***************************************************************************)
(* How the shell nests: the stack of variable scopes (engine/env.rs), the  *)
(* call stack (engine/callstack.rs) and the code that pushes and pops them *)
(* around commands, functions, sourced scripts and trap handlers           *)
(* (engine/interp.rs, commands.rs, shell/callstack.rs, shell/execution.rs, *)
(* shell/traps.rs).  No guard object ties a push to its pop: each kind of  *)
(* call undoes by hand what it did, on every way out of it.                *)
(*                                                                         *)
(* `activity` is the interpreter's own recursion, innermost call last: it  *)
(* says which code runs when the current script text ends.  Which text     *)
(* runs is left open, so a call may begin or end wherever one could.       *)
(***************************************************************************)
EXTENDS Naturals, Sequences, FiniteSets

CONSTANTS
  MaxNesting,            \* bound: how deep the interpreter recurses
  MaxFunctionCallDepth,  \* options.max_function_call_depth
  Signals                \* what traps may be set for; "EXIT" is one of them

ASSUME CallStackAssumption ==
  /\ MaxNesting \in Nat
  /\ MaxFunctionCallDepth \in Nat
  /\ {"DEBUG", "ERR", "EXIT"} \subseteq Signals

VARIABLES
  scopes,              \* ShellEnvironment.scopes, without the variables
  frames,              \* CallStack.frames, the newest last
  func_call_depth,
  script_source_depth,
  active_trap_signals,
  suppressed,          \* trap_delivery_suppress_count
  activity,
  program              \* how far the shell itself has come

counters == <<func_call_depth, script_source_depth, active_trap_signals>>
vars == <<scopes, frames, counters, suppressed, activity, program>>

NoSignal == "none"

Frame(kind, signal) == [kind |-> kind, signal |-> signal]

FrameKinds == {"run", "string", "interactive", "function", "source", "trap"}
Frames == [kind: FrameKinds, signal: Signals \union {NoSignal}]

Calls == {"assigning", "dispatching", "eval", "source", "function", "hook", "trap"}

(* `under` is where the call found the two stacks: nothing reads it but    *)
(* the properties.                                                         *)
Heights == [scopes: Nat, frames: Nat]
Activity == [call: Calls, signal: Signals \union {NoSignal}, under: Heights]

Top(s) == s[Len(s)]
Popped(s) == SubSeq(s, 1, Len(s) - 1)

Here == [scopes |-> Len(scopes), frames |-> Len(frames)]

Doing(call, signal) == [call |-> call, signal |-> signal, under |-> Here]

(* The innermost call goes on as a call of another kind. *)
Becomes(call) == [activity EXCEPT ![Len(activity)].call = call]

Innermost(calls) == activity # <<>> /\ Top(activity).call \in calls

(* Script text is being interpreted, so a command may begin or the text end. *)
Interpreting ==
  IF activity = <<>> THEN program.state = "running"
  ELSE Top(activity).call \in {"eval", "source", "function", "hook", "trap"}

-----------------------------------------------------------------------------
(***************************************************************************)
(* ShellEnvironment::pop_scope refuses, changing nothing, to pop the root  *)
(* or a scope of another kind.                                             *)
(***************************************************************************)
pop_scope(kind, ss) ==
  IF Len(ss) > 1 /\ Top(ss) = kind THEN Popped(ss) ELSE ss

Decrement(n) == IF n = 0 THEN 0 ELSE n - 1

(* CallStack::pop and the counters kept with it. *)
PopCountsEvery ==
  /\ frames' = Popped(frames)
  /\ func_call_depth' = func_call_depth - 1
  /\ UNCHANGED <<script_source_depth, active_trap_signals>>

pop_frame ==
  IF frames = <<>> THEN UNCHANGED <<frames, counters>>
  ELSE LET f == Top(frames)
       IN /\ frames' = Popped(frames)
          /\ func_call_depth' =
               IF f.kind = "function" THEN Decrement(func_call_depth) ELSE func_call_depth
          /\ script_source_depth' =
               IF f.kind = "source" THEN Decrement(script_source_depth)
               ELSE script_source_depth
          /\ active_trap_signals' =
               IF f.kind = "trap" THEN active_trap_signals \ {f.signal}
               ELSE active_trap_signals

push_frame(kind, signal) ==
  /\ frames' = Append(frames, Frame(kind, signal))
  /\ func_call_depth' = IF kind = "function" THEN func_call_depth + 1 ELSE func_call_depth
  /\ script_source_depth' =
       IF kind = "source" THEN script_source_depth + 1 ELSE script_source_depth
  /\ active_trap_signals' =
       IF kind = "trap" THEN active_trap_signals \union {signal} ELSE active_trap_signals

-----------------------------------------------------------------------------
(***************************************************************************)
(* A simple command.  execute_command pushes a Command scope under a guard *)
(* and evaluates the assignments before the command in it.                 *)
(***************************************************************************)
Room == Len(activity) < MaxNesting

CommandBegins ==
  /\ Interpreting
  /\ Room
  /\ scopes' = Append(scopes, "Command")
  /\ activity' = Append(activity, Doing("assigning", NoSignal))
  /\ UNCHANGED <<frames, counters, suppressed, program>>

(* An assignment fails: dropping the guard pops the scope. *)
AssignmentFails ==
  /\ Innermost({"assigning"})
  /\ scopes' = pop_scope("Command", scopes)
  /\ activity' = Popped(activity)
  /\ UNCHANGED <<frames, counters, suppressed, program>>

(* invoke_trap_handler's own guards; inheritance by options is left open. *)
TrapUnguarded(signal) == suppressed = 0

TrapDelivered(signal) == signal \notin active_trap_signals /\ suppressed = 0

(* The guard lets go of its scope; on_preexecute may run the DEBUG trap.   *)
(* From here on it is the command's post_execute that pops the scope.      *)
CommandTraced ==
  /\ Innermost({"assigning"})
  /\ \/ /\ activity' = Becomes("dispatching")
        /\ UNCHANGED <<frames, counters>>
     \/ /\ TrapDelivered("DEBUG")
        /\ Room
        /\ push_frame("trap", "DEBUG")
        /\ activity' = Append(Becomes("dispatching"), Doing("trap", "DEBUG"))
  /\ UNCHANGED <<scopes, suppressed, program>>

SkipPostExecute == scopes

PostExecute == pop_scope("Command", scopes)

(***************************************************************************)
(* The command is a builtin that interprets no text, an external command,  *)
(* not found, a function whose definition's redirections fail or that is   *)
(* nested too deep, or a script that cannot be read: post_execute runs,    *)
(* whatever the outcome.                                                   *)
(***************************************************************************)
CommandFinishes ==
  /\ Innermost({"dispatching"})
  /\ scopes' = PostExecute
  /\ activity' = Popped(activity)
  /\ UNCHANGED <<frames, counters, suppressed, program>>

(* execute_via_external refuses process substitutions before anything else, *)
(* post_execute included.  Bound: it does so once, which is remembered for  *)
(* the properties.                                                          *)
ExternalRefused ==
  /\ Innermost({"dispatching"})
  /\ ~program.refused
  /\ activity' = Popped(activity)
  /\ program' = [program EXCEPT !.refused = TRUE]
  /\ UNCHANGED <<scopes, frames, counters, suppressed>>

(* `eval`: the text runs in place. *)
EvalBegins ==
  /\ Innermost({"dispatching"})
  /\ activity' = Becomes("eval")
  /\ UNCHANGED <<scopes, frames, counters, suppressed, program>>

(* `.`: the script could be read, so execute_script_file pushes its frame. *)
SourceBegins ==
  /\ Innermost({"dispatching"})
  /\ push_frame("source", NoSignal)
  /\ activity' = Becomes("source")
  /\ UNCHANGED <<scopes, suppressed, program>>

DepthExceededLate == func_call_depth > MaxFunctionCallDepth

DepthExceeded == func_call_depth >= MaxFunctionCallDepth

(* enter_function: a frame and a Local scope. *)
enter_function ==
  /\ ~DepthExceeded
  /\ push_frame("function", NoSignal)
  /\ scopes' = Append(scopes, "Local")

FunctionBegins ==
  /\ Innermost({"dispatching"})
  /\ enter_function
  /\ activity' = Becomes("function")
  /\ UNCHANGED <<suppressed, program>>

(***************************************************************************)
(* The text ends, at its last command, by control flow or by an error: all *)
(* three come back as values, and each call cleans up behind them.         *)
(***************************************************************************)
EvalEnds ==
  /\ Innermost({"eval"})
  /\ scopes' = PostExecute
  /\ activity' = Popped(activity)
  /\ UNCHANGED <<frames, counters, suppressed, program>>

SourceEnds ==
  /\ Innermost({"source"})
  /\ pop_frame
  /\ scopes' = PostExecute
  /\ activity' = Popped(activity)
  /\ UNCHANGED <<suppressed, program>>

(* leave_function: a scope of the wrong kind leaves the frame where it is. *)
leave_function(then) ==
  LET left == pop_scope("Local", scopes)
  IN /\ IF left = scopes THEN UNCHANGED <<frames, counters>> ELSE pop_frame
     /\ scopes' = IF then = "post_execute" THEN pop_scope("Command", left) ELSE left

FunctionEnds ==
  /\ Innermost({"function"})
  /\ leave_function("post_execute")
  /\ activity' = Popped(activity)
  /\ UNCHANGED <<suppressed, program>>

(***************************************************************************)
(* Trap handlers run between commands (ERR), when the program has ended    *)
(* (EXIT), or before a command (DEBUG, CommandTraced above).               *)
(***************************************************************************)
TrapBegins(signal) ==
  /\ \/ signal = "ERR" /\ Interpreting
     \/ signal = "EXIT" /\ activity = <<>> /\ program.state = "exiting"
  /\ TrapDelivered(signal)
  /\ Room
  /\ push_frame("trap", signal)
  /\ activity' = Append(activity, Doing("trap", signal))
  /\ program' = IF signal = "EXIT" THEN [program EXCEPT !.state = "ended"] ELSE program
  /\ UNCHANGED <<scopes, suppressed>>

TrapEnds ==
  /\ Innermost({"trap"})
  /\ pop_frame
  /\ activity' = Popped(activity)
  /\ UNCHANGED <<scopes, suppressed, program>>

(***************************************************************************)
(* A completion function runs outside any command, in a copy of the        *)
(* interactive shell, with traps held back.                                *)
(***************************************************************************)
HookBegins ==
  /\ activity = <<>>
  /\ program.state = "running" /\ program.kind = "interactive" /\ program.forked
  /\ Room
  /\ suppressed' = suppressed + 1
  /\ enter_function
  /\ activity' = <<Doing("hook", NoSignal)>>
  /\ UNCHANGED program

HookEnds ==
  /\ Innermost({"hook"})
  /\ leave_function("return")
  /\ suppressed' = Decrement(suppressed)
  /\ activity' = Popped(activity)
  /\ UNCHANGED program

(***************************************************************************)
(* try_fork_subshell: from here on the child is followed.  It has the      *)
(* stacks of its parent but none of the calls that would unwind them.      *)
(***************************************************************************)
Fork ==
  /\ Interpreting
  /\ ~program.forked
  /\ program.state = "running"
  /\ active_trap_signals' = {}
  /\ activity' = <<>>
  /\ program' = [program EXCEPT !.forked = TRUE, !.under = Here]
  /\ UNCHANGED <<scopes, frames, func_call_depth, script_source_depth, suppressed>>

(* The program ends: `-c` and interactive mode check whose frame they pop,  *)
(* and `-c` gives up its EXIT trap when it is another's.                    *)
OwnFrame == frames # <<>> /\ Top(frames).kind = program.kind

ProgramEnds ==
  /\ activity = <<>>
  /\ program.state = "running" /\ ~program.forked
  /\ IF program.kind = "run" \/ OwnFrame THEN pop_frame
     ELSE UNCHANGED <<frames, counters>>
  /\ program' = [program EXCEPT
       !.state = IF program.kind = "string" /\ ~OwnFrame THEN "ended" ELSE "exiting",
       !.under.frames = Len(frames')]
  /\ UNCHANGED <<scopes, suppressed, activity>>

-----------------------------------------------------------------------------
ProgramKinds == {"run", "string", "interactive", "stdin"}

Init ==
  /\ scopes = <<"Global">>
  /\ func_call_depth = 0 /\ script_source_depth = 0
  /\ active_trap_signals = {}
  /\ suppressed = 0
  /\ activity = <<>>
  /\ \E kind \in ProgramKinds :
       /\ frames = IF kind = "stdin" THEN <<>> ELSE <<Frame(kind, NoSignal)>>
       /\ program = [kind |-> kind, state |-> "running", forked |-> FALSE,
                     refused |-> FALSE, under |-> [scopes |-> 1, frames |-> Len(frames)]]

CallBegins == \/ CommandBegins \/ EvalBegins \/ SourceBegins \/ FunctionBegins
              \/ HookBegins \/ \E signal \in Signals : TrapBegins(signal)

CallEnds == \/ AssignmentFails \/ CommandFinishes \/ ExternalRefused
            \/ EvalEnds \/ SourceEnds \/ FunctionEnds \/ HookEnds \/ TrapEnds

Next == CallBegins \/ CommandTraced \/ CallEnds \/ Fork \/ ProgramEnds

Spec == Init /\ [][Next]_vars

-----------------------------------------------------------------------------
(***************************************************************************)
(* Properties                                                              *)
(***************************************************************************)
TypeOK ==
  /\ scopes \in Seq({"Global", "Command", "Local"})
  /\ frames \in Seq(Frames)
  /\ func_call_depth \in Nat /\ script_source_depth \in Nat
  /\ active_trap_signals \subseteq Signals
  /\ suppressed \in Nat
  /\ activity \in Seq(Activity)
  /\ program \in [kind: ProgramKinds, state: {"running", "exiting", "ended"},
                  forked: BOOLEAN, refused: BOOLEAN, under: Heights]

(* What a call in progress has put on the two stacks. *)
ScopesOf(a) == CASE a.call \in {"assigning", "dispatching", "eval", "source"} -> <<"Command">>
                 [] a.call = "function" -> <<"Command", "Local">>
                 [] a.call = "hook" -> <<"Local">>
                 [] a.call = "trap" -> <<>>

FramesOf(a) == CASE a.call = "source" -> <<Frame("source", NoSignal)>>
                 [] a.call \in {"function", "hook"} -> <<Frame("function", NoSignal)>>
                 [] a.call = "trap" -> <<Frame("trap", a.signal)>>
                 [] OTHER -> <<>>

(* Where what the call at position i pushed ends. *)
Ceiling(i) == IF i = Len(activity) THEN Here ELSE activity[i + 1].under

(***************************************************************************)
(* The two stacks hold what the calls in progress put there, call by call, *)
(* and nothing else: whatever way a command, function, script or handler   *)
(* ends, it has undone exactly its own pushes (execute_command,            *)
(* enter_function and leave_function, execute_script_file,                 *)
(* invoke_trap_handler).  The one way that does not is excepted.           *)
(***************************************************************************)
StacksBalanced ==
  ~program.refused =>
    /\ \A i \in DOMAIN activity :
         LET a == activity[i]
         IN /\ SubSeq(scopes, a.under.scopes + 1, Ceiling(i).scopes) = ScopesOf(a)
            /\ SubSeq(frames, a.under.frames + 1, Ceiling(i).frames) = FramesOf(a)
    /\ program.under = IF activity = <<>> THEN Here ELSE activity[1].under

(***************************************************************************)
(* The recursion guard of traps is exact: a signal is marked active just   *)
(* while its handler runs in this shell, and never twice at a time.  A     *)
(* refused command may leave a frame over a handler's, which is then       *)
(* popped in its place.                                                    *)
(***************************************************************************)
HandlersGuarded ==
  LET handling == {i \in DOMAIN activity : activity[i].call = "trap"}
  IN ~program.refused =>
     /\ active_trap_signals = {activity[i].signal : i \in handling}
     /\ \A i, j \in handling : activity[i].signal = activity[j].signal => i = j

FramesWith(kind) == {i \in DOMAIN frames : frames[i].kind = kind}

(***************************************************************************)
(* The two depth counters agree with the frames they summarise, and no     *)
(* function is entered beyond the configured depth, even with frames left  *)
(* behind.                                                                 *)
(***************************************************************************)
DepthsCountFrames ==
  /\ func_call_depth = Cardinality(FramesWith("function"))
  /\ script_source_depth = Cardinality(FramesWith("source"))
  /\ func_call_depth <= MaxFunctionCallDepth

(***************************************************************************)
(* All that the shell notes about its calls - the two stacks and, beside    *)
(* them, the signals under handling and the depths it limits - is what the  *)
(* calls in progress amount to, through every way in and out of them.       *)
(***************************************************************************)
CallsAccounted == StacksBalanced /\ HandlersGuarded /\ DepthsCountFrames

(***************************************************************************)
(* execute_command's comment: the scope pushed for a command's own         *)
(* assignments is reverted before it returns, so between two commands of   *)
(* the program only the root is left.                                      *)
(***************************************************************************)
CommandScopesReverted ==
  activity = <<>> /\ ~program.forked => scopes = <<"Global">>
=============================================================================
