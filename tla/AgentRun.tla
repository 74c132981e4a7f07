------------------------------ MODULE AgentRun ------------------------------
(***************************************************************************)
(* One programming task under AgentRuntime.run (agent_lib/runtime.py) with *)
(* its two lifecycle hooks, in the order make_programming_runtime installs *)
(* them: ProgrammingStateTracker, which writes the task's state file after *)
(* every step, and ProgrammingFailureController, which asks the next step  *)
(* to retry, to hand over to the critic, or to stop.  The task is run,     *)
(* fails with an exception, is killed and is run again; what survives is   *)
(* the state file, or the task's context while the process lives.          *)
(*                                                                         *)
(* A tool call is a value of Calls, a plan step a value of PlanSteps; the  *)
(* planner, the critic and the loop detector are free in what they choose. *)
(* Traces, memory records, counters nothing reads and texts are left out.  *)
(***************************************************************************)
EXTENDS Integers, Sequences

CONSTANTS
  Calls, PlanSteps,
  StepOf,       \* the plan_step_id each call carries, or NoStep
  MaxRetries, OnFailure, OnEmpty,   \* the ToolFailurePolicy of each call's tool
  MaxSteps,     \* the loop's limit
  MaxRepeated,  \* max_repeated_tool_calls
  HasCritic, Guarded,   \* whether a critic and an enforcing guard are installed
  MaxRuns,      \* bound: how often the task is started
  NoCall, NoStep

ASSUME CallsAssumption == NoCall \notin Calls /\ NoStep \notin PlanSteps
ASSUME ToolPolicyAssumption ==
  /\ StepOf \in [Calls -> PlanSteps \cup {NoStep}]
  /\ MaxRetries \in [Calls -> Nat]
  /\ OnFailure \in [Calls -> {"retry", "escalate", "stop"}]
  /\ OnEmpty \in [Calls -> {"retry", "escalate", "stop", "ignore"}]
ASSUME LimitsAssumption ==
  /\ MaxSteps \in Nat /\ MaxRuns \in Nat
  /\ MaxRepeated \in Nat \ {0, 1}
  /\ HasCritic \in BOOLEAN /\ Guarded \in BOOLEAN

VARIABLES
  where,      \* where run() is
  run,        \* the AgentRun: the calls of its steps (NoCall for a step that
              \* is no tool call), the last step's note and result, and the
              \* controller, status and guard telemetry
  act,        \* the action being executed
  ctx,        \* task.context: what the failure controller left for the loop
  state,      \* the tracker's ProgrammingTaskState
  stateFile,  \* what the tracker keeps on disk
  runs,       \* how often the task has been started
  retried     \* history: retries asked for after a failure of each call

runVars == <<where, run, act, ctx, state, stateFile, runs, retried>>

Notes == {"none", "handoff", "needs_critic"}
Actions ==
  [kind : {"tool"}, call : Calls, note : Notes]
  \cup [kind : {"message", "final"}, call : {NoCall}, note : Notes]
NoAction == [kind |-> "none", call |-> NoCall, note |-> "none"]
Results == [ok : BOOLEAN, empty : BOOLEAN]
NoResult == [ok |-> TRUE, empty |-> FALSE]
Controllers == {"planner", "critic"}
TaskState == [status : {"running", "completed", "stopped"}, retries : [PlanSteps -> Nat]]
NewState == [status |-> "running", retries |-> [s \in PlanSteps |-> 0]]
NewRun(who) ==
  [steps |-> <<>>, note |-> "none", result |-> NoResult, controller |-> who,
   status |-> "running", guard |-> FALSE]
FreshContext(who) == [retry |-> NoAction, stop |-> FALSE, next |-> "", resume |-> who]

\* The state file: path.write_text truncates it before it writes.
Absent == [form |-> "absent", state |-> NewState]
TornState == [form |-> "torn", state |-> NewState]
Whole(s) == [form |-> "whole", state |-> s]

Saving == {"initializing", "starting", "recording", "finishing"}

RunInit ==
  /\ where = "off" /\ run = NewRun("planner") /\ act = NoAction
  /\ ctx = FreshContext("planner") /\ state = NewState
  /\ stateFile = Absent /\ runs = 0 /\ retried = [c \in Calls |-> 0]

-----------------------------------------------------------------------------
(* Starting: the tracker loads or creates the state file, then on_start.   *)

CreateState ==
  /\ where = "off" /\ stateFile.form = "absent"
  /\ stateFile' = TornState
  /\ where' = "initializing"
  /\ UNCHANGED <<run, act, ctx, state, runs, retried>>

Created ==
  /\ where = "initializing"
  /\ stateFile' = Whole(state)
  /\ where' = "ready"
  /\ UNCHANGED <<run, act, ctx, state, runs, retried>>

\* A later process takes the state and the controller to resume with from
\* the file; a torn file raises, and there is no other way to start.
LoadState ==
  /\ where = "off" /\ stateFile.form = "whole"
  /\ state' = stateFile.state
  /\ \E who \in Controllers : ctx' = FreshContext(who)
  /\ where' = "ready"
  /\ UNCHANGED <<run, act, stateFile, runs, retried>>

StartRun ==
  /\ where = "ready" /\ runs < MaxRuns
  /\ state' = [state EXCEPT !.status = "running"]
  /\ stateFile' = TornState
  /\ runs' = runs + 1
  /\ where' = "starting"
  /\ UNCHANGED <<run, act, ctx, retried>>

\* Mutant: the failure controller clears nothing when a run starts.
StartedStale ==
  /\ where = "starting"
  /\ stateFile' = Whole(state)
  /\ run' = NewRun(ctx.resume)
  /\ where' = "top"
  /\ UNCHANGED <<act, ctx, state, runs, retried>>

Started ==
  /\ where = "starting"
  /\ stateFile' = Whole(state)
  /\ ctx' = FreshContext(ctx.resume)
  /\ run' = NewRun(ctx.resume)
  /\ where' = "top"
  /\ UNCHANGED <<act, state, runs, retried>>

-----------------------------------------------------------------------------
(* One iteration.                                                          *)

\* _should_escalate: the last step's tool failed, or somebody asked for it.
ShouldEscalate ==
  HasCritic /\ (~run.result.ok \/ run.note = "needs_critic")

HandsBack == run.controller = "critic" /\ HasCritic /\ run.note = "handoff"

ChooseController ==
  /\ where = "top" /\ Len(run.steps) < MaxSteps
  /\ run' = [run EXCEPT !.controller =
               IF ShouldEscalate THEN "critic" ELSE IF HandsBack THEN ctx.resume ELSE @]
  /\ where' = "context"
  /\ UNCHANGED <<act, ctx, state, stateFile, runs, retried>>

\* Mutant: the check wants one call more than it should.
RepeatsLate(a) ==
  LET n == Len(run.steps) IN
    /\ a.kind = "tool" /\ n >= MaxRepeated
    /\ \A i \in n - MaxRepeated + 1 .. n : run.steps[i] = a.call

\* _should_stop_for_repeat: the last MaxRepeated - 1 steps made this very call.
Repeats(a) ==
  LET n == Len(run.steps) IN
    /\ a.kind = "tool" /\ n >= MaxRepeated - 1
    /\ \A i \in n - MaxRepeated + 2 .. n : run.steps[i] = a.call

\* The retry the failure controller left is taken, or a planner is asked.
Plan ==
  /\ where = "context"
  /\ \E a \in IF ctx.retry # NoAction THEN {ctx.retry} ELSE Actions :
       /\ act' = a
       /\ ctx' = [ctx EXCEPT !.retry = NoAction]
       /\ run' = [run EXCEPT !.status = IF Repeats(a) THEN "stopped" ELSE @]
       /\ where' = IF Repeats(a) THEN "finish" ELSE "act"
  /\ UNCHANGED <<state, stateFile, runs, retried>>

Stepped(a, r) ==
  [run EXCEPT !.steps = Append(@, a.call), !.note = a.note, !.result = r]

\* Mutant: a repetition of the last step overwrites it.
ActInPlace ==
  /\ where = "act"
  /\ \E r \in IF act.kind = "tool" THEN Results ELSE {NoResult} :
       run' = IF run.steps # <<>> /\ run.steps[Len(run.steps)] = act.call
                THEN [run EXCEPT !.note = act.note, !.result = r] ELSE Stepped(act, r)
  /\ where' = "record"
  /\ UNCHANGED <<act, ctx, state, stateFile, runs, retried>>

\* The tool is invoked and the step appended to the run.
Act ==
  /\ where = "act"
  /\ \E r \in IF act.kind = "tool" THEN Results ELSE {NoResult} : run' = Stepped(act, r)
  /\ where' = "record"
  /\ UNCHANGED <<act, ctx, state, stateFile, runs, retried>>

\* The tracker's on_step counts a failure of its plan step and saves.
Record ==
  /\ where = "record"
  /\ LET s == IF act.kind = "tool" THEN StepOf[act.call] ELSE NoStep IN
       state' = IF s # NoStep /\ ~run.result.ok
                  THEN [state EXCEPT !.retries[s] = @ + 1] ELSE state
  /\ stateFile' = TornState
  /\ where' = "recording"
  /\ UNCHANGED <<run, act, ctx, runs, retried>>

\* Mutant: the failure just counted is not held against the limit.
BehaviourOffByOne(policy, n, max) ==
  IF policy = "retry" => n <= max + 1 THEN policy ELSE "stop"

\* What a policy does with the n-th failure of a step.
Behaviour(policy, n, max) ==
  IF policy = "retry" => n <= max THEN policy ELSE "stop"

\* The failure controller's reading of a tool result.
Reaction(call, r) ==
  LET n == IF StepOf[call] = NoStep THEN 0 ELSE state.retries[StepOf[call]] IN
    IF r.empty /\ OnEmpty[call] # "ignore" THEN Behaviour(OnEmpty[call], n, MaxRetries[call])
    ELSE IF ~r.ok THEN Behaviour(OnFailure[call], n, MaxRetries[call])
    ELSE "none"

React(reaction) ==
  /\ ctx' = CASE reaction = "retry"    -> [ctx EXCEPT !.retry = act]
              [] reaction = "escalate" -> [ctx EXCEPT !.next = "critic"]
              [] reaction = "stop"     -> [ctx EXCEPT !.stop = TRUE]
              [] OTHER                 -> ctx
  /\ retried' = IF reaction = "retry" /\ ~run.result.ok
                  THEN [retried EXCEPT ![act.call] = @ + 1] ELSE retried

\* The state is on disk and the failure controller's on_step runs.
Recorded ==
  /\ where = "recording"
  /\ stateFile' = Whole(state)
  /\ IF act.kind = "tool" /\ ~run.guard
       THEN React(Reaction(act.call, run.result)) ELSE UNCHANGED <<ctx, retried>>
  /\ where' = IF run.guard THEN "finish" ELSE "apply"
  /\ UNCHANGED <<run, act, state, runs>>

\* Mutant: the run goes on after the finalization attempt.
GuardLetsGo ==
  /\ where = "apply" /\ Guarded /\ act.kind = "tool"
  /\ \E a \in Actions : run' = [Stepped(a, NoResult) EXCEPT !.guard = TRUE]
  /\ where' = "top"
  /\ UNCHANGED <<act, ctx, state, stateFile, runs, retried>>

\* _finish_after_guard: one constrained attempt at a final answer, whose
\* action is never executed; the hooks see it and the run ends.
GuardFires ==
  /\ where = "apply" /\ Guarded /\ act.kind = "tool"
  /\ \E a \in Actions, answered \in BOOLEAN :
       /\ answered => a.kind = "final"
       /\ run' = [Stepped(a, NoResult) EXCEPT
                    !.guard = TRUE, !.status = IF answered THEN "completed" ELSE "stopped"]
  /\ stateFile' = TornState
  /\ where' = "recording"
  /\ UNCHANGED <<act, ctx, state, runs, retried>>

\* Whom a later run of the task resumes with, "planner" by default.
Resumed(next) == IF next = "critic" THEN "critic" ELSE "planner"

\* What the failure controller asked for is done; a final action ends the run.
Apply ==
  /\ where = "apply"
  /\ IF ctx.stop
       THEN /\ ctx' = [ctx EXCEPT !.stop = FALSE]
            /\ run' = [run EXCEPT !.status = "stopped"]
            /\ where' = "finish"
       ELSE /\ ctx' = [ctx EXCEPT !.next = "", !.resume = Resumed(ctx.next)]
            /\ run' = [run EXCEPT !.controller = IF ctx.next = "critic" THEN "critic" ELSE @,
                                  !.status = IF act.kind = "final" THEN "completed" ELSE @]
            /\ where' = IF act.kind = "final" THEN "finish" ELSE "top"
  /\ act' = NoAction
  /\ UNCHANGED <<state, stateFile, runs, retried>>

\* Mutant: the exit at the step limit forgets the hooks.
LimitWithoutHooks ==
  /\ where = "top" /\ Len(run.steps) >= MaxSteps
  /\ run' = [run EXCEPT !.status = "stopped"]
  /\ where' = "returned"
  /\ UNCHANGED <<act, ctx, state, stateFile, runs, retried>>

LimitReached ==
  /\ where = "top" /\ Len(run.steps) >= MaxSteps
  /\ run' = [run EXCEPT !.status = "stopped"]
  /\ where' = "finish"
  /\ UNCHANGED <<act, ctx, state, stateFile, runs, retried>>

-----------------------------------------------------------------------------
(* Ending.                                                                 *)

\* on_finish: the tracker saves the outcome ...
FinishRun ==
  /\ where = "finish"
  /\ state' = [state EXCEPT !.status = run.status]
  /\ stateFile' = TornState
  /\ where' = "finishing"
  /\ UNCHANGED <<run, act, ctx, runs, retried>>

\* ... and the failure controller drops a retry nobody will make.
Finished ==
  /\ where = "finishing"
  /\ stateFile' = Whole(state)
  /\ ctx' = [ctx EXCEPT !.retry = NoAction]
  /\ where' = "returned"
  /\ UNCHANGED <<run, act, state, runs, retried>>

\* The run is over for the runtime; the task object may be run again.
Leave == where' = "ready" /\ run' = NewRun("planner") /\ act' = NoAction

\* A planner, tool, memory, hook or file operation raises: run() has no
\* handler, on_finish is not called, the context stays as it is.
Raise ==
  /\ where \in {"context", "act", "record", "apply", "starting", "recording", "finishing"}
  /\ Leave
  /\ UNCHANGED <<ctx, state, stateFile, runs, retried>>

Reuse == where = "returned" /\ Leave /\ UNCHANGED <<ctx, state, stateFile, runs, retried>>

\* The process exits or is killed, wherever it is.
RunDies ==
  /\ where # "off"
  /\ where' = "off" /\ run' = NewRun("planner") /\ act' = NoAction
  /\ ctx' = FreshContext("planner") /\ state' = NewState
  /\ UNCHANGED <<stateFile, runs, retried>>

\* What a started run does by itself.
Continue ==
  \/ Started \/ ChooseController \/ Plan \/ Act \/ Record \/ Recorded
  \/ GuardFires \/ Apply \/ LimitReached \/ FinishRun \/ Finished

RunNext == CreateState \/ Created \/ LoadState \/ StartRun \/ Continue \/ Raise \/ Reuse \/ RunDies

RunSpec == RunInit /\ [][RunNext]_runVars

\* run() is a loop in one thread and every call it makes returns or raises.
RunFairness == WF_runVars(Continue)

-----------------------------------------------------------------------------
(* Properties.                                                             *)

RunTypeOK ==
  /\ where \in Saving \cup {"off", "ready", "top", "context", "act", "record", "apply",
                            "finish", "returned"}
  /\ run \in [steps : Seq(Calls \cup {NoCall}), note : Notes, result : Results,
              controller : Controllers, status : {"running", "completed", "stopped"}, guard : BOOLEAN]
  /\ act \in Actions \cup {NoAction}
  /\ ctx \in [retry : Actions \cup {NoAction}, stop : BOOLEAN, next : {"", "critic"},
              resume : Controllers]
  /\ state \in TaskState
  /\ stateFile \in [form : {"absent", "torn", "whole"}, state : TaskState]
  /\ runs \in 0..MaxRuns
  /\ retried \in [Calls -> Nat]

\* However often the task is retried, aborted by exceptions, killed and
\* resumed, no call of a plan step is retried after a failure more often
\* than its tool's policy allows.
RetriesBudgeted ==
  \A c \in Calls : StepOf[c] # NoStep => retried[c] <= MaxRetries[c]

\* The retry about to be taken repeats the step the run has just made: one
\* left behind by a run that raised is never replayed by the next.
RetryIsFresh ==
  where \in {"top", "context"} /\ ctx.retry # NoAction =>
    /\ run.steps # <<>> /\ run.steps[Len(run.steps)] = ctx.retry.call
    /\ run.note = ctx.retry.note

\* Planner, critic and retries together never make the same call
\* MaxRepeated times in a row.
RepeatsBounded ==
  \A i \in 1 .. Len(run.steps) - MaxRepeated + 1 :
    \E j \in i .. i + MaxRepeated - 1 :
      \/ run.steps[j] = NoCall
      \/ run.steps[j] # run.steps[i]
      \/ run.guard /\ j = Len(run.steps)

\* A run that has returned has its outcome and its failure counts on disk.
OutcomePersisted ==
  where = "returned" => stateFile = Whole(state) /\ stateFile.state.status = run.status

\* Once the guard has fired nothing more is planned or invoked; the run is
\* at most one step longer than its limit.
GuardIsFinal ==
  /\ run.guard => where \notin {"top", "context", "act", "record", "apply"}
  /\ Len(run.steps) <= MaxSteps + (IF run.guard THEN 1 ELSE 0)

\* agent_lib/README.md:169 promises durable task state: a process that
\* starts finds the state of the task readable.
StateDurable == where = "off" => stateFile.form # "torn"

\* A run that is started returns, raises or dies.
RunEnds == where = "top" ~> where \in {"returned", "ready", "off"}
=============================================================================
