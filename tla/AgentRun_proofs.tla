--------------------------- MODULE AgentRun_proofs ---------------------------
(***************************************************************************)
(* Proofs about AgentRun for any calls, plan steps, policies and limits:   *)
(* types, and the safety invariants of the run loop, its guard, and the    *)
(* state file it shares with earlier and later runs.                       *)
(***************************************************************************)
EXTENDS AgentRun, TLAPS

Runs == [steps : Seq(Calls \cup {NoCall}), note : Notes, result : Results,
         controller : Controllers, status : {"running", "completed", "stopped"},
         guard : BOOLEAN]

Contexts == [retry : Actions \cup {NoAction}, stop : BOOLEAN, next : {"", "critic"},
             resume : Controllers]

StateFiles == [form : {"absent", "torn", "whole"}, state : TaskState]

-----------------------------------------------------------------------------
(* Types of what the actions build.                                        *)

LEMMA RunTypes ==
  ASSUME NEW who \in Controllers
  PROVE  NewRun(who) \in Runs /\ FreshContext(who) \in Contexts
BY DEF NewRun, FreshContext, Runs, Contexts, Notes, Results, NoResult, Controllers

LEMMA FileTypes ==
  /\ NewState \in TaskState /\ Absent \in StateFiles /\ TornState \in StateFiles
  /\ \A s \in TaskState : Whole(s) \in StateFiles
<1>1. NewState \in TaskState
  BY DEF NewState, TaskState
<1>2. QED
  BY <1>1 DEF Absent, TornState, Whole, StateFiles

LEMMA ActionTypes ==
  \A a \in Actions \cup {NoAction} :
    /\ a.call \in Calls \cup {NoCall} /\ a.note \in Notes
    /\ a.kind = "tool" => a.call \in Calls
    /\ a.kind \in {"message", "final"} => a.call = NoCall
BY DEF Actions, NoAction, Notes

\* A step appended to a run gives a run.
LEMMA SteppedType ==
  ASSUME run \in Runs, NEW a \in Actions \cup {NoAction}, NEW r \in Results
  PROVE  /\ Stepped(a, r) \in Runs
         /\ Stepped(a, r).steps = Append(run.steps, a.call)
         /\ Stepped(a, r).note = a.note /\ Stepped(a, r).result = r
         /\ Stepped(a, r).status = run.status /\ Stepped(a, r).guard = run.guard
<1>1. Append(run.steps, a.call) \in Seq(Calls \cup {NoCall})
  BY ActionTypes DEF Runs
<1>2. QED
  BY <1>1, ActionTypes DEF Runs, Stepped

LEMMA NoResultType == NoResult \in Results /\ NoResult.ok = TRUE
BY DEF NoResult, Results

LEMMA TypesUnfolded ==
  RunTypeOK <=>
    /\ where \in Saving \cup {"off", "ready", "top", "context", "act", "record", "apply",
                           "finish", "returned"}
    /\ run \in Runs /\ act \in Actions \cup {NoAction} /\ ctx \in Contexts
    /\ state \in TaskState /\ stateFile \in StateFiles /\ runs \in 0..MaxRuns
    /\ retried \in [Calls -> Nat]
BY DEF RunTypeOK, Runs, Contexts, StateFiles

\* A step is counted on a plan step's retries at most once.
LEMMA RecordType ==
  ASSUME RunTypeOK, Record
  PROVE  state' \in TaskState
<1>0. state \in [status : {"running", "completed", "stopped"}, retries : [PlanSteps -> Nat]]
  BY DEF RunTypeOK, TaskState
<1> DEFINE s == IF act.kind = "tool" THEN StepOf[act.call] ELSE NoStep
<1>1. CASE s # NoStep /\ ~run.result.ok
  <2>1. act.kind = "tool" /\ s = StepOf[act.call]
    BY <1>1
  <2>2. act.call \in Calls
    BY <2>1, ActionTypes DEF RunTypeOK
  <2>3. s \in PlanSteps
    BY <1>1, <2>1, <2>2, ToolPolicyAssumption
  <2>4. state' = [state EXCEPT !.retries[s] = @ + 1]
    BY <1>1 DEF Record
  <2>5. state.retries \in [PlanSteps -> Nat]
    BY <1>0
  <2>6. state.retries[s] + 1 \in Nat
    BY <2>3, <2>5
  <2> DEFINE counted == [state.retries EXCEPT ![s] = @ + 1]
  <2>7. counted \in [PlanSteps -> Nat]
    BY <2>5, <2>6
  <2>8. state' = [state EXCEPT !.retries = counted]
    BY <2>4, <1>0
  <2> HIDE DEF counted
  <2>9. QED
    BY <1>0, <2>7, <2>8 DEF TaskState
<1>2. CASE ~(s # NoStep /\ ~run.result.ok)
  BY <1>2 DEF Record, RunTypeOK
<1>3. QED
  BY <1>1, <1>2

LEMMA ReactType ==
  ASSUME RunTypeOK, act.kind = "tool", NEW reaction, React(reaction)
  PROVE  ctx' \in Contexts /\ retried' \in [Calls -> Nat]
<1>1. act.call \in Calls /\ act \in Actions \cup {NoAction}
  BY ActionTypes DEF RunTypeOK
<1>2. ctx \in Contexts /\ retried \in [Calls -> Nat]
  BY TypesUnfolded
<1>3. ctx' \in Contexts
  BY <1>1, <1>2 DEF React, Contexts
<1>4. retried' \in [Calls -> Nat]
  BY <1>1, <1>2 DEF React
<1>5. QED
  BY <1>3, <1>4

-----------------------------------------------------------------------------
(* Type correctness.                                                       *)

LEMMA TypeInit == RunInit => RunTypeOK
<1> USE LimitsAssumption
<1>1. "planner" \in Controllers
  BY DEF Controllers
<1>2. QED
  BY <1>1, RunTypes, FileTypes, TypesUnfolded DEF RunInit, Saving

\* Every step keeps the types.
LEMMA TypeNext == RunTypeOK /\ [RunNext]_runVars => RunTypeOK'
<1> SUFFICES ASSUME RunTypeOK, [RunNext]_runVars
             PROVE  RunTypeOK'
  OBVIOUS
<1> USE TypesUnfolded DEF Saving
<1>0. "planner" \in Controllers /\ "critic" \in Controllers
  BY DEF Controllers
<1>1. CASE CreateState
  BY <1>1, FileTypes DEF CreateState, RunTypeOK, StateFiles
<1>2. CASE Created
  BY <1>2, FileTypes DEF Created, RunTypeOK, StateFiles
<1>3. CASE LoadState
  <2>1. state' \in TaskState
    BY <1>3 DEF LoadState, RunTypeOK
  <2>2. ctx' \in Contexts
    BY <1>3, RunTypes DEF LoadState
  <2>3. QED
    BY <1>3, <2>1, <2>2 DEF LoadState, RunTypeOK, Contexts
<1>4. CASE StartRun
  <2>1. state' \in TaskState /\ stateFile' \in StateFiles
    BY <1>4, FileTypes DEF StartRun, RunTypeOK, TaskState
  <2>2. runs' \in 0..MaxRuns
    <3>1. runs \in 0..MaxRuns /\ runs < MaxRuns /\ runs' = runs + 1
      BY <1>4 DEF StartRun, RunTypeOK
    <3>2. MaxRuns \in Nat
      BY LimitsAssumption
    <3>3. QED
      BY <3>1, <3>2
  <2>3. QED
    BY <1>4, <2>1, <2>2 DEF StartRun, RunTypeOK, StateFiles
<1>5. CASE Started
  <2>1. ctx.resume \in Controllers
    BY DEF RunTypeOK
  <2>2. run' \in Runs /\ ctx' \in Contexts /\ stateFile' \in StateFiles
    BY <1>5, <2>1, RunTypes, FileTypes DEF Started
  <2>3. QED
    BY <1>5, <2>2 DEF Started, RunTypeOK, Runs, Contexts, StateFiles
<1>6. CASE ChooseController
  <2>1. run' \in Runs
    BY <1>6, <1>0 DEF ChooseController, RunTypeOK, Runs
  <2>2. QED
    BY <1>6, <2>1 DEF ChooseController, RunTypeOK, Runs
<1>7. CASE Plan
  <2>1. PICK a \in IF ctx.retry # NoAction THEN {ctx.retry} ELSE Actions :
          /\ act' = a
          /\ ctx' = [ctx EXCEPT !.retry = NoAction]
          /\ run' = [run EXCEPT !.status = IF Repeats(a) THEN "stopped" ELSE @]
          /\ where' = IF Repeats(a) THEN "finish" ELSE "act"
    BY <1>7 DEF Plan
  <2>2. a \in Actions
    BY <2>1 DEF RunTypeOK
  <2>3. ctx' \in Contexts /\ run' \in Runs
    BY <2>1 DEF RunTypeOK, Runs, Contexts
  <2>4. QED
    BY <1>7, <2>1, <2>2, <2>3 DEF Plan, RunTypeOK, Runs, Contexts
<1>8. CASE Act
  <2>1. PICK r \in IF act.kind = "tool" THEN Results ELSE {NoResult} : run' = Stepped(act, r)
    BY <1>8 DEF Act
  <2>2. run' \in Runs
    BY <1>8, <2>1, SteppedType, NoResultType
  <2>3. QED
    BY <1>8, <2>2 DEF Act, RunTypeOK, Runs
<1>9. CASE Record
  BY <1>9, RecordType, FileTypes DEF Record, RunTypeOK, StateFiles
<1>10. CASE Recorded
  <2>1. ctx' \in Contexts /\ retried' \in [Calls -> Nat]
    BY <1>10, ReactType DEF Recorded, RunTypeOK, Contexts
  <2>2. stateFile' \in StateFiles
    BY <1>10, FileTypes DEF Recorded, RunTypeOK
  <2>3. QED
    BY <1>10, <2>1, <2>2 DEF Recorded, RunTypeOK, Contexts, StateFiles
<1>11. CASE GuardFires
  <2>1. PICK a \in Actions, answered \in BOOLEAN :
          run' = [Stepped(a, NoResult) EXCEPT
                    !.guard = TRUE, !.status = IF answered THEN "completed" ELSE "stopped"]
    BY <1>11 DEF GuardFires
  <2>2. Stepped(a, NoResult) \in Runs
    BY SteppedType, NoResultType
  <2>3. run' \in Runs
    BY <2>1, <2>2 DEF Runs
  <2>4. QED
    BY <1>11, <2>3, FileTypes DEF GuardFires, RunTypeOK, Runs, StateFiles
<1>12. CASE Apply
  <2>1. ctx' \in Contexts
    BY <1>12, <1>0 DEF Apply, RunTypeOK, Contexts, Resumed
  <2>2. run' \in Runs
    BY <1>12, <1>0 DEF Apply, RunTypeOK, Runs
  <2>3. QED
    BY <1>12, <2>1, <2>2 DEF Apply, RunTypeOK, Runs, Contexts
<1>13. CASE LimitReached
  <2>1. run' \in Runs
    BY <1>13 DEF LimitReached, RunTypeOK, Runs
  <2>2. QED
    BY <1>13, <2>1 DEF LimitReached, RunTypeOK, Runs
<1>14. CASE FinishRun
  <2>1. state' \in TaskState
    BY <1>14 DEF FinishRun, RunTypeOK, TaskState
  <2>2. QED
    BY <1>14, <2>1, FileTypes DEF FinishRun, RunTypeOK, StateFiles
<1>15. CASE Finished
  <2>1. ctx' \in Contexts
    BY <1>15 DEF Finished, RunTypeOK, Contexts
  <2>2. QED
    BY <1>15, <2>1, FileTypes DEF Finished, RunTypeOK, Contexts, StateFiles
<1>16. CASE Raise \/ Reuse
  BY <1>16, <1>0, RunTypes DEF Raise, Reuse, Leave, RunTypeOK, Runs
<1>17. CASE RunDies
  BY <1>17, <1>0, RunTypes, FileTypes DEF RunDies, RunTypeOK, Runs, Contexts
<1>18. CASE UNCHANGED runVars
  BY <1>18 DEF runVars, RunTypeOK
<1>19. QED
  BY <1>1, <1>2, <1>3, <1>4, <1>5, <1>6, <1>7, <1>8, <1>9, <1>10, <1>11, <1>12, <1>13,
     <1>14, <1>15, <1>16, <1>17, <1>18 DEF RunNext, Continue

\* Every state of every run, whatever planner, critic, tools and detector do
\* and wherever the process dies, has the types the code relies on.
THEOREM TypeCorrect == RunSpec => []RunTypeOK
<1>1. RunInit => RunTypeOK
  BY TypeInit
<1>2. RunTypeOK /\ [RunNext]_runVars => RunTypeOK'
  BY TypeNext
<1>3. QED
  BY <1>1, <1>2, PTL DEF RunSpec

-----------------------------------------------------------------------------
(* How long a run gets.                                                    *)

\* What a guarded ending adds to a run, and how much room an iteration has.
LoopInv ==
  /\ GuardIsFinal
  /\ where \in {"context", "act"} => Len(run.steps) < MaxSteps
  /\ where \in {"off", "initializing", "ready", "starting"} => run.steps = <<>>

LEMMA LoopInit == RunInit => LoopInv
BY LimitsAssumption DEF RunInit, LoopInv, GuardIsFinal, NewRun

\* A new run has no steps and no telemetry.
LEMMA BlankRun ==
  \A who : NewRun(who).steps = <<>> /\ ~NewRun(who).guard /\ Len(NewRun(who).steps) = 0
BY DEF NewRun

LEMMA LengthType == RunTypeOK => Len(run.steps) \in Nat /\ MaxSteps \in Nat
<1> SUFFICES ASSUME RunTypeOK PROVE Len(run.steps) \in Nat /\ MaxSteps \in Nat
  OBVIOUS
<1>1. run.steps \in Seq(Calls \cup {NoCall})
  BY TypesUnfolded DEF Runs
<1>2. QED
  BY <1>1, LimitsAssumption

LEMMA LoopNext == RunTypeOK /\ LoopInv /\ [RunNext]_runVars => LoopInv'
<1> SUFFICES ASSUME RunTypeOK, LoopInv, [RunNext]_runVars
             PROVE  LoopInv'
  OBVIOUS
<1>0. Len(run.steps) \in Nat /\ MaxSteps \in Nat /\ run \in Runs /\ run.guard \in BOOLEAN
  BY LengthType, TypesUnfolded DEF Runs
<1> USE <1>0 DEF LoopInv, GuardIsFinal
<1>1. CASE CreateState \/ Created \/ LoadState \/ StartRun
  BY <1>1 DEF CreateState, Created, LoadState, StartRun
<1>2. CASE Started
  <2>1. run' = NewRun(ctx.resume) /\ where' = "top"
    BY <1>2 DEF Started
  <2>2. run'.steps = <<>> /\ ~run'.guard /\ Len(run'.steps) = 0
    BY <2>1, BlankRun
  <2>3. QED
    BY <2>1, <2>2
<1>3. CASE ChooseController
  BY <1>3 DEF ChooseController, Runs
<1>4. CASE Plan
  <2>1. run'.steps = run.steps /\ run'.guard = run.guard /\ where' \in {"act", "finish"}
    BY <1>4 DEF Plan, Runs
  <2>2. QED
    BY <1>4, <2>1 DEF Plan
<1>5. CASE Act
  <2>1. PICK r \in IF act.kind = "tool" THEN Results ELSE {NoResult} : run' = Stepped(act, r)
    BY <1>5 DEF Act
  <2>2. act \in Actions \cup {NoAction} /\ r \in Results
    BY <2>1, NoResultType DEF RunTypeOK
  <2>3. run'.steps = Append(run.steps, act.call) /\ run'.guard = run.guard
    BY <2>1, <2>2, SteppedType
  <2>4. Len(run'.steps) = Len(run.steps) + 1
    BY <2>2, <2>3, ActionTypes DEF Runs
  <2>5. QED
    BY <1>5, <2>3, <2>4 DEF Act
<1>6. CASE Record \/ Recorded
  BY <1>6 DEF Record, Recorded
<1>7. CASE GuardFires
  <2>1. PICK a \in Actions, answered \in BOOLEAN :
          run' = [Stepped(a, NoResult) EXCEPT
                    !.guard = TRUE, !.status = IF answered THEN "completed" ELSE "stopped"]
    BY <1>7 DEF GuardFires
  <2>2. /\ Stepped(a, NoResult) \in Runs
        /\ Stepped(a, NoResult).steps = Append(run.steps, a.call)
    BY SteppedType, NoResultType
  <2>3. run'.steps = Append(run.steps, a.call) /\ run'.guard = TRUE
    BY <2>1, <2>2 DEF Runs
  <2>4. Len(run'.steps) = Len(run.steps) + 1
    BY <2>3, ActionTypes DEF Runs
  <2>5. QED
    BY <1>7, <2>3, <2>4 DEF GuardFires
<1>8. CASE Apply
  <2>1. run'.steps = run.steps /\ run'.guard = run.guard /\ where' \in {"finish", "top"}
    BY <1>8 DEF Apply, Runs
  <2>2. QED
    BY <1>8, <2>1 DEF Apply
<1>9. CASE LimitReached
  BY <1>9 DEF LimitReached, Runs
<1>10. CASE FinishRun \/ Finished
  BY <1>10 DEF FinishRun, Finished
<1>11. CASE Raise \/ Reuse \/ RunDies
  <2>1. run' = NewRun("planner") /\ where' \in {"ready", "off"}
    BY <1>11 DEF Raise, Reuse, RunDies, Leave
  <2>2. run'.steps = <<>> /\ ~run'.guard /\ Len(run'.steps) = 0
    BY <2>1, BlankRun
  <2>3. QED
    BY <2>1, <2>2
<1>12. CASE UNCHANGED runVars
  BY <1>12 DEF runVars
<1>13. QED
  BY <1>1, <1>2, <1>3, <1>4, <1>5, <1>6, <1>7, <1>8, <1>9, <1>10, <1>11, <1>12
     DEF RunNext, Continue

\* Once the guard has fired the run is over but for its hooks, and no run is
\* longer than max_steps and the one finalization attempt.
THEOREM GuardEndsRun == RunSpec => []GuardIsFinal
<1>1. RunTypeOK /\ LoopInv /\ [RunNext]_runVars => LoopInv'
  BY LoopNext
<1>2. RunInit => LoopInv
  BY LoopInit
<1>3. LoopInv => GuardIsFinal
  BY DEF LoopInv
<1>4. QED
  BY <1>1, <1>2, <1>3, TypeCorrect, PTL DEF RunSpec

-----------------------------------------------------------------------------
(* Retries belong to the step just made.                                   *)

\* The controller is asked with no retry pending, about the last step; what
\* it leaves is that step's action.
FreshInv ==
  /\ where \in {"act", "record"} => ctx.retry = NoAction
  /\ where = "recording" /\ ~run.guard => ctx.retry = NoAction
  /\ where = "record" \/ (where = "recording" /\ ~run.guard) =>
       /\ run.steps # <<>> /\ run.steps[Len(run.steps)] = act.call
       /\ run.note = act.note
  /\ where \in {"apply", "top", "context"} /\ ctx.retry # NoAction =>
       /\ run.steps # <<>> /\ run.steps[Len(run.steps)] = ctx.retry.call
       /\ run.note = ctx.retry.note

LEMMA FreshInit == RunInit => FreshInv
BY DEF RunInit, FreshInv

LEMMA FreshNext == RunTypeOK /\ LoopInv /\ FreshInv /\ [RunNext]_runVars => FreshInv'
<1> SUFFICES ASSUME RunTypeOK, LoopInv, FreshInv, [RunNext]_runVars
             PROVE  FreshInv'
  OBVIOUS
<1>0. run \in Runs /\ ctx \in Contexts /\ run.guard \in BOOLEAN
  BY TypesUnfolded DEF Runs
<1> USE <1>0 DEF FreshInv
<1>1. CASE CreateState \/ Created \/ LoadState \/ StartRun
  BY <1>1 DEF CreateState, Created, LoadState, StartRun, LoopInv, GuardIsFinal
<1>2. CASE Started
  BY <1>2 DEF Started, FreshContext
<1>3. CASE ChooseController
  BY <1>3 DEF ChooseController, Runs
<1>4. CASE Plan
  <2>1. ctx'.retry = NoAction /\ where' \in {"act", "finish"}
    BY <1>4 DEF Plan, Contexts
  <2>2. QED
    BY <2>1
<1>5. CASE Act
  <2>1. PICK r \in IF act.kind = "tool" THEN Results ELSE {NoResult} : run' = Stepped(act, r)
    BY <1>5 DEF Act
  <2>2. act \in Actions \cup {NoAction} /\ r \in Results
    BY <2>1, NoResultType DEF RunTypeOK
  <2>3. run'.steps = Append(run.steps, act.call) /\ run'.note = act.note
    BY <2>1, <2>2, SteppedType
  <2>4. run'.steps # <<>> /\ run'.steps[Len(run'.steps)] = act.call
    BY <2>2, <2>3, ActionTypes DEF Runs
  <2>5. QED
    BY <1>5, <2>3, <2>4 DEF Act
<1>6. CASE Record
  BY <1>6 DEF Record
<1>7. CASE Recorded
  <2>1. CASE run.guard
    BY <1>7, <2>1 DEF Recorded
  <2>2. CASE ~run.guard
    <3>1. ctx'.retry \in {ctx.retry, act} /\ UNCHANGED <<run, act>> /\ where' = "apply"
      BY <1>7, <2>2 DEF Recorded, React, Contexts
    <3>2. ctx.retry = NoAction /\ run.steps # <<>> /\ run.note = act.note
            /\ run.steps[Len(run.steps)] = act.call
      BY <1>7, <2>2 DEF Recorded
    <3>3. QED
      BY <3>1, <3>2
  <2>3. QED
    BY <2>1, <2>2
<1>8. CASE GuardFires
  <2>1. PICK a \in Actions, answered \in BOOLEAN :
          run' = [Stepped(a, NoResult) EXCEPT
                    !.guard = TRUE, !.status = IF answered THEN "completed" ELSE "stopped"]
    BY <1>8 DEF GuardFires
  <2>2. Stepped(a, NoResult) \in Runs
    BY SteppedType, NoResultType
  <2>3. run'.guard = TRUE /\ where' = "recording"
    BY <1>8, <2>1, <2>2 DEF Runs, GuardFires
  <2>4. QED
    BY <2>3
<1>9. CASE Apply
  <2>1. run'.steps = run.steps /\ run'.note = run.note /\ ctx'.retry = ctx.retry
    BY <1>9 DEF Apply, Runs, Contexts
  <2>2. QED
    BY <1>9, <2>1 DEF Apply
<1>10. CASE LimitReached \/ FinishRun \/ Finished \/ Raise \/ Reuse \/ RunDies
  BY <1>10 DEF LimitReached, FinishRun, Finished, Raise, Reuse, RunDies, Leave
<1>11. CASE UNCHANGED runVars
  BY <1>11 DEF runVars
<1>12. QED
  BY <1>1, <1>2, <1>3, <1>4, <1>5, <1>6, <1>7, <1>8, <1>9, <1>10, <1>11 DEF RunNext, Continue

\* A retry left behind by a run that raised, was killed or was stopped is
\* never replayed: the one taken is always that of the step just made.
THEOREM RetriesAreFresh == RunSpec => []RetryIsFresh
<1>1. RunTypeOK /\ LoopInv /\ [RunNext]_runVars => LoopInv'
  BY LoopNext
<1>2. RunTypeOK /\ LoopInv /\ FreshInv /\ [RunNext]_runVars => FreshInv'
  BY FreshNext
<1>3. RunInit => LoopInv /\ FreshInv
  BY LoopInit, FreshInit
<1>4. FreshInv => RetryIsFresh
  BY DEF FreshInv, RetryIsFresh
<1>5. QED
  BY <1>1, <1>2, <1>3, <1>4, TypeCorrect, PTL DEF RunSpec

-----------------------------------------------------------------------------
(* The outcome reaches the stateFile.                                           *)

OutcomeInv ==
  /\ OutcomePersisted
  /\ where = "finishing" => state.status = run.status

LEMMA OutcomeNext == RunTypeOK /\ OutcomeInv /\ [RunNext]_runVars => OutcomeInv'
<1> SUFFICES ASSUME RunTypeOK, OutcomeInv, [RunNext]_runVars
             PROVE  OutcomeInv'
  OBVIOUS
<1> USE DEF OutcomeInv, OutcomePersisted
<1>1. CASE CreateState \/ Created \/ LoadState \/ StartRun \/ Started
  BY <1>1 DEF CreateState, Created, LoadState, StartRun, Started
<1>2. CASE ChooseController \/ Plan \/ Act \/ Record \/ Recorded
  <2>1. where' \in {"context", "finish", "act", "record", "recording", "apply"}
    BY <1>2 DEF ChooseController, Plan, Act, Record, Recorded
  <2>2. QED
    BY <2>1
<1>3. CASE GuardFires \/ Apply \/ LimitReached
  <2>1. where' \in {"recording", "finish", "top"}
    BY <1>3 DEF GuardFires, Apply, LimitReached
  <2>2. QED
    BY <2>1
<1>4. CASE FinishRun
  BY <1>4 DEF FinishRun, RunTypeOK, TaskState
<1>5. CASE Finished
  <2>1. stateFile' = Whole(state) /\ UNCHANGED <<state, run>> /\ where = "finishing" /\ where' = "returned"
    BY <1>5 DEF Finished
  <2>2. Whole(state).state = state
    BY DEF Whole
  <2>3. QED
    BY <2>1, <2>2 DEF Whole
<1>6. CASE Raise \/ Reuse \/ RunDies
  BY <1>6 DEF Raise, Reuse, RunDies, Leave
<1>7. CASE UNCHANGED runVars
  BY <1>7 DEF runVars, Whole
<1>8. QED
  BY <1>1, <1>2, <1>3, <1>4, <1>5, <1>6, <1>7 DEF RunNext, Continue

\* However a run ends, if it returns its outcome is in the state file.
THEOREM OutcomesPersist == RunSpec => []OutcomePersisted
<1>1. RunTypeOK /\ OutcomeInv /\ [RunNext]_runVars => OutcomeInv'
  BY OutcomeNext
<1>2. RunInit => OutcomeInv
  BY DEF RunInit, OutcomeInv, OutcomePersisted
<1>3. OutcomeInv => OutcomePersisted
  BY DEF OutcomeInv
<1>4. QED
  BY <1>1, <1>2, <1>3, TypeCorrect, PTL DEF RunSpec

-----------------------------------------------------------------------------
(* Repetitions.                                                            *)

RepeatInv == RepeatsBounded /\ (where = "act" => act \in Actions /\ ~Repeats(act))

LEMMA SameWindows ==
  ASSUME NEW m, NEW n \in Nat, m = n + 1
  PROVE  1 .. m - MaxRepeated + 1 = 1 .. n + 1 - MaxRepeated + 1
BY LimitsAssumption

\* A window of MaxRepeated steps that ends with a new, unrepeated call has two
\* different calls or a step that is none.
LEMMA WindowBroken ==
  ASSUME RunTypeOK, RepeatsBounded, ~run.guard, act \in Actions, ~Repeats(act),
         NEW i \in 1 .. Len(run.steps) + 1 - MaxRepeated + 1,
         NEW steps, steps = Append(run.steps, act.call)
  PROVE  \E j \in i .. i + MaxRepeated - 1 : steps[j] = NoCall \/ steps[j] # steps[i]
<1> DEFINE n == Len(run.steps)
<1>1. run.steps \in Seq(Calls \cup {NoCall}) /\ n \in Nat
  BY TypesUnfolded DEF Runs
<1>2. MaxRepeated \in Nat /\ MaxRepeated >= 2
  BY LimitsAssumption
<1>3. /\ \A j \in 1..n : steps[j] = run.steps[j]
      /\ steps[n + 1] = act.call
  BY <1>1, ActionTypes
<1>4. CASE i <= n - MaxRepeated + 1
  <2>1. i \in 1 .. n - MaxRepeated + 1
    BY <1>1, <1>2, <1>4
  <2>2. PICK j \in i .. i + MaxRepeated - 1 : run.steps[j] = NoCall \/ run.steps[j] # run.steps[i]
    BY <2>1 DEF RepeatsBounded
  <2>3. j \in 1..n /\ i \in 1..n
    BY <1>1, <1>2, <2>1
  <2>4. QED
    BY <1>3, <2>2, <2>3
<1>5. CASE i = n - MaxRepeated + 2
  <2>1. n + 1 \in i .. i + MaxRepeated - 1 /\ n >= MaxRepeated - 1 /\ i \in 1 .. n + 1
    BY <1>1, <1>2, <1>5
  <2>2. CASE act.kind # "tool"
    BY <2>1, <2>2, <1>3, ActionTypes DEF Actions
  <2>3. CASE act.kind = "tool"
    <3>1. PICK k \in n - MaxRepeated + 2 .. n : run.steps[k] # act.call
      BY <2>1, <2>3 DEF Repeats
    <3>2. k \in i .. i + MaxRepeated - 1 /\ k \in 1..n /\ i \in 1..n
      BY <1>1, <1>2, <1>5, <2>1, <3>1
    <3>3. CASE steps[i] = act.call
      BY <1>3, <3>1, <3>2, <3>3
    <3>4. CASE steps[i] # act.call
      BY <1>3, <2>1, <3>4
    <3>5. QED
      BY <3>3, <3>4
  <2>4. QED
    BY <2>2, <2>3
<1>6. QED
  BY <1>1, <1>2, <1>4, <1>5

LEMMA RunLength == run \in Runs => Len(run.steps) \in Nat
BY DEF Runs

\* Too short a run has no window at all.
LEMMA ShortRun ==
  ASSUME run'.steps = <<>>
  PROVE  RepeatsBounded'
<1>1. MaxRepeated \in Nat /\ MaxRepeated >= 2
  BY LimitsAssumption
<1>2. Len(run'.steps) = 0
  OBVIOUS
<1>3. 1 .. Len(run'.steps) - MaxRepeated + 1 = {}
  BY <1>1, <1>2
<1>4. QED
  BY <1>3 DEF RepeatsBounded

LEMMA RepeatNext == RunTypeOK /\ LoopInv /\ RepeatInv /\ [RunNext]_runVars => RepeatInv'
<1> SUFFICES ASSUME RunTypeOK, LoopInv, RepeatInv, [RunNext]_runVars
             PROVE  RepeatInv'
  OBVIOUS
<1>0. run \in Runs /\ RepeatsBounded
  BY TypesUnfolded DEF RepeatInv
<1> HIDE DEF LoopInv
<1>1. CASE CreateState \/ Created \/ LoadState \/ StartRun
  BY <1>0, <1>1 DEF CreateState, Created, LoadState, StartRun, RepeatInv, RepeatsBounded
<1>2. CASE Started
  BY <1>2, BlankRun, ShortRun DEF Started, RepeatInv
<1>3. CASE ChooseController
  <2>1. run'.steps = run.steps /\ run'.guard = run.guard /\ where' = "context"
    BY <1>0, <1>3 DEF ChooseController, Runs
  <2>2. QED
    BY <1>0, <2>1 DEF RepeatInv, RepeatsBounded
<1>4. CASE Plan
  <2>1. PICK a \in IF ctx.retry # NoAction THEN {ctx.retry} ELSE Actions :
          /\ act' = a
          /\ run' = [run EXCEPT !.status = IF Repeats(a) THEN "stopped" ELSE @]
          /\ where' = IF Repeats(a) THEN "finish" ELSE "act"
    BY <1>4 DEF Plan
  <2>2. run'.steps = run.steps /\ run'.guard = run.guard
    BY <1>0, <2>1 DEF Runs
  <2>3. a \in Actions
    BY <2>1 DEF RunTypeOK
  <2>4. where' = "act" => act' \in Actions /\ ~Repeats(act)'
    BY <2>1, <2>2, <2>3 DEF Repeats
  <2>5. QED
    BY <1>0, <2>2, <2>4 DEF RepeatInv, RepeatsBounded
<1>5. CASE Act
  <2>1. PICK r \in IF act.kind = "tool" THEN Results ELSE {NoResult} : run' = Stepped(act, r)
    BY <1>5 DEF Act
  <2>2. act \in Actions /\ ~Repeats(act) /\ ~run.guard /\ r \in Results /\ where' = "record"
    BY <1>5, <2>1, NoResultType DEF RepeatInv, Act, LoopInv, GuardIsFinal
  <2>3. run'.steps = Append(run.steps, act.call)
    BY <1>0, <2>1, <2>2, SteppedType
  <2>4. Len(run'.steps) = Len(run.steps) + 1
    BY <1>0, <2>2, <2>3, ActionTypes DEF Runs
  <2>5. ASSUME NEW i, i \in 1 .. Len(run'.steps) - MaxRepeated + 1
        PROVE  \E j \in i .. i + MaxRepeated - 1 :
                 run'.steps[j] = NoCall \/ run'.steps[j] # run'.steps[i]
    <3>1. i \in 1 .. Len(run.steps) + 1 - MaxRepeated + 1
      BY <1>0, <2>4, <2>5, SameWindows, RunLength
    <3>2. QED
      BY <1>0, <2>2, <2>3, <3>1, WindowBroken
  <2>6. QED
    BY <2>2, <2>5 DEF RepeatInv, RepeatsBounded
<1>6. CASE Record \/ Recorded
  BY <1>0, <1>6 DEF Record, Recorded, RepeatInv, RepeatsBounded
<1>7. CASE GuardFires
  <2>1. PICK a \in Actions, answered \in BOOLEAN :
          run' = [Stepped(a, NoResult) EXCEPT
                    !.guard = TRUE, !.status = IF answered THEN "completed" ELSE "stopped"]
    BY <1>7 DEF GuardFires
  <2>2. /\ Stepped(a, NoResult) \in Runs
        /\ Stepped(a, NoResult).steps = Append(run.steps, a.call)
    BY <1>0, SteppedType, NoResultType
  <2>3. run'.steps = Append(run.steps, a.call) /\ run'.guard = TRUE
    BY <2>1, <2>2 DEF Runs
  <2> DEFINE n == Len(run.steps)
  <2>4. run.steps \in Seq(Calls \cup {NoCall}) /\ n \in Nat /\ Len(run'.steps) = n + 1
    BY <1>0, <2>3, ActionTypes DEF Runs
  <2>5. MaxRepeated \in Nat /\ MaxRepeated >= 2
    BY LimitsAssumption
  <2>6. \A j \in 1..n : run'.steps[j] = run.steps[j]
    BY <2>3, <2>4, ActionTypes
  <2>7. ~run.guard
    BY <1>7 DEF GuardFires, LoopInv, GuardIsFinal
  <2>8. ASSUME NEW i \in 1 .. n + 1 - MaxRepeated + 1
        PROVE  \E j \in i .. i + MaxRepeated - 1 :
                 \/ run'.steps[j] = NoCall \/ run'.steps[j] # run'.steps[i]
                 \/ run'.guard /\ j = n + 1
    <3>1. CASE i = n - MaxRepeated + 2
      <4>1. n + 1 \in i .. i + MaxRepeated - 1
        BY <2>4, <2>5, <3>1
      <4>2. QED
        BY <4>1, <2>3
    <3>2. CASE i \in 1 .. n - MaxRepeated + 1
      <4>1. PICK j \in i .. i + MaxRepeated - 1 :
              run.steps[j] = NoCall \/ run.steps[j] # run.steps[i]
        BY <1>0, <2>7, <3>2 DEF RepeatsBounded
      <4>2. j \in 1..n /\ i \in 1..n
        BY <2>4, <2>5, <3>2
      <4>3. QED
        BY <2>6, <4>1, <4>2
    <3>3. QED
      BY <2>4, <2>5, <3>1, <3>2
  <2>9. RepeatsBounded'
    <3> SUFFICES ASSUME NEW i, i \in 1 .. Len(run'.steps) - MaxRepeated + 1
                 PROVE  \E j \in i .. i + MaxRepeated - 1 :
                          \/ run'.steps[j] = NoCall \/ run'.steps[j] # run'.steps[i]
                          \/ run'.guard /\ j = Len(run'.steps)
      BY DEF RepeatsBounded
    <3>1. i \in 1 .. n + 1 - MaxRepeated + 1
      BY <2>4, SameWindows
    <3> HIDE DEF n
    <3>2. QED
      BY <2>4, <2>8, <3>1
  <2>10. QED
    BY <1>7, <2>9 DEF RepeatInv, GuardFires
<1>8. CASE Apply
  <2>1. run'.steps = run.steps /\ run'.guard = run.guard /\ where' # "act"
    BY <1>0, <1>8 DEF Apply, Runs
  <2>2. QED
    BY <1>0, <2>1 DEF RepeatInv, RepeatsBounded
<1>9. CASE LimitReached
  <2>1. run'.steps = run.steps /\ run'.guard = run.guard /\ where' # "act"
    BY <1>0, <1>9 DEF LimitReached, Runs
  <2>2. QED
    BY <1>0, <2>1 DEF RepeatInv, RepeatsBounded
<1>10. CASE FinishRun \/ Finished
  BY <1>0, <1>10 DEF FinishRun, Finished, RepeatInv, RepeatsBounded
<1>11. CASE Raise \/ Reuse \/ RunDies
  <2>1. run' = NewRun("planner") /\ where' # "act"
    BY <1>11 DEF Raise, Reuse, RunDies, Leave
  <2>2. QED
    BY <2>1, BlankRun, ShortRun DEF RepeatInv
<1>12. CASE UNCHANGED runVars
  BY <1>0, <1>12 DEF runVars, RepeatInv, RepeatsBounded, Repeats
<1>13. QED
  BY <1>1, <1>2, <1>3, <1>4, <1>5, <1>6, <1>7, <1>8, <1>9, <1>10, <1>11, <1>12
     DEF RunNext, Continue

LEMMA RepeatInit == RunInit => RepeatInv
<1> SUFFICES ASSUME RunInit PROVE RepeatInv
  OBVIOUS
<1>1. run.steps = <<>> /\ where = "off"
  BY BlankRun DEF RunInit
<1>2. MaxRepeated \in Nat /\ MaxRepeated >= 2 /\ Len(run.steps) = 0
  BY <1>1, LimitsAssumption
<1>3. 1 .. Len(run.steps) - MaxRepeated + 1 = {}
  BY <1>2
<1>4. QED
  BY <1>1, <1>3 DEF RepeatInv, RepeatsBounded

\* No call is ever made MaxRepeated times in a row, whoever asks for it.
THEOREM RepetitionsBounded == RunSpec => []RepeatsBounded
<1>1. RunTypeOK /\ LoopInv /\ [RunNext]_runVars => LoopInv'
  BY LoopNext
<1>2. RunTypeOK /\ LoopInv /\ RepeatInv /\ [RunNext]_runVars => RepeatInv'
  BY RepeatNext
<1>3. RunInit => LoopInv /\ RepeatInv
  BY LoopInit, RepeatInit
<1>4. RepeatInv => RepeatsBounded
  BY DEF RepeatInv
<1>5. QED
  BY <1>1, <1>2, <1>3, <1>4, TypeCorrect, PTL DEF RunSpec

-----------------------------------------------------------------------------
(* The retry budget, across runs and processes.                            *)

\* Every retry asked for is covered by a failure in these counts.
Covered(retries) == \A c \in Calls : StepOf[c] # NoStep => retried[c] <= retries[StepOf[c]]

\* The counts in memory cover the retries; so do those of a readable file, or
\* a new process would start from too low a count; and before the controller
\* asks for a retry the tracker has counted the failure it answers.
BudgetInv ==
  /\ RetriesBudgeted
  /\ where # "off" => Covered(state.retries)
  /\ stateFile.form = "whole" => Covered(stateFile.state.retries)
  /\ stateFile.form = "absent" => where = "off" /\ \A c \in Calls : retried[c] = 0
  /\ where = "recording" /\ ~run.guard /\ act.kind = "tool" /\ ~run.result.ok =>
       (StepOf[act.call] # NoStep => retried[act.call] + 1 <= state.retries[StepOf[act.call]])

LEMMA BudgetInit == RunInit => BudgetInv
<1> SUFFICES ASSUME RunInit PROVE BudgetInv
  OBVIOUS
<1>1. \A c \in Calls : retried[c] = 0 /\ MaxRetries[c] \in Nat
  BY ToolPolicyAssumption DEF RunInit
<1>2. RetriesBudgeted
  BY <1>1 DEF RetriesBudgeted
<1>3. where = "off" /\ stateFile.form = "absent"
  BY DEF RunInit, Absent
<1>4. QED
  BY <1>1, <1>2, <1>3 DEF BudgetInv

LEMMA StepsOfCalls ==
  /\ RunTypeOK => \A c \in Calls :
       /\ retried[c] \in Nat /\ MaxRetries[c] \in Nat
       /\ StepOf[c] # NoStep =>
            /\ state.retries[StepOf[c]] \in Nat /\ stateFile.state.retries[StepOf[c]] \in Nat
  /\ \A c \in Calls : StepOf[c] # NoStep => StepOf[c] \in PlanSteps
<1>1. \A c \in Calls : StepOf[c] # NoStep => StepOf[c] \in PlanSteps
  BY ToolPolicyAssumption
<1>2. RunTypeOK => /\ state.retries \in [PlanSteps -> Nat]
                /\ stateFile.state.retries \in [PlanSteps -> Nat]
                /\ retried \in [Calls -> Nat]
  BY TypesUnfolded DEF TaskState, StateFiles
<1>3. QED
  BY <1>1, <1>2, ToolPolicyAssumption

\* Steps that change no count, and write the file from memory or tear it.
LEMMA BudgetKept ==
  ASSUME RunTypeOK, BudgetInv, UNCHANGED retried, where # "off", state'.retries = state.retries,
         stateFile' \in {stateFile, TornState, Whole(state), Whole(state')}, where' # "recording" \/ run'.guard
  PROVE  BudgetInv'
<1>1. stateFile.form # "absent" /\ TornState.form = "torn"
  BY DEF BudgetInv, TornState
<1>2. /\ Whole(state).form = "whole" /\ Whole(state).state = state
      /\ Whole(state').form = "whole" /\ Whole(state').state = state'
  BY DEF Whole
<1>3. Covered(state.retries) /\ Covered(state'.retries)
  BY DEF BudgetInv
<1>4. Covered(state.retries)' /\ RetriesBudgeted'
  BY <1>3 DEF BudgetInv, RetriesBudgeted, Covered
<1>5. stateFile'.form = "whole" => Covered(stateFile.state.retries)'
  <2>1. CASE stateFile' = stateFile
    BY <2>1 DEF BudgetInv, Covered
  <2>2. CASE stateFile' # stateFile
    BY <1>1, <1>2, <1>3, <2>2 DEF Covered
  <2>3. QED
    BY <2>1, <2>2
<1>6. stateFile'.form # "absent"
  BY <1>1, <1>2
<1>7. QED
  BY <1>4, <1>5, <1>6 DEF BudgetInv

\* A failure is counted before the controller answers it.
LEMMA BudgetRecord ==
  ASSUME RunTypeOK, BudgetInv, Record
  PROVE  BudgetInv'
<1> DEFINE s == IF act.kind = "tool" THEN StepOf[act.call] ELSE NoStep
<1>0. state.retries \in [PlanSteps -> Nat] /\ Covered(state.retries) /\ stateFile'.form = "torn"
  BY TypesUnfolded DEF TaskState, BudgetInv, Record, TornState
<1>1. where' = "recording" /\ UNCHANGED <<run, act, retried>>
  BY DEF Record
<1>2. state' = IF s # NoStep /\ ~run.result.ok
                 THEN [state EXCEPT !.retries[s] = @ + 1] ELSE state
  BY DEF Record
<1>3. /\ \A q \in PlanSteps : state'.retries[q] >= state.retries[q]
      /\ s # NoStep /\ ~run.result.ok => state'.retries[s] = state.retries[s] + 1
  <2>1. CASE s # NoStep /\ ~run.result.ok
    <3>1. act.call \in Calls /\ s = StepOf[act.call]
      BY <2>1, ActionTypes DEF RunTypeOK
    <3>2. s \in PlanSteps
      BY <2>1, <3>1, StepsOfCalls
    <3>3. state'.retries = [state.retries EXCEPT ![s] = @ + 1]
      BY <1>2, <2>1, TypesUnfolded DEF TaskState
    <3>4. QED
      BY <1>0, <3>2, <3>3
  <2>2. CASE ~(s # NoStep /\ ~run.result.ok)
    BY <1>0, <1>2, <2>2
  <2>3. QED
    BY <2>1, <2>2
<1>4. state'.retries \in [PlanSteps -> Nat]
  BY RecordType DEF TaskState
<1>5. Covered(state.retries)'
  <2> SUFFICES ASSUME NEW c \in Calls, StepOf[c] # NoStep
               PROVE  retried'[c] <= state'.retries[StepOf[c]]
    BY DEF Covered
  <2>1. StepOf[c] \in PlanSteps /\ retried[c] \in Nat /\ retried'[c] = retried[c]
    BY <1>1, StepsOfCalls
  <2>2. retried[c] <= state.retries[StepOf[c]]
    BY <1>0 DEF Covered
  <2>3. state'.retries[StepOf[c]] \in Nat /\ state.retries[StepOf[c]] \in Nat
          /\ state'.retries[StepOf[c]] >= state.retries[StepOf[c]]
    BY <1>0, <1>3, <1>4, <2>1
  <2>4. QED
    BY <2>1, <2>2, <2>3
<1>6. act.kind = "tool" /\ ~run.result.ok /\ StepOf[act.call] # NoStep =>
        retried[act.call] + 1 <= state'.retries[StepOf[act.call]]
  <2> SUFFICES ASSUME act.kind = "tool", ~run.result.ok, StepOf[act.call] # NoStep
               PROVE  retried[act.call] + 1 <= state'.retries[StepOf[act.call]]
    OBVIOUS
  <2>1. act.call \in Calls
    BY ActionTypes DEF RunTypeOK
  <2>2. retried[act.call] <= state.retries[StepOf[act.call]]
    BY <1>0, <2>1 DEF Covered
  <2>3. state'.retries[StepOf[act.call]] = state.retries[StepOf[act.call]] + 1
    BY <1>3
  <2>4. retried[act.call] \in Nat /\ state.retries[StepOf[act.call]] \in Nat
    BY <2>1, StepsOfCalls
  <2>5. QED
    BY <2>2, <2>3, <2>4
<1>7. QED
  BY <1>0, <1>1, <1>5, <1>6 DEF BudgetInv, RetriesBudgeted

\* A retry is asked for only while the failure counted is within the limit.
LEMMA RetryWithinLimit ==
  ASSUME RunTypeOK, NEW c \in Calls, StepOf[c] # NoStep, ~run.result.ok,
         Reaction(c, run.result) = "retry"
  PROVE  state.retries[StepOf[c]] <= MaxRetries[c]
BY DEF Reaction, Behaviour

LEMMA BudgetRecorded ==
  ASSUME RunTypeOK, BudgetInv, Recorded
  PROVE  BudgetInv'
<1>0. /\ Covered(state.retries) /\ RetriesBudgeted /\ where = "recording"
      /\ stateFile'.form = "whole" /\ stateFile'.state = state /\ UNCHANGED <<run, act, state>>
      /\ where' \in {"apply", "finish"}
  BY DEF BudgetInv, Recorded, Whole
<1>1. CASE UNCHANGED retried
  BY <1>0, <1>1 DEF BudgetInv, Covered, RetriesBudgeted
<1>2. CASE retried' # retried
  <2>1. /\ act.kind = "tool" /\ ~run.guard /\ ~run.result.ok
        /\ Reaction(act.call, run.result) = "retry"
        /\ retried' = [retried EXCEPT ![act.call] = @ + 1]
    BY <1>2 DEF Recorded, React
  <2>2. act.call \in Calls /\ retried \in [Calls -> Nat]
    BY <2>1, ActionTypes DEF RunTypeOK
  <2>3. /\ \A c \in Calls \ {act.call} : retried'[c] = retried[c]
        /\ retried'[act.call] = retried[act.call] + 1
    BY <2>1, <2>2
  <2>4. StepOf[act.call] # NoStep =>
          /\ retried'[act.call] <= state.retries[StepOf[act.call]]
          /\ state.retries[StepOf[act.call]] <= MaxRetries[act.call]
    BY <1>0, <2>1, <2>2, <2>3, RetryWithinLimit DEF BudgetInv
  <2>5. retried'[act.call] \in Nat
    BY <2>2, <2>3
  <2>6. ASSUME NEW c \in Calls, StepOf[c] # NoStep
        PROVE  retried'[c] <= state.retries[StepOf[c]] /\ retried'[c] <= MaxRetries[c]
    <3>1. CASE c = act.call
      BY <2>2, <2>4, <2>5, <2>6, <3>1, StepsOfCalls
    <3>2. CASE c # act.call
      BY <1>0, <2>3, <2>6, <3>2 DEF Covered, RetriesBudgeted
    <3>3. QED
      BY <3>1, <3>2
  <2>7. Covered(state.retries)' /\ Covered(stateFile.state.retries)' /\ RetriesBudgeted'
    BY <1>0, <2>6 DEF Covered, RetriesBudgeted
  <2>8. QED
    BY <1>0, <2>7 DEF BudgetInv
<1>3. QED
  BY <1>1, <1>2

LEMMA BudgetNext == RunTypeOK /\ BudgetInv /\ [RunNext]_runVars => BudgetInv'
<1> SUFFICES ASSUME RunTypeOK, BudgetInv, [RunNext]_runVars
             PROVE  BudgetInv'
  OBVIOUS
<1>1. CASE CreateState
  <2>1. \A c \in Calls : retried[c] = 0
    BY <1>1 DEF CreateState, BudgetInv
  <2>2. Covered(state.retries)
    BY <2>1, StepsOfCalls DEF Covered
  <2>3. stateFile'.form = "torn" /\ where' = "initializing" /\ UNCHANGED <<state, retried>>
    BY <1>1 DEF CreateState, TornState
  <2>4. QED
    BY <2>2, <2>3 DEF BudgetInv, Covered, RetriesBudgeted
<1>2. CASE LoadState
  <2>1. /\ stateFile.form = "whole" /\ stateFile' = stateFile /\ state' = stateFile.state /\ where' = "ready"
        /\ UNCHANGED retried
    BY <1>2 DEF LoadState
  <2>2. QED
    BY <2>1 DEF BudgetInv, Covered, RetriesBudgeted
<1>3. CASE StartRun \/ FinishRun
  <2>1. state'.retries = state.retries /\ stateFile' = TornState /\ UNCHANGED retried
    BY <1>3, TypesUnfolded DEF StartRun, FinishRun, TaskState
  <2>2. where # "off" /\ where' # "recording"
    BY <1>3 DEF StartRun, FinishRun
  <2>3. QED
    BY <2>1, <2>2, BudgetKept
<1>4. CASE Created \/ Started \/ Finished
  <2>1. state' = state /\ stateFile' = Whole(state) /\ UNCHANGED retried
    BY <1>4 DEF Created, Started, Finished
  <2>2. where # "off" /\ where' # "recording"
    BY <1>4 DEF Created, Started, Finished
  <2>3. QED
    BY <2>1, <2>2, BudgetKept
<1>5. CASE ChooseController \/ Plan \/ Act
  <2>1. UNCHANGED <<state, stateFile, retried>>
    BY <1>5 DEF ChooseController, Plan, Act
  <2>2. where # "off" /\ where' # "recording"
    BY <1>5 DEF ChooseController, Plan, Act
  <2>3. QED
    BY <2>1, <2>2, BudgetKept
<1>6. CASE Record
  BY <1>6, BudgetRecord
<1>7. CASE Recorded
  BY <1>7, BudgetRecorded
<1>8. CASE GuardFires
  <2>1. PICK a \in Actions, answered \in BOOLEAN :
          run' = [Stepped(a, NoResult) EXCEPT
                    !.guard = TRUE, !.status = IF answered THEN "completed" ELSE "stopped"]
    BY <1>8 DEF GuardFires
  <2>2. Stepped(a, NoResult) \in Runs
    BY SteppedType, NoResultType, TypesUnfolded
  <2>3. run'.guard
    BY <2>1, <2>2 DEF Runs
  <2>4. UNCHANGED <<state, retried>> /\ stateFile' = TornState /\ where # "off"
    BY <1>8 DEF GuardFires
  <2>5. QED
    BY <2>3, <2>4, BudgetKept
<1>9. CASE Apply \/ LimitReached
  <2>1. UNCHANGED <<state, stateFile, retried>>
    BY <1>9 DEF Apply, LimitReached
  <2>2. where # "off" /\ where' # "recording"
    BY <1>9 DEF Apply, LimitReached
  <2>3. QED
    BY <2>1, <2>2, BudgetKept
<1>10. CASE Raise \/ Reuse
  <2>1. UNCHANGED <<state, stateFile, retried>>
    BY <1>10 DEF Raise, Reuse
  <2>2. where # "off" /\ where' # "recording"
    BY <1>10 DEF Raise, Reuse, Leave
  <2>3. QED
    BY <2>1, <2>2, BudgetKept
<1>11. CASE RunDies
  <2>1. UNCHANGED <<stateFile, retried>> /\ where # "off" /\ where' = "off"
    BY <1>11 DEF RunDies
  <2>2. QED
    BY <2>1 DEF BudgetInv, Covered, RetriesBudgeted
<1>12. CASE UNCHANGED runVars
  BY <1>12 DEF runVars, BudgetInv, Covered, RetriesBudgeted
<1>13. QED
  BY <1>1, <1>2, <1>3, <1>4, <1>5, <1>6, <1>7, <1>8, <1>9, <1>10, <1>11, <1>12
     DEF RunNext, Continue

\* Across any number of runs, exceptions, kills and restarts, a call of a plan
\* step is retried after failures at most max_retries times in all.
THEOREM RetriesStayBudgeted == RunSpec => []RetriesBudgeted
<1>1. RunTypeOK /\ BudgetInv /\ [RunNext]_runVars => BudgetInv'
  BY BudgetNext
<1>2. RunInit => BudgetInv
  BY BudgetInit
<1>3. BudgetInv => RetriesBudgeted
  BY DEF BudgetInv
<1>4. QED
  BY <1>1, <1>2, <1>3, TypeCorrect, PTL DEF RunSpec
-----------------------------------------------------------------------------
(* A run is finite, whatever it does.                                      *)

\* How far an iteration is from the next "top", and the ending from its end.
Phase(p) ==
  CASE p = "record" -> 8
    [] p = "recording" -> 7
    [] p \in {"apply", "starting"} -> 6
    [] p = "top" -> 5
    [] p = "context" -> 4
    [] p = "act" -> 3
    [] p = "finish" -> 2
    [] p = "finishing" -> 1
    [] OTHER -> 0

\* How many steps the run still has in it before it has returned, at most.
WorkLeft == 6 * (MaxSteps + 1 - Len(run.steps)) + Phase(where)

\* A started run has at most 6 * max_steps + 12 steps in it ...
WorkBounded == WorkLeft \in Nat /\ (where = "starting" => WorkLeft = 6 * MaxSteps + 12)

\* ... and everything it does by itself uses some of them up.
WorkShrinks == [][Continue => WorkLeft' < WorkLeft]_runVars

\* An iteration weighs six phases.
LEMMA Weights ==
  ASSUME NEW m \in Nat, NEW n \in Nat, NEW k \in Nat, NEW p \in Nat, NEW q \in Nat
  PROVE  /\ n <= m + 1 => 6 * (m + 1 - n) + p \in Nat
         /\ n = 0 => 6 * (m + 1 - n) + 6 = 6 * m + 12
         /\ k = n /\ q < p => 6 * (m + 1 - k) + q < 6 * (m + 1 - n) + p
         /\ k = n + 1 /\ q < p + 6 => 6 * (m + 1 - k) + q < 6 * (m + 1 - n) + p
OBVIOUS

LEMMA WorkIsBounded == RunTypeOK /\ LoopInv => WorkBounded
<1> SUFFICES ASSUME RunTypeOK, LoopInv PROVE WorkBounded
  OBVIOUS
<1>1. Len(run.steps) \in Nat /\ MaxSteps \in Nat
  BY LengthType
<1>2. Phase(where) \in Nat /\ (where = "starting" => Phase(where) = 6)
  BY DEF Phase
<1>3. Len(run.steps) <= MaxSteps + 1
  BY <1>1 DEF LoopInv, GuardIsFinal
<1>4. where = "starting" => Len(run.steps) = 0
  BY DEF LoopInv
<1> HIDE DEF Phase
<1>5. QED
  BY <1>1, <1>2, <1>3, <1>4, Weights DEF WorkBounded, WorkLeft

\* An appended step pays for the phases up to the next one.
LEMMA WorkPerStep == RunTypeOK /\ LoopInv /\ Continue => WorkLeft' < WorkLeft
<1> SUFFICES ASSUME RunTypeOK, LoopInv, Continue
             PROVE  WorkLeft' < WorkLeft
  OBVIOUS
<1>0. Len(run.steps) \in Nat /\ MaxSteps \in Nat /\ run \in Runs
  BY LengthType, TypesUnfolded
<1>a. ASSUME run'.steps = run.steps, Phase(where) \in Nat, Phase(where') \in Nat,
             Phase(where') < Phase(where)
      PROVE  WorkLeft' < WorkLeft
  BY <1>0, <1>a, Weights DEF WorkLeft
<1>b. ASSUME Len(run'.steps) = Len(run.steps) + 1, Phase(where) \in Nat, Phase(where') \in Nat,
             Phase(where') < Phase(where) + 6
      PROVE  WorkLeft' < WorkLeft
  <2>1. Len(run'.steps) \in Nat
    BY <1>0, <1>b
  <2>2. 6 * (MaxSteps + 1 - Len(run'.steps)) + Phase(where')
          < 6 * (MaxSteps + 1 - Len(run.steps)) + Phase(where)
    BY <1>0, <1>b, <2>1, Weights
  <2>3. QED
    BY <2>2 DEF WorkLeft
<1>1. CASE Started
  <2>1. where = "starting" /\ where' = "top" /\ run' = NewRun(ctx.resume)
    BY <1>1 DEF Started
  <2>2. run.steps = <<>> /\ run'.steps = <<>>
    BY <2>1, BlankRun DEF LoopInv
  <2>3. Phase(where) = 6 /\ Phase(where') = 5
    BY <2>1 DEF Phase
  <2>4. QED
    BY <2>2, <2>3, <1>a
<1>2. CASE ChooseController
  <2>1. where = "top" /\ where' = "context" /\ run'.steps = run.steps
    BY <1>0, <1>2 DEF ChooseController, Runs
  <2>2. Phase(where) = 5 /\ Phase(where') = 4
    BY <2>1 DEF Phase
  <2>3. QED
    BY <2>1, <2>2, <1>a
<1>3. CASE Plan
  <2>1. where = "context" /\ where' \in {"act", "finish"} /\ run'.steps = run.steps
    BY <1>0, <1>3 DEF Plan, Runs
  <2>2. Phase(where) = 4 /\ Phase(where') \in {2, 3}
    BY <2>1 DEF Phase
  <2>3. QED
    BY <2>1, <2>2, <1>a
<1>4. CASE Act
  <2>1. PICK r \in IF act.kind = "tool" THEN Results ELSE {NoResult} : run' = Stepped(act, r)
    BY <1>4 DEF Act
  <2>2. act \in Actions \cup {NoAction} /\ r \in Results
    BY <2>1, NoResultType, TypesUnfolded
  <2>3. Len(run'.steps) = Len(run.steps) + 1
    BY <1>0, <2>1, <2>2, SteppedType, ActionTypes DEF Runs
  <2>4. where = "act" /\ where' = "record"
    BY <1>4 DEF Act
  <2>5. Phase(where) = 3 /\ Phase(where') = 8
    BY <2>4 DEF Phase
  <2>6. QED
    BY <2>3, <2>5, <1>b
<1>5. CASE Record
  <2>1. where = "record" /\ where' = "recording" /\ run'.steps = run.steps
    BY <1>5 DEF Record
  <2>2. Phase(where) = 8 /\ Phase(where') = 7
    BY <2>1 DEF Phase
  <2>3. QED
    BY <2>1, <2>2, <1>a
<1>6. CASE Recorded
  <2>1. where = "recording" /\ where' \in {"finish", "apply"} /\ run'.steps = run.steps
    BY <1>6 DEF Recorded
  <2>2. Phase(where) = 7 /\ Phase(where') \in {2, 6}
    BY <2>1 DEF Phase
  <2>3. QED
    BY <2>1, <2>2, <1>a
<1>7. CASE GuardFires
  <2>1. PICK a \in Actions, answered \in BOOLEAN :
          run' = [Stepped(a, NoResult) EXCEPT
                    !.guard = TRUE, !.status = IF answered THEN "completed" ELSE "stopped"]
    BY <1>7 DEF GuardFires
  <2>2. /\ Stepped(a, NoResult) \in Runs
        /\ Stepped(a, NoResult).steps = Append(run.steps, a.call)
    BY <1>0, SteppedType, NoResultType
  <2>3. run'.steps = Append(run.steps, a.call)
    BY <2>1, <2>2 DEF Runs
  <2>4. Len(run'.steps) = Len(run.steps) + 1
    BY <1>0, <2>3, ActionTypes DEF Runs
  <2>5. where = "apply" /\ where' = "recording"
    BY <1>7 DEF GuardFires
  <2>6. Phase(where) = 6 /\ Phase(where') = 7
    BY <2>5 DEF Phase
  <2>7. QED
    BY <2>4, <2>6, <1>b
<1>8. CASE Apply
  <2>1. where = "apply" /\ where' \in {"finish", "top"} /\ run'.steps = run.steps
    BY <1>0, <1>8 DEF Apply, Runs
  <2>2. Phase(where) = 6 /\ Phase(where') \in {2, 5}
    BY <2>1 DEF Phase
  <2>3. QED
    BY <2>1, <2>2, <1>a
<1>9. CASE LimitReached
  <2>1. where = "top" /\ where' = "finish" /\ run'.steps = run.steps
    BY <1>0, <1>9 DEF LimitReached, Runs
  <2>2. Phase(where) = 5 /\ Phase(where') = 2
    BY <2>1 DEF Phase
  <2>3. QED
    BY <2>1, <2>2, <1>a
<1>10. CASE FinishRun
  <2>1. where = "finish" /\ where' = "finishing" /\ run'.steps = run.steps
    BY <1>10 DEF FinishRun
  <2>2. Phase(where) = 2 /\ Phase(where') = 1
    BY <2>1 DEF Phase
  <2>3. QED
    BY <2>1, <2>2, <1>a
<1>11. CASE Finished
  <2>1. where = "finishing" /\ where' = "returned" /\ run'.steps = run.steps
    BY <1>11 DEF Finished
  <2>2. Phase(where) = 1 /\ Phase(where') = 0
    BY <2>1 DEF Phase
  <2>3. QED
    BY <2>1, <2>2, <1>a
<1>12. QED
  BY <1>1, <1>2, <1>3, <1>4, <1>5, <1>6, <1>7, <1>8, <1>9, <1>10, <1>11 DEF Continue

\* Whatever planner, critic, tools and detector answer, a started run has at
\* most 6 * max_steps + 12 steps in it and every step it takes uses one up:
\* retries, escalations, hand-backs and the guard never make it go round.
THEOREM RunsAreFinite == RunSpec => []WorkBounded /\ WorkShrinks
<1>1. RunTypeOK /\ LoopInv /\ [RunNext]_runVars => LoopInv'
  BY LoopNext
<1>2. RunInit => LoopInv
  BY LoopInit
<1>3. RunSpec => [](RunTypeOK /\ LoopInv)
  BY <1>1, <1>2, TypeCorrect, PTL DEF RunSpec
<1>4. RunTypeOK /\ LoopInv => WorkBounded
  BY WorkIsBounded
<1>5. RunTypeOK /\ LoopInv /\ [RunNext]_runVars => [Continue => WorkLeft' < WorkLeft]_runVars
  BY WorkPerStep
<1>6. QED
  BY <1>3, <1>4, <1>5, PTL DEF RunSpec, WorkShrinks
=============================================================================
