-------------------------- MODULE NavigationPlanner --------------------------
(***************************************************************************)
(* One navigation run (agent_lib/eval): BudgetedNavigationPlanner asks an  *)
(* engine for the next action within a token budget, and in structured     *)
(* mode holds a ledger of goals that every action has to return.  What a   *)
(* ledger cites is checked against the steps the planner is shown, the     *)
(* last few of the run (NoWriteContextBuilder).                            *)
(*                                                                         *)
(* Abstractions: a line is a path with a line number; of a prompt its size *)
(* is kept, of a tool call what it brought to light.  Requirements, claims *)
(* and the shape of an action are left out: what is wrong with them is one *)
(* of the reasons why a response is rejected.                              *)
(***************************************************************************)
EXTENDS Integers, Sequences

CONSTANTS
  Goals, Lines,
  Offered,        \* the ledgers a model may return
  Observations,   \* what tool calls may bring to light
  MaxVisible, MaxSteps, MaxRepeated,
  Prompts,        \* the sizes of prompts
  TokenLimit, ContextWindow, OutputReserve, OutputCap,
  Excess          \* by how much a backend may count more than the tokenizer

Entries == [status : {"open", "resolved", "abandoned"}, summary : BOOLEAN, evidence : SUBSET Lines]
Ledgers == [Goals -> Entries]

ASSUME OfferedAssumption == Offered \subseteq Ledgers
ASSUME ObservationsAssumption == Observations \subseteq [paths : BOOLEAN, lines : SUBSET Lines]
ASSUME BudgetAssumption ==
  /\ {MaxVisible, MaxSteps, MaxRepeated, TokenLimit, ContextWindow, OutputReserve, OutputCap} \subseteq Nat \ {0}
  /\ Prompts \subseteq Nat /\ Excess \in Nat

VARIABLES
  setup,   \* the modes of the harness
  at,      \* where the run is, or how it ended
  steps,   \* what each step brought to light
  goals,   \* the planner's ledger
  spent,   \* cumulative_actual_tokens
  overran, \* history: a backend counted more than prompt and requested output
  loose    \* history: the answer spelled its kind in another way

navVars == <<setup, at, steps, goals, spent, overran, loose>>

-----------------------------------------------------------------------------
\* Structured navigation requires that the loop guard is off.
Setups ==
  {s \in [structured : BOOLEAN, guarded : BOOLEAN, strict : BOOLEAN] : ~(s.structured /\ s.guarded)}
Working == {"plan", "parse", "invoke", "finalize"}
Endings == {"completed", "guard_completed", "token_budget", "context_limit", "planner_stop",
            "max_steps", "guard_no_answer", "guard_budget_unavailable", "raised"}

Nothing == [paths |-> FALSE, lines |-> {}]
Step(kind, o) == [kind |-> kind, paths |-> o.paths, lines |-> o.lines]
Took(kind, o) == steps' = Append(steps, Step(kind, o))

\* The steps the context shows, and what _observed_lines finds in them.
Visible == {i \in DOMAIN steps : i > Len(steps) - MaxVisible}
LinesIn(S) == UNION {steps[i].lines : i \in S}
PathsIn(S) == \E i \in S : steps[i].paths

NavInit ==
  /\ setup \in Setups
  /\ at = "plan" /\ steps = <<>> /\ spent = 0 /\ overran = FALSE /\ loose = FALSE
  /\ goals = [g \in Goals |-> [status |-> "open", summary |-> FALSE, evidence |-> {}]]

-----------------------------------------------------------------------------
(* The budget.                                                             *)

TokensLeft == TokenLimit - spent
FitsBudget(prompt) == prompt + OutputReserve <= TokensLeft
FitsWindow(prompt) == prompt + OutputReserve <= ContextWindow

\* What an engine may answer with that keeps to max_tokens.
Outputs(prompt) == {n \in 0..OutputCap : prompt + n <= TokensLeft /\ prompt + n <= ContextWindow}

\* The engine answers and _record_usage adds what the backend reports.
Ask(prompt) ==
  /\ FitsBudget(prompt) /\ FitsWindow(prompt)
  /\ \E n \in Outputs(prompt), x \in 0..Excess :
       spent' = spent + prompt + n + x /\ overran' = (overran \/ x > 0)

-----------------------------------------------------------------------------
(* plan, and the loop of the runtime around it.                            *)

AskForAction(prompt) ==
  /\ at = "plan" /\ Len(steps) < MaxSteps
  /\ Ask(prompt)
  /\ at' = "parse"
  /\ UNCHANGED <<setup, steps, goals, loose>>

\* _budget_stop: a final action without an answer.
BudgetStop(prompt) ==
  /\ at = "plan" /\ Len(steps) < MaxSteps
  /\ \/ ~FitsBudget(prompt) /\ at' = "token_budget"
     \/ FitsBudget(prompt) /\ ~FitsWindow(prompt) /\ at' = "context_limit"
  /\ Took("final", Nothing)
  /\ UNCHANGED <<setup, goals, spent, overran, loose>>

EngineRaises ==
  /\ at = "finalize" \/ (at = "plan" /\ Len(steps) < MaxSteps)
  /\ at' = "raised"
  /\ UNCHANGED <<setup, steps, goals, spent, overran, loose>>

StepsUsedUp ==
  /\ at = "plan" /\ Len(steps) >= MaxSteps
  /\ at' = "max_steps"
  /\ UNCHANGED <<setup, steps, goals, spent, overran, loose>>

OpenIn(ledger) == {g \in Goals : ledger[g].status = "open"}

\* What validate_goal_transition asks of one goal.
EntryAllowed(g, entry) ==
  /\ goals[g].status # "open" => entry.status = goals[g].status
  /\ entry.status = "open" => ~entry.summary /\ entry.evidence = {}
  /\ entry.status # "open" => entry.summary
  /\ entry.status = "resolved" => entry.evidence # {}

\* Mutant: a resolution need not be backed by what was observed.
EntryCited(entry) == entry.status = "resolved" => entry.evidence # {}

EntryObserved(entry) == entry.status = "resolved" => entry.evidence \subseteq LinesIn(Visible)

LedgerAccepted(ledger) == \A g \in Goals : EntryAllowed(g, ledger[g]) /\ EntryObserved(ledger[g])

TakeLedger(ledger) == goals' = IF setup.structured THEN ledger ELSE goals

\* What the kind demands is compared with its exact spelling, what the action
\* then is in any letter case.
AcceptTool(ledger, serves, spelled) ==
  /\ at = "parse"
  /\ setup.structured =>
       /\ LedgerAccepted(ledger)
       /\ spelled => serves # {} /\ serves \subseteq OpenIn(ledger)
  /\ TakeLedger(ledger)
  /\ at' = "invoke"
  /\ UNCHANGED <<setup, steps, spent, overran, loose>>

AcceptFinal(ledger, spelled) ==
  /\ at = "parse"
  /\ setup.strict => PathsIn(Visible)
  /\ setup.structured => LedgerAccepted(ledger) /\ (spelled => OpenIn(ledger) = {})
  /\ TakeLedger(ledger)
  /\ loose' = ~spelled
  /\ Took("final", Nothing)
  /\ at' = "completed"
  /\ UNCHANGED <<setup, spent, overran>>

\* A response that is no action, or fails one of the checks, is a step.
Reject ==
  /\ at = "parse"
  /\ Took("message", Nothing)
  /\ at' = "plan"
  /\ UNCHANGED <<setup, goals, spent, overran, loose>>

\* The tool call repeats those of the steps before it.
Interrupt ==
  /\ at = "invoke"
  /\ Len(steps) >= MaxRepeated - 1
  /\ \A i \in DOMAIN steps : i > Len(steps) - (MaxRepeated - 1) => steps[i].kind = "tool"
  /\ at' = "planner_stop"
  /\ UNCHANGED <<setup, steps, goals, spent, overran, loose>>

\* The loop guard may end the run after a tool call.
Invoke(o) ==
  /\ at = "invoke"
  /\ Took("tool", o)
  /\ at' \in {"plan"} \cup (IF setup.guarded THEN {"finalize"} ELSE {})
  /\ UNCHANGED <<setup, goals, spent, overran, loose>>

\* finalize: one more call within the same budget, without tools.
Finalize(prompt) ==
  /\ at = "finalize"
  /\ Ask(prompt)
  /\ \/ Took("final", Nothing) /\ at' = "guard_completed"
     \/ Took("message", Nothing) /\ at' = "guard_no_answer"
  /\ UNCHANGED <<setup, goals, loose>>

FinalizeUnavailable(prompt) ==
  /\ at = "finalize"
  /\ ~FitsBudget(prompt) \/ ~FitsWindow(prompt)
  /\ Took("message", Nothing)
  /\ at' = "guard_budget_unavailable"
  /\ UNCHANGED <<setup, goals, spent, overran, loose>>

NavNext ==
  \/ \E prompt \in Prompts :
       AskForAction(prompt) \/ BudgetStop(prompt) \/ Finalize(prompt) \/ FinalizeUnavailable(prompt)
  \/ \E ledger \in Offered, spelled \in BOOLEAN :
       AcceptFinal(ledger, spelled) \/ \E serves \in SUBSET Goals : AcceptTool(ledger, serves, spelled)
  \/ \E o \in Observations : Invoke(o)
  \/ EngineRaises \/ StepsUsedUp \/ Reject \/ Interrupt

NavSpec == NavInit /\ [][NavNext]_navVars

-----------------------------------------------------------------------------
(* Properties.                                                             *)

NavTypeOK ==
  /\ setup \in Setups
  /\ at \in Working \cup Endings
  /\ steps \in Seq([kind : {"tool", "message", "final"}, paths : BOOLEAN, lines : SUBSET Lines])
  /\ Len(steps) <= MaxSteps + 1
  /\ goals \in Ledgers
  /\ spent \in Nat
  /\ overran \in BOOLEAN /\ loose \in BOOLEAN

\* An answer is given only when something was observed, where the harness
\* asks for it, and in structured mode when every goal is abandoned or is
\* resolved on lines that tools of this run returned.  An answer that spells
\* its kind in another way may leave goals open, but proves what it resolves.
AnswersSettled ==
  at = "completed" =>
    /\ setup.strict => PathsIn(DOMAIN steps)
    /\ setup.structured => \A g \in Goals :
         /\ goals[g].status = "resolved" =>
              goals[g].evidence # {} /\ goals[g].evidence \subseteq LinesIn(DOMAIN steps)
         /\ goals[g].status = "open" => loose

\* However many calls plan and finalize make, they keep to the budget as
\* long as backends count no more than was asked for.
BudgetHeld == overran \/ spent <= TokenLimit

\* NAV-STRUCT-00: every action returns the complete ledger, and what is
\* rejected are resolutions without observed evidence: the ledger that the
\* planner holds is accepted when it is returned as it is.
HeldLedgerAccepted == setup.structured /\ at = "parse" => LedgerAccepted(goals)
=============================================================================
