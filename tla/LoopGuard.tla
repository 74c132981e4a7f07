------------------------------ MODULE LoopGuard ------------------------------
(***************************************************************************)
(* The trajectory loop guard: assess_trajectory (detector.py) looks for    *)
(* two tool actions in a row that repeat earlier ones and bring hardly any *)
(* evidence, and ActionTrajectoryGuardHook (control.py) asks the runtime   *)
(* to finalize from what was gathered before them, or in shadow mode only  *)
(* notes it.  After every step the whole trajectory is assessed anew.      *)
(*                                                                         *)
(* Abstractions: an event is "other" or a tool action with its call and    *)
(* the evidence atoms its result names; offsets count from 1.              *)
(***************************************************************************)
EXTENDS Naturals, FiniteSets, Sequences

CONSTANTS
  Calls,      \* tool calls: [tool, of, full, first, count], count 0 for no range
  Evidence,   \* the sets of evidence atoms a result may name
  Warmup,     \* _WARMUP_TOOL_ACTIONS
  Window,     \* _TRAILING_COMPARISON_ACTIONS
  Novelty,    \* 1 / _NOVELTY_THRESHOLD
  MaxEvents   \* bound on the length of a trajectory

ASSUME GuardAssumption ==
  {Warmup, Window, Novelty, MaxEvents} \subseteq Nat /\ Window > 0 /\ Novelty > 1
ASSUME CallsAssumption ==
  Calls \subseteq [tool : {"read_file", "grep"}, of : STRING, full : BOOLEAN,
                   first : Nat, count : Nat]
ASSUME EvidenceAssumption == \A E \in Evidence : IsFiniteSet(E)

VARIABLES
  mode,        \* shadow or enforce
  trajectory,  \* the events so far
  verdict,     \* the intervention found in them
  finalizing   \* the runtime has been told to finalize

guardVars == <<mode, trajectory, verdict, finalizing>>

-----------------------------------------------------------------------------
Events == [call : Calls, atoms : Evidence]
Other ==
  [call |-> [tool |-> "none", of |-> "", full |-> FALSE, first |-> 0, count |-> 0], atoms |-> {}]
NoVerdict == [from |-> 0, confirmed |-> 0]

\* _near_duplicate: two ranges of one file that share at least half of the
\* smaller; anything else is compared by its arguments without the range.
HasRange(c) == ~c.full /\ c.count > 0
LastLine(c) == c.first + c.count - 1
Smaller(a, b) == IF a < b THEN a ELSE b
Larger(a, b) == IF a < b THEN b ELSE a
Shared(c, d) == Smaller(LastLine(c), LastLine(d)) + 1 - Larger(c.first, d.first)
Overlapping(c, d) ==
  /\ Larger(c.first, d.first) <= Smaller(LastLine(c), LastLine(d))
  /\ 2 * Shared(c, d) >= Smaller(c.count, d.count)
NearDuplicate(c, d) ==
  /\ c.tool = d.tool /\ c.of = d.of
  /\ IF c.tool = "read_file" /\ HasRange(c) /\ HasRange(d) THEN Overlapping(c, d)
                                                           ELSE c.full = d.full

\* The offsets of the tool actions, and the number of them before offset i.
Tools(t) == {i \in DOMAIN t : t[i] # Other}
Before(t, i) == {j \in Tools(t) : j < i}
Position(t, i) == Cardinality(Before(t, i))
Previous(t, i) == CHOOSE j \in Before(t, i) : \A k \in Before(t, i) : k <= j

Seen(t, i) == UNION {t[j].atoms : j \in Before(t, i)}

\* _novelty, compared with the threshold; no evidence is no novelty.
LowNovelty(t, i) == Novelty * Cardinality(t[i].atoms \ Seen(t, i)) <= Cardinality(t[i].atoms)

Compared(t, i) == {j \in Before(t, i) : Position(t, i) - Position(t, j) <= Window}
Duplicate(t, i) == \E j \in Compared(t, i) : NearDuplicate(t[i].call, t[j].call)
Redundant(t, i) == Duplicate(t, i) /\ LowNovelty(t, i)

\* Both confirming actions follow the warm-up.
WarmedUp(t, i) == Position(t, i) >= Warmup + 1

Confirmed(t) ==
  {i \in Tools(t) :
     /\ WarmedUp(t, i) /\ Redundant(t, i)
     /\ LET j == Previous(t, i) IN
          Redundant(t, j) \/ (LowNovelty(t, j) /\ NearDuplicate(t[i].call, t[j].call))}

FirstOf(S) == CHOOSE i \in S : \A j \in S : i <= j

\* Mutant: what is dropped begins with the action before the pair.
FromBefore(t, i) ==
  LET j == Previous(t, i) IN IF Before(t, j) = {} THEN j ELSE Previous(t, j)

\* truncation_point: the first of the two confirming actions.
TruncationPoint(t, i) == Previous(t, i)

\* Mutant: nothing is confirmed by the last event of a trajectory.
VerdictBefore(t) ==
  LET S == Confirmed(t) \ {Len(t)} IN
  IF S = {} THEN NoVerdict
  ELSE [from |-> TruncationPoint(t, FirstOf(S)), confirmed |-> FirstOf(S)]

Verdict(t) ==
  LET S == Confirmed(t) IN
  IF S = {} THEN NoVerdict
  ELSE [from |-> TruncationPoint(t, FirstOf(S)), confirmed |-> FirstOf(S)]

\* A step is appended and the hook called; in enforce mode a verdict ends the
\* steps.
GuardedStep(e) ==
  /\ ~finalizing /\ Len(trajectory) < MaxEvents
  /\ trajectory' = Append(trajectory, e)
  /\ verdict' = Verdict(trajectory')
  /\ finalizing' = (mode = "enforce" /\ verdict' # NoVerdict)
  /\ mode' = mode

GuardInit ==
  mode \in {"shadow", "enforce"} /\ trajectory = <<>> /\ verdict = NoVerdict /\ finalizing = FALSE
GuardNext == \E e \in Events \cup {Other} : GuardedStep(e)
GuardSpec == GuardInit /\ [][GuardNext]_guardVars

-----------------------------------------------------------------------------
(* Properties.                                                             *)

GuardTypeOK ==
  /\ mode \in {"shadow", "enforce"}
  /\ trajectory \in Seq(Events \cup {Other}) /\ Len(trajectory) <= MaxEvents
  /\ verdict \in [from : 0..MaxEvents, confirmed : 0..MaxEvents]
  /\ verdict # NoVerdict => verdict.from \in 1..(verdict.confirmed - 1)
  /\ finalizing \in BOOLEAN

\* An agent is stopped only after it has made the actions of the warm-up and
\* two more, counting its tool actions and not its other steps.
StopsAfterWarmup ==
  verdict # NoVerdict => Cardinality(Tools(trajectory) \cap 1..(verdict.from - 1)) >= Warmup

\* What is dropped when the guard stops a run is hardly any evidence: of the
\* atoms of the two actions at most a tenth is not kept before them.
LittleIsLost ==
  verdict # NoVerdict =>
    LET dropped == verdict.from..verdict.confirmed
        kept == UNION {trajectory[i].atoms : i \in 1..(verdict.from - 1)}
        lost == (UNION {trajectory[i].atoms : i \in dropped}) \ kept
        first == Cardinality(trajectory[verdict.from].atoms)
    IN Novelty * Cardinality(lost) <= first + Cardinality(trajectory[verdict.confirmed].atoms)

\* An agent is stopped late enough, and at little cost.
StopJustified == StopsAfterWarmup /\ LittleIsLost

\* An agent that makes one call three times in a row after the warm-up, and
\* learns nothing the last two times, has been stopped.
RepetitionIsStopped ==
  \A i, j, k \in Tools(trajectory) :
    /\ Position(trajectory, j) = Position(trajectory, i) + 1
    /\ Position(trajectory, k) = Position(trajectory, j) + 1
    /\ Position(trajectory, j) >= Warmup
    /\ trajectory[i].call = trajectory[j].call /\ trajectory[j].call = trajectory[k].call
    /\ (trajectory[j].atoms \cup trajectory[k].atoms) \subseteq Seen(trajectory, j)
    => verdict # NoVerdict

\* What the hook reports is not taken back or replaced when the trajectory
\* is assessed again with more steps, as it is in shadow mode.
VerdictStands == [][verdict # NoVerdict => verdict' = verdict]_guardVars
=============================================================================
