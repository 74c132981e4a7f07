------------------------- MODULE Navigation_proofs -------------------------
(***************************************************************************)
(* The proofs about the loop guard and the navigation planner, which share *)
(* no variable.  The guard: the order of the tool actions, what a          *)
(* confirmed action says of the one before it, and that the verdict on a   *)
(* trajectory does not depend on what follows; the inductive invariant     *)
(* only says that the verdict is that of the trajectory so far.            *)
(***************************************************************************)
EXTENDS LoopGuard, NavigationPlanner, FiniteSetTheorems, WellFoundedInduction, TLAPS

Trajectories == Seq(Events \cup {Other})

LEMMA LeastExists ==
  ASSUME NEW S \in SUBSET Nat, S # {}
  PROVE  FirstOf(S) \in S /\ \A r \in S : FirstOf(S) <= r
<1>1. PICK s \in S : \A r \in S : ~ (<<r, s>> \in OpToRel(<, Nat))
  BY NatLessThanWellFounded, WFMin
<1>2. ASSUME NEW r \in S
      PROVE  s <= r
  <2>1. ~ (r < s)
    <3>1. <<r, s>> \notin OpToRel(<, Nat)
      BY <1>1
    <3>2. QED
      BY <3>1, Zenon DEF OpToRel
  <2>2. QED
    BY <2>1
<1>3. QED
  BY <1>2, Zenon DEF FirstOf

LEMMA GreatestExists ==
  ASSUME NEW n \in Nat, NEW S \in SUBSET (1..n), S # {}
  PROVE  \E s \in S : \A r \in S : r <= s
<1> DEFINE T == {n - s : s \in S}
<1>1. T \in SUBSET Nat /\ T # {}
  <2>1. \A s \in S : n - s \in Nat
    OBVIOUS
  <2>2. QED
    BY <2>1
<1> DEFINE least == FirstOf(T)
<1>2. least \in T /\ \A u \in T : least <= u
  <2> HIDE DEF T
  <2>1. QED
    BY <1>1, LeastExists
<1>3. PICK s \in S : least = n - s
  BY <1>2
<1> HIDE DEF least
<1>4. ASSUME NEW r \in S
      PROVE  r <= s
  <2>1. least <= n - r
    BY <1>2
  <2>2. QED
    BY <1>3, <2>1
<1>5. QED
  BY <1>4

-----------------------------------------------------------------------------
(* Tool actions and their order.                                           *)

LEMMA AtomsFinite ==
  ASSUME NEW t \in Trajectories, NEW i \in 1..Len(t)
  PROVE  IsFiniteSet(t[i].atoms) /\ (i \notin Tools(t) => t[i].atoms = {})
<1>1. DOMAIN t = 1..Len(t) /\ t[i] \in Events \cup {Other}
  BY DEF Trajectories
<1>2. Other.atoms = {}
  BY DEF Other
<1>3. QED
  BY <1>1, <1>2, EvidenceAssumption, FS_EmptySet DEF Events, Tools

LEMMA BeforeFacts ==
  ASSUME NEW t \in Trajectories
  PROVE  /\ DOMAIN t = 1..Len(t) /\ Tools(t) \subseteq 1..Len(t)
         /\ \A i \in 1..Len(t) :
              /\ Before(t, i) \in SUBSET (1..Len(t)) /\ Before(t, i) \subseteq Tools(t)
              /\ IsFiniteSet(Before(t, i)) /\ Position(t, i) \in Nat
<1>1. Len(t) \in Nat /\ DOMAIN t = 1..Len(t)
  BY DEF Trajectories
<1>2. Tools(t) \subseteq 1..Len(t)
  BY <1>1 DEF Tools
<1>3. IsFiniteSet(1..Len(t))
  BY <1>1, FS_Interval
<1>4. ASSUME NEW i \in 1..Len(t)
      PROVE  /\ Before(t, i) \in SUBSET (1..Len(t)) /\ Before(t, i) \subseteq Tools(t)
             /\ IsFiniteSet(Before(t, i)) /\ Position(t, i) \in Nat
  <2>1. Before(t, i) \in SUBSET (1..Len(t)) /\ Before(t, i) \subseteq Tools(t)
    BY <1>2 DEF Before
  <2>2. IsFiniteSet(Before(t, i))
    BY <1>3, <2>1, FS_Subset
  <2>3. QED
    BY <2>1, <2>2, FS_CardinalityType DEF Position
<1>5. QED
  BY <1>1, <1>2, <1>4

LEMMA PreviousIsLast ==
  ASSUME NEW t \in Trajectories, NEW i \in 1..Len(t), Before(t, i) # {}
  PROVE  /\ Previous(t, i) \in Before(t, i) /\ \A k \in Before(t, i) : k <= Previous(t, i)
         /\ Previous(t, i) \in 1..Len(t) /\ Previous(t, i) < i
         /\ Before(t, i) = Before(t, Previous(t, i)) \cup {Previous(t, i)}
         /\ Position(t, i) = Position(t, Previous(t, i)) + 1
<1> DEFINE j == Previous(t, i)
<1>1. Len(t) \in Nat /\ Before(t, i) \in SUBSET (1..Len(t))
  BY BeforeFacts DEF Trajectories
<1>2. \E k \in Before(t, i) : \A r \in Before(t, i) : r <= k
  BY <1>1, GreatestExists
<1>3. j \in Before(t, i) /\ \A k \in Before(t, i) : k <= j
  BY <1>2, Zenon DEF Previous
<1> HIDE DEF j
<1>4. j \in 1..Len(t) /\ j < i /\ j \in Tools(t)
  BY <1>1, <1>3 DEF Before
<1>5. Before(t, i) = Before(t, j) \cup {j} /\ j \notin Before(t, j)
  <2>1. Tools(t) \subseteq Nat
    BY BeforeFacts
  <2>2. QED
    BY <1>3, <1>4, <2>1 DEF Before
<1>6. IsFiniteSet(Before(t, j))
  BY <1>4, BeforeFacts
<1>7. Cardinality(Before(t, i)) = Cardinality(Before(t, j)) + 1
  BY <1>5, <1>6, FS_AddElement
<1>8. QED
  BY <1>3, <1>4, <1>5, <1>7 DEF j, Position

\* Positions follow the order of the tool actions.
LEMMA PositionsGrow ==
  ASSUME NEW t \in Trajectories, NEW i \in Tools(t), NEW k \in Tools(t)
  PROVE  i < k <=> Position(t, i) < Position(t, k)
<1>1. i \in 1..Len(t) /\ k \in 1..Len(t)
  BY BeforeFacts
<1>2. ASSUME NEW a \in Tools(t), NEW b \in Tools(t), a < b
      PROVE  Position(t, a) < Position(t, b)
  <2>1. a \in 1..Len(t) /\ b \in 1..Len(t) /\ Tools(t) \subseteq Nat
    BY BeforeFacts
  <2>2. Before(t, a) \cup {a} \in SUBSET Before(t, b) /\ a \notin Before(t, a)
    BY <1>2, <2>1 DEF Before
  <2>3. /\ IsFiniteSet(Before(t, a)) /\ IsFiniteSet(Before(t, b))
        /\ Position(t, a) \in Nat /\ Position(t, b) \in Nat
    BY <2>1, BeforeFacts
  <2>4. Cardinality(Before(t, a) \cup {a}) = Cardinality(Before(t, a)) + 1
    BY <2>2, <2>3, FS_AddElement
  <2>5. Cardinality(Before(t, a) \cup {a}) <= Cardinality(Before(t, b))
    BY <2>2, <2>3, FS_Subset
  <2>6. QED
    BY <2>3, <2>4, <2>5 DEF Position
<1>3. Position(t, i) \in Nat /\ Position(t, k) \in Nat
  BY <1>1, BeforeFacts
<1>4. CASE i < k
  BY <1>2, <1>4
<1>5. CASE k < i
  <2>1. Position(t, k) < Position(t, i)
    BY <1>2, <1>5
  <2>2. QED
    BY <1>1, <1>3, <1>5, <2>1
<1>6. CASE i = k
  BY <1>1, <1>3, <1>6
<1>7. QED
  BY <1>1, <1>4, <1>5, <1>6

-----------------------------------------------------------------------------
(* Verdicts.                                                               *)

LEMMA ConfirmedFacts ==
  ASSUME NEW t \in Trajectories, NEW i \in Confirmed(t)
  PROVE  /\ i \in Tools(t) /\ i \in 1..Len(t) /\ Before(t, i) # {}
         /\ Position(t, Previous(t, i)) >= Warmup
         /\ LowNovelty(t, i) /\ LowNovelty(t, Previous(t, i))
<1>1. i \in Tools(t) /\ i \in 1..Len(t)
  BY BeforeFacts DEF Confirmed
<1>2. Position(t, i) >= Warmup + 1 /\ Warmup \in Nat /\ Position(t, i) \in Nat
  BY <1>1, GuardAssumption, BeforeFacts DEF Confirmed, WarmedUp
<1>3. Before(t, i) # {}
  <2>1. CASE Before(t, i) = {}
    <3>1. Position(t, i) = 0
      BY <2>1, FS_EmptySet DEF Position
    <3>2. QED
      BY <1>2, <3>1
  <2>2. QED
    BY <2>1
<1>4. Previous(t, i) \in 1..Len(t) /\ Position(t, i) = Position(t, Previous(t, i)) + 1
  BY <1>1, <1>3, PreviousIsLast
<1>5. Position(t, Previous(t, i)) \in Nat
  BY <1>4, BeforeFacts
<1>6. LowNovelty(t, i) /\ LowNovelty(t, Previous(t, i))
  BY DEF Confirmed, Redundant
<1>7. QED
  BY <1>1, <1>2, <1>3, <1>4, <1>5, <1>6

LEMMA VerdictFacts ==
  ASSUME NEW t \in Trajectories, Confirmed(t) # {}
  PROVE  /\ FirstOf(Confirmed(t)) \in Confirmed(t)
         /\ \A k \in Confirmed(t) : FirstOf(Confirmed(t)) <= k
         /\ Verdict(t) = [from |-> Previous(t, FirstOf(Confirmed(t))),
                          confirmed |-> FirstOf(Confirmed(t))]
<1>1. Confirmed(t) \in SUBSET Nat
  BY ConfirmedFacts
<1>2. QED
  BY <1>1, LeastExists DEF Verdict, TruncationPoint

GuardInv ==
  /\ mode \in {"shadow", "enforce"} /\ finalizing \in BOOLEAN
  /\ trajectory \in Trajectories /\ Len(trajectory) <= MaxEvents
  /\ verdict = Verdict(trajectory)

LEMMA AppendFacts ==
  ASSUME NEW t \in Trajectories, NEW e \in Events \cup {Other}
  PROVE  /\ Append(t, e) \in Trajectories /\ Len(Append(t, e)) = Len(t) + 1
         /\ Len(t) \in Nat /\ \A i \in 1..Len(t) : Append(t, e)[i] = t[i]
<1> HIDE DEF Events, Other
<1>1. QED
  BY DEF Trajectories

LEMMA GuardInitially == GuardInit => GuardInv
<1> SUFFICES ASSUME GuardInit PROVE GuardInv
  OBVIOUS
<1>1. trajectory = <<>> /\ trajectory \in Trajectories /\ Len(trajectory) = 0
  BY DEF GuardInit, Trajectories
<1>2. Tools(trajectory) = {}
  BY <1>1, BeforeFacts
<1>3. Verdict(trajectory) = NoVerdict
  BY <1>2 DEF Verdict, Confirmed
<1>4. Len(trajectory) <= MaxEvents
  BY <1>1, GuardAssumption
<1>5. mode \in {"shadow", "enforce"} /\ finalizing \in BOOLEAN /\ verdict = NoVerdict
  BY DEF GuardInit
<1>6. QED
  BY <1>1, <1>3, <1>4, <1>5 DEF GuardInv

LEMMA GuardStep == GuardInv /\ [GuardNext]_guardVars => GuardInv'
<1> SUFFICES ASSUME GuardInv, [GuardNext]_guardVars PROVE GuardInv'
  OBVIOUS
<1>1. CASE UNCHANGED guardVars
  <2>1. mode' = mode /\ trajectory' = trajectory /\ verdict' = verdict /\ finalizing' = finalizing
    BY <1>1 DEF guardVars
  <2>2. QED
    BY <2>1 DEF GuardInv
<1>2. ASSUME NEW e \in Events \cup {Other}, GuardedStep(e)
      PROVE  GuardInv'
  <2>1. /\ trajectory' = Append(trajectory, e) /\ verdict' = Verdict(trajectory')
        /\ finalizing' = (mode = "enforce" /\ verdict' # NoVerdict) /\ mode' = mode
        /\ Len(trajectory) < MaxEvents
    BY <1>2 DEF GuardedStep
  <2>2. /\ trajectory' \in Trajectories /\ Len(trajectory') = Len(trajectory) + 1
        /\ Len(trajectory) \in Nat
    BY <2>1, AppendFacts DEF GuardInv
  <2>3. Len(trajectory') <= MaxEvents
    BY <2>1, <2>2, GuardAssumption
  <2>4. finalizing' \in BOOLEAN
    BY <2>1
  <2>5. QED
    BY <2>1, <2>2, <2>3, <2>4 DEF GuardInv
<1>3. QED
  BY <1>1, <1>2 DEF GuardNext

LEMMA GuardInvariant == GuardSpec => []GuardInv
BY GuardInitially, GuardStep, PTL DEF GuardSpec

\* What a verdict says of the trajectory.
LEMMA VerdictMeans ==
  ASSUME NEW t \in Trajectories, Verdict(t) # NoVerdict
  PROVE  LET i == Verdict(t).confirmed j == Verdict(t).from IN
         /\ i \in Confirmed(t) /\ j = Previous(t, i) /\ i \in 1..Len(t) /\ j \in 1..Len(t) /\ j < i
         /\ i \in Tools(t) /\ j \in Tools(t)
         /\ Verdict(t) = [from |-> j, confirmed |-> i]
<1>1. Confirmed(t) # {}
  BY DEF Verdict
<1> DEFINE i == FirstOf(Confirmed(t))
<1>2. i \in Confirmed(t) /\ Verdict(t) = [from |-> Previous(t, i), confirmed |-> i]
  BY <1>1, VerdictFacts
<1> HIDE DEF i
<1>3. i \in 1..Len(t) /\ Before(t, i) # {} /\ i \in Tools(t)
  BY <1>2, ConfirmedFacts
<1>4. Previous(t, i) \in 1..Len(t) /\ Previous(t, i) < i /\ Previous(t, i) \in Before(t, i)
  BY <1>3, PreviousIsLast
<1>5. Previous(t, i) \in Tools(t)
  BY <1>3, <1>4, BeforeFacts
<1>6. QED
  BY <1>2, <1>3, <1>4, <1>5

\* Trajectories and verdicts keep their types, and the truncation point lies
\* before the confirming action.
THEOREM GuardTypeCorrect == GuardSpec => []GuardTypeOK
<1>1. ASSUME GuardInv
      PROVE  /\ verdict \in [from : 0..MaxEvents, confirmed : 0..MaxEvents]
             /\ verdict # NoVerdict => verdict.from \in 1..(verdict.confirmed - 1)
  <2>1. MaxEvents \in Nat /\ Len(trajectory) \in Nat /\ Len(trajectory) <= MaxEvents
    BY <1>1, GuardAssumption DEF GuardInv, Trajectories
  <2>2. CASE verdict = NoVerdict
    BY <2>1, <2>2 DEF NoVerdict
  <2>3. CASE verdict # NoVerdict
    <3> DEFINE i == verdict.confirmed
    <3> DEFINE j == verdict.from
    <3>1. /\ i \in 1..Len(trajectory) /\ j \in 1..Len(trajectory) /\ j < i
          /\ verdict = [from |-> j, confirmed |-> i]
      BY <1>1, <2>3, VerdictMeans DEF GuardInv
    <3> HIDE DEF i, j
    <3>2. i \in 0..MaxEvents /\ j \in 0..MaxEvents /\ j \in 1..(i - 1)
      BY <2>1, <3>1
    <3>3. QED
      BY <3>1, <3>2
  <2>4. QED
    BY <2>2, <2>3
<1>2. GuardInv => GuardTypeOK
  BY <1>1 DEF GuardInv, GuardTypeOK, Trajectories
<1>3. QED
  BY <1>2, GuardInvariant, PTL

LEMMA WarmupIsOver == GuardInv => StopsAfterWarmup
<1> SUFFICES ASSUME GuardInv, verdict # NoVerdict
             PROVE  Cardinality(Tools(trajectory) \cap 1..(verdict.from - 1)) >= Warmup
  BY DEF StopsAfterWarmup
<1> DEFINE t == trajectory
<1> DEFINE i == verdict.confirmed
<1> DEFINE j == verdict.from
<1>1. t \in Trajectories /\ i \in Confirmed(t) /\ j = Previous(t, i) /\ j \in 1..Len(t)
  BY VerdictMeans DEF GuardInv
<1>2. Position(t, j) >= Warmup
  BY <1>1, ConfirmedFacts
<1>3. Tools(t) \cap 1..(j - 1) = Before(t, j)
  <2>1. Tools(t) \subseteq 1..Len(t) /\ Len(t) \in Nat
    BY <1>1, BeforeFacts DEF Trajectories
  <2> HIDE DEF t, j
  <2>2. QED
    BY <1>1, <2>1 DEF Before
<1>4. QED
  BY <1>2, <1>3 DEF Position

LEMMA CostIsLittle == GuardInv => LittleIsLost
<1> SUFFICES ASSUME GuardInv, verdict # NoVerdict
             PROVE  LET dropped == verdict.from..verdict.confirmed
                        kept == UNION {trajectory[i].atoms : i \in 1..(verdict.from - 1)}
                        lost == (UNION {trajectory[i].atoms : i \in dropped}) \ kept
                        first == Cardinality(trajectory[verdict.from].atoms)
                    IN Novelty * Cardinality(lost)
                         <= first + Cardinality(trajectory[verdict.confirmed].atoms)
  BY DEF LittleIsLost
<1> DEFINE t == trajectory
<1> DEFINE i == verdict.confirmed
<1> DEFINE j == verdict.from
<1> DEFINE kept == UNION {t[k].atoms : k \in 1..(j - 1)}
<1> DEFINE all == UNION {t[k].atoms : k \in j..i}
<1> DEFINE lost == all \ kept
<1> DEFINE A == t[j].atoms \ Seen(t, j)
<1> DEFINE B == t[i].atoms \ Seen(t, i)
<1>1. /\ t \in Trajectories /\ i \in Confirmed(t) /\ j = Previous(t, i) /\ j \in 1..Len(t)
      /\ i \in 1..Len(t) /\ j < i
  BY VerdictMeans DEF GuardInv
<1>2. /\ Before(t, i) # {} /\ LowNovelty(t, i) /\ LowNovelty(t, j)
      /\ Before(t, i) = Before(t, j) \cup {j} /\ \A k \in Before(t, i) : k <= j
  BY <1>1, ConfirmedFacts, PreviousIsLast
<1>3. Tools(t) \subseteq 1..Len(t) /\ Len(t) \in Nat
  BY <1>1, BeforeFacts DEF Trajectories
<1> HIDE DEF t, i, j
<1>4. kept = Seen(t, j)
  <2>1. Before(t, j) \subseteq 1..(j - 1)
    BY <1>1, <1>3 DEF Before
  <2>2. \A k \in 1..(j - 1) : k \notin Before(t, j) => t[k].atoms = {}
    BY <1>1, <1>3, AtomsFinite DEF Before
  <2>3. QED
    BY <2>1, <2>2 DEF Seen
<1>5. Seen(t, i) = Seen(t, j) \cup t[j].atoms
  BY <1>2 DEF Seen
<1>6. all = t[j].atoms \cup t[i].atoms
  <2>1. \A k \in j..i : k # j /\ k # i => t[k].atoms = {}
    <3> SUFFICES ASSUME NEW k \in j..i, k # j, k # i PROVE t[k].atoms = {}
      OBVIOUS
    <3>1. k \in 1..Len(t) /\ k < i /\ j < k
      BY <1>1, <1>3
    <3>2. k \notin Tools(t)
      BY <1>1, <1>2, <3>1 DEF Before
    <3>3. QED
      BY <1>1, <3>1, <3>2, AtomsFinite
  <2>2. j \in j..i /\ i \in j..i
    BY <1>1
  <2>3. QED
    BY <2>1, <2>2
<1>7. lost = A \cup B /\ A \cap B = {}
  <2> HIDE DEF all, kept
  <2>1. QED
    BY <1>4, <1>5, <1>6
<1>8. /\ IsFiniteSet(A) /\ IsFiniteSet(B)
      /\ Cardinality(t[j].atoms) \in Nat /\ Cardinality(t[i].atoms) \in Nat
  <2>1. IsFiniteSet(t[j].atoms) /\ IsFiniteSet(t[i].atoms)
    BY <1>1, AtomsFinite
  <2>2. A \in SUBSET t[j].atoms /\ B \in SUBSET t[i].atoms
    OBVIOUS
  <2>3. QED
    BY <2>1, <2>2, FS_Subset, FS_CardinalityType
<1>9. /\ Novelty * Cardinality(A) <= Cardinality(t[j].atoms)
      /\ Novelty * Cardinality(B) <= Cardinality(t[i].atoms)
  BY <1>2 DEF LowNovelty
<1> HIDE DEF A, B, lost, all, kept
<1>10. Cardinality(lost) = Cardinality(A) + Cardinality(B)
  <2>1. Cardinality(A \cap B) = 0
    BY <1>7, FS_EmptySet
  <2>2. Cardinality(A) \in Nat /\ Cardinality(B) \in Nat
    BY <1>8, FS_CardinalityType
  <2>3. Cardinality(A \cup B) = Cardinality(A) + Cardinality(B) - Cardinality(A \cap B)
    BY <1>8, FS_Union
  <2>4. QED
    BY <1>7, <2>1, <2>2, <2>3
<1>11. \A n, a, b, x, y \in Nat : n * a <= x /\ n * b <= y => n * (a + b) <= x + y
  <2>1. \A n, a, b \in Nat : n * (a + b) = n * a + n * b
    OBVIOUS
  <2>2. SUFFICES ASSUME NEW n \in Nat, NEW a \in Nat, NEW b \in Nat, NEW x \in Nat, NEW y \in Nat,
                        n * a <= x, n * b <= y
                 PROVE  n * (a + b) <= x + y
    OBVIOUS
  <2>3. n * a \in Nat /\ n * b \in Nat
    OBVIOUS
  <2>4. n * a + n * b <= x + y
    BY <2>2, <2>3
  <2>5. QED
    BY <2>1, <2>4
<1>12. Novelty * Cardinality(lost) <= Cardinality(t[j].atoms) + Cardinality(t[i].atoms)
  <2>1. Cardinality(A) \in Nat /\ Cardinality(B) \in Nat /\ Novelty \in Nat
    BY <1>8, FS_CardinalityType, GuardAssumption
  <2>2. Novelty * (Cardinality(A) + Cardinality(B))
          <= Cardinality(t[j].atoms) + Cardinality(t[i].atoms)
    BY <1>8, <1>9, <1>11, <2>1
  <2>3. QED
    BY <1>10, <2>2
<1>13. QED
  BY <1>12 DEF t, i, j, lost, all, kept

\* The loop guard stops an agent only after the actions of the warm-up, and what
\* it drops brought hardly any evidence.
THEOREM StopsAreJustified == GuardSpec => []StopJustified
<1>1. GuardInv => StopJustified
  BY WarmupIsOver, CostIsLittle DEF StopJustified
<1>2. QED
  BY <1>1, GuardInvariant, PTL

LEMMA SameCallRepeats ==
  ASSUME NEW c \in Calls \cup {Other.call}
  PROVE  NearDuplicate(c, c)
<1>1. c.first \in Nat /\ c.count \in Nat
  <2>1. CASE c \in Calls
    BY <2>1, CallsAssumption
  <2>2. CASE c = Other.call
    <3>1. c = [tool |-> "none", of |-> "", full |-> FALSE, first |-> 0, count |-> 0]
      BY <2>2 DEF Other
    <3>2. QED
      BY <3>1
  <2>3. QED
    BY <2>1, <2>2
<1>2. CASE HasRange(c)
  <2>1. c.count > 0
    BY <1>2 DEF HasRange
  <2>2. QED
    BY <1>1, <2>1 DEF NearDuplicate, Overlapping, Larger, Smaller, LastLine, Shared
<1>3. CASE ~HasRange(c)
  BY <1>3 DEF NearDuplicate
<1>4. QED
  BY <1>2, <1>3

\* Three equal calls in a row after the warm-up, of which the last two teach
\* nothing, are always found (assess_trajectory).
THEOREM RepetitionsAreStopped == GuardSpec => []RepetitionIsStopped
<1>1. ASSUME GuardInv, NEW i \in Tools(trajectory), NEW j \in Tools(trajectory),
             NEW k \in Tools(trajectory),
             Position(trajectory, j) = Position(trajectory, i) + 1,
             Position(trajectory, k) = Position(trajectory, j) + 1,
             Position(trajectory, j) >= Warmup,
             trajectory[i].call = trajectory[j].call, trajectory[j].call = trajectory[k].call,
             (trajectory[j].atoms \cup trajectory[k].atoms) \subseteq Seen(trajectory, j)
      PROVE  verdict # NoVerdict
  <2> DEFINE t == trajectory
  <2>1. t \in Trajectories
    BY <1>1 DEF GuardInv
  <2>2. i \in 1..Len(t) /\ j \in 1..Len(t) /\ k \in 1..Len(t) /\ DOMAIN t = 1..Len(t)
    BY <2>1, BeforeFacts
  <2>3. Position(t, i) \in Nat /\ Position(t, j) \in Nat /\ Position(t, k) \in Nat
    BY <2>1, <2>2, BeforeFacts
  <2> HIDE DEF t
  <2>4. i < j /\ j < k
    <3>1. Position(t, i) < Position(t, j) /\ Position(t, j) < Position(t, k)
      BY <1>1, <2>3 DEF t
    <3>2. i \in Tools(t) /\ j \in Tools(t) /\ k \in Tools(t)
      BY <1>1 DEF t
    <3>3. QED
      BY <2>1, <3>1, <3>2, PositionsGrow
  <2>5. i \in Before(t, j) /\ j \in Before(t, k)
    BY <1>1, <2>4 DEF t, Before
  <2>6. Previous(t, k) = j
    <3>1. /\ Previous(t, k) \in Before(t, k) /\ j <= Previous(t, k)
          /\ Position(t, k) = Position(t, Previous(t, k)) + 1
      BY <2>1, <2>2, <2>5, PreviousIsLast
    <3>2. Previous(t, k) \in Tools(t) /\ Previous(t, k) \in 1..Len(t)
      BY <2>1, <2>2, <3>1, BeforeFacts
    <3>3. Position(t, Previous(t, k)) \in Nat
      BY <2>1, <3>2, BeforeFacts
    <3>4. ~(Position(t, j) < Position(t, Previous(t, k)))
      BY <1>1, <2>3, <3>1, <3>3 DEF t
    <3>5. ~(j < Previous(t, k))
      BY <1>1, <2>1, <3>2, <3>4, PositionsGrow DEF t
    <3>6. QED
      BY <2>2, <3>1, <3>2, <3>5
  <2>7. ASSUME NEW a \in 1..Len(t), NEW b \in Before(t, a), t[a].call = t[b].call,
               Position(t, a) = Position(t, b) + 1, t[a].atoms \subseteq Seen(t, a)
        PROVE  Redundant(t, a)
    <3>1. b \in 1..Len(t) /\ Position(t, b) \in Nat
      BY <2>1, BeforeFacts
    <3>2. b \in Compared(t, a)
      BY <2>7, <3>1, GuardAssumption DEF Compared
    <3>3. t[a].call \in Calls \cup {Other.call}
      <4>1. t[a] \in Events \cup {Other}
        BY <2>1 DEF Trajectories
      <4>2. QED
        BY <4>1 DEF Events
    <3>4. Duplicate(t, a)
      BY <2>7, <3>2, <3>3, SameCallRepeats DEF Duplicate
    <3>5. LowNovelty(t, a)
      <4>1. IsFiniteSet(t[a].atoms)
        BY <2>1, AtomsFinite
      <4>2. Cardinality(t[a].atoms) \in Nat
        BY <4>1, FS_CardinalityType
      <4>3. t[a].atoms \ Seen(t, a) = {}
        BY <2>7
      <4>4. Cardinality(t[a].atoms \ Seen(t, a)) = 0
        BY <4>3, FS_EmptySet
      <4>5. QED
        BY <4>2, <4>4, GuardAssumption DEF LowNovelty
    <3>6. QED
      BY <3>4, <3>5 DEF Redundant
  <2>8. Redundant(t, j)
    BY <1>1, <2>2, <2>5, <2>7 DEF t
  <2>9. Redundant(t, k)
    <3>1. Seen(t, j) \subseteq Seen(t, k)
      BY <2>2, <2>4, BeforeFacts, <2>1 DEF Seen, Before
    <3>2. t[k].atoms \subseteq Seen(t, k)
      BY <1>1, <3>1 DEF t
    <3>3. QED
      BY <1>1, <2>2, <2>5, <2>7, <3>2 DEF t
  <2>10. WarmedUp(t, k)
    BY <1>1, <2>3, GuardAssumption DEF WarmedUp, t
  <2>11. k \in Confirmed(t)
    BY <1>1, <2>6, <2>8, <2>9, <2>10 DEF Confirmed, t
  <2>12. FirstOf(Confirmed(t)) \in 1..Len(t)
    BY <2>1, <2>11, VerdictFacts, ConfirmedFacts
  <2>13. Verdict(t).confirmed # 0
    BY <2>1, <2>11, <2>12, VerdictFacts
  <2>14. QED
    BY <1>1, <2>13 DEF NoVerdict, GuardInv, t
<1>2. GuardInv => RepetitionIsStopped
  BY <1>1 DEF RepetitionIsStopped
<1>3. QED
  BY <1>2, GuardInvariant, PTL

-----------------------------------------------------------------------------
(* Longer trajectories.                                                    *)

LEMMA PrefixIsJudgedAlike ==
  ASSUME NEW t \in Trajectories, NEW e \in Events \cup {Other}
  PROVE  \A i \in 1..Len(t) : i \in Confirmed(Append(t, e)) <=> i \in Confirmed(t)
<1> DEFINE u == Append(t, e)
<1>1. u \in Trajectories /\ Len(u) = Len(t) + 1 /\ Len(t) \in Nat /\ \A i \in 1..Len(t) : u[i] = t[i]
  BY AppendFacts
<1> HIDE DEF u
<1>2. ASSUME NEW i \in 1..Len(t)
      PROVE  /\ i \in Tools(u) <=> i \in Tools(t)
             /\ Before(u, i) = Before(t, i) /\ Position(u, i) = Position(t, i)
             /\ Previous(u, i) = Previous(t, i)
             /\ Seen(u, i) = Seen(t, i)
             /\ LowNovelty(u, i) <=> LowNovelty(t, i)
  <2>1. DOMAIN t = 1..Len(t) /\ DOMAIN u = 1..Len(u)
    BY <1>1, BeforeFacts
  <2>2. Before(u, i) = Before(t, i) /\ (i \in Tools(u) <=> i \in Tools(t))
    BY <1>1, <2>1 DEF Before, Tools
  <2>3. Before(t, i) \subseteq 1..Len(t)
    BY BeforeFacts
  <2>4. Seen(u, i) = Seen(t, i)
    BY <1>1, <2>2, <2>3 DEF Seen
  <2>5. u[i] = t[i]
    BY <1>1
  <2>6. LowNovelty(u, i) <=> LowNovelty(t, i)
    BY <2>4, <2>5 DEF LowNovelty
  <2>7. QED
    BY <2>2, <2>4, <2>6 DEF Position, Previous
<1>3. ASSUME NEW i \in 1..Len(t)
      PROVE  Redundant(u, i) <=> Redundant(t, i)
  <2>1. Before(t, i) \subseteq 1..Len(t)
    BY BeforeFacts
  <2>2. Compared(u, i) = Compared(t, i) /\ Compared(t, i) \subseteq 1..Len(t)
    BY <1>2, <2>1 DEF Compared
  <2>3. Duplicate(u, i) <=> Duplicate(t, i)
    BY <1>1, <2>2 DEF Duplicate
  <2>4. QED
    BY <1>2, <2>3 DEF Redundant
<1>4. ASSUME NEW i \in 1..Len(t)
      PROVE  i \in Confirmed(u) <=> i \in Confirmed(t)
  <2>1. ASSUME NEW v \in {t, u}, Position(v, i) >= Warmup + 1
        PROVE  Previous(t, i) \in 1..Len(t)
    <3>1. Before(t, i) # {}
      <4>1. CASE Before(t, i) = {}
        <5>1. Position(t, i) = 0
          BY <4>1, FS_EmptySet DEF Position
        <5>2. QED
          BY <1>2, <2>1, <5>1, GuardAssumption
      <4>2. QED
        BY <4>1
    <3>2. QED
      BY <3>1, PreviousIsLast
  <2>2. WarmedUp(u, i) <=> WarmedUp(t, i)
    BY <1>2 DEF WarmedUp
  <2>3. CASE WarmedUp(t, i)
    <3> DEFINE j == Previous(t, i)
    <3>1. j \in 1..Len(t)
      BY <2>1, <2>3 DEF WarmedUp
    <3>2. Previous(u, i) = j /\ u[i] = t[i] /\ u[j] = t[j]
      BY <1>1, <1>2, <3>1
    <3> HIDE DEF j
    <3>3. /\ Redundant(u, j) <=> Redundant(t, j)
          /\ LowNovelty(u, j) <=> LowNovelty(t, j)
          /\ Redundant(u, i) <=> Redundant(t, i)
          /\ i \in Tools(u) <=> i \in Tools(t)
      BY <1>2, <1>3, <3>1
    <3>4. QED
      BY <2>2, <2>3, <3>2, <3>3 DEF Confirmed, j
  <2>4. CASE ~WarmedUp(t, i)
    BY <2>2, <2>4 DEF Confirmed
  <2>5. QED
    BY <2>3, <2>4
<1>5. QED
  BY <1>4 DEF u

\* A verdict is not taken back or replaced when assess_trajectory looks at a
\* longer trajectory.
THEOREM VerdictsStand == GuardSpec => VerdictStands
<1>1. ASSUME GuardInv, GuardNext, verdict # NoVerdict
      PROVE  verdict' = verdict
  <2> DEFINE t == trajectory
  <2>1. PICK e \in Events \cup {Other} : GuardedStep(e)
    BY <1>1 DEF GuardNext
  <2>2. /\ trajectory' = Append(t, e) /\ verdict' = Verdict(Append(t, e)) /\ t \in Trajectories
        /\ verdict = Verdict(t)
    BY <1>1, <2>1 DEF GuardedStep, GuardInv
  <2> DEFINE u == Append(t, e)
  <2> HIDE DEF t, u
  <2>3. u \in Trajectories /\ Len(u) = Len(t) + 1 /\ Len(t) \in Nat
    BY <2>2, AppendFacts DEF u
  <2>4. Confirmed(t) # {}
    BY <1>1, <2>2 DEF Verdict
  <2> DEFINE i == FirstOf(Confirmed(t))
  <2> DEFINE k == FirstOf(Confirmed(u))
  <2>5. i \in Confirmed(t) /\ (\A r \in Confirmed(t) : i <= r) /\ i \in 1..Len(t)
    BY <2>2, <2>4, VerdictFacts, ConfirmedFacts
  <2>6. i \in Confirmed(u)
    BY <2>2, <2>5, PrefixIsJudgedAlike DEF u
  <2>7. k \in Confirmed(u) /\ (\A r \in Confirmed(u) : k <= r) /\ k \in 1..Len(u)
    BY <2>3, <2>6, VerdictFacts, ConfirmedFacts
  <2>8. /\ verdict = [from |-> Previous(t, i), confirmed |-> i]
        /\ Verdict(u) = [from |-> Previous(u, k), confirmed |-> k]
    BY <2>2, <2>3, <2>4, <2>6, VerdictFacts
  <2> HIDE DEF i, k
  <2>9. k = i
    <3>1. k <= i /\ k \in 1..Len(t)
      BY <2>3, <2>5, <2>6, <2>7
    <3>2. k \in Confirmed(t)
      BY <2>2, <2>7, <3>1, PrefixIsJudgedAlike DEF u
    <3>3. QED
      BY <2>5, <3>1, <3>2
  <2>10. Previous(u, i) = Previous(t, i)
    <3>1. DOMAIN t = 1..Len(t) /\ DOMAIN u = 1..Len(u) /\ \A r \in 1..Len(t) : u[r] = t[r]
      BY <2>2, <2>3, BeforeFacts, AppendFacts DEF u
    <3>2. Before(u, i) = Before(t, i)
      BY <2>3, <2>5, <3>1 DEF Before, Tools
    <3>3. QED
      BY <3>2 DEF Previous
  <2>11. QED
    BY <2>2, <2>8, <2>9, <2>10 DEF u
<1>2. GuardInv /\ [GuardNext]_guardVars => [verdict # NoVerdict => verdict' = verdict]_guardVars
  BY <1>1
<1>3. QED
  BY <1>2, GuardInvariant, PTL DEF GuardSpec, VerdictStands

-----------------------------------------------------------------------------
(* The navigation planner: its budget and its answers.                     *)

StepRecords == [kind : {"tool", "message", "final"}, paths : BOOLEAN, lines : SUBSET Lines]

\* There is room for the step a run is about to record.
RoomLeft ==
  /\ at \in Working => Len(steps) <= MaxSteps
  /\ at \in {"parse", "invoke"} => Len(steps) < MaxSteps

\* What the ledger holds as resolved was observed in the run.
LedgerGrounded ==
  \A g \in Goals : goals[g].status = "resolved" =>
    goals[g].evidence # {} /\ goals[g].evidence \subseteq LinesIn(DOMAIN steps)

\* An answer that was accepted left no goal open.
AnswerComplete ==
  at = "completed" =>
    /\ setup.strict => PathsIn(DOMAIN steps)
    /\ setup.structured => \A g \in Goals : goals[g].status = "open" => loose

NavInv == NavTypeOK /\ RoomLeft /\ LedgerGrounded /\ AnswerComplete /\ BudgetHeld

\* A step recorded leaves the earlier ones as they are.
LEMMA StepRecorded ==
  ASSUME NavTypeOK, NEW kind \in {"tool", "message", "final"},
         NEW o \in [paths : BOOLEAN, lines : SUBSET Lines], Took(kind, o)
  PROVE  /\ steps' \in Seq(StepRecords) /\ Len(steps') = Len(steps) + 1
         /\ LinesIn(DOMAIN steps) \subseteq LinesIn(DOMAIN steps)'
         /\ PathsIn(DOMAIN steps) => PathsIn(DOMAIN steps)'
<1>1. Step(kind, o) \in StepRecords /\ steps \in Seq(StepRecords)
  BY DEF Step, StepRecords, NavTypeOK
<1>2. steps' = Append(steps, Step(kind, o))
  BY DEF Took
<1>3. steps' \in Seq(StepRecords) /\ Len(steps') = Len(steps) + 1
  BY <1>1, <1>2
<1>4. DOMAIN steps \subseteq DOMAIN steps' /\ \A i \in DOMAIN steps : steps'[i] = steps[i]
  BY <1>1, <1>2, <1>3
<1>5. QED
  BY <1>3, <1>4 DEF LinesIn, PathsIn

LEMMA NothingObserved == Nothing \in [paths : BOOLEAN, lines : SUBSET Lines]
BY DEF Nothing

\* What is visible was observed in the run.
LEMMA VisibleObserved ==
  LinesIn(Visible) \subseteq LinesIn(DOMAIN steps) /\ (PathsIn(Visible) => PathsIn(DOMAIN steps))
BY DEF Visible, LinesIn, PathsIn

\* A call keeps to the budget as long as no backend counts more than asked.
LEMMA AskKeepsBudget ==
  ASSUME NavTypeOK, BudgetHeld, NEW prompt \in Prompts, Ask(prompt)
  PROVE  spent' \in Nat /\ overran' \in BOOLEAN /\ BudgetHeld'
<1>1. PICK n \in Outputs(prompt), x \in 0..Excess :
        spent' = spent + prompt + n + x /\ overran' = (overran \/ x > 0)
  BY DEF Ask
<1>2. n \in Nat /\ prompt + n <= TokenLimit - spent
  BY BudgetAssumption DEF Outputs, TokensLeft
<1>3. spent \in Nat /\ prompt \in Nat /\ x \in Nat /\ TokenLimit \in Nat
  BY BudgetAssumption DEF NavTypeOK
<1>4. overran' \in BOOLEAN
  BY <1>1 DEF NavTypeOK
<1>5. x = 0 => spent' <= TokenLimit
  BY <1>1, <1>2, <1>3
<1>6. x # 0 => x > 0
  BY <1>3
<1>7. x # 0 => overran'
  BY <1>1, <1>6, Zenon
<1>8. QED
  BY <1>1, <1>2, <1>3, <1>4, <1>5, <1>7 DEF BudgetHeld

LEMMA NavInitially == NavInit => NavInv
<1> SUFFICES ASSUME NavInit PROVE NavInv
  OBVIOUS
<1>1. goals \in Ledgers /\ \A g \in Goals : goals[g].status = "open"
  BY DEF NavInit, Ledgers, Entries
<1>2. steps = <<>> /\ steps \in Seq(StepRecords) /\ Len(steps) = 0
  BY DEF NavInit
<1>3. MaxSteps \in Nat /\ TokenLimit \in Nat
  BY BudgetAssumption
<1>4. NavTypeOK
  <2>1. Len(steps) <= MaxSteps + 1
    BY <1>2, <1>3
  <2>2. steps \in Seq([kind : {"tool", "message", "final"}, paths : BOOLEAN, lines : SUBSET Lines])
    BY <1>2 DEF StepRecords
  <2>3. QED
    BY <1>1, <2>1, <2>2 DEF NavInit, NavTypeOK, Working
<1>5. QED
  BY <1>1, <1>2, <1>3, <1>4 DEF NavInit, NavInv, RoomLeft, LedgerGrounded,
     AnswerComplete, BudgetHeld

\* A ledger that is taken is of its type, and grounded in what is visible.
LEMMA LedgerTaken ==
  ASSUME NavInv, NEW ledger \in Offered, TakeLedger(ledger),
         setup.structured => LedgerAccepted(ledger)
  PROVE  /\ goals' \in Ledgers
         /\ \A g \in Goals : goals'[g].status = "resolved" =>
              goals'[g].evidence # {} /\ goals'[g].evidence \subseteq LinesIn(DOMAIN steps)
<1>1. CASE setup.structured
  <2>1. goals' = ledger
    BY <1>1 DEF TakeLedger
  <2>2. QED
    BY <1>1, <2>1, VisibleObserved, OfferedAssumption
    DEF LedgerAccepted, EntryAllowed, EntryObserved
<1>2. CASE ~setup.structured
  BY <1>2 DEF TakeLedger, NavInv, NavTypeOK, LedgerGrounded
<1>3. QED
  BY <1>1, <1>2

\* Steps that record nothing new and leave ledger and budget alone.
LEMMA MovesKeep ==
  ASSUME NavInv, UNCHANGED <<setup, steps, goals, spent, overran, loose>>,
         at' \in Endings \ {"completed"}
  PROVE  NavInv'
<1>1. NavTypeOK' /\ BudgetHeld' /\ LedgerGrounded'
  BY DEF NavInv, NavTypeOK, BudgetHeld, LedgerGrounded, LinesIn
<1>2. RoomLeft' /\ AnswerComplete'
  BY DEF RoomLeft, AnswerComplete, Endings, Working
<1>3. QED
  BY <1>1, <1>2 DEF NavInv

\* Steps that record something and leave the ledger alone.
LEMMA RecordingKeeps ==
  ASSUME NavInv, at \in Working, UNCHANGED <<setup, goals>>, BudgetHeld',
         spent' \in Nat, overran' \in BOOLEAN, loose' \in BOOLEAN,
         NEW kind \in {"tool", "message", "final"},
         NEW o \in [paths : BOOLEAN, lines : SUBSET Lines], Took(kind, o),
         \/ at' \in Endings \ {"completed"}
         \/ at \in {"parse", "invoke"} /\ at' \in {"plan", "finalize"}
  PROVE  NavInv'
<1>1. /\ steps' \in Seq(StepRecords) /\ Len(steps') = Len(steps) + 1
      /\ LinesIn(DOMAIN steps) \subseteq LinesIn(DOMAIN steps)'
  BY StepRecorded DEF NavInv
<1>2. Len(steps) \in Nat /\ Len(steps) <= MaxSteps /\ (at \in {"parse", "invoke"} => Len(steps) < MaxSteps)
  BY DEF NavInv, NavTypeOK, RoomLeft
<1>3. RoomLeft' /\ Len(steps') <= MaxSteps + 1
  BY <1>1, <1>2, BudgetAssumption DEF RoomLeft, Endings, Working
<1>4. at' \in Working \cup Endings /\ at' # "completed"
  BY DEF Working, Endings
<1>5. NavTypeOK'
  BY <1>1, <1>3, <1>4 DEF NavInv, NavTypeOK, StepRecords
<1>6. LedgerGrounded' /\ AnswerComplete'
  BY <1>1, <1>4 DEF NavInv, LedgerGrounded, AnswerComplete
<1>7. QED
  BY <1>3, <1>5, <1>6 DEF NavInv

LEMMA AcceptToolKeeps ==
  ASSUME NavInv, NEW ledger \in Offered, NEW serves, NEW spelled, AcceptTool(ledger, serves, spelled)
  PROVE  NavInv'
<1>1. goals' \in Ledgers /\ LedgerGrounded'
  BY LedgerTaken DEF AcceptTool, LedgerGrounded, LinesIn
<1>2. NavTypeOK' /\ RoomLeft' /\ AnswerComplete' /\ BudgetHeld'
  BY <1>1 DEF AcceptTool, NavInv, NavTypeOK, RoomLeft, AnswerComplete, BudgetHeld, Working
<1>3. QED
  BY <1>1, <1>2 DEF NavInv

LEMMA AcceptFinalKeeps ==
  ASSUME NavInv, NEW ledger \in Offered, NEW spelled \in BOOLEAN, AcceptFinal(ledger, spelled)
  PROVE  NavInv'
<1>1. /\ steps' \in Seq(StepRecords) /\ Len(steps') = Len(steps) + 1
      /\ LinesIn(DOMAIN steps) \subseteq LinesIn(DOMAIN steps)'
      /\ PathsIn(DOMAIN steps) => PathsIn(DOMAIN steps)'
  BY StepRecorded, NothingObserved DEF NavInv, AcceptFinal
<1>2. goals' \in Ledgers /\ LedgerGrounded'
  BY <1>1, LedgerTaken DEF AcceptFinal, LedgerGrounded
<1>3. AnswerComplete'
  <2>1. setup'.strict => PathsIn(DOMAIN steps)'
    BY <1>1, VisibleObserved DEF AcceptFinal
  <2>2. setup'.structured => \A g \in Goals : goals'[g].status = "open" => loose'
    BY DEF AcceptFinal, TakeLedger, OpenIn
  <2>3. QED
    BY <2>1, <2>2 DEF AnswerComplete
<1>4. NavTypeOK' /\ RoomLeft' /\ BudgetHeld'
  <2>1. Len(steps) \in Nat /\ Len(steps) < MaxSteps /\ MaxSteps \in Nat
    BY BudgetAssumption DEF NavInv, NavTypeOK, RoomLeft, AcceptFinal
  <2>2. QED
    BY <1>1, <1>2, <2>1 DEF AcceptFinal, NavInv, NavTypeOK, RoomLeft, BudgetHeld, Working, Endings,
       StepRecords
<1>5. QED
  BY <1>2, <1>3, <1>4 DEF NavInv

LEMMA PromptStepKeeps ==
  ASSUME NavInv, NEW prompt \in Prompts,
         AskForAction(prompt) \/ BudgetStop(prompt) \/ Finalize(prompt) \/ FinalizeUnavailable(prompt)
  PROVE  NavInv'
<1>1. CASE AskForAction(prompt)
  <2>1. spent' \in Nat /\ overran' \in BOOLEAN /\ BudgetHeld'
    BY <1>1, AskKeepsBudget DEF AskForAction, NavInv
  <2>2. NavTypeOK' /\ RoomLeft' /\ LedgerGrounded' /\ AnswerComplete'
    BY <1>1, <2>1 DEF AskForAction, NavInv, NavTypeOK, RoomLeft, LedgerGrounded, AnswerComplete,
       Working, LinesIn
  <2>3. QED
    BY <2>1, <2>2 DEF NavInv
<1>2. CASE BudgetStop(prompt)
  <2>1. at \in Working /\ at' \in Endings \ {"completed"}
    BY <1>2 DEF BudgetStop, Working, Endings
  <2>2. spent' \in Nat /\ overran' \in BOOLEAN /\ loose' \in BOOLEAN /\ BudgetHeld'
    BY <1>2 DEF BudgetStop, NavInv, NavTypeOK, BudgetHeld
  <2>3. QED
    BY <1>2, <2>1, <2>2, RecordingKeeps, NothingObserved DEF BudgetStop
<1>3. CASE Finalize(prompt)
  <2>1. at \in Working /\ at' \in Endings \ {"completed"}
    BY <1>3 DEF Finalize, Working, Endings
  <2>2. spent' \in Nat /\ overran' \in BOOLEAN /\ loose' \in BOOLEAN /\ BudgetHeld'
    BY <1>3, AskKeepsBudget DEF Finalize, NavInv, NavTypeOK
  <2>3. QED
    BY <1>3, <2>1, <2>2, RecordingKeeps, NothingObserved DEF Finalize
<1>4. CASE FinalizeUnavailable(prompt)
  <2>1. at \in Working /\ at' \in Endings \ {"completed"}
    BY <1>4 DEF FinalizeUnavailable, Working, Endings
  <2>2. spent' \in Nat /\ overran' \in BOOLEAN /\ loose' \in BOOLEAN /\ BudgetHeld'
    BY <1>4 DEF FinalizeUnavailable, NavInv, NavTypeOK, BudgetHeld
  <2>3. QED
    BY <1>4, <2>1, <2>2, RecordingKeeps, NothingObserved DEF FinalizeUnavailable
<1>5. QED
  BY <1>1, <1>2, <1>3, <1>4

LEMMA NavStep == NavInv /\ [NavNext]_navVars => NavInv'
<1> SUFFICES ASSUME NavInv, [NavNext]_navVars PROVE NavInv'
  OBVIOUS
<1>1. CASE Reject
  <2>1. spent' \in Nat /\ overran' \in BOOLEAN /\ loose' \in BOOLEAN /\ BudgetHeld'
    BY <1>1 DEF Reject, NavInv, NavTypeOK, BudgetHeld
  <2>2. QED
    BY <1>1, <2>1, RecordingKeeps, NothingObserved DEF Reject, Working
<1>2. ASSUME NEW o \in Observations, Invoke(o)
      PROVE  NavInv'
  <2>1. spent' \in Nat /\ overran' \in BOOLEAN /\ loose' \in BOOLEAN /\ BudgetHeld'
    BY <1>2 DEF Invoke, NavInv, NavTypeOK, BudgetHeld
  <2>2. at \in Working /\ at = "invoke" /\ at' \in {"plan", "finalize"}
    BY <1>2 DEF Invoke, Working
  <2>3. o \in [paths : BOOLEAN, lines : SUBSET Lines]
    BY ObservationsAssumption
  <2>4. QED
    BY <1>2, <2>1, <2>2, <2>3, RecordingKeeps DEF Invoke
<1>3. CASE EngineRaises \/ StepsUsedUp \/ Interrupt
  BY <1>3, MovesKeep DEF EngineRaises, StepsUsedUp, Interrupt, Endings
<1>4. CASE UNCHANGED navVars
  BY <1>4 DEF navVars, NavInv, NavTypeOK, RoomLeft, LedgerGrounded, AnswerComplete, BudgetHeld,
     LinesIn, PathsIn
<1>5. QED
  BY <1>1, <1>2, <1>3, <1>4, PromptStepKeeps, AcceptToolKeeps, AcceptFinalKeeps DEF NavNext

LEMMA NavInvariant == NavSpec => []NavInv
BY NavInitially, NavStep, PTL DEF NavSpec

\* The run of a navigation planner, its steps, its ledger and its budget keep
\* their types.
THEOREM NavTypeCorrect == NavSpec => []NavTypeOK
BY NavInvariant, PTL DEF NavInv

\* An answer is accepted only when something was observed, where that is
\* asked for, and with every goal settled on what the run observed.
THEOREM AnswersAreSettled == NavSpec => []AnswersSettled
<1>1. NavInv => AnswersSettled
  BY DEF NavInv, LedgerGrounded, AnswerComplete, AnswersSettled
<1>2. QED
  BY <1>1, NavInvariant, PTL

\* The calls of a run, the guard's finalization included, keep to the
\* cumulative budget unless a backend counts more than it was asked for.
THEOREM BudgetIsHeld == NavSpec => []BudgetHeld
BY NavInvariant, PTL DEF NavInv
=============================================================================
