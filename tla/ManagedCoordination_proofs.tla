--------------------- MODULE ManagedCoordination_proofs ---------------------
(***************************************************************************)
(* Proofs about ManagedCoordination for any number of processes, owners,   *)
(* paths and scopes.  Every managed step is a step of PatchLeases, so what *)
(* PatchLeases_proofs shows carries over; what the gate and the mailbox    *)
(* rely on stays leased until a process of the same owner releases it.     *)
(***************************************************************************)
EXTENDS ManagedCoordination, PatchLeases_proofs

-----------------------------------------------------------------------------
(* Managed steps are steps of the leases.                                  *)

ManagedActions(p) ==
  \/ ReplaceText(p) \/ ReleaseTool(p) \/ ReservePaths(p) \/ ReleasePaths(p)
  \/ Step(p) /\ UNCHANGED frame
  \/ GateOpens(p) \/ GateCloses(p) \/ WriteEnds(p) \/ ToolReturns(p)
  \/ ReserveNext(p) \/ ReserveView(p) \/ ReserveRaises(p) \/ ReserveReturns(p)
  \/ ReleaseEnds(p) \/ ReleaseView(p) \/ ReleaseReturns(p)
  \/ Die(p) \/ Revive(p)

LEMMA ManagedCases == ManagedNext => \E p \in Procs : ManagedActions(p)
BY DEF ManagedNext, ManagedActions, Start, Continue

\* A call begins with raw paths and a scope.
LEMMA BeginIsNext ==
  ASSUME ManagedTypeOK, NEW p \in Procs, NEW kind \in {"acquire", "release"},
         NEW S \in SUBSET RawPaths, NEW s \in Scopes, Begin(p, kind, S, s)
  PROVE  Next
BY DEF Next, BeginAny, RawPaths

\* The scope of a running reserve_paths is the one it was given.
ScopesGiven ==
  \A p \in Procs : frame[p].fn \in {"reserve", "reserving"} => frame[p].scope \in Scopes

LEMMA ManagedStepsAreLeaseSteps ==
  ManagedTypeOK /\ ScopesGiven /\ [ManagedNext]_mvars => [Next]_vars
<1> SUFFICES ASSUME ManagedTypeOK, ScopesGiven, ManagedNext
             PROVE  [Next]_vars
  BY DEF mvars, vars
<1>1. PICK p \in Procs : ManagedActions(p)
  BY ManagedCases
<1>2. CASE ReplaceText(p)
  BY <1>2, BeginIsNext, ToolScopeAssumption DEF ReplaceText, RawPaths
<1>3. CASE ReleaseTool(p) \/ ReleasePaths(p)
  BY <1>3, BeginIsNext, ToolScopeAssumption DEF ReleaseTool, ReleasePaths, RawPaths
<1>4. CASE ReserveNext(p)
  <2>1. PICK x \in frame[p].todo : Begin(p, "acquire", {x}, frame[p].scope)
    BY <1>4 DEF ReserveNext
  <2>2. frame[p].scope \in Scopes /\ frame[p].todo \subseteq RawPaths
    BY <1>4 DEF ReserveNext, In, ScopesGiven, ManagedTypeOK, Frame
  <2>3. QED
    BY <2>1, <2>2, BeginIsNext
<1>5. CASE GateOpens(p) \/ GateCloses(p) \/ ToolReturns(p) \/ ReserveView(p)
           \/ ReserveRaises(p) \/ ReleaseEnds(p)
  BY <1>5 DEF GateOpens, GateCloses, ToolReturns, ReserveView, ReserveRaises, ReleaseEnds,
              Ended, Next
<1>6. CASE ReservePaths(p) \/ WriteEnds(p) \/ ReserveReturns(p) \/ ReleaseView(p)
           \/ ReleaseReturns(p)
  BY <1>6 DEF ReservePaths, WriteEnds, ReserveReturns, ReleaseView, ReleaseReturns
<1>7. CASE Step(p) \/ Die(p) \/ Revive(p)
  BY <1>7 DEF Die, Revive, Next
<1>8. QED
  BY <1>1, <1>2, <1>3, <1>4, <1>5, <1>6, <1>7 DEF ManagedActions

-----------------------------------------------------------------------------
(* Types of the frames.                                                    *)

\* Looking at a record gives a reservation.
LEMMA ViewType ==
  ASSUME TypeOK, NEW p \in Procs, NEW x \in RawPaths,
         NEW st \in {"active", "conflict", "released"}
  PROVE  View(p, x, st) \in Reservation
<1>1. OwnerOf[p] \in Owners
  BY OwnersAssumption
<1>2. x # RootPath => leases[x].owner \in Owners \cup {NoOwner}
  BY DEF TypeOK, RawPaths, LeaseFile, LeaseRecord, Absent
<1>3. View(p, x, st).holder \in Owners \cup {NoOwner}
  BY <1>1, <1>2 DEF View
<1>4. QED
  BY <1>3 DEF View, Reservation

FramesTyped == frame \in [Procs -> Frame] /\ ScopesGiven

\* One process' frame is replaced by another frame.
LEMMA FrameReplaced ==
  ASSUME FramesTyped, NEW p \in Procs, NEW r \in Frame,
         r.fn \in {"reserve", "reserving"} => r.scope \in Scopes,
         frame' = [frame EXCEPT ![p] = r]
  PROVE  FramesTyped'
BY DEF FramesTyped, ScopesGiven

LEMMA FrameStep == TypeOK /\ TypeOK' /\ FramesTyped /\ [ManagedNext]_mvars => FramesTyped'
<1> SUFFICES ASSUME TypeOK, TypeOK', FramesTyped, [ManagedNext]_mvars
             PROVE  FramesTyped'
  OBVIOUS
<1> USE DEF FramesTyped, ScopesGiven, Frame, Idle, In
<1>1. CASE UNCHANGED mvars
  BY <1>1 DEF mvars
<1>2. ASSUME NEW p \in Procs, ManagedActions(p)
      PROVE  FramesTyped'
  <2>1. CASE ReplaceText(p) \/ ReleaseTool(p) \/ ReservePaths(p) \/ ReleasePaths(p)
    <3>1. PICK fn \in {"gate", "release_tool", "reserve", "release_paths"},
               S \in SUBSET RawPaths, x \in RawPaths, s \in Scopes : Enter(p, fn, S, x, s)
      BY <2>1, ToolScopeAssumption
      DEF ReplaceText, ReleaseTool, ReservePaths, ReleasePaths, RawPaths
    <3>2. QED
      BY <3>1, FrameReplaced DEF Enter
  <2>2. CASE GateOpens(p)
    BY <2>2 DEF GateOpens, Ended
  <2>3. CASE ReserveNext(p)
    BY <2>3 DEF ReserveNext
  <2>4. CASE ReserveView(p)
    <3>1. PICK st \in {"active", "conflict"} :
            frame' = [frame EXCEPT ![p].fn = "reserve", ![p].item = RootPath,
                                   ![p].seen = @ \cup {View(p, frame[p].item, st)}]
      BY <2>4 DEF ReserveView
    <3>2. View(p, frame[p].item, st) \in Reservation
      BY ViewType
    <3>3. frame[p].scope \in Scopes
      BY <2>4 DEF ReserveView, Ended
    <3>4. [frame[p] EXCEPT !.fn = "reserve", !.item = RootPath,
                           !.seen = @ \cup {View(p, frame[p].item, st)}] \in Frame
      BY <3>2 DEF RawPaths
    <3>5. QED
      BY <3>1, <3>3, <3>4, FrameReplaced
  <2>5. CASE ReleaseEnds(p) /\ ~Leave(p)
    <3>1. frame' = [frame EXCEPT ![p].fn = "viewing", ![p].todo = answer[p].released]
      BY <2>5 DEF ReleaseEnds
    <3>2. answer[p].released \in SUBSET RawPaths
      BY DEF TypeOK, AnswerRecord, RawPaths
    <3>3. QED
      BY <3>1, <3>2
  <2>6. CASE ReleaseView(p)
    <3>1. PICK x \in frame[p].todo :
            frame' = [frame EXCEPT ![p].todo = @ \ {x},
                                   ![p].seen = @ \cup {View(p, x, "released")}]
      BY <2>6 DEF ReleaseView
    <3>2. View(p, x, "released") \in Reservation
      BY ViewType
    <3>3. frame[p].fn = "viewing"
      BY <2>6 DEF ReleaseView
    <3>4. QED
      BY <3>1, <3>2, <3>3
  <2>7. CASE Leave(p)
    BY <2>7 DEF Leave, RawPaths
  <2>8. CASE UNCHANGED frame
    BY <2>8
  <2>9. QED
    BY <1>2, <2>1, <2>2, <2>3, <2>4, <2>5, <2>6, <2>7, <2>8
    DEF ManagedActions, GateCloses, WriteEnds, ToolReturns, ReserveRaises, ReserveReturns,
        ReleaseReturns, Die, Revive
<1>3. QED
  BY <1>1, <1>2, ManagedCases

ManagedBase == SafeInv /\ FramesTyped

LEMMA ManagedBaseStep == ManagedBase /\ [ManagedNext]_mvars => ManagedBase' /\ [Next]_vars
<1> SUFFICES ASSUME ManagedBase, [ManagedNext]_mvars
             PROVE  ManagedBase' /\ [Next]_vars
  OBVIOUS
<1>1. [Next]_vars
  BY ManagedStepsAreLeaseSteps DEF ManagedBase, SafeInv, FramesTyped, ManagedTypeOK
<1>2. SafeInv'
  BY <1>1, NextType, LockStep, FreshStep, DisciplineStep DEF ManagedBase, SafeInv
<1>3. QED
  BY <1>1, <1>2, FrameStep DEF ManagedBase, SafeInv

LEMMA ManagedBaseInit == ManagedInit => ManagedBase
<1> SUFFICES ASSUME ManagedInit
             PROVE  ManagedBase
  OBVIOUS
<1>1. SafeInv
  BY ProcsAssumption
  DEF ManagedInit, SafeInv, Init, CallDiscipline, TypeOK, LockExclusive, NoLostUpdate, Critical,
      LeaseFile, NoTable, LeaseRecord, NoCall, CallRecord, NoAnswer, AnswerRecord, Place
<1>2. FramesTyped
  BY DEF ManagedInit, FramesTyped, ScopesGiven, Frame, Idle, RawPaths
<1>3. QED
  BY <1>1, <1>2 DEF ManagedBase

\* Gates, writers, reservations and releases keep their shape.
THEOREM ManagedTypeCorrect == ManagedSpec => []ManagedTypeOK
<1>1. ManagedBase => ManagedTypeOK
  BY DEF ManagedBase, ManagedTypeOK, SafeInv, FramesTyped
<1>2. QED
  BY <1>1, ManagedBaseInit, ManagedBaseStep, PTL DEF ManagedSpec

\* The runtimes and the mailbox use the leases as the leases allow: whatever
\* holds of PatchLeases holds of them.
THEOREM ManagedUsesLeases == ManagedSpec => Spec
<1>1. ManagedInit => Init
  BY DEF ManagedInit
<1>2. QED
  BY <1>1, ManagedBaseInit, ManagedBaseStep, PTL DEF ManagedSpec, Spec

\* So no managed operation ever takes an active lease from its owner.
THEOREM ManagedNeverSteals == ManagedSpec => NeverStolen
BY ManagedUsesLeases, LeasesAreNeverStolen

\* And to the runtimes and the mailbox the lock files look like one table on
\* which each of their acquires and releases is a single step.
THEOREM ManagedSeesTable == ManagedSpec => ImplementsLeaseTable
BY ManagedUsesLeases, LeasesImplementTable

-----------------------------------------------------------------------------
(* What was granted stays, or is released in its owner's name.             *)

\* Where a process is inside its lease call, by what it is executing.
FramesTied ==
  \A p \in Procs :
    /\ frame[p].fn \in {"writing", "reserve"} => pc[p] = "idle"
    /\ frame[p].fn \in {"gate", "reserving"} =>
         /\ pc[p] \notin {"idle", "crashed"}
         /\ call[p].kind = "acquire"
         /\ call[p].paths = Normalized({frame[p].item})
    /\ frame[p].fn \in {"gate", "writing"} => frame[p].item \in Paths

\* A step of a call that runs on changes neither the call nor its being one.
LEMMA StepKeepsCall ==
  ASSUME TypeOK, NEW p \in Procs, NEW q \in Procs, Step(p)
  PROVE  /\ call' = call
         /\ q # p => pc'[q] = pc[q]
         /\ pc[p] \notin {"idle", "crashed"} /\ pc'[p] \notin {"idle", "crashed"}
BY DEF TypeOK, Step, TryLock, LockTimeout, Load, LoadFails, Deny, Stage, Replace, SaveFails,
       Unlock, Goto

LEMMA TiedStep ==
  ManagedBase /\ ManagedBase' /\ FramesTied /\ [ManagedNext]_mvars => FramesTied'
<1> SUFFICES ASSUME ManagedBase, ManagedBase', FramesTied, [ManagedNext]_mvars
             PROVE  FramesTied'
  OBVIOUS
<1> USE DEF ManagedBase, FramesTyped, SafeInv, TypeOK, FramesTied
<1>1. CASE UNCHANGED mvars
  BY <1>1 DEF mvars
<1>2. ASSUME NEW p \in Procs, ManagedActions(p)
      PROVE  FramesTied'
  <2>0. Idle.fn = "idle"
    BY DEF Idle
  <2>1. CASE ReplaceText(p)
    <3>1. PICK x \in Paths : Begin(p, "acquire", {x}, ToolScope)
                             /\ Enter(p, "gate", {}, x, ToolScope)
      BY <2>1 DEF ReplaceText
    <3>2. QED
      BY <3>1, <2>0 DEF Begin, Enter, Goto
  <2>2. CASE ReleaseTool(p) \/ ReleasePaths(p)
    <3>1. PICK fn \in {"release_tool", "release_paths"}, S \in SUBSET RawPaths, x \in RawPaths :
            Begin(p, "release", S, ToolScope) /\ Enter(p, fn, {}, x, ToolScope)
      BY <2>2 DEF ReleaseTool, ReleasePaths, RawPaths
    <3>2. QED
      BY <3>1, <2>0 DEF Begin, Enter, Goto
  <2>3. CASE ReservePaths(p)
    BY <2>3, <2>0 DEF ReservePaths, Enter, vars
  <2>4. CASE Step(p) /\ UNCHANGED frame
    BY <2>4, StepKeepsCall
  <2>5. CASE GateOpens(p)
    BY <2>5 DEF GateOpens, Ended, Return, Goto, In, Frame
  <2>6. CASE ReserveNext(p)
    <3>1. PICK x \in frame[p].todo :
            /\ Begin(p, "acquire", {x}, frame[p].scope)
            /\ frame' = [frame EXCEPT ![p].fn = "reserving", ![p].item = x, ![p].todo = @ \ {x}]
      BY <2>6 DEF ReserveNext
    <3>2. frame'[p].fn = "reserving" /\ frame'[p].item = x
      BY <3>1 DEF Frame
    <3>3. QED
      BY <3>1, <3>2 DEF Begin, Goto
  <2>7. CASE ReserveView(p)
    <3>1. Return(p) /\ \A q \in Procs \ {p} : frame'[q] = frame[q]
      BY <2>7 DEF ReserveView, Ended
    <3>2. frame'[p].fn = "reserve"
      BY <2>7 DEF ReserveView, Frame
    <3>3. QED
      BY <3>1, <3>2 DEF Return, Goto
  <2>8. CASE ReleaseEnds(p) /\ ~Leave(p)
    <3>1. Return(p) /\ \A q \in Procs \ {p} : frame'[q] = frame[q]
      BY <2>8 DEF ReleaseEnds, Ended
    <3>2. frame'[p].fn = "viewing"
      BY <2>8 DEF ReleaseEnds, Frame
    <3>3. QED
      BY <3>1, <3>2 DEF Return, Goto
  <2>9. CASE ReleaseView(p)
    <3>1. UNCHANGED vars /\ \A q \in Procs \ {p} : frame'[q] = frame[q]
      BY <2>9 DEF ReleaseView
    <3>2. frame'[p].fn = "viewing"
      BY <2>9 DEF ReleaseView, Frame, In
    <3>3. QED
      BY <3>1, <3>2 DEF vars
  <2>10. CASE Leave(p) /\ (Return(p) \/ Crash(p) \/ UNCHANGED vars)
    <3>1. frame'[p].fn = "idle" /\ \A q \in Procs \ {p} : frame'[q] = frame[q]
      BY <2>10, <2>0 DEF Leave
    <3>2. QED
      BY <2>10, <3>1 DEF Return, Crash, Goto, vars
  <2>11. CASE Revive(p)
    BY <2>11 DEF Revive, Restart, Goto
  <2>12. QED
    BY <1>2, <2>1, <2>2, <2>3, <2>4, <2>5, <2>6, <2>7, <2>8, <2>9, <2>10, <2>11
    DEF ManagedActions, GateCloses, WriteEnds, ToolReturns, ReserveRaises, ReserveReturns,
        ReleaseEnds, ReleaseReturns, Die, Ended
<1>3. QED
  BY <1>1, <1>2, ManagedCases

\* A path that p's owner holds is lost only to a release in its name.
LEMMA LostByColleague ==
  ASSUME SafeInv, [Next]_vars, NEW p \in Procs, NEW x \in Paths,
         ~(Replace(p) /\ call[p].kind = "release")
  PROVE  HeldBy(leases', OwnerOf[p], x) \/ ~HeldBy(leases, OwnerOf[p], x) \/ GivenUp(p, x)
<1>1. SUFFICES ASSUME HeldBy(leases, OwnerOf[p], x), ~HeldBy(leases', OwnerOf[p], x)
               PROVE  GivenUp(p, x)
  OBVIOUS
<1>2. leases[x].status = "active" /\ leases[x].owner = OwnerOf[p]
  BY <1>1 DEF HeldBy
<1>3. PICK q \in Procs :
        /\ Replace(q) /\ call[q].kind = "release" /\ x \in call[q].paths
        /\ OwnerOf[q] = OwnerOf[p]
  BY <1>1, <1>2, KeptStep DEF LeaseKept
<1>4. QED
  BY <1>3 DEF GivenUp

\* A call is granted while its owner holds what it asked for, or was granted
\* before.
LEMMA GrantedStep ==
  ASSUME SafeInv, SafeInv', AnswerGrounded', [Next]_vars, NEW p \in Procs, NEW x \in GrantedTo(p)'
  PROVE  HeldBy(leases', OwnerOf[p], x) \/ (x \in GrantedTo(p) /\ ~Replace(p))
<1>1. /\ pc'[p] \in {"unlocking", "done"} /\ answer'[p].status = "active" /\ x \in call'[p].paths
  BY DEF GrantedTo
<1>2. CASE pc'[p] = "unlocking"
  BY <1>1, <1>2 DEF AnswerGrounded
<1>3. CASE pc'[p] = "done"
  <2>1. pc[p] \in {"unlocking", "done"} /\ answer[p] = answer'[p] /\ call[p] = call'[p]
        /\ ~Replace(p)
    BY <1>1, <1>3 DEF SafeInv, TypeOK, Next, BeginAny, Begin, Step, TryLock, LockTimeout, Load,
       LoadFails, Deny, Stage, Replace, SaveFails, Unlock, Return, Crash, Restart, vars, Goto,
       Raised
  <2>2. QED
    BY <1>1, <2>1 DEF GrantedTo
<1>4. QED
  BY <1>1, <1>2, <1>3

HeldInv == ManagedBase /\ FramesTied /\ AnswerGrounded

\* A step changes one frame; what it may turn it into.
LEMMA FrameChange ==
  ASSUME TypeOK, FramesTyped, NEW p \in Procs, NEW q \in Procs, ManagedActions(q),
         frame'[p] # frame[p]
  PROVE  /\ ManagedActions(p)
         /\ frame'[p].fn \in {"gate", "reserving"} => pc'[p] = "locking"
         /\ frame'[p].fn = "writing" => GateOpens(p)
         /\ frame'[p].fn = "reserve" => ReserveView(p) \/ frame'[p].seen = {}
         /\ frame'[p].fn = "reserving" => frame[p].fn = "reserve" /\ frame'[p].seen = frame[p].seen
<1> USE DEF FramesTyped, Frame
<1>0. Idle.fn = "idle"
  BY DEF Idle
<1>1. CASE ReplaceText(q) \/ ReleaseTool(q) \/ ReservePaths(q) \/ ReleasePaths(q)
  <2>1. PICK fn \in {"gate", "release_tool", "reserve", "release_paths"},
             S \in SUBSET RawPaths, x \in RawPaths, s \in Scopes : Enter(q, fn, S, x, s)
    BY <1>1, ToolScopeAssumption
    DEF ReplaceText, ReleaseTool, ReservePaths, ReleasePaths, RawPaths
  <2>2. p = q
    BY <2>1 DEF Enter
  <2>3. frame'[p].fn = fn /\ frame'[p].seen = {}
    BY <2>1, <2>2 DEF Enter
  <2>4. fn = "gate" => pc'[p] = "locking"
    <3>1. ASSUME NEW other, NEW T, NEW y, NEW w, Enter(q, other, T, y, w)
          PROVE  fn = other
      BY <2>2, <2>3, <3>1 DEF Enter
    <3>2. fn = "gate" => ReplaceText(q)
      BY <1>1, <3>1 DEF ReleaseTool, ReservePaths, ReleasePaths
    <3>3. ReplaceText(q) => pc'[q] = "locking"
      BY DEF ReplaceText, Begin, Goto, TypeOK
    <3>4. QED
      BY <2>2, <3>2, <3>3
  <2>5. ManagedActions(p)
    BY <2>2
  <2>6. QED
    BY <2>1, <2>3, <2>4, <2>5
<1>2. CASE GateOpens(q)
  <2>1. p = q
    BY <1>2 DEF GateOpens
  <2>2. frame'[p].fn = "writing"
    BY <1>2, <2>1 DEF GateOpens
  <2>3. QED
    BY <1>2, <2>1, <2>2 DEF ManagedActions
<1>3. CASE ReserveNext(q)
  <2>1. p = q
    BY <1>3 DEF ReserveNext
  <2>2. /\ frame'[p].fn = "reserving" /\ frame'[p].seen = frame[p].seen /\ frame[p].fn = "reserve"
        /\ pc'[p] = "locking"
    BY <1>3, <2>1 DEF ReserveNext, In, Begin, Goto, TypeOK
  <2>3. QED
    BY <1>3, <2>1, <2>2 DEF ManagedActions
<1>4. CASE ReserveView(q)
  <2>1. p = q
    BY <1>4 DEF ReserveView
  <2>2. frame'[p].fn = "reserve"
    BY <1>4, <2>1 DEF ReserveView
  <2>3. QED
    BY <1>4, <2>1, <2>2 DEF ManagedActions
<1>5. CASE Leave(q)
  <2>1. p = q
    BY <1>5 DEF Leave
  <2>2. frame'[p].fn = "idle"
    BY <1>0, <1>5, <2>1 DEF Leave
  <2>3. QED
    BY <2>1, <2>2
<1>6. CASE ReleaseEnds(q) /\ ~Leave(q)
  <2>1. p = q
    BY <1>6 DEF ReleaseEnds
  <2>2. frame'[p].fn = "viewing"
    BY <1>6, <2>1 DEF ReleaseEnds
  <2>3. QED
    BY <1>6, <2>1, <2>2 DEF ManagedActions
<1>7. CASE ReleaseView(q)
  <2>1. p = q
    BY <1>7 DEF ReleaseView
  <2>2. frame'[p].fn = "viewing"
    BY <1>7, <2>1 DEF ReleaseView, In
  <2>3. QED
    BY <1>7, <2>1, <2>2 DEF ManagedActions
<1>8. ~UNCHANGED frame
  OBVIOUS
<1>9. GateCloses(q) \/ WriteEnds(q) \/ ToolReturns(q) \/ ReserveRaises(q) \/ ReserveReturns(q)
      \/ ReleaseReturns(q) \/ Die(q) => Leave(q)
  BY DEF GateCloses, WriteEnds, ToolReturns, ReserveRaises, ReserveReturns, ReleaseReturns, Die
<1>10. QED
  BY <1>1, <1>2, <1>3, <1>4, <1>5, <1>6, <1>7, <1>8, <1>9 DEF ManagedActions, Revive

LEMMA GrantsArePaths ==
  ASSUME TypeOK, NEW p \in Procs
  PROVE  GrantedTo(p) \subseteq Paths
BY DEF GrantedTo, TypeOK, CallRecord

LEMMA WriterStep ==
  ASSUME HeldInv, HeldInv', [Next]_vars, [ManagedNext]_mvars, NEW p \in Procs
  PROVE  Relied(p, Written(p), Written(p)')
<1> SUFFICES ASSUME NEW x \in Written(p)'
             PROVE  \/ HeldBy(leases', OwnerOf[p], x)
                    \/ x \in Written(p) /\ (~HeldBy(leases, OwnerOf[p], x) \/ GivenUp(p, x))
  BY DEF Relied
<1>0. TypeOK /\ TypeOK' /\ FramesTyped /\ SafeInv /\ SafeInv' /\ AnswerGrounded' /\ FramesTied
  BY DEF HeldInv, ManagedBase, SafeInv
<1>1. HeldBy(leases', OwnerOf[p], x) \/ (x \in Written(p) /\ x \in Paths /\ ~Replace(p))
  <2>1. CASE frame'[p] = frame[p] /\ In(p, "writing")
    BY <1>0, <2>1 DEF Written, In, FramesTied, Replace
  <2>2. CASE frame'[p] = frame[p] /\ ~In(p, "writing")
    <3>1. In(p, "gate") /\ x \in GrantedTo(p)'
      BY <2>2 DEF Written, In
    <3>2. HeldBy(leases', OwnerOf[p], x) \/ (x \in GrantedTo(p) /\ ~Replace(p))
      BY <1>0, <3>1, GrantedStep
    <3>3. QED
      BY <1>0, <2>2, <3>1, <3>2, GrantsArePaths DEF Written
  <2>3. CASE frame'[p] # frame[p]
    <3>1. PICK q \in Procs : ManagedActions(q)
      BY <2>3, ManagedCases DEF mvars
    <3>2. frame'[p].fn = "writing" /\ x = frame'[p].item
      <4>1. frame'[p].fn = "gate" => pc'[p] = "locking"
        BY <1>0, <2>3, <3>1, FrameChange
      <4>2. QED
        BY <4>1 DEF Written, In, GrantedTo
    <3>3. GateOpens(p)
      BY <1>0, <2>3, <3>1, <3>2, FrameChange
    <3>4. /\ frame[p].fn = "gate" /\ answer[p].status = "active" /\ pc[p] = "done"
          /\ frame'[p].item = frame[p].item
      BY <1>0, <3>3 DEF GateOpens, Ended, In, Return, FramesTyped, Frame
    <3>5. call[p].paths = {frame[p].item} /\ frame[p].item \in Paths
      BY <1>0, <3>4, PathsAssumption DEF FramesTied, Normalized
    <3>6. QED
      BY <3>2, <3>4, <3>5 DEF Written, In, GrantedTo, Replace
  <2>4. QED
    BY <2>1, <2>2, <2>3
<1>2. QED
  BY <1>0, <1>1, LostByColleague

LEMMA ReserveStep ==
  ASSUME HeldInv, HeldInv', [Next]_vars, [ManagedNext]_mvars, NEW p \in Procs
  PROVE  Relied(p, Reserved(p), Reserved(p)')
<1> SUFFICES ASSUME NEW x \in Reserved(p)'
             PROVE  \/ HeldBy(leases', OwnerOf[p], x)
                    \/ x \in Reserved(p) /\ (~HeldBy(leases, OwnerOf[p], x) \/ GivenUp(p, x))
  BY DEF Relied
<1>0. TypeOK /\ TypeOK' /\ FramesTyped /\ SafeInv /\ SafeInv' /\ AnswerGrounded' /\ FramesTied
  BY DEF HeldInv, ManagedBase, SafeInv
<1>1. ASSUME frame[p].fn \in {"reserve", "reserving"}, NEW v \in frame[p].seen,
             v.status = "active", v.path # RootPath
      PROVE  v.path \in Reserved(p) /\ v.path \in Paths /\ ~(Replace(p) /\ call[p].kind = "release")
  <2>1. v.path \in Paths
    BY <1>0, <1>1 DEF FramesTyped, Frame, Reservation, RawPaths
  <2>2. ~(Replace(p) /\ call[p].kind = "release")
    BY <1>0, <1>1 DEF FramesTied, Replace
  <2>3. QED
    BY <1>1, <2>1, <2>2 DEF Reserved, In
<1>2. ASSUME frame[p].fn = "reserving", x \in GrantedTo(p), ~Replace(p)
      PROVE  x \in Reserved(p) /\ x \in Paths /\ ~(Replace(p) /\ call[p].kind = "release")
  BY <1>0, <1>2, GrantsArePaths DEF Reserved, In
<1>3. \/ HeldBy(leases', OwnerOf[p], x)
      \/ x \in Reserved(p) /\ x \in Paths /\ ~(Replace(p) /\ call[p].kind = "release")
  <2>1. CASE In(p, "reserving")' /\ x \in GrantedTo(p)'
    <3>1. frame'[p] = frame[p]
      <4>1. ASSUME frame'[p] # frame[p]
            PROVE  FALSE
        <5>1. PICK q \in Procs : ManagedActions(q)
          BY <4>1, ManagedCases DEF mvars
        <5>2. pc'[p] = "locking"
          BY <1>0, <2>1, <4>1, <5>1, FrameChange DEF In
        <5>3. QED
          BY <2>1, <5>2 DEF GrantedTo
      <4>2. QED
        BY <4>1
    <3>2. HeldBy(leases', OwnerOf[p], x) \/ (x \in GrantedTo(p) /\ ~Replace(p))
      BY <1>0, <2>1, GrantedStep
    <3>3. QED
      BY <1>2, <2>1, <3>1, <3>2 DEF In
  <2>2. CASE ~(In(p, "reserving")' /\ x \in GrantedTo(p)')
    <3>1. PICK v \in frame'[p].seen : v.status = "active" /\ v.path # RootPath /\ x = v.path
      BY <2>2 DEF Reserved, In
    <3>2. frame'[p].fn \in {"reserve", "reserving"}
      BY <2>2 DEF Reserved, In
    <3>3. CASE frame[p].fn \in {"reserve", "reserving"} /\ v \in frame[p].seen
      BY <1>1, <3>1, <3>3
    <3>4. CASE ~(frame[p].fn \in {"reserve", "reserving"} /\ v \in frame[p].seen)
      <4>1. PICK q \in Procs : ManagedActions(q)
        BY <3>1, <3>2, <3>4, ManagedCases DEF mvars
      <4>2. ReserveView(p)
        BY <1>0, <3>1, <3>2, <3>4, <4>1, FrameChange
      <4>3. /\ frame[p].fn = "reserving" /\ pc[p] = "done"
            /\ answer[p].status \in {"active", "denied"}
        BY <4>2 DEF ReserveView, Ended, In, Return
      <4>4. v = View(p, frame[p].item, IF answer[p].status = "denied" THEN "conflict" ELSE "active")
        BY <1>0, <3>1, <3>4, <4>2, <4>3 DEF ReserveView, FramesTyped, Frame
      <4>5. x = frame[p].item /\ x # RootPath /\ answer[p].status = "active"
        BY <3>1, <4>3, <4>4 DEF View
      <4>6. x \in GrantedTo(p) /\ ~Replace(p)
        BY <1>0, <4>3, <4>5 DEF FramesTied, Normalized, GrantedTo, Replace
      <4>7. QED
        BY <1>2, <4>3, <4>6
    <3>5. QED
      BY <3>3, <3>4
  <2>3. QED
    BY <2>1, <2>2
<1>4. QED
  BY <1>0, <1>3, LostByColleague

LEMMA HeldStep ==
  ASSUME HeldInv, [ManagedNext]_mvars
  PROVE  HeldInv' /\ [Next]_vars
<1>1. ManagedBase' /\ [Next]_vars
  BY ManagedBaseStep DEF HeldInv
<1>2. AnswerGrounded'
  BY <1>1, GroundedStep DEF HeldInv, ManagedBase
<1>3. FramesTied'
  BY <1>1, TiedStep DEF HeldInv
<1>4. QED
  BY <1>1, <1>2, <1>3 DEF HeldInv

LEMMA HeldInvHolds == ManagedSpec => []HeldInv
<1>1. ManagedInit => HeldInv
  <2> SUFFICES ASSUME ManagedInit
               PROVE  HeldInv
    OBVIOUS
  <2>1. \A p \in Procs : frame[p].fn = "idle" /\ pc[p] = "idle"
    BY DEF ManagedInit, Init, Idle
  <2>2. QED
    BY <2>1, ManagedBaseInit DEF HeldInv, FramesTied, AnswerGrounded
<1>2. QED
  BY <1>1, HeldStep, PTL DEF ManagedSpec

\* Whoever is inside the inner tool holds the lease of the path it writes,
\* though the gate asked for it a while ago, unless another process released
\* it in its owner's name.
THEOREM WritersHoldLeases == ManagedSpec => WriterHoldsLease
<1>1. HeldInv /\ HeldInv' /\ [ManagedNext]_mvars =>
        [\A p \in Procs : Relied(p, Written(p), Written(p)')]_mvars
  BY HeldStep, WriterStep
<1>2. QED
  BY <1>1, HeldInvHolds, PTL DEF ManagedSpec, WriterHoldsLease

\* The same for what reserve_paths has found active, as long as it runs.
THEOREM ReservationsHold == ManagedSpec => ReservedStillHeld
<1>1. HeldInv /\ HeldInv' /\ [ManagedNext]_mvars =>
        [\A p \in Procs : Relied(p, Reserved(p), Reserved(p)')]_mvars
  BY HeldStep, ReserveStep
<1>2. QED
  BY <1>1, HeldInvHolds, PTL DEF ManagedSpec, ReservedStillHeld

-----------------------------------------------------------------------------
(* An operation is finite, however many paths it has.                      *)

\* What an operation still has before it besides its paths.
Ahead(fn) ==
  CASE fn \in {"gate", "release_tool", "release_paths"} -> 2
    [] fn \in {"writing", "reserve", "reserving", "viewing"} -> 1
    [] OTHER -> 0

\* The operation of p is nearer its end: it has entered a later stage, has
\* fewer paths to look at, or is further on in the lease call for one.
Nearer(p) ==
  \/ Ahead(frame'[p].fn) < Ahead(frame[p].fn)
  \/ /\ Ahead(frame'[p].fn) = Ahead(frame[p].fn)
     /\ \/ frame'[p].todo \subseteq frame[p].todo /\ frame'[p].todo # frame[p].todo
        \/ frame'[p].todo = frame[p].todo /\ Rank(pc'[p]) < Rank(pc[p])

\* Every step of an operation brings it nearer its end, and whatever else
\* happens it is where it was, unless its process dies.
OperationsAdvance ==
  [][\A p \in Procs : frame[p] # Idle =>
       /\ Continue(p) => Nearer(p)
       /\ \/ Nearer(p) \/ frame'[p] = Idle
          \/ frame'[p] = frame[p] /\ pc'[p] = pc[p]]_mvars

LEMMA AheadValues ==
  /\ \A fn : Ahead(fn) \in 0..2
  /\ \A fn \in {"gate", "release_tool", "release_paths"} : Ahead(fn) = 2
  /\ \A fn \in {"writing", "reserve", "reserving", "viewing"} : Ahead(fn) = 1
  /\ Ahead(Idle.fn) = 0
BY DEF Ahead, Idle

\* A process that is down executes nothing.
DeadAreIdle == \A p \in Procs : pc[p] = "crashed" => frame[p] = Idle

\* A process' operation is its own.
LEMMA OthersUntouched ==
  ASSUME ManagedBase, NEW p \in Procs, ManagedActions(p), NEW q \in Procs, q # p
  PROVE  frame'[q] = frame[q] /\ pc'[q] = pc[q]
<1>1. frame \in [Procs -> Frame] /\ pc \in [Procs -> Place] /\ TypeOK
  BY DEF ManagedBase, FramesTyped, SafeInv, TypeOK
<1>2. frame'[q] = frame[q]
  BY <1>1 DEF ManagedActions, ReplaceText, ReleaseTool, ReservePaths, ReleasePaths, Enter, Leave,
     GateOpens, GateCloses, WriteEnds, ToolReturns, ReserveNext, ReserveView, ReserveRaises,
     ReserveReturns, ReleaseEnds, ReleaseView, ReleaseReturns, Die, Revive
<1>3. CASE Step(p)
  BY <1>1, <1>2, <1>3, StepKeepsCall
<1>4. CASE ~Step(p)
  <2>1. pc' = pc \/ \E place : Goto(p, place)
    BY <1>4 DEF ManagedActions, ReplaceText, ReleaseTool, ReservePaths, ReleasePaths, Begin,
       GateOpens, GateCloses, WriteEnds, ToolReturns, ReserveNext, ReserveView, ReserveRaises,
       ReserveReturns, ReleaseEnds, ReleaseView, ReleaseReturns, Die, Revive, Ended, Return,
       Crash, Restart, vars
  <2>2. QED
    BY <1>1, <1>2, <2>1 DEF Goto
<1>5. QED
  BY <1>3, <1>4

LEMMA ContinueNearer ==
  ASSUME ManagedBase, NEW p \in Procs, Continue(p)
  PROVE  Nearer(p)
<1>0. frame \in [Procs -> Frame] /\ TypeOK
  BY DEF ManagedBase, FramesTyped, SafeInv
<1> USE <1>0, AheadValues DEF Nearer
<1>1. CASE Step(p) /\ UNCHANGED frame
  BY <1>1, StepLowersRank
<1>2. CASE GateOpens(p)
  <2>1. frame[p].fn = "gate" /\ frame'[p].fn = "writing"
    BY <1>2 DEF GateOpens, Ended, In, Frame
  <2>2. QED
    BY <2>1
<1>3. CASE Leave(p) /\ frame[p].fn \in {"gate", "release_tool", "release_paths", "writing",
                                        "reserve", "reserving", "viewing"}
  <2>1. frame'[p] = Idle
    BY <1>3 DEF Leave
  <2>2. QED
    BY <1>3, <2>1
<1>4. CASE ReserveNext(p)
  <2>1. PICK x \in frame[p].todo :
          frame' = [frame EXCEPT ![p].fn = "reserving", ![p].item = x, ![p].todo = @ \ {x}]
    BY <1>4 DEF ReserveNext
  <2>2. frame[p].fn = "reserve" /\ frame'[p].fn = "reserving" /\ frame'[p].todo = frame[p].todo \ {x}
    BY <1>4, <2>1 DEF ReserveNext, In, Frame
  <2>3. QED
    BY <2>2
<1>5. CASE ReserveView(p)
  <2>1. /\ frame[p].fn = "reserving" /\ frame'[p].fn = "reserve"
        /\ frame'[p].todo = frame[p].todo
    BY <1>5 DEF ReserveView, Ended, In, Frame
  <2>2. Rank(pc'[p]) < Rank(pc[p])
    BY <1>5, StepLowersRank DEF ReserveView, Ended
  <2>3. QED
    BY <2>1, <2>2
<1>6. CASE ReleaseEnds(p) /\ ~Leave(p)
  <2>1. frame[p].fn = "release_paths" /\ frame'[p].fn = "viewing"
    BY <1>6 DEF ReleaseEnds, Ended, In, Frame
  <2>2. QED
    BY <2>1
<1>7. CASE ReleaseView(p)
  <2>1. PICK x \in frame[p].todo :
          frame' = [frame EXCEPT ![p].todo = @ \ {x},
                                 ![p].seen = @ \cup {View(p, x, "released")}]
    BY <1>7 DEF ReleaseView
  <2>2. frame'[p].fn = frame[p].fn /\ frame'[p].todo = frame[p].todo \ {x}
    BY <2>1 DEF Frame
  <2>3. QED
    BY <2>2
<1>8. QED
  BY <1>1, <1>2, <1>3, <1>4, <1>5, <1>6, <1>7
  DEF Continue, GateCloses, WriteEnds, ToolReturns, ReserveRaises, ReserveReturns, ReleaseEnds,
      ReleaseReturns, Ended, In

LEMMA DeadStep ==
  ManagedBase /\ DeadAreIdle /\ [ManagedNext]_mvars => DeadAreIdle'
<1> SUFFICES ASSUME ManagedBase, DeadAreIdle, [ManagedNext]_mvars
             PROVE  DeadAreIdle'
  OBVIOUS
<1>0. frame \in [Procs -> Frame] /\ pc \in [Procs -> Place] /\ TypeOK
  BY DEF ManagedBase, FramesTyped, SafeInv, TypeOK
<1>1. CASE UNCHANGED mvars
  BY <1>1 DEF mvars, DeadAreIdle
<1>2. ASSUME NEW p \in Procs, ManagedActions(p)
      PROVE  DeadAreIdle'
  <2>1. pc'[p] = "crashed" => frame'[p] = Idle
    <3>1. CASE Die(p)
      BY <1>0, <3>1 DEF Die, Leave
    <3>2. CASE Step(p)
      BY <1>0, <3>2, StepKeepsCall
    <3>3. CASE ReplaceText(p) \/ ReleaseTool(p) \/ ReleasePaths(p) \/ ReserveNext(p) \/ Revive(p)
      BY <1>0, <3>3 DEF ReplaceText, ReleaseTool, ReleasePaths, ReserveNext, Begin, Goto, Revive, Restart
    <3>4. CASE Return(p)
      BY <1>0, <3>4 DEF Return, Goto
    <3>5. CASE ReservePaths(p)
      BY <3>5 DEF ReservePaths, vars
    <3>6. CASE Leave(p) /\ UNCHANGED vars
      BY <1>0, <3>6 DEF Leave
    <3>7. CASE ReleaseView(p)
      <4>1. frame[p] # Idle /\ pc'[p] = pc[p]
        BY <3>7 DEF ReleaseView, In, Idle, vars
      <4>2. QED
        BY <4>1 DEF DeadAreIdle
    <3>8. QED
      BY <1>2, <3>1, <3>2, <3>3, <3>4, <3>5, <3>6, <3>7
      DEF ManagedActions, GateOpens, GateCloses, WriteEnds, ToolReturns, ReserveView, ReserveRaises,
          ReserveReturns, ReleaseEnds, ReleaseReturns, Ended
  <2>2. QED
    BY <1>2, <2>1, OthersUntouched DEF DeadAreIdle
<1>3. QED
  BY <1>1, <1>2, ManagedCases

LEMMA OperationAdvances ==
  ASSUME ManagedBase, DeadAreIdle, [ManagedNext]_mvars, NEW p \in Procs, frame[p] # Idle
  PROVE  /\ Continue(p) => Nearer(p)
         /\ \/ Nearer(p) \/ frame'[p] = Idle
            \/ frame'[p] = frame[p] /\ pc'[p] = pc[p]
<1>0. frame \in [Procs -> Frame]
  BY DEF ManagedBase, FramesTyped
<1>1. CASE Continue(p)
  BY <1>1, ContinueNearer
<1>2. CASE Die(p)
  BY <1>0, <1>2, ContinueNearer DEF Die, Leave
<1>3. ASSUME ~Continue(p), ~Die(p)
      PROVE  frame'[p] = frame[p] /\ pc'[p] = pc[p]
  <2>1. CASE UNCHANGED mvars
    BY <2>1 DEF mvars
  <2>2. ~Start(p) /\ ~Revive(p)
    BY DEF Start, ReplaceText, ReleaseTool, ReservePaths, ReleasePaths, Enter, Revive, Restart,
           DeadAreIdle
  <2>3. ASSUME NEW q \in Procs, ManagedActions(q)
        PROVE  frame'[p] = frame[p] /\ pc'[p] = pc[p]
    <3>1. q # p
      BY <1>3, <2>2, <2>3 DEF ManagedActions, Continue, Start
    <3>2. QED
      BY <2>3, <3>1, OthersUntouched
  <2>4. QED
    BY <2>1, <2>3, ManagedCases
<1>4. QED
  BY <1>1, <1>2, <1>3, ContinueNearer

\* For any number of paths, owners and processes that contend for them: a
\* gated write, a reservation and a release get nearer their end with every
\* step they take, and no other process' step puts them back.
THEOREM OperationsAdvanceAlways == ManagedSpec => OperationsAdvance
<1>1. ManagedInit => ManagedBase /\ DeadAreIdle
  BY ManagedBaseInit DEF ManagedInit, DeadAreIdle
<1>2. ManagedBase /\ DeadAreIdle /\ [ManagedNext]_mvars => ManagedBase' /\ DeadAreIdle'
  BY ManagedBaseStep, DeadStep
<1>3. ManagedBase /\ DeadAreIdle /\ [ManagedNext]_mvars =>
        [\A p \in Procs : frame[p] # Idle =>
           /\ Continue(p) => Nearer(p)
           /\ \/ Nearer(p) \/ frame'[p] = Idle
              \/ frame'[p] = frame[p] /\ pc'[p] = pc[p]]_mvars
  BY OperationAdvances
<1>4. QED
  BY <1>1, <1>2, <1>3, PTL DEF ManagedSpec, OperationsAdvance
=============================================================================
