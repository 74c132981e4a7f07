------------------------- MODULE PatchLeases_proofs -------------------------
(***************************************************************************)
(* Proofs about PatchLeases for any number of processes, owners, paths and *)
(* scopes: types, mutual exclusion, no lost update, and that the protocol  *)
(* implements the atomic LeaseTable.                                       *)
(***************************************************************************)
EXTENDS PatchLeases, Naturals, TLAPS

-----------------------------------------------------------------------------
(* What the table's operations return.                                     *)

\* An acquire writes well-formed records.
LEMMA ReacquiredType ==
  ASSUME NEW r \in LeaseRecord, NEW o \in Owners, NEW s \in Scopes \cup {NoScope}
  PROVE  Reacquired(r, o, s) \in LeaseRecord
BY DEF Reacquired, LeaseRecord, Absent

\* The record an acquire writes is an active lease of the acquirer.
LEMMA ReacquiredHeld ==
  ASSUME NEW r \in LeaseRecord, NEW o \in Owners, NEW s \in Scopes \cup {NoScope}
  PROVE  Reacquired(r, o, s).status = "active" /\ Reacquired(r, o, s).owner = o
BY DEF Reacquired, LeaseRecord, Absent

\* Both kinds of call turn a lease file into a lease file.
LEMMA UpdatedType ==
  ASSUME NEW f \in LeaseFile, NEW o \in Owners, NEW c \in CallRecord
  PROVE  Updated(f, o, c) \in LeaseFile
<1>1. AfterAcquire(f, o, c) \in LeaseFile
  <2>1. ASSUME NEW x \in Paths
        PROVE  (IF x \in c.paths THEN Reacquired(f[x], o, c.scope) ELSE f[x]) \in LeaseRecord
    BY ReacquiredType DEF LeaseFile, CallRecord
  <2>2. QED
    BY <2>1 DEF AfterAcquire, LeaseFile
<1>2. AfterRelease(f, o, c) \in LeaseFile
  <2>1. ASSUME NEW x \in Paths
        PROVE  (IF x \in Releasable(f, o, c)
                  THEN [f[x] EXCEPT !.status = "released"] ELSE f[x]) \in LeaseRecord
    <3>1. f[x] \in LeaseRecord
      BY DEF LeaseFile
    <3>2. CASE x \in Releasable(f, o, c)
      BY <3>1, <3>2 DEF Releasable, HeldBy, LeaseRecord, Absent
    <3>3. CASE x \notin Releasable(f, o, c)
      BY <3>1, <3>3
    <3>4. QED
      BY <3>2, <3>3
  <2>2. QED
    BY <2>1 DEF AfterRelease, LeaseFile
<1>3. QED
  BY <1>1, <1>2 DEF Updated

\* A call's answer is a PatchOwnership.
LEMMA OutcomeType ==
  ASSUME NEW f, NEW o, NEW c \in CallRecord
  PROVE  Outcome(f, o, c) \in AnswerRecord
BY DEF Outcome, Granted, Released, Releasable, AnswerRecord, CallRecord

-----------------------------------------------------------------------------
(* Types.                                                                  *)

LEMMA NextType == TypeOK /\ [Next]_vars => TypeOK'
<1> SUFFICES ASSUME TypeOK, [Next]_vars
             PROVE  TypeOK'
  OBVIOUS
<1> USE DEF TypeOK, Goto
<1>0. /\ NoTable \in LeaseFile
      /\ NoCall \in CallRecord
      /\ {NoAnswer, Granted, Denied, Raised} \subseteq AnswerRecord
      /\ {"idle", "locking", "locked", "loaded", "staged", "unlocking", "done", "crashed"} = Place
  BY DEF NoTable, LeaseFile, LeaseRecord, NoCall, CallRecord, NoAnswer, Granted, Denied,
         Raised, AnswerRecord, Place, Critical
<1>1. ASSUME NEW p \in Procs, BeginAny(p)
      PROVE  TypeOK'
  <2>1. PICK kind \in {"acquire", "release"}, raw \in SUBSET (Paths \cup {RootPath}),
             s \in Scopes : Begin(p, kind, raw, s)
    BY <1>1 DEF BeginAny
  <2>2. [kind |-> kind, paths |-> Normalized(raw), scope |-> s] \in CallRecord
    BY DEF CallRecord, Normalized
  <2>3. QED
    BY <1>0, <2>1, <2>2 DEF Begin
<1>2. ASSUME NEW p \in Procs, Step(p)
      PROVE  TypeOK'
  <2>1. CASE TryLock(p)
    BY <1>0, <2>1 DEF TryLock
  <2>2. CASE LockTimeout(p)
    BY <1>0, <2>2 DEF LockTimeout
  <2>3. CASE Load(p)
    BY <1>0, <2>3 DEF Load
  <2>4. CASE LoadFails(p)
    BY <1>0, <2>4 DEF LoadFails
  <2>5. CASE Deny(p)
    BY <1>0, <2>5 DEF Deny
  <2>6. CASE Stage(p)
    <3>1. OwnerOf[p] \in Owners
      BY OwnersAssumption
    <3>2. Updated(table[p], OwnerOf[p], call[p]) \in LeaseFile
      BY <3>1, UpdatedType
    <3>3. Outcome(table[p], OwnerOf[p], call[p]) \in AnswerRecord
      BY OutcomeType
    <3>4. QED
      BY <1>0, <2>6, <3>2, <3>3 DEF Stage
  <2>7. CASE Replace(p)
    BY <1>0, <2>7 DEF Replace
  <2>8. CASE SaveFails(p)
    BY <1>0, <2>8 DEF SaveFails
  <2>9. CASE Unlock(p)
    BY <1>0, <2>9 DEF Unlock
  <2>10. QED
    BY <1>2, <2>1, <2>2, <2>3, <2>4, <2>5, <2>6, <2>7, <2>8, <2>9 DEF Step
<1>3. ASSUME NEW p \in Procs, Return(p)
      PROVE  TypeOK'
  BY <1>0, <1>3 DEF Return
<1>4. ASSUME NEW p \in Procs, Crash(p)
      PROVE  TypeOK'
  BY <1>0, <1>4 DEF Crash
<1>5. ASSUME NEW p \in Procs, Restart(p)
      PROVE  TypeOK'
  BY <1>0, <1>5 DEF Restart
<1>6. CASE UNCHANGED vars
  BY <1>6 DEF vars
<1>7. QED
  BY <1>1, <1>2, <1>3, <1>4, <1>5, <1>6 DEF Next

\* The lease file, the lock and every process' locals keep their types in
\* every behaviour; in particular the file never holds a torn record.
THEOREM TypeCorrect == Spec => []TypeOK
<1>1. Init => TypeOK
  BY DEF Init, TypeOK, LeaseFile, NoTable, LeaseRecord, NoCall, CallRecord, NoAnswer,
         AnswerRecord, Place
<1>2. QED
  BY <1>1, NextType, PTL DEF Spec

-----------------------------------------------------------------------------
(* Mutual exclusion and fresh tables.                                      *)

LEMMA LockStep == TypeOK /\ LockExclusive /\ [Next]_vars => LockExclusive'
<1> SUFFICES ASSUME TypeOK, LockExclusive, [Next]_vars,
                    NEW p \in Procs
             PROVE  (pc[p] \in Critical <=> lock = p)'
  BY DEF LockExclusive
<1> USE ProcsAssumption DEF TypeOK, LockExclusive, Goto, Critical
<1>1. ASSUME NEW q \in Procs, BeginAny(q)
      PROVE  (pc[p] \in Critical <=> lock = p)'
  BY <1>1 DEF BeginAny, Begin
<1>2. ASSUME NEW q \in Procs, Step(q)
      PROVE  (pc[p] \in Critical <=> lock = p)'
  <2>1. CASE TryLock(q) \/ LockTimeout(q)
    BY <2>1 DEF TryLock, LockTimeout
  <2>2. CASE Load(q) \/ LoadFails(q) \/ Deny(q)
    BY <2>2 DEF Load, LoadFails, Deny
  <2>3. CASE Stage(q) \/ Replace(q) \/ SaveFails(q)
    BY <2>3 DEF Stage, Replace, SaveFails
  <2>4. CASE Unlock(q)
    BY <2>4 DEF Unlock
  <2>5. QED
    BY <1>2, <2>1, <2>2, <2>3, <2>4 DEF Step
<1>3. ASSUME NEW q \in Procs, Return(q) \/ Crash(q) \/ Restart(q)
      PROVE  (pc[p] \in Critical <=> lock = p)'
  BY <1>3 DEF Return, Crash, Restart
<1>4. CASE UNCHANGED vars
  BY <1>4 DEF vars
<1>5. QED
  BY <1>1, <1>2, <1>3, <1>4 DEF Next

\* Only the rename of a staged file changes the lease file.
LEMMA OnlyReplaceWrites ==
  ASSUME TypeOK, [Next]_vars
  PROVE  UNCHANGED leases \/ \E q \in Procs : Replace(q)
BY DEF Next, BeginAny, Begin, Step, TryLock, LockTimeout, Load, LoadFails, Deny, Stage,
       SaveFails, Unlock, Return, Crash, Restart, vars

LEMMA FreshStep ==
  TypeOK /\ LockExclusive /\ LockExclusive' /\ NoLostUpdate /\ [Next]_vars => NoLostUpdate'
<1> DEFINE Fresh(p) ==
      /\ pc[p] = "loaded" => table[p] = leases
      /\ pc[p] = "staged" =>
           /\ table[p] = Updated(leases, OwnerOf[p], call[p])
           /\ answer[p] = Outcome(leases, OwnerOf[p], call[p])
           /\ call[p].kind = "acquire" => ~Blocked(leases, OwnerOf[p], call[p])
<1> SUFFICES ASSUME TypeOK, LockExclusive, LockExclusive', NoLostUpdate, [Next]_vars,
                    NEW p \in Procs
             PROVE  Fresh(p)'
  BY DEF NoLostUpdate
<1>0. Fresh(p)
  BY DEF NoLostUpdate
<1> USE DEF TypeOK, Goto
<1>1. CASE ~(pc'[p] \in {"loaded", "staged"})
  BY <1>1
<1>2. CASE pc'[p] \in {"loaded", "staged"}
  <2>1. lock' = p
    BY <1>2 DEF LockExclusive, Critical
  <2>2. ASSUME NEW q \in Procs, q # p, Replace(q)
        PROVE  FALSE
    BY <2>1, <2>2 DEF Replace, LockExclusive, Critical
  <2>3. ~Replace(p)
    BY <1>2 DEF Replace
  <2>4. UNCHANGED leases
    BY <2>2, <2>3, OnlyReplaceWrites
  <2>5. CASE Load(p)
    BY <2>4, <2>5 DEF Load
  <2>6. CASE Stage(p)
    <3>1. pc[p] = "loaded" /\ table[p] = leases
      BY <2>6, <1>0 DEF Stage
    <3>2. /\ table'[p] = Updated(leases, OwnerOf[p], call[p])
          /\ answer'[p] = Outcome(leases, OwnerOf[p], call[p])
          /\ call'[p] = call[p]
          /\ pc'[p] = "staged"
          /\ call[p].kind = "acquire" => ~Blocked(leases, OwnerOf[p], call[p])
      BY <2>6, <3>1 DEF Stage
    <3>3. QED
      BY <2>4, <3>2
  <2>7. CASE ~Load(p) /\ ~Stage(p)
    <3>1. UNCHANGED <<pc[p], table[p], answer[p], call[p]>>
      BY <1>2, <2>3, <2>7 DEF Next, BeginAny, Begin, Step, TryLock, LockTimeout, Load,
         LoadFails, Deny, Stage, Replace, SaveFails, Unlock, Return, Crash, Restart, vars
    <3>2. QED
      BY <1>0, <2>4, <3>1
  <2>8. QED
    BY <2>5, <2>6, <2>7
<1>3. QED
  BY <1>1, <1>2

\* A process between calls has no call and no answer; one inside a call has
\* one, and an answer once it has decided.
CallDiscipline ==
  \A p \in Procs :
    /\ pc[p] \in {"idle", "crashed"} => call[p] = NoCall /\ answer[p] = NoAnswer
    /\ pc[p] \notin {"idle", "crashed"} => call[p].kind \in {"acquire", "release"}
    /\ pc[p] \in {"locking", "locked", "loaded"} => answer[p] = NoAnswer
    /\ pc[p] \in {"staged", "unlocking", "done"} => answer[p].status # "none"

LEMMA DisciplineStep == TypeOK /\ CallDiscipline /\ [Next]_vars => CallDiscipline'
<1> SUFFICES ASSUME TypeOK, CallDiscipline, [Next]_vars
             PROVE  CallDiscipline'
  OBVIOUS
<1> USE DEF TypeOK, CallDiscipline, Goto
<1>1. ASSUME NEW q \in Procs, BeginAny(q)
      PROVE  CallDiscipline'
  BY <1>1 DEF BeginAny, Begin
<1>2. ASSUME NEW q \in Procs, Step(q)
      PROVE  CallDiscipline'
  <2>1. CASE TryLock(q) \/ LockTimeout(q)
    BY <2>1 DEF TryLock, LockTimeout, Raised
  <2>2. CASE Load(q) \/ LoadFails(q) \/ Deny(q)
    BY <2>2 DEF Load, LoadFails, Deny, Raised, Denied
  <2>3. CASE Stage(q)
    BY <2>3 DEF Stage, Outcome, Granted, Released
  <2>4. CASE Replace(q) \/ SaveFails(q) \/ Unlock(q)
    BY <2>4 DEF Replace, SaveFails, Unlock, Raised
  <2>5. QED
    BY <1>2, <2>1, <2>2, <2>3, <2>4 DEF Step
<1>3. ASSUME NEW q \in Procs, Return(q) \/ Crash(q) \/ Restart(q)
      PROVE  CallDiscipline'
  BY <1>3 DEF Return, Crash, Restart
<1>4. CASE UNCHANGED vars
  BY <1>4 DEF vars
<1>5. QED
  BY <1>1, <1>2, <1>3, <1>4 DEF Next

\* The inductive invariant: types, who is inside the lock, that what is
\* inside the lock was computed from the file as it is, and which calls and
\* answers go with which place.
SafeInv == TypeOK /\ LockExclusive /\ NoLostUpdate /\ CallDiscipline

LEMMA SafeInvHolds == Spec => []SafeInv
<1>1. Init => SafeInv
  BY TypeCorrect, ProcsAssumption
  DEF SafeInv, Init, CallDiscipline, TypeOK, LockExclusive, NoLostUpdate, Critical, LeaseFile, NoTable,
      LeaseRecord, NoCall, CallRecord, NoAnswer, AnswerRecord, Place
<1>2. SafeInv /\ [Next]_vars => SafeInv'
  BY NextType, LockStep, FreshStep, DisciplineStep DEF SafeInv
<1>3. QED
  BY <1>1, <1>2, PTL DEF Spec

\* One process at a time runs the body of the lease lock, through every
\* timeout, failure and crash.
THEOREM MutualExclusion == Spec => []LockExclusive
BY SafeInvHolds, PTL DEF SafeInv

\* No acquire or release is ever computed from a stale copy of the file, so
\* none overwrites another's.
THEOREM UpdatesAreFresh == Spec => []NoLostUpdate
BY SafeInvHolds, PTL DEF SafeInv

-----------------------------------------------------------------------------
(* Answers.                                                                *)

\* After an acquire is applied its owner holds every path it named.
LEMMA AcquireHolds ==
  ASSUME NEW f \in LeaseFile, NEW o \in Owners, NEW c \in CallRecord
  PROVE  \A x \in c.paths : HeldBy(AfterAcquire(f, o, c), o, x)
<1> SUFFICES ASSUME NEW x \in c.paths
             PROVE  HeldBy(AfterAcquire(f, o, c), o, x)
  OBVIOUS
<1>1. x \in Paths /\ f[x] \in LeaseRecord /\ c.scope \in Scopes \cup {NoScope}
  BY DEF LeaseFile, CallRecord
<1>2. AfterAcquire(f, o, c)[x] = Reacquired(f[x], o, c.scope)
  BY <1>1 DEF AfterAcquire
<1>3. QED
  BY <1>1, <1>2, ReacquiredHeld DEF HeldBy

LEMMA GroundedStep ==
  SafeInv /\ SafeInv' /\ AnswerGrounded /\ [Next]_vars => AnswerGrounded'
<1> DEFINE Grounded(p) ==
      pc[p] = "unlocking" =>
        /\ answer[p].status = "active" =>
             \A x \in call[p].paths : HeldBy(leases, OwnerOf[p], x)
        /\ answer[p].status = "denied" => Blocked(leases, OwnerOf[p], call[p])
<1> SUFFICES ASSUME SafeInv, SafeInv', AnswerGrounded, [Next]_vars,
                    NEW p \in Procs, pc'[p] = "unlocking"
             PROVE  Grounded(p)'
  BY DEF AnswerGrounded
<1> USE DEF SafeInv, TypeOK, Goto
<1>1. Grounded(p)
  BY DEF AnswerGrounded
<1>2. lock' = p
  BY DEF LockExclusive, Critical
<1>3. ASSUME NEW q \in Procs, q # p, Replace(q)
      PROVE  FALSE
  BY <1>2, <1>3 DEF Replace, LockExclusive, Critical
<1>4. CASE Replace(p)
  <2>1. /\ leases' = Updated(leases, OwnerOf[p], call[p])
        /\ answer' = answer /\ call' = call
        /\ answer[p] = Outcome(leases, OwnerOf[p], call[p])
    BY <1>4 DEF Replace, NoLostUpdate
  <2>2. answer[p].status # "denied"
    BY <2>1 DEF Outcome, Granted, Released
  <2>3. CASE call[p].kind = "acquire"
    <3>1. leases' = AfterAcquire(leases, OwnerOf[p], call[p])
      BY <2>1, <2>3 DEF Updated
    <3>2. \A x \in call[p].paths : HeldBy(leases', OwnerOf[p], x)
      BY <3>1, AcquireHolds, OwnersAssumption
    <3>3. QED
      BY <2>1, <2>2, <3>2
  <2>4. CASE call[p].kind # "acquire"
    BY <2>1, <2>2, <2>4 DEF Outcome, Released
  <2>5. QED
    BY <2>3, <2>4
<1>5. CASE ~Replace(p)
  <2>1. UNCHANGED leases
    BY <1>3, <1>5, OnlyReplaceWrites
  <2>2. CASE Deny(p)
    <3>1. /\ Blocked(leases, OwnerOf[p], call[p])
          /\ answer'[p] = Denied /\ call' = call
      BY <2>2 DEF Deny, NoLostUpdate
    <3>2. QED
      BY <2>1, <3>1 DEF Denied
  <2>3. CASE LoadFails(p) \/ SaveFails(p)
    <3>1. answer'[p] = Raised
      BY <2>3 DEF LoadFails, SaveFails
    <3>2. QED
      BY <3>1 DEF Raised
  <2>4. CASE ~Deny(p) /\ ~LoadFails(p) /\ ~SaveFails(p)
    <3>1. UNCHANGED <<pc[p], answer[p], call[p]>>
      BY <1>5, <2>4 DEF Next, BeginAny, Begin, Step, TryLock, LockTimeout, Load,
         LoadFails, Deny, Stage, Replace, SaveFails, Unlock, Return, Crash, Restart, vars
    <3>2. QED
      BY <1>1, <2>1, <3>1
  <2>5. QED
    BY <2>2, <2>3, <2>4
<1>6. QED
  BY <1>4, <1>5

\* A grant is true and a denial is grounded at the moment the lock is given
\* back, for every set of owners and paths.
THEOREM AnswersAreGrounded == Spec => []AnswerGrounded
<1>1. Init => AnswerGrounded
  BY DEF Init, AnswerGrounded
<1>2. QED
  BY <1>1, GroundedStep, SafeInvHolds, PTL DEF Spec

-----------------------------------------------------------------------------
(* What a step may do to the leases.                                       *)

\* The rename of a staged file applies one call to the current file.
LEMMA ReplaceApplies ==
  ASSUME SafeInv, NEW q \in Procs, Replace(q)
  PROVE  /\ leases' = Updated(leases, OwnerOf[q], call[q])
         /\ call[q].kind \in {"acquire", "release"}
         /\ call[q].kind = "acquire" => ~Blocked(leases, OwnerOf[q], call[q])
         /\ OwnerOf[q] \in Owners /\ call[q] \in CallRecord /\ leases \in LeaseFile
BY OwnersAssumption
DEF SafeInv, TypeOK, NoLostUpdate, CallDiscipline, Replace

LEMMA KeptStep == SafeInv /\ [Next]_vars => LeaseKept
<1> SUFFICES ASSUME SafeInv, [Next]_vars,
                    NEW x \in Paths, leases[x].status = "active",
                    ~HeldBy(leases', leases[x].owner, x)
             PROVE  \E p \in Procs :
                      /\ Replace(p)
                      /\ call[p].kind = "release" /\ x \in call[p].paths
                      /\ OwnerOf[p] = leases[x].owner
  BY DEF LeaseKept
<1>1. PICK q \in Procs : Replace(q)
  BY OnlyReplaceWrites DEF HeldBy, SafeInv
<1> DEFINE o == OwnerOf[q]
<1> DEFINE c == call[q]
<1>2. CASE c.kind = "acquire"
  <2>1. leases' = AfterAcquire(leases, o, c) /\ ~Blocked(leases, o, c)
    BY <1>1, <1>2, ReplaceApplies DEF Updated
  <2>2. CASE x \in c.paths
    <3>1. leases[x].owner = o
      BY <2>1, <2>2 DEF Blocked, HeldByOther
    <3>2. HeldBy(leases', o, x)
      BY <1>1, <2>1, <2>2, ReplaceApplies, AcquireHolds
    <3>3. QED
      BY <3>1, <3>2
  <2>3. CASE x \notin c.paths
    BY <2>1, <2>3 DEF AfterAcquire, HeldBy
  <2>4. QED
    BY <2>2, <2>3
<1>3. CASE c.kind = "release"
  <2>1. leases' = AfterRelease(leases, o, c)
    BY <1>1, <1>3, ReplaceApplies DEF Updated
  <2>2. x \in Releasable(leases, o, c)
    BY <2>1 DEF AfterRelease, HeldBy
  <2>3. QED
    BY <1>1, <1>3, <2>2 DEF Releasable, HeldBy
<1>4. QED
  BY <1>1, <1>2, <1>3, ReplaceApplies

\* No process takes an active lease from another owner; only that owner's own
\* release ends it.
THEOREM LeasesAreNeverStolen == Spec => NeverStolen
<1>1. SafeInv /\ [Next]_vars => [LeaseKept]_vars
  BY KeptStep
<1>2. QED
  BY <1>1, SafeInvHolds, PTL DEF Spec, NeverStolen

LEMMA ScopeStep == SafeInv /\ [Next]_vars => ScopeKept
<1> SUFFICES ASSUME SafeInv, [Next]_vars,
                    NEW x \in Paths, leases[x].status = "active", leases[x].scope # NoScope,
                    HeldBy(leases', leases[x].owner, x)
             PROVE  leases'[x].scope = leases[x].scope
  BY DEF ScopeKept
<1>0. leases[x] \in LeaseRecord
  BY DEF SafeInv, TypeOK, LeaseFile
<1>1. CASE UNCHANGED leases
  BY <1>1
<1>2. ASSUME NEW q \in Procs, Replace(q)
      PROVE  leases'[x].scope = leases[x].scope
  <2> DEFINE o == OwnerOf[q]
  <2> DEFINE c == call[q]
  <2>1. CASE c.kind = "acquire"
    <3>1. leases'[x] = IF x \in c.paths THEN Reacquired(leases[x], o, c.scope) ELSE leases[x]
      BY <1>2, <2>1, ReplaceApplies DEF Updated, AfterAcquire
    <3>2. CASE x \in c.paths
      <4>1. ~HeldByOther(leases, o, x)
        BY <1>2, <2>1, <3>2, ReplaceApplies DEF Blocked
      <4>2. Reacquired(leases[x], o, c.scope) = [leases[x] EXCEPT !.scope = leases[x].scope]
        BY <4>1 DEF HeldByOther, Reacquired
      <4>3. QED
        BY <1>0, <3>1, <3>2, <4>2 DEF LeaseRecord, Absent
    <3>3. QED
      BY <3>1, <3>2
  <2>2. CASE c.kind = "release"
    <3>1. leases'[x] = IF x \in Releasable(leases, o, c)
                         THEN [leases[x] EXCEPT !.status = "released"] ELSE leases[x]
      BY <1>2, <2>2, ReplaceApplies DEF Updated, AfterRelease
    <3>2. QED
      BY <1>0, <3>1 DEF LeaseRecord, Absent
  <2>3. QED
    BY <1>2, <2>1, <2>2, ReplaceApplies
<1>3. QED
  BY <1>1, <1>2, OnlyReplaceWrites DEF SafeInv

\* A repeated acquire by the holder never changes the reservation's scope.
THEOREM ScopesArePreserved == Spec => ScopePreserved
<1>1. SafeInv /\ [Next]_vars => [ScopeKept]_vars
  BY ScopeStep
<1>2. QED
  BY <1>1, SafeInvHolds, PTL DEF Spec, ScopePreserved

-----------------------------------------------------------------------------
(* Refinement.                                                             *)

LEMMA InitRefines == Init => Abstract!Init
<1> SUFFICES ASSUME Init
             PROVE  Abstract!Init
  OBVIOUS
<1>1. Holder \in [Paths -> Owners \cup {NoOwner}]
  BY DEF Init, Holder, LeaseRecord, Absent
<1>2. Published = [p \in Procs |-> NoAnswer]
  BY DEF Init, Published
<1>3. QED
  BY <1>1, <1>2 DEF Init, Abstract!Init, NoCall, Abstract!NoCall, NoAnswer, Abstract!NoAnswer

\* A path is free for a process in the table exactly when the file does not
\* show it actively held by another owner.
LEMMA FreeIsNotHeldByOther ==
  ASSUME SafeInv, NEW p \in Procs, NEW x \in Paths
  PROVE  /\ Abstract!Free(p, x) <=> ~HeldByOther(leases, OwnerOf[p], x)
         /\ (Holder[x] = OwnerOf[p]) <=> HeldBy(leases, OwnerOf[p], x)
BY OwnersAssumption
DEF Abstract!Free, HeldByOther, HeldBy, Holder, SafeInv, TypeOK, LeaseFile, LeaseRecord, Absent

LEMMA ReplaceRefines ==
  ASSUME SafeInv, NEW p \in Procs, Replace(p)
  PROVE  Abstract!Grant(p) \/ Abstract!Release(p)
<1> USE DEF SafeInv, TypeOK, Goto
<1> DEFINE o == OwnerOf[p]
<1> DEFINE c == call[p]
<1>1. /\ pc[p] = "staged" /\ pc' = [pc EXCEPT ![p] = "unlocking"]
      /\ answer' = answer /\ call' = call
      /\ answer[p] = Outcome(leases, o, c)
      /\ Published[p] = NoAnswer
      /\ o \in Owners
      /\ c.paths \subseteq Paths
  BY OwnersAssumption DEF Replace, NoLostUpdate, Published, CallRecord
<1>2. Published' = [Published EXCEPT ![p] = Outcome(leases, o, c)]
  BY <1>1 DEF Published
<1>3. CASE c.kind = "acquire"
  <2>1. leases' = AfterAcquire(leases, o, c) /\ ~Blocked(leases, o, c)
    BY <1>3, ReplaceApplies DEF Updated
  <2>2. \A x \in c.paths : Abstract!Free(p, x)
    BY <1>1, <2>1, FreeIsNotHeldByOther DEF Blocked
  <2>3. ASSUME NEW x \in Paths
        PROVE  Holder'[x] = IF x \in c.paths THEN o ELSE Holder[x]
    <3>1. CASE x \in c.paths
      BY <2>1, <3>1, AcquireHolds, ReplaceApplies DEF Holder, HeldBy
    <3>2. CASE x \notin c.paths
      BY <2>1, <3>2 DEF Holder, AfterAcquire
    <3>3. QED
      BY <3>1, <3>2
  <2>4. Holder' = [x \in Paths |-> IF x \in c.paths THEN o ELSE Holder[x]]
    BY <2>3 DEF Holder
  <2>5. Outcome(leases, o, c) = [status |-> "active", released |-> {}]
    BY <1>3 DEF Outcome, Granted
  <2>6. Abstract!Grant(p)
    BY <1>1, <1>2, <1>3, <2>2, <2>4, <2>5
    DEF Abstract!Grant, Abstract!Open, NoAnswer, Abstract!NoAnswer
  <2>7. QED
    BY <2>6
<1>4. CASE c.kind = "release"
  <2>1. leases' = AfterRelease(leases, o, c)
    BY <1>4, ReplaceApplies DEF Updated
  <2>2. Releasable(leases, o, c) = {x \in c.paths : Holder[x] = o}
    BY <1>1, FreeIsNotHeldByOther DEF Releasable
  <2>3. ASSUME NEW x \in Paths
        PROVE  Holder'[x] = IF x \in Releasable(leases, o, c) THEN NoOwner ELSE Holder[x]
    <3>1. leases[x] \in LeaseRecord
      BY DEF LeaseFile
    <3>2. CASE x \in Releasable(leases, o, c)
      BY <2>1, <3>1, <3>2 DEF Holder, AfterRelease, LeaseRecord, Absent
    <3>3. CASE x \notin Releasable(leases, o, c)
      BY <2>1, <3>3 DEF Holder, AfterRelease
    <3>4. QED
      BY <3>2, <3>3
  <2>4. Holder' = [x \in Paths |-> IF x \in {y \in c.paths : Holder[y] = o}
                                     THEN NoOwner ELSE Holder[x]]
    BY <2>2, <2>3 DEF Holder
  <2>5. Outcome(leases, o, c) =
          [status |-> "released", released |-> {x \in c.paths : Holder[x] = o}]
    BY <1>4, <2>2 DEF Outcome, Released
  <2>6. Abstract!Release(p)
    BY <1>1, <1>2, <1>4, <2>4, <2>5
    DEF Abstract!Release, Abstract!Open, NoAnswer, Abstract!NoAnswer
  <2>7. QED
    BY <2>6
<1>5. QED
  BY <1>3, <1>4, ReplaceApplies

LEMMA DenyRefines ==
  ASSUME SafeInv, NEW p \in Procs, Deny(p)
  PROVE  Abstract!Refuse(p)
<1> USE DEF SafeInv, TypeOK, Goto
<1>1. /\ Holder' = Holder /\ call' = call
      /\ call[p].kind = "acquire" /\ call[p].paths \subseteq Paths
      /\ Blocked(leases, OwnerOf[p], call[p])
      /\ Published[p] = NoAnswer
      /\ Published' = [Published EXCEPT ![p] = Denied]
  BY DEF Deny, Holder, Published, NoLostUpdate, CallRecord
<1>2. \E x \in call[p].paths : ~Abstract!Free(p, x)
  BY <1>1, FreeIsNotHeldByOther DEF Blocked
<1>3. QED
  BY <1>1, <1>2 DEF Abstract!Refuse, Abstract!Open, NoAnswer, Abstract!NoAnswer, Denied

LEMMA FailureRefines ==
  ASSUME SafeInv, NEW p \in Procs, LockTimeout(p) \/ LoadFails(p) \/ SaveFails(p)
  PROVE  Abstract!Fail(p)
<1> USE DEF SafeInv, TypeOK, Goto
<1>1. /\ Holder' = Holder /\ call' = call
      /\ Published[p] = NoAnswer
      /\ Published' = [Published EXCEPT ![p] = Raised]
  BY DEF LockTimeout, LoadFails, SaveFails, Holder, Published, CallDiscipline
<1>2. call[p].kind \in {"acquire", "release"}
  BY DEF LockTimeout, LoadFails, SaveFails, CallDiscipline
<1>3. call[p] # NoCall
  BY <1>2 DEF NoCall
<1>4. QED
  BY <1>1, <1>3 DEF Abstract!Fail, NoAnswer, Abstract!NoAnswer, NoCall, Abstract!NoCall,
              Raised, Abstract!Raised

\* Steps that decide nothing are invisible in the table.
LEMMA SilentSteps ==
  ASSUME SafeInv, NEW p \in Procs,
         TryLock(p) \/ Load(p) \/ Stage(p) \/ Unlock(p) \/ Restart(p)
  PROVE  UNCHANGED Abstract!vars
<1> USE DEF SafeInv, TypeOK, Goto
<1>1. Holder' = Holder /\ call' = call /\ Published' = Published
  BY DEF TryLock, Load, Stage, Unlock, Restart, Holder, Published, CallDiscipline
<1>2. QED
  BY <1>1 DEF Abstract!vars

LEMMA NextRefines == SafeInv /\ [Next]_vars => [Abstract!Next]_(Abstract!vars)
<1> SUFFICES ASSUME SafeInv, [Next]_vars
             PROVE  [Abstract!Next]_(Abstract!vars)
  OBVIOUS
<1>1. ASSUME NEW p \in Procs, BeginAny(p)
      PROVE  Abstract!Invoke(p)
  <2>1. PICK kind \in {"acquire", "release"}, raw \in SUBSET (Paths \cup {RootPath}),
             s \in Scopes : Begin(p, kind, raw, s)
    BY <1>1 DEF BeginAny
  <2>2. Normalized(raw) \in SUBSET Paths
    BY DEF Normalized
  <2>3. /\ call[p] = NoCall
        /\ Holder' = Holder /\ Published' = Published
        /\ call' = [call EXCEPT ![p] = [kind |-> kind, paths |-> Normalized(raw), scope |-> s]]
    BY <2>1 DEF Begin, Goto, SafeInv, TypeOK, CallDiscipline, Holder, Published
  <2>4. QED
    BY <2>2, <2>3 DEF Abstract!Invoke, NoCall, Abstract!NoCall
<1>2. ASSUME NEW p \in Procs, Return(p)
      PROVE  Abstract!Respond(p)
  <2>1. /\ Holder' = Holder
        /\ Published[p] = answer[p]
        /\ Published' = [Published EXCEPT ![p] = NoAnswer]
        /\ call' = [call EXCEPT ![p] = NoCall]
    BY <1>2 DEF Return, Goto, SafeInv, TypeOK, Holder, Published
  <2>2. answer[p].status # "none"
    BY <1>2 DEF Return, SafeInv, CallDiscipline
  <2>3. answer[p] # NoAnswer
    BY <2>2 DEF NoAnswer
  <2>4. QED
    BY <2>1, <2>3 DEF Abstract!Respond, NoAnswer, Abstract!NoAnswer, NoCall, Abstract!NoCall
<1>3. ASSUME NEW p \in Procs, Crash(p)
      PROVE  Abstract!Vanish(p)
  <2>1. /\ Holder' = Holder
        /\ Published' = [Published EXCEPT ![p] = NoAnswer]
        /\ call' = [call EXCEPT ![p] = NoCall]
    BY <1>3 DEF Crash, Goto, SafeInv, TypeOK, Holder, Published
  <2>2. QED
    BY <2>1 DEF Abstract!Vanish, NoAnswer, Abstract!NoAnswer, NoCall, Abstract!NoCall
<1>4. CASE UNCHANGED vars
  BY <1>4 DEF vars, Abstract!vars, Holder, Published
<1>5. QED
  BY <1>1, <1>2, <1>3, <1>4, ReplaceRefines, DenyRefines, FailureRefines, SilentSteps
  DEF Next, Step, Abstract!Next

\* The lock file, the temporary files, timeouts and crashes together behave
\* like one table on which every acquire and release is a single step.
THEOREM LeasesImplementTable == Spec => ImplementsLeaseTable
<1>1. QED
  BY InitRefines, NextRefines, SafeInvHolds, PTL DEF Spec, ImplementsLeaseTable, Abstract!Spec
-----------------------------------------------------------------------------
(* A call is finite, and so is the time the lock is held.                  *)

\* How many steps a call still has in it, at most.
Rank(place) ==
  CASE place = "locking" -> 6
    [] place = "locked" -> 5
    [] place = "loaded" -> 4
    [] place = "staged" -> 3
    [] place = "unlocking" -> 2
    [] place = "done" -> 1
    [] OTHER -> 0

\* The lock stays with its holder, whoever else tries, times out or crashes,
\* until it is given up, and every step of the holder brings that nearer.
HolderAdvances ==
  [][\A p \in Procs : lock = p =>
       \/ lock' = NoProc
       \/ /\ lock' = p /\ Rank(pc[p])' <= Rank(pc[p])
          /\ Step(p) => Rank(pc[p])' < Rank(pc[p])]_vars

LEMMA RankType == \A place : Rank(place) \in 0..6
BY DEF Rank

LEMMA StepLowersRank ==
  ASSUME TypeOK, NEW p \in Procs, Step(p) \/ Return(p)
  PROVE  Rank(pc'[p]) < Rank(pc[p])
<1> USE DEF TypeOK, Goto, Rank
<1>1. CASE TryLock(p) \/ LockTimeout(p)
  <2>1. pc[p] = "locking" /\ pc'[p] \in {"locked", "done"}
    BY <1>1 DEF TryLock, LockTimeout
  <2>2. QED
    BY <2>1
<1>2. CASE Load(p) \/ LoadFails(p)
  <2>1. pc[p] = "locked" /\ pc'[p] \in {"loaded", "unlocking"}
    BY <1>2 DEF Load, LoadFails
  <2>2. QED
    BY <2>1
<1>3. CASE Deny(p) \/ Stage(p)
  <2>1. pc[p] = "loaded" /\ pc'[p] \in {"staged", "unlocking"}
    BY <1>3 DEF Deny, Stage
  <2>2. QED
    BY <2>1
<1>4. CASE Replace(p) \/ SaveFails(p)
  <2>1. pc[p] = "staged" /\ pc'[p] = "unlocking"
    BY <1>4 DEF Replace, SaveFails
  <2>2. QED
    BY <2>1
<1>5. CASE Unlock(p)
  <2>1. pc[p] = "unlocking" /\ pc'[p] = "done"
    BY <1>5 DEF Unlock
  <2>2. QED
    BY <2>1
<1>6. CASE Return(p)
  <2>1. pc[p] = "done" /\ pc'[p] = "idle"
    BY <1>6 DEF Return
  <2>2. QED
    BY <2>1
<1>7. QED
  BY <1>1, <1>2, <1>3, <1>4, <1>5, <1>6 DEF Step

\* A process' steps leave the places of the others and a lock they hold.
LEMMA OthersStand ==
  ASSUME SafeInv, NEW p \in Procs, NEW q \in Procs, q # p,
         BeginAny(q) \/ Step(q) \/ Return(q) \/ Crash(q) \/ Restart(q)
  PROVE  pc'[p] = pc[p] /\ (lock = p => lock' = p)
<1> USE ProcsAssumption DEF SafeInv, TypeOK, Goto
<1>1. CASE BeginAny(q) \/ Return(q) \/ Restart(q)
  BY <1>1 DEF BeginAny, Begin, Return, Restart
<1>2. CASE Crash(q)
  BY <1>2 DEF Crash
<1>3. CASE Step(q) /\ ~Unlock(q)
  BY <1>3 DEF Step, TryLock, LockTimeout, Load, LoadFails, Deny, Stage, Replace, SaveFails
<1>4. CASE Unlock(q)
  <2>1. lock = q
    BY <1>4 DEF Unlock, LockExclusive, Critical
  <2>2. QED
    BY <1>4, <2>1 DEF Unlock
<1>5. QED
  BY <1>1, <1>2, <1>3, <1>4

\* What the holder itself can do.
LEMMA HolderSteps ==
  ASSUME SafeInv, NEW p \in Procs, lock = p,
         BeginAny(p) \/ Step(p) \/ Return(p) \/ Crash(p) \/ Restart(p)
  PROVE  lock' = NoProc \/ (Step(p) /\ lock' = p)
<1>1. pc[p] \in Critical
  BY DEF SafeInv, LockExclusive
<1>2. Step(p) \/ Crash(p)
  BY <1>1 DEF BeginAny, Begin, Return, Restart, Critical
<1>3. CASE Crash(p)
  BY <1>3 DEF Crash
<1>4. CASE Step(p)
  BY <1>1, <1>4 DEF Step, TryLock, LockTimeout, Load, LoadFails, Deny, Stage, Replace, SaveFails,
                    Unlock, Critical
<1>5. QED
  BY <1>2, <1>3, <1>4

LEMMA HolderAdvancesStep ==
  ASSUME SafeInv, [Next]_vars, NEW p \in Procs, lock = p
  PROVE  \/ lock' = NoProc
         \/ /\ lock' = p /\ Rank(pc'[p]) <= Rank(pc[p])
            /\ Step(p) => Rank(pc'[p]) < Rank(pc[p])
<1>0. Rank(pc[p]) \in 0..6 /\ Rank(pc'[p]) \in 0..6 /\ TypeOK
  BY RankType DEF SafeInv
<1>1. CASE Step(p)
  BY <1>0, <1>1, StepLowersRank, HolderSteps
<1>2. CASE ~Step(p)
  <2>1. lock' = NoProc \/ (lock' = p /\ pc'[p] = pc[p])
    <3>1. CASE UNCHANGED vars
      BY <3>1 DEF vars
    <3>2. ASSUME NEW q \in Procs,
                 BeginAny(q) \/ Step(q) \/ Return(q) \/ Crash(q) \/ Restart(q)
          PROVE  lock' = NoProc \/ (lock' = p /\ pc'[p] = pc[p])
      BY <1>2, <3>2, HolderSteps, OthersStand
    <3>3. QED
      BY <3>1, <3>2 DEF Next
  <2>2. QED
    BY <1>0, <1>2, <2>1
<1>3. QED
  BY <1>1, <1>2

\* For any number of processes: a holder of the lock has at most five steps
\* to go until it gives the lock back, and nobody can take it or add to them.
THEOREM HoldersAdvance == Spec => HolderAdvances
<1>1. SafeInv /\ [Next]_vars =>
        [\A p \in Procs : lock = p =>
           \/ lock' = NoProc
           \/ /\ lock' = p /\ Rank(pc[p])' <= Rank(pc[p])
              /\ Step(p) => Rank(pc[p])' < Rank(pc[p])]_vars
  BY HolderAdvancesStep
<1>2. QED
  BY <1>1, SafeInvHolds, PTL DEF Spec, HolderAdvances
=============================================================================
