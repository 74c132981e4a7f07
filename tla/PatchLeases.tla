----------------------------- MODULE PatchLeases -----------------------------
(***************************************************************************)
(* The patch-lease half of WorkspaceIsolationManager                       *)
(* (agent_lib/programming_workspace.py): processes sharing one state root  *)
(* serialize on an flock-ed lock file, load patch_leases.json, decide, and *)
(* save it by writing a temporary file and renaming it over the old one.   *)
(*                                                                         *)
(* A process of this module is a thread of control inside one call: the    *)
(* lock is taken on a descriptor opened by that call, so two threads of    *)
(* one Python process exclude each other like two processes do.            *)
(*                                                                         *)
(* Abstractions: a lease record keeps its owner, its status and one scope  *)
(* value standing for thread_id, note, created_at and metadata; the list   *)
(* of paths of a call is a set; the five-second deadline may pass at any   *)
(* failed attempt to lock.                                                 *)
(***************************************************************************)
CONSTANTS
  Procs, Owners, OwnerOf, Paths, Scopes,
  RootPath,   \* a raw path that normalizes to "" ("", ".", "./")
  NoProc, NoOwner, NoScope

ASSUME ProcsAssumption == NoProc \notin Procs
ASSUME OwnersAssumption == NoOwner \notin Owners /\ OwnerOf \in [Procs -> Owners]
ASSUME PathsAssumption == RootPath \notin Paths
ASSUME ScopesAssumption == NoScope \notin Scopes

VARIABLES
  leases,     \* patch_leases.json: the record of every path
  lock,       \* the process whose descriptor holds the flock, or NoProc
  pc,         \* where each process is
  call,       \* the call it is executing
  table,      \* its in-memory copy of the leases
  answer      \* the PatchOwnership it will return, or the exception

vars == <<leases, lock, pc, call, table, answer>>

-----------------------------------------------------------------------------
(* Records.                                                                *)

Absent == [owner |-> NoOwner, status |-> "absent", scope |-> NoScope]
LeaseRecord ==
  {Absent} \cup [owner : Owners, status : {"active", "released"},
                 scope : Scopes \cup {NoScope}]
LeaseFile == [Paths -> LeaseRecord]
NoTable == [x \in Paths |-> Absent]

NoCall == [kind |-> "none", paths |-> {}, scope |-> NoScope]
CallRecord ==
  [kind : {"none", "acquire", "release"}, paths : SUBSET Paths,
   scope : Scopes \cup {NoScope}]

NoAnswer == [status |-> "none", released |-> {}]
Granted  == [status |-> "active", released |-> {}]
Denied   == [status |-> "denied", released |-> {}]
Raised   == [status |-> "raised", released |-> {}]
Released(S) == [status |-> "released", released |-> S]
AnswerRecord ==
  [status : {"none", "active", "denied", "released", "raised"}, released : SUBSET Paths]

\* Where a process can be, and the places between locking and unlocking.
Critical == {"locked", "loaded", "staged", "unlocking"}
Place == Critical \cup {"idle", "locking", "done", "crashed"}

-----------------------------------------------------------------------------
(* The table's operations.                                                 *)

\* _normalize_rel_path drops what denotes the workspace root itself.
Normalized(raw) == raw \ {RootPath}

HeldBy(f, o, x) == f[x].status = "active" /\ f[x].owner = o
HeldByOther(f, o, x) == f[x].status = "active" /\ f[x].owner # o

\* Mutant: only a conflict on every path refuses the acquire.
BlockedByAll(f, o, c) == c.paths # {} /\ \A x \in c.paths : HeldByOther(f, o, x)

\* An acquire is refused when any of its paths is actively held by another.
Blocked(f, o, c) == \E x \in c.paths : HeldByOther(f, o, x)

\* Mutant: a repeated acquire writes a fresh record.
ReacquiredFresh(r, o, s) == [owner |-> o, status |-> "active", scope |-> s]

\* The record an acquire stores: an active lease of the same owner keeps its
\* scope, a record without one (left by an earlier version) receives it, and
\* anything else is replaced.
Reacquired(r, o, s) ==
  IF r.status = "active" /\ r.owner = o
    THEN [r EXCEPT !.scope = IF r.scope = NoScope THEN s ELSE r.scope]
    ELSE [owner |-> o, status |-> "active", scope |-> s]

AfterAcquire(f, o, c) ==
  [x \in Paths |-> IF x \in c.paths THEN Reacquired(f[x], o, c.scope) ELSE f[x]]

Releasable(f, o, c) == {x \in c.paths : HeldBy(f, o, x)}

AfterRelease(f, o, c) ==
  [x \in Paths |->
     IF x \in Releasable(f, o, c) THEN [f[x] EXCEPT !.status = "released"] ELSE f[x]]

Updated(f, o, c) ==
  IF c.kind = "acquire" THEN AfterAcquire(f, o, c) ELSE AfterRelease(f, o, c)

Outcome(f, o, c) ==
  IF c.kind = "acquire" THEN Granted ELSE Released(Releasable(f, o, c))

-----------------------------------------------------------------------------
(* Steps of one call.                                                      *)

\* The file may be new, or left behind by a version without scopes.
Init ==
  /\ leases \in [Paths -> {r \in LeaseRecord : r.scope = NoScope}]
  /\ lock = NoProc
  /\ pc = [p \in Procs |-> "idle"]
  /\ call = [p \in Procs |-> NoCall]
  /\ table = [p \in Procs |-> NoTable]
  /\ answer = [p \in Procs |-> NoAnswer]

Goto(p, place) == pc' = [pc EXCEPT ![p] = place]

\* acquire_patch_lease or release_patch_lease is entered.
Begin(p, kind, raw, s) ==
  /\ pc[p] = "idle"
  /\ call' = [call EXCEPT ![p] = [kind |-> kind, paths |-> Normalized(raw), scope |-> s]]
  /\ Goto(p, "locking")
  /\ UNCHANGED <<leases, lock, table, answer>>

TryLock(p) ==
  /\ pc[p] = "locking"
  /\ lock = NoProc
  /\ lock' = p
  /\ Goto(p, "locked")
  /\ UNCHANGED <<leases, call, table, answer>>

\* An attempt fails after the deadline.  The finally clause unlocks and
\* closes a descriptor that never held the lock, which leaves the lock alone.
LockTimeout(p) ==
  /\ pc[p] = "locking"
  /\ lock # NoProc
  /\ answer' = [answer EXCEPT ![p] = Raised]
  /\ Goto(p, "done")
  /\ UNCHANGED <<leases, lock, call, table>>

Load(p) ==
  /\ pc[p] = "locked"
  /\ table' = [table EXCEPT ![p] = leases]
  /\ Goto(p, "loaded")
  /\ UNCHANGED <<leases, lock, call, answer>>

\* The file cannot be read; the exception leaves through the lock.
LoadFails(p) ==
  /\ pc[p] = "locked"
  /\ answer' = [answer EXCEPT ![p] = Raised]
  /\ Goto(p, "unlocking")
  /\ UNCHANGED <<leases, lock, call, table>>

\* A conflicting acquire returns from inside the lock without saving.
Deny(p) ==
  /\ pc[p] = "loaded"
  /\ call[p].kind = "acquire"
  /\ Blocked(table[p], OwnerOf[p], call[p])
  /\ answer' = [answer EXCEPT ![p] = Denied]
  /\ table' = [table EXCEPT ![p] = NoTable]
  /\ Goto(p, "unlocking")
  /\ UNCHANGED <<leases, lock, call>>

\* The in-memory update and the temporary file of _save_json.
Stage(p) ==
  /\ pc[p] = "loaded"
  /\ call[p].kind = "acquire" => ~Blocked(table[p], OwnerOf[p], call[p])
  /\ table' = [table EXCEPT ![p] = Updated(@, OwnerOf[p], call[p])]
  /\ answer' = [answer EXCEPT ![p] = Outcome(table[p], OwnerOf[p], call[p])]
  /\ Goto(p, "staged")
  /\ UNCHANGED <<leases, lock, call>>

\* os.replace: readers see the old file or the new one.
Replace(p) ==
  /\ pc[p] = "staged"
  /\ leases' = table[p]
  /\ table' = [table EXCEPT ![p] = NoTable]
  /\ Goto(p, "unlocking")
  /\ UNCHANGED <<lock, call, answer>>

\* Writing, syncing or renaming the temporary file raises: it is unlinked
\* and the lease file is as it was.
SaveFails(p) ==
  /\ pc[p] = "staged"
  /\ answer' = [answer EXCEPT ![p] = Raised]
  /\ table' = [table EXCEPT ![p] = NoTable]
  /\ Goto(p, "unlocking")
  /\ UNCHANGED <<leases, lock, call>>

Unlock(p) ==
  /\ pc[p] = "unlocking"
  /\ lock' = NoProc
  /\ Goto(p, "done")
  /\ UNCHANGED <<leases, call, table, answer>>

\* The call returns its PatchOwnership (or raises) to its caller.
Return(p) ==
  /\ pc[p] = "done"
  /\ call' = [call EXCEPT ![p] = NoCall]
  /\ answer' = [answer EXCEPT ![p] = NoAnswer]
  /\ Goto(p, "idle")
  /\ UNCHANGED <<leases, lock, table>>

\* Mutant: the lock outlives the process that held it.
CrashKeepsLock(p) ==
  /\ pc[p] # "crashed"
  /\ call' = [call EXCEPT ![p] = NoCall]
  /\ table' = [table EXCEPT ![p] = NoTable]
  /\ answer' = [answer EXCEPT ![p] = NoAnswer]
  /\ Goto(p, "crashed")
  /\ UNCHANGED <<leases, lock>>

\* The process is killed: its memory is gone, its descriptors are closed and
\* with them the lock; whatever file it was writing is a stray temporary.
Crash(p) ==
  /\ pc[p] # "crashed"
  /\ lock' = IF lock = p THEN NoProc ELSE lock
  /\ call' = [call EXCEPT ![p] = NoCall]
  /\ table' = [table EXCEPT ![p] = NoTable]
  /\ answer' = [answer EXCEPT ![p] = NoAnswer]
  /\ Goto(p, "crashed")
  /\ UNCHANGED leases

Restart(p) ==
  /\ pc[p] = "crashed"
  /\ Goto(p, "idle")
  /\ UNCHANGED <<leases, lock, call, table, answer>>

\* What a running call does by itself.
Step(p) ==
  \/ TryLock(p) \/ LockTimeout(p)
  \/ Load(p) \/ LoadFails(p)
  \/ Deny(p) \/ Stage(p) \/ Replace(p) \/ SaveFails(p)
  \/ Unlock(p)

BeginAny(p) ==
  \E kind \in {"acquire", "release"}, raw \in SUBSET (Paths \cup {RootPath}), s \in Scopes :
    Begin(p, kind, raw, s)

Next ==
  \E p \in Procs : BeginAny(p) \/ Step(p) \/ Return(p) \/ Crash(p) \/ Restart(p)

Spec == Init /\ [][Next]_vars

\* A started call runs on: the operating system schedules it, every step is
\* bounded, and a failed attempt to lock either retries or times out.
FairSpec == Spec /\ \A p \in Procs : WF_vars(Step(p)) /\ WF_vars(Return(p))

-----------------------------------------------------------------------------
(* Properties.                                                             *)

TypeOK ==
  /\ leases \in LeaseFile
  /\ lock \in Procs \cup {NoProc}
  /\ pc \in [Procs -> Place]
  /\ call \in [Procs -> CallRecord]
  /\ table \in [Procs -> LeaseFile]
  /\ answer \in [Procs -> AnswerRecord]

\* The body of _lease_lock is entered by one process at a time, whatever
\* times out, fails or crashes around it, and the lock is held by nobody else.
LockExclusive == \A p \in Procs : pc[p] \in Critical <=> lock = p

\* No lost update: what a process decides on is the file as it still is, and
\* what it is about to rename over the file is that file with its own call
\* applied, so that no other process' acquire or release is overwritten.
NoLostUpdate ==
  \A p \in Procs :
    /\ pc[p] = "loaded" => table[p] = leases
    /\ pc[p] = "staged" =>
         /\ table[p] = Updated(leases, OwnerOf[p], call[p])
         /\ answer[p] = Outcome(leases, OwnerOf[p], call[p])
         /\ call[p].kind = "acquire" => ~Blocked(leases, OwnerOf[p], call[p])

\* A grant is true when it is given: while the granting call is still inside
\* the lock its owner holds every path it asked for.  A denial is grounded:
\* at that moment another owner holds one of them.
AnswerGrounded ==
  \A p \in Procs :
    pc[p] = "unlocking" =>
      /\ answer[p].status = "active" =>
           \A x \in call[p].paths : HeldBy(leases, OwnerOf[p], x)
      /\ answer[p].status = "denied" => Blocked(leases, OwnerOf[p], call[p])

\* An active lease leaves its owner's hands only by a release call of a
\* process acting for that owner: no acquire of another owner, no crash and
\* no failed save takes it away.
LeaseKept ==
  \A x \in Paths :
    leases[x].status = "active" /\ ~HeldBy(leases', leases[x].owner, x) =>
      \E p \in Procs :
        /\ Replace(p)
        /\ call[p].kind = "release" /\ x \in call[p].paths
        /\ OwnerOf[p] = leases[x].owner
NeverStolen == [][LeaseKept]_vars

\* While an owner keeps a path, the scope it reserved it under stays as it
\* was, however often the owner's tools acquire it again.
ScopeKept ==
  \A x \in Paths :
    /\ leases[x].status = "active" /\ leases[x].scope # NoScope
    /\ HeldBy(leases', leases[x].owner, x)
    => leases'[x].scope = leases[x].scope
ScopePreserved == [][ScopeKept]_vars

-----------------------------------------------------------------------------
(* The lease table this implements: a call takes effect when its file is   *)
(* renamed into place, or when it decides to deny or to raise.             *)

Holder ==
  [x \in Paths |-> IF leases[x].status = "active" THEN leases[x].owner ELSE NoOwner]
Published ==
  [p \in Procs |-> IF pc[p] \in {"unlocking", "done"} THEN answer[p] ELSE NoAnswer]

Abstract == INSTANCE LeaseTable WITH holder <- Holder, request <- call, answer <- Published

\* The processes, lock file, temporary files and crashes together behave like
\* one table on which every call is a single step.
ImplementsLeaseTable == Abstract!Spec

\* The lock is always given back: a holder finishes, fails or dies.
LockReleased == \A p \in Procs : lock = p ~> lock # p
=============================================================================
