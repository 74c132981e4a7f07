------------------------- MODULE ManagedCoordination -------------------------
(***************************************************************************)
(* The callers of the patch leases: worker tool runtimes                   *)
(* (agent_lib/programming.py), whose invoke gates every replace_text on a  *)
(* lease, and the manager-backed mailbox (agent_lib/coordination.py),      *)
(* whose reservations are views of the lease records.  They share one      *)
(* WorkspaceIsolationManager and do not know of each other.                *)
(*                                                                         *)
(* Each step of this module makes one step of PatchLeases or none.  The    *)
(* gate's lease call and the write it lets through are separate steps, and *)
(* so are the mailbox' lease call and its unlocked second look at the      *)
(* record.  Tools without a lease (read_file, run_command) and arguments   *)
(* refused before the lease is asked for do not appear.                    *)
(***************************************************************************)
EXTENDS PatchLeases

CONSTANTS
  AutoProcs,    \* processes whose workspace policy has approval_mode "auto"
  ToolScope     \* the default scope of a lease taken by the gate

ASSUME ToolScopeAssumption == ToolScope \in Scopes

VARIABLE frame  \* frame[p]: the managed operation p is executing

mvars == <<leases, lock, pc, call, table, answer, frame>>

RawPaths == Paths \cup {RootPath}

\* A FileReservation: whose it says the path is, and in which state.
Reservation ==
  [path : RawPaths, holder : Owners \cup {NoOwner},
   status : {"active", "conflict", "released"}]

Idle == [fn |-> "idle", todo |-> {}, item |-> RootPath, scope |-> NoScope, seen |-> {}]
Frame ==
  [fn : {"idle", "gate", "writing", "release_tool", "reserve", "reserving",
         "release_paths", "viewing"},
   todo : SUBSET RawPaths, item : RawPaths, scope : Scopes \cup {NoScope},
   seen : SUBSET Reservation]

Enter(p, fn, S, x, s) ==
  /\ frame[p] = Idle
  /\ frame' = [frame EXCEPT
       ![p] = [fn |-> fn, todo |-> S, item |-> x, scope |-> s, seen |-> {}]]
Leave(p) == frame' = [frame EXCEPT ![p] = Idle]
In(p, fn) == frame[p].fn = fn

\* The lease call p waits for is over.
Ended(p, fn, outcomes) == In(p, fn) /\ answer[p].status \in outcomes /\ Return(p)

ManagedInit == Init /\ frame = [p \in Procs |-> Idle]

-----------------------------------------------------------------------------
(* ProgrammingToolRuntime.invoke.                                          *)

\* Mutant: a lease that could not be asked for lets the write through.
GateOpensOnError(p) ==
  /\ Ended(p, "gate", {"active", "raised"})
  /\ p \in AutoProcs
  /\ frame' = [frame EXCEPT ![p].fn = "writing"]

\* replace_text on a writable path asks for its lease first; the allowlist
\* never admits the root.
ReplaceText(p) ==
  \E x \in Paths :
    /\ Begin(p, "acquire", {x}, ToolScope)
    /\ Enter(p, "gate", {}, x, ToolScope)

\* Granted under approval mode "auto": the call goes on to the inner tool.
GateOpens(p) ==
  /\ Ended(p, "gate", {"active"})
  /\ p \in AutoProcs
  /\ frame' = [frame EXCEPT ![p].fn = "writing"]

\* Denied, raised, or only proposed; a proposal keeps the lease it was granted.
GateCloses(p) ==
  /\ Ended(p, "gate", {"active", "denied", "raised"})
  /\ answer[p].status = "active" => p \notin AutoProcs
  /\ Leave(p)

\* The inner tool has written, or raised.
WriteEnds(p) == In(p, "writing") /\ Leave(p) /\ UNCHANGED vars

ReleaseTool(p) ==
  \E x \in RawPaths :
    /\ Begin(p, "release", {x}, ToolScope)
    /\ Enter(p, "release_tool", {}, x, ToolScope)

ToolReturns(p) == Ended(p, "release_tool", {"released", "raised"}) /\ Leave(p)

-----------------------------------------------------------------------------
(* InMemoryMailbox with a manager.                                         *)

\* Mutant: a conflicting path is looked at again but reported as reserved.
ViewIgnoringDenial(p, x, st) == [path |-> x, holder |-> OwnerOf[p], status |-> "active"]

\* _reservation_from_lease of the record as it is when looked at again; the
\* root has no record.  A conflict is reported under the requester's name.
View(p, x, st) ==
  [path |-> x, status |-> st,
   holder |-> CASE st = "conflict" -> OwnerOf[p]
                [] st # "conflict" /\ x = RootPath -> NoOwner
                [] OTHER -> leases[x].owner]

\* Mutant: the path stays in the list the loop runs over.
ReserveSame(p) ==
  \E x \in frame[p].todo :
    /\ In(p, "reserve")
    /\ Begin(p, "acquire", {x}, frame[p].scope)
    /\ frame' = [frame EXCEPT ![p].fn = "reserving", ![p].item = x]

\* reserve_paths asks for one path after the other.
ReservePaths(p) ==
  /\ pc[p] = "idle"
  /\ \E S \in SUBSET RawPaths, s \in Scopes : Enter(p, "reserve", S, RootPath, s)
  /\ UNCHANGED vars

ReserveNext(p) ==
  \E x \in frame[p].todo :
    /\ In(p, "reserve")
    /\ Begin(p, "acquire", {x}, frame[p].scope)
    /\ frame' = [frame EXCEPT ![p].fn = "reserving", ![p].item = x, ![p].todo = @ \ {x}]

\* The path's lease call has returned and its record is read, without lock.
ReserveView(p) ==
  /\ Ended(p, "reserving", {"active", "denied"})
  /\ LET st == IF answer[p].status = "denied" THEN "conflict" ELSE "active" IN
       frame' = [frame EXCEPT ![p].fn = "reserve", ![p].item = RootPath,
                              ![p].seen = @ \cup {View(p, frame[p].item, st)}]

\* The lease call raised, or the second look did: the exception leaves
\* reserve_paths, and the leases of earlier paths stay, unreported.
ReserveRaises(p) ==
  /\ Ended(p, "reserving", {"active", "denied", "raised"})
  /\ Leave(p)

ReserveReturns(p) ==
  /\ In(p, "reserve") /\ frame[p].todo = {}
  /\ Leave(p)
  /\ UNCHANGED vars

\* release_paths releases all its paths in one lease call ...
ReleasePaths(p) ==
  \E S \in SUBSET RawPaths :
    /\ Begin(p, "release", S, ToolScope)
    /\ Enter(p, "release_paths", {}, RootPath, ToolScope)

\* ... and looks again at every path it released, or lets the exception out.
ReleaseEnds(p) ==
  \/ /\ Ended(p, "release_paths", {"released"})
     /\ frame' = [frame EXCEPT ![p].fn = "viewing", ![p].todo = answer[p].released]
  \/ Ended(p, "release_paths", {"raised"}) /\ Leave(p)

ReleaseView(p) ==
  /\ In(p, "viewing")
  /\ \E x \in frame[p].todo :
       frame' = [frame EXCEPT ![p].todo = @ \ {x},
                              ![p].seen = @ \cup {View(p, x, "released")}]
  /\ UNCHANGED vars

\* All are looked at, or one look has raised.
ReleaseReturns(p) == In(p, "viewing") /\ Leave(p) /\ UNCHANGED vars

-----------------------------------------------------------------------------
\* What the running operations of p do by themselves.
Continue(p) ==
  \/ Step(p) /\ UNCHANGED frame
  \/ GateOpens(p) \/ GateCloses(p) \/ WriteEnds(p) \/ ToolReturns(p)
  \/ ReserveNext(p) \/ ReserveView(p) \/ ReserveRaises(p) \/ ReserveReturns(p)
  \/ ReleaseEnds(p) \/ ReleaseView(p) \/ ReleaseReturns(p)

Start(p) ==
  ReplaceText(p) \/ ReleaseTool(p) \/ ReservePaths(p) \/ ReleasePaths(p)

Die(p) == Crash(p) /\ Leave(p)
Revive(p) == Restart(p) /\ UNCHANGED frame

ManagedNext ==
  \E p \in Procs : Start(p) \/ Continue(p) \/ Die(p) \/ Revive(p)

ManagedSpec == ManagedInit /\ [][ManagedNext]_mvars

\* Whoever is inside an operation runs on; nobody must start one.
FairManagedSpec == ManagedSpec /\ \A p \in Procs : WF_mvars(Continue(p))

-----------------------------------------------------------------------------
(* Properties.                                                             *)

ManagedTypeOK == TypeOK /\ frame \in [Procs -> Frame]

\* The paths of a lease call of p that was granted and has not returned.
GrantedTo(p) ==
  IF pc[p] \in {"unlocking", "done"} /\ answer[p].status = "active" THEN call[p].paths ELSE {}

\* What p writes, or is about to; what it has found active for a reservation.
Written(p) ==
  IF In(p, "writing") THEN {frame[p].item} ELSE IF In(p, "gate") THEN GrantedTo(p) ELSE {}
Reserved(p) ==
  (IF In(p, "reserving") THEN GrantedTo(p) ELSE {}) \cup
    (IF In(p, "reserve") \/ In(p, "reserving")
       THEN {v.path : v \in {u \in frame[p].seen : u.status = "active" /\ u.path # RootPath}}
       ELSE {})

\* Another process that acts for p's owner releases x.
GivenUp(p, x) ==
  \E q \in Procs \ {p} :
    OwnerOf[q] = OwnerOf[p] /\ Replace(q) /\ call[q].kind = "release" /\ x \in call[q].paths

\* What p relies on after a step is leased to its owner, or p relied on it
\* before and the lease is gone, which only a release in its owner's name does.
Relied(p, before, now) ==
  \A x \in now :
    \/ HeldBy(leases', OwnerOf[p], x)
    \/ x \in before /\ (~HeldBy(leases, OwnerOf[p], x) \/ GivenUp(p, x))

\* Check then act: whoever is inside the inner tool, or on its way there,
\* holds the lease the gate asked for, unless another process released it in
\* its owner's name, as a coordinator's mailbox can; no other owner's call, no
\* timeout, failure or crash takes it away between gate and write.
WriterHoldsLease == [][\A p \in Procs : Relied(p, Written(p), Written(p)')]_mvars

\* The same for the paths reserve_paths has found active, while it works
\* through the rest of its list.
ReservedStillHeld == [][\A p \in Procs : Relied(p, Reserved(p), Reserved(p)')]_mvars

\* A reservation reported as released names a holder that does not hold the
\* path any more at the moment it is reported (ADR-018: the view and the
\* lease cannot contradict each other).
ReleasedViewsAgree ==
  [][\A p \in Procs : \A v \in frame'[p].seen \ frame[p].seen :
       v.status = "released" => ~HeldBy(leases, v.holder, v.path)]_mvars

\* A managed operation returns, raises or dies, however many paths it has
\* and however contended they are.
OperationsReturn == \A p \in Procs : frame[p] # Idle ~> frame[p] = Idle
=============================================================================
