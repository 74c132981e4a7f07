------------------------------ MODULE Workspaces ------------------------------
(***************************************************************************)
(* The preparation of workspaces: WorkspaceIsolationManager.               *)
(* prepare_workspace (programming_workspace.py) gives each owner the base  *)
(* directory itself, a git worktree or a copy, and records the allocation  *)
(* in a JSON file.  Processes that share the state root prepare at the     *)
(* same time, without a lock, and may be killed at any point.              *)
(*                                                                         *)
(* Abstractions: a directory is absent, partly made, a copy or a worktree; *)
(* an owner is what _safe_owner makes of its name (two names may become    *)
(* one owner); git and the copying are single calls with a middle.         *)
(***************************************************************************)
EXTENDS Naturals

CONSTANTS
  Preparers, Owners,
  Modes  \* the isolation modes an owner's policies ask for

ASSUME ModesAssumption == Modes \in [Owners -> SUBSET {"in_place", "branch", "worktree"}]

VARIABLES
  repo,         \* the base directory is inside a git work tree
  tree,         \* what there is at workspaces/<owner>
  allocations,  \* the file workspace_allocations.json
  prep,         \* what each process is in the middle of
  recorded,     \* history: the allocation last saved for each owner
  overwritten,  \* history: a save fell between another's load and save
  disturbed     \* history: owners whose directory was left or met half made

wsVars == <<repo, tree, allocations, prep, recorded, overwritten, disturbed>>

-----------------------------------------------------------------------------
Sources == {"in_place", "git_worktree", "copy"}
Tables == [Owners -> Sources \cup {"none"}]
NoTable == [o \in Owners |-> "none"]

NotPreparing == [at |-> "idle", owner |-> "none", source |-> "none", data |-> NoTable]
Preparing ==
  [at : {"idle", "adding", "linking", "copying", "making", "loading", "saving"},
   owner : Owners \cup {"none"}, source : Sources \cup {"none"}, data : Tables]

PrepGoes(p, place, source) ==
  prep' = [prep EXCEPT ![p].at = place, ![p].source = source]

Owner(p) == prep[p].owner
Place(p, what) == tree' = [tree EXCEPT ![Owner(p)] = what]

\* prepare_workspace starts: the base itself, a worktree or a copy.
Prepare(p, o, mode) ==
  /\ prep[p].at = "idle"
  /\ prep' = [prep EXCEPT ![p] =
       IF mode = "in_place"
         THEN [NotPreparing EXCEPT !.at = "loading", !.owner = o, !.source = "in_place"]
         ELSE [NotPreparing EXCEPT !.at = IF repo THEN "adding" ELSE "copying", !.owner = o]]
  /\ UNCHANGED <<repo, tree, allocations, recorded, overwritten, disturbed>>

\* A directory that is there is taken for the owner's worktree or copy.
Take(p, place, source) ==
  /\ prep[p].at = place /\ tree[Owner(p)] # "absent"
  /\ PrepGoes(p, "loading", source)
  /\ disturbed' = IF tree[Owner(p)] = "partial" THEN disturbed \cup {Owner(p)} ELSE disturbed
  /\ UNCHANGED <<repo, tree, allocations, recorded, overwritten>>

\* git worktree add, or copytree, begins where there is nothing.
BeginTree(p, before, after) ==
  /\ prep[p].at = before /\ tree[Owner(p)] = "absent"
  /\ Place(p, "partial")
  /\ PrepGoes(p, after, "none")
  /\ UNCHANGED <<repo, allocations, recorded, overwritten, disturbed>>

EndTree(p, before, made, source) ==
  /\ prep[p].at = before
  /\ Place(p, made)
  /\ PrepGoes(p, "loading", source)
  /\ UNCHANGED <<repo, allocations, recorded, overwritten, disturbed>>

\* Mutant: a worktree that cannot be added is recorded all the same.
GitFailureIgnored(p) ==
  /\ prep[p].at \in {"adding", "linking"}
  /\ tree' = IF prep[p].at = "linking" THEN [tree EXCEPT ![Owner(p)] = "absent"] ELSE tree
  /\ PrepGoes(p, "loading", "git_worktree")
  /\ UNCHANGED <<repo, allocations, recorded, overwritten, disturbed>>

\* git fails, before it has made the directory or after, which it then
\* removes; a copy is made instead.
GitFails(p) ==
  /\ prep[p].at \in {"adding", "linking"}
  /\ tree' = IF prep[p].at = "linking" THEN [tree EXCEPT ![Owner(p)] = "absent"] ELSE tree
  /\ PrepGoes(p, "copying", "none")
  /\ UNCHANGED <<repo, allocations, recorded, overwritten, disturbed>>

\* Copying raises, when another process has made the directory first or half
\* way, and leaves what it has copied.
CopyRaises(p) ==
  /\ prep[p].at \in {"copying", "making"}
  /\ prep' = [prep EXCEPT ![p] = NotPreparing]
  /\ disturbed' = IF prep[p].at = "making" THEN disturbed \cup {Owner(p)} ELSE disturbed
  /\ UNCHANGED <<repo, tree, allocations, recorded, overwritten>>

LoadAllocations(p) ==
  /\ prep[p].at = "loading"
  /\ prep' = [prep EXCEPT ![p].at = "saving", ![p].data = allocations]
  /\ UNCHANGED <<repo, tree, allocations, recorded, overwritten, disturbed>>

\* The table that was read, with the owner's allocation in it.
TableWith(p) == [prep[p].data EXCEPT ![Owner(p)] = prep[p].source]

\* The table replaces the file and the allocation is returned.
SaveAllocations(p) ==
  /\ prep[p].at = "saving"
  /\ allocations' = TableWith(p)
  /\ recorded' = [recorded EXCEPT ![Owner(p)] = prep[p].source]
  /\ overwritten' = (overwritten \/ \E q \in Preparers \ {p} : prep[q].at = "saving")
  /\ prep' = [prep EXCEPT ![p] = NotPreparing]
  /\ UNCHANGED <<repo, tree, disturbed>>

\* Saving raises: the file stays as it was.
SaveRaises(p) ==
  /\ prep[p].at = "saving"
  /\ prep' = [prep EXCEPT ![p] = NotPreparing]
  /\ UNCHANGED <<repo, tree, allocations, recorded, overwritten, disturbed>>

\* The process is killed.
PreparerDies(p) ==
  /\ prep[p].at # "idle"
  /\ prep' = [prep EXCEPT ![p] = NotPreparing]
  /\ disturbed' = IF prep[p].at \in {"linking", "making"} THEN disturbed \cup {Owner(p)}
                                                         ELSE disturbed
  /\ UNCHANGED <<repo, tree, allocations, recorded, overwritten>>

WsInit ==
  /\ repo \in BOOLEAN
  /\ tree = [o \in Owners |-> "absent"]
  /\ allocations = NoTable /\ recorded = NoTable
  /\ prep = [p \in Preparers |-> NotPreparing]
  /\ overwritten = FALSE /\ disturbed = {}

PreparerStep(p) ==
  \/ \E o \in Owners : \E mode \in Modes[o] : Prepare(p, o, mode)
  \/ Take(p, "adding", "git_worktree") \/ Take(p, "copying", "copy")
  \/ BeginTree(p, "adding", "linking") \/ BeginTree(p, "copying", "making")
  \/ EndTree(p, "linking", "worktree", "git_worktree") \/ EndTree(p, "making", "copy", "copy")
  \/ GitFails(p) \/ CopyRaises(p)
  \/ LoadAllocations(p) \/ SaveAllocations(p) \/ SaveRaises(p)
  \/ PreparerDies(p)

WsNext == \E p \in Preparers : PreparerStep(p)

WsSpec == WsInit /\ [][WsNext]_wsVars

-----------------------------------------------------------------------------
(* Properties.                                                             *)

WsTypeOK ==
  /\ repo \in BOOLEAN
  /\ tree \in [Owners -> {"absent", "partial", "copy", "worktree"}]
  /\ allocations \in Tables /\ recorded \in Tables
  /\ prep \in [Preparers -> Preparing]
  /\ \A p \in Preparers :
       /\ prep[p].at # "idle" => prep[p].owner \in Owners
       /\ prep[p].at \in {"loading", "saving"} => prep[p].source \in Sources
  /\ overwritten \in BOOLEAN /\ disturbed \subseteq Owners

\* The workspace that a process is about to record for its owner, and the one
\* on record, is there and complete, unless making it was interrupted, or
\* another process met it half made and took it as it was.
Complete(o) == tree[o] \in {"copy", "worktree"} \/ o \in disturbed

WorkspaceComplete ==
  /\ \A p \in Preparers :
       prep[p].at \in {"loading", "saving"} /\ prep[p].source # "in_place" => Complete(Owner(p))
  /\ \A o \in Owners : allocations[o] \in {"git_worktree", "copy"} => Complete(o)

\* The allocations file has the allocation last saved for every owner, unless
\* one process saved it between another's loading and saving it.
AllocationsKept == overwritten \/ allocations = recorded

\* The allocations on record are those that were made, and their workspaces
\* are there.
RecordsTrue == WorkspaceComplete /\ AllocationsKept
=============================================================================
