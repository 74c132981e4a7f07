----------------------- MODULE MCManagedCoordination -----------------------
(***************************************************************************)
(* Small instances of ManagedCoordination for TLC.  p1 and p3 act for one  *)
(* owner, p2 for another; p1's policy applies its patches, the others only *)
(* propose them.  The initial state picks what a behavior is about:        *)
(*   table   calls of PatchLeases, by p1 for one of two paths or both, by  *)
(*           p2 for both;                                                  *)
(*   rivals  every managed operation by p1 and p2, over the path x, where  *)
(*           p2 reserves it under either scope;                            *)
(*   proxy   the tools of the worker p1 beside the mailbox p3, which acts  *)
(*           in the worker's name, over the path x.                        *)
(***************************************************************************)
EXTENDS ManagedCoordination, TLC

CONSTANTS p1, p2, p3, a, b, x, s2

MCOwnerOf == (p1 :> a) @@ (p2 :> b) @@ (p3 :> a)

VARIABLE part

mcVars == <<part, mvars>>

Acting == IF part = "proxy" THEN {p1, p3} ELSE {p1, p2}

MCInit ==
  /\ part \in {"table", "rivals", "proxy"}
  /\ ManagedInit
  /\ part # "table" => \A z \in Paths \ {x} : leases[z] = Absent

OnePath == \A p \in Procs : call'[p].paths \subseteq {x} /\ frame'[p].todo \subseteq {x, RootPath}
OneScope(P) == \A p \in P : s2 \notin {call'[p].scope, frame'[p].scope}
Pairs ==
  /\ call'[p1].kind # "none" => call'[p1].paths # {}
  /\ call'[p2].kind # "none" => call'[p2].paths = Paths
Roles ==
  /\ frame'[p1].fn \in {"idle", "gate", "writing", "release_tool"}
  /\ frame'[p3].fn \notin {"gate", "writing", "release_tool"}

MCNext ==
  /\ \/ part = "table" /\ Next /\ UNCHANGED frame /\ OneScope(Procs) /\ Pairs
     \/ part = "rivals" /\ ManagedNext /\ OnePath /\ OneScope({p1})
     \/ part = "proxy" /\ ManagedNext /\ OnePath /\ OneScope(Procs) /\ Roles
  /\ \A p \in Procs \ Acting : pc'[p] = "idle" /\ frame'[p] = Idle
  /\ part' = part

\* Whoever is inside an operation runs on, as in FairManagedSpec.
MCSpec == MCInit /\ [][MCNext]_mcVars /\ \A p \in Procs : WF_mvars(Continue(p))

\* Of the violated statement: the rivals are enough.
MCRivals == MCInit /\ part = "rivals" /\ [][MCNext]_mcVars
=============================================================================
