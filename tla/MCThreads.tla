------------------------------ MODULE MCThreads ------------------------------
(***************************************************************************)
(* The parts in which threads have to get something done: the run loop of  *)
(* an agent, the calls of a failover engine, the refresh and the           *)
(* propagation of the read flag of the mail assistant, and the reaper of   *)
(* the language tutor.  They share no state: a behavior is one of the part *)
(* that its initial state picks, while the others stay in one of their     *)
(* initial states.                                                         *)
(***************************************************************************)
EXTENDS MCAgentRun, Failover, MailSnapshot, SeenPropagation, TutorSessions

CONSTANT m1

MCBatches == {{m1}}
MCAgeOf == m1 :> 2

VARIABLE part

threadsVars == <<part, runVars, failoverVars, snapVars, seenVars, tutorVars>>

ThreadsInit ==
  /\ part \in {"agent", "failover", "snapshot", "seen", "tutor"}
  /\ RunInit /\ FailoverInit /\ SnapInit /\ SeenInit /\ TutorInit
  /\ part # "snapshot" => local = Messages /\ disk = NoSnapshot
  /\ part # "seen" => folder = Letters

ThreadsNext ==
  /\ \/ part = "agent" /\ RunNext /\ UNCHANGED <<failoverVars, snapVars, seenVars, tutorVars>>
     \/ /\ UNCHANGED runVars
        /\ \/ part = "failover" /\ FailoverNext /\ UNCHANGED <<snapVars, seenVars, tutorVars>>
           \/ part = "snapshot" /\ SnapNext /\ UNCHANGED <<failoverVars, seenVars, tutorVars>>
           \/ part = "seen" /\ SeenNext /\ UNCHANGED <<failoverVars, snapVars, tutorVars>>
           \/ part = "tutor" /\ TutorNext /\ UNCHANGED <<failoverVars, snapVars, seenVars>>
  /\ part' = part

ThreadsSpec ==
  /\ ThreadsInit /\ [][ThreadsNext]_threadsVars
  /\ RunFairness /\ FailoverFairness /\ SnapFairness /\ SeenFairness /\ TutorFairness
=============================================================================
