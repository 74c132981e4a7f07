------------------------------- MODULE MCParts -------------------------------
(***************************************************************************)
(* Parts of the system that share no state, checked in one run: a behavior *)
(* is one of the part that its initial state picks, while the other parts  *)
(* stay in one of their initial states.                                    *)
(***************************************************************************)
EXTENDS Failover, MailSnapshot, MailTrash, RuleTransactions, LexicalCache, Workspaces, LoopGuard,
  MCNavigation, TutorSessions

CONSTANTS m1, m2, k1, k2, o1, o2

MCBatches == {{m1, m2}}
MCAgeOf == (m1 :> 1) @@ (m2 :> 2)
MCSelections == {{k1, k2}}
MCAccountOf == (k1 :> "a1") @@ (k2 :> "a2")
MCCalls ==
  LET Read(f, n) == [tool |-> "read_file", of |-> "file", full |-> FALSE, first |-> f, count |-> n]
  IN {Read(1, 2), Read(2, 4),
      [tool |-> "grep", of |-> "word", full |-> FALSE, first |-> 1, count |-> 0]}
MCEvidence == {{}, {1}, {1, 2}}
MCModes == (o1 :> {"worktree"}) @@ (o2 :> {"in_place"})

VARIABLE part

mailVars == <<snapVars, trashVars, ruleVars>>
agentVars == <<wsVars, guardVars, navVars>>
serviceVars == <<failoverVars, lexVars, tutorVars>>
partsVars == <<part, mailVars, agentVars, serviceVars>>

PartsInit ==
  /\ part \in {"failover", "snapshot", "trash", "rules", "lexical", "workspaces", "guard",
              "navigation", "tutor"}
  /\ FailoverInit /\ SnapInit /\ TrashInit /\ RulesInit /\ LexInit /\ WsInit /\ GuardInit /\ NavInit /\ TutorInit
  /\ part # "snapshot" => local = Messages /\ disk = NoSnapshot
  /\ part # "trash" => inbox = Mails
  /\ part # "workspaces" => repo = TRUE
  /\ part # "guard" => mode = "shadow"
  /\ part # "navigation" => setup = [structured |-> FALSE, guarded |-> FALSE, strict |-> FALSE]

PartsNext ==
  /\ \/ /\ UNCHANGED <<agentVars, serviceVars>>
        /\ \/ part = "snapshot" /\ SnapNext /\ UNCHANGED <<trashVars, ruleVars>>
           \/ part = "trash" /\ TrashNext /\ UNCHANGED <<snapVars, ruleVars>>
           \/ part = "rules" /\ RulesNext /\ UNCHANGED <<snapVars, trashVars>>
     \/ /\ UNCHANGED <<mailVars, serviceVars>>
        /\ \/ part = "workspaces" /\ WsNext /\ UNCHANGED <<guardVars, navVars>>
           \/ part = "guard" /\ GuardNext /\ UNCHANGED <<wsVars, navVars>>
           \/ part = "navigation" /\ NavNext /\ UNCHANGED <<wsVars, guardVars>>
     \/ /\ UNCHANGED <<mailVars, agentVars>>
        /\ \/ part = "failover" /\ FailoverNext /\ UNCHANGED <<lexVars, tutorVars>>
           \/ part = "lexical" /\ LexNext /\ UNCHANGED <<failoverVars, tutorVars>>
           \/ part = "tutor" /\ TutorNext /\ UNCHANGED <<failoverVars, lexVars>>
  /\ part' = part

PartsSpec == PartsInit /\ [][PartsNext]_partsVars
=============================================================================
