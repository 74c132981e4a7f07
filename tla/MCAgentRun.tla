----------------------------- MODULE MCAgentRun -----------------------------
(***************************************************************************)
(* Small instances of AgentRun for TLC.  edit is a tool retried once after *)
(* a failure and after an empty result (replace_text's default policy),    *)
(* check one that calls for the critic (run_check's).                      *)
(***************************************************************************)
EXTENDS AgentRun, TLC

CONSTANTS edit, check, s1

BothTools == {edit, check}
SameStep == (edit :> s1) @@ (check :> s1)
OneStep == (edit :> s1) @@ (check :> NoStep)
Retries == (edit :> 1) @@ (check :> 0)
Failures == (edit :> "retry") @@ (check :> "escalate")
Empties == (edit :> "retry") @@ (check :> "escalate")
=============================================================================
