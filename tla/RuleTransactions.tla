-------------------------- MODULE RuleTransactions --------------------------
(***************************************************************************)
(* Reviewed changes of the personal rules (rules.py): a change is proposed *)
(* as a diff with a token, and the commit of the token replaces the file   *)
(* if it is still the one the diff was made for.  The handlers of          *)
(* /rules/propose and /rules/commit (web_app.py) run one at a time on the  *)
(* event loop; the file is also changed by the user's editor and by other  *)
(* processes, at any time, and the process may be killed at any time.      *)
(*                                                                         *)
(* Abstractions: the content of the file is what each match key is mapped  *)
(* to, and whether it is valid; the refusal of symbolic links is left out. *)
(***************************************************************************)
EXTENDS Naturals

CONSTANTS
  RuleKeys,  \* what a rule matches: a sender, a domain or a subject
  Verdicts,  \* the priorities and actions a rule gives
  Drafts     \* the proposals; each has a token of its own

VARIABLES
  rules,         \* the content of the file
  draft,         \* the pending proposals
  committing,    \* the commit the event loop is in the middle of
  latest,        \* history: the newest change made to each key
  raced,         \* history: a change fell between a commit's check and replacement
  writtenDrafts  \* history: the proposals whose candidate was written

ruleVars == <<rules, draft, committing, latest, raced, writtenDrafts>>

-----------------------------------------------------------------------------
Content == [of : [RuleKeys -> Verdicts \cup {"absent"}], valid : BOOLEAN]
NoRules == [of |-> [k \in RuleKeys |-> "absent"], valid |-> TRUE]

Draft ==
  [at : {"unused", "pending", "expired", "spent"}, base : Content, candidate : Content,
   key : RuleKeys \cup {"none"}]
DraftAt(place) == [at |-> place, base |-> NoRules, candidate |-> NoRules, key |-> "none"]

NotCommitting == [at |-> "idle", of |-> DraftAt("unused"), id |-> "none"]
Committing == [at : {"idle", "checking", "writing"}, of : Draft, id : Drafts \cup {"none"}]

\* Setting the verdict of a key: its newest rule is rewritten or one is added.
With(content, k, v) == [content EXCEPT !.of[k] = v]

\* A proposal needs a valid file; expired ones are dropped as it is stored.
ProposeRule(d, k, v) ==
  /\ committing = NotCommitting /\ draft[d].at = "unused"
  /\ rules.valid
  /\ draft' = [e \in Drafts |->
       IF e = d THEN [at |-> "pending", base |-> rules, candidate |-> With(rules, k, v),
                      key |-> k]
       ELSE IF draft[e].at = "expired" THEN DraftAt("spent")
       ELSE draft[e]]
  /\ UNCHANGED <<rules, committing, latest, raced, writtenDrafts>>

ExpireDraft(d) ==
  /\ draft[d].at = "pending"
  /\ draft' = [draft EXCEPT ![d].at = "expired"]
  /\ UNCHANGED <<rules, committing, latest, raced, writtenDrafts>>

DraftPopped(d) == [draft EXCEPT ![d] = DraftAt("spent")]

\* The commit takes the token; an expired one is refused at once.
TakeDraft(d) ==
  /\ committing = NotCommitting /\ draft[d].at \in {"pending", "expired"}
  /\ draft' = DraftPopped(d)
  /\ committing' = IF draft[d].at = "pending"
                     THEN [at |-> "checking", of |-> draft[d], id |-> d]
                     ELSE NotCommitting
  /\ UNCHANGED <<rules, latest, raced, writtenDrafts>>

\* Mutant: any valid file will do.
BaseValid == rules.valid

\* The digest of the file is that of the base of the diff.
BaseUnchanged == rules = committing.of.base

CheckBase ==
  /\ committing.at = "checking"
  /\ committing' = IF BaseUnchanged THEN [committing EXCEPT !.at = "writing"]
                                    ELSE NotCommitting
  /\ UNCHANGED <<rules, draft, latest, raced, writtenDrafts>>

\* Writing the temporary file raises: the rules are left alone.
WriteFails ==
  /\ committing.at = "writing"
  /\ committing' = NotCommitting
  /\ UNCHANGED <<rules, draft, latest, raced, writtenDrafts>>

\* The temporary file replaces the rules; what is raised afterwards, when the
\* directory is synchronized, does not undo it.
Replace ==
  /\ committing.at = "writing"
  /\ rules' = committing.of.candidate
  /\ latest' = With(latest, committing.of.key, committing.of.candidate.of[committing.of.key])
  /\ writtenDrafts' = writtenDrafts \cup {committing.id}
  /\ committing' = NotCommitting
  /\ UNCHANGED <<draft, raced>>

\* The file is changed by someone else, validly or not.
EditRules(content) ==
  /\ rules' = content
  /\ latest' = content
  /\ raced' = (raced \/ committing.at = "writing")
  /\ UNCHANGED <<draft, committing, writtenDrafts>>

KillAssistant ==
  /\ draft' = [d \in Drafts |-> IF draft[d].at = "unused" THEN draft[d] ELSE DraftAt("spent")]
  /\ committing' = NotCommitting
  /\ UNCHANGED <<rules, latest, raced, writtenDrafts>>

RulesInit ==
  /\ rules = NoRules /\ latest = NoRules
  /\ draft = [d \in Drafts |-> DraftAt("unused")]
  /\ committing = NotCommitting
  /\ raced = FALSE /\ writtenDrafts = {}

EditorStep ==
  \/ \E k \in RuleKeys, v \in Verdicts \cup {"absent"} : EditRules(With(rules, k, v))
  \/ EditRules([rules EXCEPT !.valid = ~@])

RulesNext ==
  \/ \E d \in Drafts :
       \/ \E k \in RuleKeys, v \in Verdicts : ProposeRule(d, k, v)
       \/ ExpireDraft(d) \/ TakeDraft(d)
  \/ CheckBase \/ WriteFails \/ Replace
  \/ EditorStep
  \/ KillAssistant

RulesSpec == RulesInit /\ [][RulesNext]_ruleVars

-----------------------------------------------------------------------------
(* Properties.                                                             *)

RulesTypeOK ==
  /\ rules \in Content /\ latest \in Content
  /\ draft \in [Drafts -> Draft]
  /\ committing \in Committing
  /\ \A d \in Drafts : draft[d].base.valid /\ draft[d].candidate.valid
  /\ raced \in BOOLEAN /\ writtenDrafts \subseteq Drafts

\* The file holds the newest change of every key, whoever made it: a commit
\* never writes back what was there when its diff was made over what others
\* wrote since, nor over a file somebody is in the middle of editing; only a
\* change between its check and its replacement can be lost.
EditsSurvive == raced \/ rules = latest

\* A proposal is written at most once, also when the file has been put back
\* to what it was and the confirmation is sent again.
DraftWrittenOnce ==
  [][Replace => committing.id \notin writtenDrafts]_ruleVars
=============================================================================
