------------------------------ MODULE MailTrash ------------------------------
(***************************************************************************)
(* Moving mail to the Trash folder of an IMAP server in two steps: a       *)
(* proposal that is shown with a token, and the commit that the token      *)
(* authorizes (trash_workflow.py, imap_trash.py, the handlers of           *)
(* /trash/propose and /trash/commit in web_app.py).                        *)
(*                                                                         *)
(* The work of a request is done by a daemon thread.  The handler waits    *)
(* for it for 120 seconds; when it stops waiting the thread goes on.       *)
(*                                                                         *)
(* Abstractions: a message is its Message-ID, a server is the set of the   *)
(* messages its folders hold, the order of the messages in a batch is      *)
(* free.  The snapshot a commit looks its messages up in may change at any *)
(* time, so what a commit finds of it is any part of the confirmed rows    *)
(* (MailSnapshot says how it changes).  Other mail clients move messages   *)
(* out of the folders and back.                                            *)
(***************************************************************************)
EXTENDS Naturals

CONSTANTS
  Mails,
  Selections,  \* the sets of messages a user selects
  AccountOf,   \* the account a message belongs to
  Proposals,   \* the requests to /trash/propose; each has a token of its own
  Commits,     \* the requests to /trash/commit
  Roaming,     \* the messages that other clients move out and back
  NoMail, NoAccount, NoProposal

ASSUME SelectionsAssumption == Selections \subseteq (SUBSET Mails) \ {{}} /\ Roaming \subseteq Mails
ASSUME NoneAssumption == NoMail \notin Mails /\ NoProposal \notin Proposals
ASSUME AccountsAssumption == \A m \in Mails : AccountOf[m] # NoAccount

VARIABLES
  inbox,     \* the messages in the folders their moves start from
  proposal,  \* the thread, the waiting handler and the token of each proposal
  page,      \* the rows shown with each token; none when it was not shown
  commit,    \* the thread and the waiting handler of each commit
  moved,     \* history: which proposal's commit moved which message
  gone       \* history: the messages found outside during each commit

trashVars == <<inbox, proposal, page, commit, moved, gone>>

-----------------------------------------------------------------------------
(* Records.                                                                *)

Accounts == {AccountOf[m] : m \in Mails}

Proposal ==
  [at : {"unused", "checking", "rechecking", "failed", "pending", "expired", "spent"},
   selection : SUBSET Mails, todo : SUBSET Mails, rows : SUBSET Mails,
   confirmed : SUBSET Mails, waiting : BOOLEAN]

\* A proposal at a place, with the messages it has to look for.
ProposalAt(place, S, waits) ==
  [at |-> place, selection |-> S, todo |-> S, rows |-> {}, confirmed |-> {},
   waiting |-> waits]

Results == {"none", "moved", "failed", "skipped"}

Commit ==
  [at : {"unused", "moving", "ended", "answered"}, token : Proposals \cup {NoProposal},
   todo : SUBSET Mails, session : Accounts \cup {NoAccount}, located : Mails \cup {NoMail},
   results : [Mails -> Results], waiting : BOOLEAN]

CommitAt(place) ==
  [at |-> place, token |-> NoProposal, todo |-> {}, session |-> NoAccount,
   located |-> NoMail, results |-> [m \in Mails |-> "none"], waiting |-> FALSE]

Checks(p) == proposal[p].at \in {"checking", "rechecking"}

-----------------------------------------------------------------------------
(* Proposing.  The messages are looked for in one pass, and if one is      *)
(* missing once more one by one.                                           *)

Propose(p, S) ==
  /\ proposal[p].at = "unused"
  /\ proposal' = [proposal EXCEPT ![p] = ProposalAt("checking", S, TRUE)]
  /\ UNCHANGED <<inbox, page, commit, moved, gone>>

\* A message is found where it is expected.
Found(p, m) ==
  /\ Checks(p) /\ m \in proposal[p].todo /\ m \in inbox
  /\ proposal' = [proposal EXCEPT ![p].todo = @ \ {m}, ![p].rows = @ \cup {m}]
  /\ UNCHANGED <<inbox, page, commit, moved, gone>>

\* The first message that is missing ends the batch: all are looked for again.
BatchMisses(p, m) ==
  /\ proposal[p].at = "checking" /\ m \in proposal[p].todo /\ m \notin inbox
  /\ proposal' = [proposal EXCEPT ![p].at = "rechecking", ![p].rows = {},
                                  ![p].todo = proposal[p].selection]
  /\ UNCHANGED <<inbox, page, commit, moved, gone>>

\* A message missing in the second pass is skipped.
SkipMissing(p, m) ==
  /\ proposal[p].at = "rechecking" /\ m \in proposal[p].todo /\ m \notin inbox
  /\ proposal' = [proposal EXCEPT ![p].todo = @ \ {m}]
  /\ UNCHANGED <<inbox, page, commit, moved, gone>>

\* Any other error ends the proposal, and so does a second pass that has
\* found nothing.
ProposalFails(p) ==
  /\ Checks(p)
  /\ proposal' = [proposal EXCEPT ![p] = ProposalAt("failed", {}, @.waiting)]
  /\ UNCHANGED <<inbox, page, commit, moved, gone>>

\* Mutant: the token stands for the whole selection.
TokenForAll(p) == [proposal[p] EXCEPT !.at = "pending", !.confirmed = proposal[p].selection]

\* The token stands for the rows that were found.
TokenFor(p) == [proposal[p] EXCEPT !.at = "pending", !.confirmed = proposal[p].rows]

\* A token that can no longer be used.
Spent(p) == [ProposalAt("spent", {}, proposal[p].waiting) EXCEPT !.rows = proposal[p].rows]

\* Expired tokens are dropped when a new one is stored.
StoreToken(p) ==
  /\ Checks(p) /\ proposal[p].todo = {} /\ proposal[p].rows # {}
  /\ proposal' = [q \in Proposals |-> IF q = p THEN TokenFor(p)
                                     ELSE IF proposal[q].at = "expired" THEN Spent(q)
                                     ELSE proposal[q]]
  /\ UNCHANGED <<inbox, page, commit, moved, gone>>

\* The handler shows the rows with their token; a failure is an error page.
ShowProposal(p) ==
  /\ proposal[p].waiting /\ proposal[p].at \in {"pending", "expired", "spent", "failed"}
  /\ proposal' = [proposal EXCEPT ![p].waiting = FALSE]
  /\ page' = IF proposal[p].at = "failed" THEN page
                                          ELSE [page EXCEPT ![p] = proposal[p].rows]
  /\ UNCHANGED <<inbox, commit, moved, gone>>

\* The handler stops waiting; the thread goes on and may store a token that
\* nobody is told of.
ProposalTimesOut(p) ==
  /\ proposal[p].waiting
  /\ proposal' = [proposal EXCEPT ![p].waiting = FALSE]
  /\ UNCHANGED <<inbox, page, commit, moved, gone>>

\* The token's time is over.
Expire(p) ==
  /\ proposal[p].at = "pending"
  /\ proposal' = [proposal EXCEPT ![p].at = "expired"]
  /\ UNCHANGED <<inbox, page, commit, moved, gone>>

-----------------------------------------------------------------------------
(* Committing.                                                             *)

\* Mutant: a token is looked up and kept.
TokenKept(p) == proposal' = proposal

\* pop_pending: a token is used once.
TokenSpent(p) == proposal' = [proposal EXCEPT ![p] = Spent(p)]

\* Every message to be moved has the result None, which stands for a success,
\* until something else is recorded.
Begin(c, p, present) ==
  commit' = [commit EXCEPT ![c] =
    [at |-> "moving", token |-> p, todo |-> present, session |-> NoAccount,
     located |-> NoMail, waiting |-> TRUE,
     results |-> [m \in Mails |-> IF m \in present THEN "moved"
                                  ELSE IF m \in proposal[p].confirmed THEN "skipped"
                                  ELSE "none"]]]

\* The user confirms a page; the messages still in the snapshot are moved.
StartCommit(c, p, present) ==
  /\ commit[c].at = "unused"
  /\ page[p] # {} /\ proposal[p].at = "pending"
  /\ TokenSpent(p)
  /\ Begin(c, p, present)
  /\ gone' = [gone EXCEPT ![c] = Mails \ inbox]
  /\ UNCHANGED <<inbox, page, moved>>

\* An expired token is dropped and refused.
RefuseCommit(p) ==
  /\ page[p] # {} /\ proposal[p].at = "expired"
  /\ TokenSpent(p)
  /\ UNCHANGED <<inbox, page, commit, moved, gone>>

OfAccount(c, a) == {m \in commit[c].todo : AccountOf[m] = a}

\* What a commit becomes when it is done with the messages in S: its session
\* is closed after the last message of the account.
Done(c, S, result) ==
  [commit[c] EXCEPT
     !.todo = @ \ S,
     !.located = NoMail,
     !.results = [m \in Mails |-> IF m \in S THEN result ELSE @[m]],
     !.session = IF OfAccount(c, @) \subseteq S THEN NoAccount ELSE @]

\* One login per account.
OpenSession(c, a) ==
  /\ commit[c].session = NoAccount /\ OfAccount(c, a) # {}
  /\ commit' = [commit EXCEPT ![c].session = a]
  /\ UNCHANGED <<inbox, proposal, page, moved, gone>>

\* Mutant: a login that fails is not recorded.
SessionFailsSilently(c, a) ==
  /\ commit[c].session = NoAccount /\ OfAccount(c, a) # {}
  /\ commit' = [commit EXCEPT ![c].todo = @ \ OfAccount(c, a)]
  /\ UNCHANGED <<inbox, proposal, page, moved, gone>>

\* A login that fails fails all messages of the account.
SessionFails(c, a) ==
  /\ commit[c].session = NoAccount /\ OfAccount(c, a) # {}
  /\ commit' = [commit EXCEPT ![c] = Done(c, OfAccount(c, a), "failed")]
  /\ UNCHANGED <<inbox, proposal, page, moved, gone>>

\* The message is found in its folder.
Locate(c, m) ==
  /\ m \in OfAccount(c, commit[c].session) /\ commit[c].located = NoMail
  /\ m \in inbox
  /\ commit' = [commit EXCEPT ![c].located = m]
  /\ UNCHANGED <<inbox, proposal, page, moved, gone>>

\* It is not found, or the server refuses to move it, or the line fails
\* before it does.
MoveFails(c, m) ==
  /\ m \in OfAccount(c, commit[c].session) /\ commit[c].located \in {NoMail, m}
  /\ commit' = [commit EXCEPT ![c] = Done(c, {m}, "failed")]
  /\ UNCHANGED <<inbox, proposal, page, moved, gone>>

\* The messages outside the folders are noted for every commit under way.
Outside(out) ==
  [c \in Commits |-> IF commit[c].at = "moving" THEN gone[c] \cup out ELSE gone[c]]

\* UID MOVE takes the message out of the folder if it is still there, and
\* succeeds in any case; its reply may be lost.
Move(c, m, reply) ==
  /\ commit[c].located = m
  /\ inbox' = inbox \ {m}
  /\ moved' = IF m \in inbox THEN moved \cup {<<commit[c].token, m>>} ELSE moved
  /\ gone' = Outside({m})
  /\ commit' = [commit EXCEPT ![c] = Done(c, {m}, reply)]
  /\ UNCHANGED <<proposal, page>>

\* The thread returns, and if the handler still waits it removes the moved
\* messages from the snapshot and shows the outcomes; when the snapshot has
\* none of them the removal raises and nothing is shown.
EndCommit(c) ==
  /\ commit[c].at = "moving" /\ commit[c].todo = {}
  /\ \/ /\ commit[c].waiting
        /\ commit' = [commit EXCEPT ![c].at = "answered", ![c].waiting = FALSE]
        /\ gone' = gone
     \/ /\ ~commit[c].waiting \/ \E m \in Mails : commit[c].results[m] = "moved"
        /\ commit' = [commit EXCEPT ![c] = CommitAt("ended")]
        /\ gone' = [gone EXCEPT ![c] = {}]
  /\ UNCHANGED <<inbox, proposal, page, moved>>

\* The handler stops waiting; the thread goes on moving.
CommitTimesOut(c) ==
  /\ commit[c].waiting
  /\ commit' = [commit EXCEPT ![c].waiting = FALSE]
  /\ UNCHANGED <<inbox, proposal, page, moved, gone>>

-----------------------------------------------------------------------------
(* Surroundings.                                                           *)

\* Another client moves a message out of the folder or back into it.
Roams(m) ==
  /\ inbox' = (inbox \ {m}) \cup ({m} \ inbox)
  /\ gone' = Outside({m})
  /\ UNCHANGED <<proposal, page, commit, moved>>

\* The process is killed: tokens and threads are gone, pages and mail stay.
Restart ==
  /\ proposal' = [p \in Proposals |->
       IF proposal[p].at = "unused" THEN proposal[p] ELSE ProposalAt("spent", {}, FALSE)]
  /\ commit' = [c \in Commits |-> IF commit[c].at = "moving" THEN CommitAt("ended")
                                                           ELSE commit[c]]
  /\ UNCHANGED <<inbox, page, moved, gone>>

TrashInit ==
  /\ inbox \in {S \in SUBSET Mails : Mails \ Roaming \subseteq S}
  /\ proposal = [p \in Proposals |-> ProposalAt("unused", {}, FALSE)]
  /\ page = [p \in Proposals |-> {}]
  /\ commit = [c \in Commits |-> CommitAt("unused")]
  /\ moved = {}
  /\ gone = [c \in Commits |-> {}]

ProposalStep(p) ==
  \/ \E S \in Selections : Propose(p, S)
  \/ \E m \in Mails : Found(p, m) \/ BatchMisses(p, m) \/ SkipMissing(p, m)
  \/ ProposalFails(p) \/ StoreToken(p) \/ ShowProposal(p)
  \/ ProposalTimesOut(p) \/ Expire(p)

CommitStep(c) ==
  \/ \E p \in Proposals : \E present \in SUBSET proposal[p].confirmed : StartCommit(c, p, present)
  \/ \E a \in Accounts : OpenSession(c, a) \/ SessionFails(c, a)
  \/ \E m \in Mails :
       \/ Locate(c, m) \/ MoveFails(c, m)
       \/ \E reply \in {"moved", "failed"} : Move(c, m, reply)
  \/ EndCommit(c) \/ CommitTimesOut(c)

TrashNext ==
  \/ \E p \in Proposals : ProposalStep(p) \/ RefuseCommit(p)
  \/ \E c \in Commits : CommitStep(c)
  \/ \E m \in Roaming : Roams(m)
  \/ Restart

TrashSpec == TrashInit /\ [][TrashNext]_trashVars

-----------------------------------------------------------------------------
(* Properties.                                                             *)

TrashTypeOK ==
  /\ inbox \subseteq Mails
  /\ proposal \in [Proposals -> Proposal]
  /\ page \in [Proposals -> SUBSET Mails]
  /\ commit \in [Commits -> Commit]
  /\ moved \subseteq Proposals \X Mails
  /\ gone \in [Commits -> SUBSET Mails]
  /\ \A c \in Commits :
       commit[c].located # NoMail => commit[c].located \in OfAccount(c, commit[c].session)

\* Whatever has been moved was among the rows shown with the token that was
\* confirmed: not what the checks had skipped, and nothing of a proposal the
\* user was never shown, also when a thread stores its token after the wait.
ConfirmedOnly ==
  \A p \in Proposals, m \in Mails :
    <<p, m>> \in moved => page[p] # {} /\ m \in page[p]

\* The outcomes a user is shown cover exactly the rows he has confirmed; what
\* they call moved has been outside its folder since the commit began, and
\* what they call skipped was not moved.
OutcomesHonest ==
  \A c \in Commits : commit[c].at = "answered" =>
    LET shown == page[commit[c].token] result == commit[c].results
    IN /\ shown = {m \in Mails : result[m] # "none"}
       /\ \A m \in shown :
            /\ result[m] = "moved" => m \in gone[c]
            /\ result[m] = "skipped" => <<commit[c].token, m>> \notin moved

\* A confirmation moves a message at most once: when another client puts it
\* back, no repeated or overlapping commit of the same token takes it away.
MovedOnce ==
  [][\A c \in Commits :
       LET m == commit[c].located IN
       m \in inbox \ inbox' /\ commit'[c].located # m =>
         <<commit[c].token, m>> \notin moved]_trashVars

-----------------------------------------------------------------------------
(* What a user sees of proposals and commits.                              *)

At(place) == {c \in Commits : commit[c].at = place}

Over == {p \in Proposals : proposal[p].at \in {"expired", "spent"}}

Underway == {commit[c].token : c \in At("moving")}

SeenSince(p) == UNION {gone[c] : c \in {d \in At("moving") : commit[d].token = p}}

Told == {<<commit[c].token, commit[c].results>> : c \in At("answered")}

Promise == INSTANCE ConfirmedMoves WITH
  Tokens <- Proposals, Messages <- Mails, Others <- Roaming,
  present <- inbox, shown <- page, over <- Over, underway <- Underway,
  outside <- [p \in Proposals |-> SeenSince(p)], moved <- moved, told <- Told

\* Whatever overlaps, is late, is lost or dies: mail leaves its folder only
\* for a confirmed token, if it was shown with it, and once; an answer tells
\* the truth, and when none was given the work has ended as well.
ImplementsConfirmedMoves == Promise!Spec
=============================================================================
