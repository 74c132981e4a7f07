---------------------------- MODULE Mail_proofs -----------------------------
(***************************************************************************)
(* The proofs about the mail assistant.  Each of its four parts has an     *)
(* inductive invariant of its own; the parts share no variable.            *)
(***************************************************************************)
EXTENDS MailTrash, RuleTransactions, MailSnapshot, SeenPropagation, TLAPS

-----------------------------------------------------------------------------
(* Trash: a token stands for its page, and a commit for its token.         *)

Active == {"moving", "answered"}

\* A page is shown once, and a token stands for what its page shows.
ProposalOK(p) ==
  /\ proposal[p].at \in {"pending", "expired"} =>
       /\ proposal[p].rows # {} /\ proposal[p].confirmed = proposal[p].rows
       /\ page[p] # {} => page[p] = proposal[p].rows
  /\ proposal[p].at \in {"unused", "checking", "rechecking", "failed"} => page[p] = {}
  /\ proposal[p].waiting => page[p] = {}

\* The outcomes of a commit are about the rows of its page; what it has still
\* to do has not been moved by its token.
CommitOK(c) ==
  /\ commit[c].at # "moving" => commit[c].todo = {} /\ commit[c].located = NoMail
  /\ commit[c].at \in Active =>
       /\ commit[c].token \in Proposals
       /\ proposal[commit[c].token].at = "spent"
       /\ page[commit[c].token] # {}
       /\ page[commit[c].token] = {m \in Mails : commit[c].results[m] # "none"}
       /\ \A m \in Mails : commit[c].results[m] = "moved" =>
            m \in commit[c].todo \cup gone[c]
       /\ \A m \in Mails : commit[c].results[m] = "skipped" =>
            <<commit[c].token, m>> \notin moved
       /\ \A m \in commit[c].todo :
            commit[c].results[m] = "moved" /\ <<commit[c].token, m>> \notin moved

TokensDiffer ==
  \A c, d \in Commits :
    c # d /\ commit[c].at \in Active /\ commit[d].at \in Active =>
      commit[c].token # commit[d].token

MovedSpent ==
  \A p \in Proposals, m \in Mails :
    <<p, m>> \in moved => proposal[p].at = "spent" /\ page[p] # {} /\ m \in page[p]

TrashInv ==
  /\ TrashTypeOK
  /\ \A p \in Proposals : ProposalOK(p)
  /\ \A c \in Commits : CommitOK(c)
  /\ TokensDiffer /\ MovedSpent

LEMMA FreshRecords ==
  /\ \A place \in {"unused", "checking", "failed", "spent"}, S \in SUBSET Mails, w \in BOOLEAN :
       /\ ProposalAt(place, S, w) \in Proposal /\ ProposalAt(place, S, w).at = place
       /\ ProposalAt(place, S, w).rows = {} /\ ProposalAt(place, S, w).waiting = w
  /\ \A place \in {"unused", "ended"} :
       /\ CommitAt(place) \in Commit /\ CommitAt(place).at = place
       /\ CommitAt(place).todo = {} /\ CommitAt(place).located = NoMail
<1>1. ASSUME NEW place \in {"unused", "checking", "failed", "spent"}, NEW S \in SUBSET Mails,
             NEW w \in BOOLEAN
      PROVE  /\ ProposalAt(place, S, w) \in Proposal /\ ProposalAt(place, S, w).at = place
             /\ ProposalAt(place, S, w).rows = {} /\ ProposalAt(place, S, w).waiting = w
  BY DEF ProposalAt, Proposal
<1>2. ASSUME NEW place \in {"unused", "ended"}
      PROVE  /\ CommitAt(place) \in Commit /\ CommitAt(place).at = place
             /\ CommitAt(place).todo = {} /\ CommitAt(place).located = NoMail
  <2>1. [m \in Mails |-> "none"] \in [Mails -> Results]
    BY DEF Results
  <2>2. QED
    BY <2>1 DEF CommitAt, Commit
<1>3. QED
  BY <1>1, <1>2

LEMMA TrashInitially == TrashInit => TrashInv
<1> SUFFICES ASSUME TrashInit PROVE TrashInv
  OBVIOUS
<1>1. TrashTypeOK
  BY FreshRecords DEF TrashInit, TrashTypeOK
<1>2. QED
  BY <1>1, FreshRecords DEF TrashInit, TrashInv, ProposalOK, CommitOK, Active, TokensDiffer, MovedSpent

\* Steps that leave the commits alone, and of the proposals what is spent or
\* shown.
LEMMA ProposalsChange ==
  ASSUME TrashInv, inbox' \subseteq Mails,
         proposal' \in [Proposals -> Proposal], page' \in [Proposals -> SUBSET Mails],
         gone' \in [Commits -> SUBSET Mails], \A c \in Commits : gone[c] \subseteq gone'[c],
         \A p \in Proposals : ProposalOK(p)',
         \A p \in Proposals : proposal[p].at = "spent" => proposal'[p].at = "spent",
         \A p \in Proposals : page[p] # {} => page'[p] = page[p],
         UNCHANGED <<commit, moved>>
  PROVE  TrashInv'
<1>1. TrashTypeOK'
  BY DEF TrashInv, TrashTypeOK, OfAccount
<1>2. ASSUME NEW c \in Commits
      PROVE  CommitOK(c)'
  BY DEF TrashInv, CommitOK
<1>3. TokensDiffer' /\ MovedSpent'
  BY DEF TrashInv, TokensDiffer, MovedSpent
<1>4. QED
  BY <1>1, <1>2, <1>3 DEF TrashInv

\* One proposal changes.
LEMMA ProposalChanges ==
  ASSUME TrashInv, NEW p \in Proposals, NEW new \in Proposal,
         proposal' = [proposal EXCEPT ![p] = new],
         page' \in {page, [page EXCEPT ![p] = proposal[p].rows]},
         page[p] # {} => page'[p] = page[p],
         ProposalOK(p)',
         proposal[p].at = "spent" => new.at = "spent",
         UNCHANGED <<inbox, commit, moved, gone>>
  PROVE  TrashInv'
<1>1. /\ proposal \in [Proposals -> Proposal] /\ page \in [Proposals -> SUBSET Mails]
      /\ proposal[p].rows \in SUBSET Mails /\ inbox \subseteq Mails
      /\ gone \in [Commits -> SUBSET Mails]
  BY DEF TrashInv, TrashTypeOK, Proposal
<1>2. /\ proposal' \in [Proposals -> Proposal] /\ page' \in [Proposals -> SUBSET Mails]
      /\ proposal'[p] = new
      /\ \A q \in Proposals : q # p => proposal'[q] = proposal[q] /\ page'[q] = page[q]
  BY <1>1
<1>3. ASSUME NEW q \in Proposals
      PROVE  ProposalOK(q)'
  BY <1>2 DEF TrashInv, ProposalOK
<1>4. QED
  BY <1>1, <1>2, <1>3, ProposalsChange

LEMMA ProposalStepKeeps ==
  ASSUME TrashInv, NEW p \in Proposals, ProposalStep(p)
  PROVE  TrashInv'
<1>1. /\ proposal \in [Proposals -> Proposal] /\ proposal[p] \in Proposal
      /\ page \in [Proposals -> SUBSET Mails] /\ ProposalOK(p)
  BY DEF TrashInv, TrashTypeOK
<1>2. ASSUME NEW S \in Selections, Propose(p, S)
      PROVE  TrashInv'
  <2> DEFINE new == ProposalAt("checking", S, TRUE)
  <2>1. new \in Proposal /\ new.at = "checking"
    BY SelectionsAssumption, FreshRecords
  <2>2. /\ proposal' = [proposal EXCEPT ![p] = new] /\ proposal[p].at = "unused"
        /\ UNCHANGED <<inbox, page, commit, moved, gone>>
    BY <1>2 DEF Propose
  <2> HIDE DEF new
  <2>3. ProposalOK(p)'
    BY <1>1, <2>1, <2>2 DEF ProposalOK
  <2>4. QED
    BY <2>1, <2>2, <2>3, ProposalChanges
<1>3. ASSUME NEW m \in Mails, Found(p, m)
      PROVE  TrashInv'
  <2> DEFINE new == [proposal[p] EXCEPT !.todo = @ \ {m}, !.rows = @ \cup {m}]
  <2>1. new \in Proposal /\ new.at = proposal[p].at /\ new.waiting = proposal[p].waiting
    BY <1>1 DEF Proposal
  <2>2. /\ proposal' = [proposal EXCEPT ![p] = new]
        /\ proposal[p].at \in {"checking", "rechecking"}
        /\ UNCHANGED <<inbox, page, commit, moved, gone>>
    BY <1>1, <1>3 DEF Found, Checks
  <2> HIDE DEF new
  <2>3. ProposalOK(p)'
    BY <1>1, <2>1, <2>2 DEF ProposalOK
  <2>4. QED
    BY <2>1, <2>2, <2>3, ProposalChanges
<1>4. ASSUME NEW m \in Mails, BatchMisses(p, m)
      PROVE  TrashInv'
  <2> DEFINE new == [proposal[p] EXCEPT !.at = "rechecking", !.rows = {},
                                        !.todo = proposal[p].selection]
  <2>1. new \in Proposal /\ new.at = "rechecking" /\ new.waiting = proposal[p].waiting
    BY <1>1 DEF Proposal
  <2>2. /\ proposal' = [proposal EXCEPT ![p] = new] /\ proposal[p].at = "checking"
        /\ UNCHANGED <<inbox, page, commit, moved, gone>>
    BY <1>1, <1>4 DEF BatchMisses
  <2> HIDE DEF new
  <2>3. ProposalOK(p)'
    BY <1>1, <2>1, <2>2 DEF ProposalOK
  <2>4. QED
    BY <2>1, <2>2, <2>3, ProposalChanges
<1>5. ASSUME NEW m \in Mails, SkipMissing(p, m)
      PROVE  TrashInv'
  <2> DEFINE new == [proposal[p] EXCEPT !.todo = @ \ {m}]
  <2>1. new \in Proposal /\ new.at = proposal[p].at /\ new.waiting = proposal[p].waiting
    BY <1>1 DEF Proposal
  <2>2. /\ proposal' = [proposal EXCEPT ![p] = new] /\ proposal[p].at = "rechecking"
        /\ UNCHANGED <<inbox, page, commit, moved, gone>>
    BY <1>1, <1>5 DEF SkipMissing
  <2> HIDE DEF new
  <2>3. ProposalOK(p)'
    BY <1>1, <2>1, <2>2 DEF ProposalOK
  <2>4. QED
    BY <2>1, <2>2, <2>3, ProposalChanges
<1>6. CASE ProposalFails(p)
  <2> DEFINE new == ProposalAt("failed", {}, proposal[p].waiting)
  <2> DEFINE w == proposal[p].waiting
  <2>0. w \in BOOLEAN
    BY <1>1 DEF Proposal
  <2>1. new \in Proposal /\ new.at = "failed"
    <3> HIDE DEF w
    <3>1. ProposalAt("failed", {}, w) \in Proposal /\ ProposalAt("failed", {}, w).at = "failed"
      BY <2>0, FreshRecords
    <3>2. QED
      BY <3>1 DEF w
  <2>2. /\ proposal' = [proposal EXCEPT ![p] = new]
        /\ proposal[p].at \in {"checking", "rechecking"}
        /\ UNCHANGED <<inbox, page, commit, moved, gone>>
    BY <1>1, <1>6 DEF ProposalFails, Checks
  <2> HIDE DEF new
  <2>3. ProposalOK(p)'
    BY <1>1, <2>1, <2>2 DEF ProposalOK
  <2>4. QED
    BY <2>1, <2>2, <2>3, ProposalChanges
<1>7. CASE StoreToken(p)
  <2>1. /\ proposal[p].at \in {"checking", "rechecking"} /\ proposal[p].rows # {}
        /\ proposal' = [q \in Proposals |-> IF q = p THEN TokenFor(p)
                                            ELSE IF proposal[q].at = "expired" THEN Spent(q)
                                            ELSE proposal[q]]
        /\ UNCHANGED <<inbox, page, commit, moved, gone>>
    BY <1>7 DEF StoreToken, Checks
  <2>2. /\ TokenFor(p) \in Proposal /\ TokenFor(p).at = "pending"
        /\ TokenFor(p).rows = proposal[p].rows /\ TokenFor(p).confirmed = proposal[p].rows
        /\ TokenFor(p).waiting = proposal[p].waiting
    BY <1>1 DEF TokenFor, Proposal
  <2>3. ASSUME NEW q \in Proposals
        PROVE  /\ Spent(q) \in Proposal /\ Spent(q).at = "spent"
               /\ Spent(q).waiting = proposal[q].waiting
    <3>1. proposal[q] \in Proposal
      BY <1>1
    <3>2. QED
      BY <3>1 DEF Spent, ProposalAt, Proposal
  <2>4. proposal' \in [Proposals -> Proposal]
    BY <1>1, <2>1, <2>2, <2>3
  <2>5. ASSUME NEW q \in Proposals
        PROVE  ProposalOK(q)' /\ (proposal[q].at = "spent" => proposal'[q].at = "spent")
    <3>1. ProposalOK(q)
      BY DEF TrashInv
    <3>2. CASE q = p
      BY <2>1, <2>2, <3>1, <3>2 DEF ProposalOK
    <3>3. CASE q # p /\ proposal[q].at = "expired"
      BY <2>1, <2>3, <3>1, <3>3 DEF ProposalOK
    <3>4. CASE q # p /\ proposal[q].at # "expired"
      BY <2>1, <3>1, <3>4 DEF ProposalOK
    <3>5. QED
      BY <3>2, <3>3, <3>4
  <2>6. inbox' \subseteq Mails /\ gone' \in [Commits -> SUBSET Mails]
        /\ page' \in [Proposals -> SUBSET Mails]
    BY <2>1 DEF TrashInv, TrashTypeOK
  <2>7. QED
    BY <2>1, <2>4, <2>5, <2>6, ProposalsChange
<1>8. CASE ShowProposal(p)
  <2> DEFINE new == [proposal[p] EXCEPT !.waiting = FALSE]
  <2>1. /\ new \in Proposal /\ new.at = proposal[p].at /\ new.waiting = FALSE
        /\ new.rows = proposal[p].rows /\ new.confirmed = proposal[p].confirmed
    BY <1>1 DEF Proposal
  <2>2. /\ proposal' = [proposal EXCEPT ![p] = new]
        /\ proposal[p].at \in {"pending", "expired", "spent", "failed"} /\ proposal[p].waiting
        /\ page' = IF proposal[p].at = "failed" THEN page
                                                ELSE [page EXCEPT ![p] = proposal[p].rows]
        /\ UNCHANGED <<inbox, commit, moved, gone>>
    BY <1>1, <1>8 DEF ShowProposal
  <2> HIDE DEF new
  <2>3. ProposalOK(p)' /\ page[p] = {}
    BY <1>1, <2>1, <2>2 DEF ProposalOK
  <2>4. QED
    BY <2>1, <2>2, <2>3, ProposalChanges
<1>9. CASE ProposalTimesOut(p)
  <2> DEFINE new == [proposal[p] EXCEPT !.waiting = FALSE]
  <2>1. /\ new \in Proposal /\ new.at = proposal[p].at /\ new.waiting = FALSE
        /\ new.rows = proposal[p].rows /\ new.confirmed = proposal[p].confirmed
    BY <1>1 DEF Proposal
  <2>2. /\ proposal' = [proposal EXCEPT ![p] = new]
        /\ UNCHANGED <<inbox, page, commit, moved, gone>>
    BY <1>1, <1>9 DEF ProposalTimesOut
  <2> HIDE DEF new
  <2>3. ProposalOK(p)'
    BY <1>1, <2>1, <2>2 DEF ProposalOK
  <2>4. QED
    BY <2>1, <2>2, <2>3, ProposalChanges
<1>10. CASE Expire(p)
  <2> DEFINE new == [proposal[p] EXCEPT !.at = "expired"]
  <2>1. /\ new \in Proposal /\ new.at = "expired" /\ new.waiting = proposal[p].waiting
        /\ new.rows = proposal[p].rows /\ new.confirmed = proposal[p].confirmed
    BY <1>1 DEF Proposal
  <2>2. /\ proposal' = [proposal EXCEPT ![p] = new] /\ proposal[p].at = "pending"
        /\ UNCHANGED <<inbox, page, commit, moved, gone>>
    BY <1>1, <1>10 DEF Expire
  <2> HIDE DEF new
  <2>3. ProposalOK(p)'
    BY <1>1, <2>1, <2>2 DEF ProposalOK
  <2>4. QED
    BY <2>1, <2>2, <2>3, ProposalChanges
<1>11. QED
  BY <1>2, <1>3, <1>4, <1>5, <1>6, <1>7, <1>8, <1>9, <1>10 DEF ProposalStep

\* A proposal becomes spent.
LEMMA SpentFacts ==
  ASSUME TrashInv, NEW p \in Proposals, page[p] # {}, TokenSpent(p)
  PROVE  /\ proposal' \in [Proposals -> Proposal] /\ proposal'[p].at = "spent"
         /\ \A q \in Proposals : q # p => proposal'[q] = proposal[q]
         /\ ~proposal'[p].waiting
<1>1. proposal \in [Proposals -> Proposal] /\ proposal[p] \in Proposal /\ ~proposal[p].waiting
  BY DEF TrashInv, TrashTypeOK, ProposalOK
<1>2. Spent(p) \in Proposal /\ Spent(p).at = "spent" /\ Spent(p).waiting = proposal[p].waiting
  BY <1>1 DEF Spent, ProposalAt, Proposal
<1>3. QED
  BY <1>1, <1>2 DEF TokenSpent

LEMMA RefuseCommitKeeps ==
  ASSUME TrashInv, NEW p \in Proposals, RefuseCommit(p)
  PROVE  TrashInv'
<1>1. /\ page[p] # {} /\ TokenSpent(p) /\ UNCHANGED <<inbox, page, commit, moved, gone>>
  BY DEF RefuseCommit
<1>2. /\ proposal' \in [Proposals -> Proposal] /\ proposal'[p].at = "spent"
      /\ \A q \in Proposals : q # p => proposal'[q] = proposal[q]
      /\ ~proposal'[p].waiting
  BY <1>1, SpentFacts
<1>3. ASSUME NEW q \in Proposals
      PROVE  ProposalOK(q)'
  BY <1>1, <1>2 DEF TrashInv, ProposalOK
<1>4. inbox' \subseteq Mails /\ gone' \in [Commits -> SUBSET Mails]
      /\ page' \in [Proposals -> SUBSET Mails]
  BY <1>1 DEF TrashInv, TrashTypeOK
<1>5. QED
  BY <1>1, <1>2, <1>3, <1>4, ProposalsChange

\* One commit changes; what it moves, it moves with its own token.
LEMMA CommitChanges ==
  ASSUME TrashInv, NEW c \in Commits, NEW new \in Commit,
         commit' = [commit EXCEPT ![c] = new],
         new.located # NoMail => new.located \in new.todo /\ AccountOf[new.located] = new.session,
         new.at \in Active => commit[c].at \in Active /\ new.token = commit[c].token,
         CommitOK(c)',
         inbox' \subseteq Mails,
         moved' \subseteq Proposals \X Mails,
         \A p \in Proposals, m \in Mails : <<p, m>> \in moved' =>
           \/ <<p, m>> \in moved
           \/ commit[c].at \in Active /\ p = commit[c].token /\ m \in page[p],
         gone' \in [Commits -> SUBSET Mails],
         \A d \in Commits : d # c => gone[d] \subseteq gone'[d],
         UNCHANGED <<proposal, page>>
  PROVE  TrashInv'
<1>1. /\ commit \in [Commits -> Commit] /\ commit' \in [Commits -> Commit] /\ commit'[c] = new
      /\ \A d \in Commits : d # c => commit'[d] = commit[d]
  BY DEF TrashInv, TrashTypeOK
<1>2. TrashTypeOK'
  <2>1. ASSUME NEW d \in Commits, commit'[d].located # NoMail
        PROVE  commit'[d].located \in OfAccount(d, commit[d].session)'
    BY <1>1, <2>1 DEF TrashInv, TrashTypeOK, OfAccount
  <2>2. QED
    BY <1>1, <2>1 DEF TrashInv, TrashTypeOK
<1>3. ASSUME NEW d \in Commits
      PROVE  CommitOK(d)'
  <2>1. CASE d # c
    <3>1. CommitOK(d) /\ commit[d] \in Commit /\ commit'[d] = commit[d]
      BY <1>1, <2>1 DEF TrashInv
    <3>2. commit[d].at \in Active => \A m \in Mails :
            <<commit[d].token, m>> \in moved' => <<commit[d].token, m>> \in moved
      BY <2>1, <3>1 DEF TrashInv, TokensDiffer, CommitOK
    <3>3. commit[d].todo \subseteq Mails
      BY <3>1 DEF Commit
    <3>4. QED
      BY <2>1, <3>1, <3>2, <3>3 DEF CommitOK
  <2>2. QED
    BY <2>1
<1>4. TokensDiffer'
  BY <1>1 DEF TrashInv, TokensDiffer
<1>5. MovedSpent'
  BY DEF TrashInv, MovedSpent, CommitOK
<1>6. \A p \in Proposals : ProposalOK(p)'
  BY DEF TrashInv, ProposalOK
<1>7. QED
  BY <1>2, <1>3, <1>4, <1>5, <1>6 DEF TrashInv

LEMMA StartCommitKeeps ==
  ASSUME TrashInv, NEW c \in Commits, NEW p \in Proposals,
         NEW present \in SUBSET proposal[p].confirmed, StartCommit(c, p, present)
  PROVE  TrashInv'
<1> DEFINE outcomes == [m \in Mails |-> IF m \in present THEN "moved"
                                        ELSE IF m \in proposal[p].confirmed THEN "skipped"
                                        ELSE "none"]
           new == [at |-> "moving", token |-> p, todo |-> present, session |-> NoAccount,
                   located |-> NoMail, waiting |-> TRUE, results |-> outcomes]
<1>1. /\ commit[c].at = "unused" /\ page[p] # {} /\ proposal[p].at = "pending"
      /\ TokenSpent(p)
      /\ commit' = [commit EXCEPT ![c] = new]
      /\ gone' = [gone EXCEPT ![c] = Mails \ inbox]
      /\ UNCHANGED <<inbox, page, moved>>
  BY DEF StartCommit, Begin
<1>2. /\ page[p] = proposal[p].confirmed /\ page[p] \subseteq Mails /\ present \subseteq page[p]
      /\ commit \in [Commits -> Commit] /\ gone \in [Commits -> SUBSET Mails]
  BY <1>1 DEF TrashInv, TrashTypeOK, ProposalOK
<1>3. outcomes \in [Mails -> Results] /\ page[p] = {m \in Mails : outcomes[m] # "none"}
  BY <1>2 DEF Results
<1>4. new \in Commit
  BY <1>2, <1>3 DEF Commit
<1>5. /\ new.at = "moving" /\ new.token = p /\ new.todo = present /\ new.located = NoMail
      /\ new.results = outcomes
  OBVIOUS
<1>6. /\ \A m \in present : outcomes[m] = "moved"
      /\ \A m \in Mails : outcomes[m] = "moved" => m \in present
  BY <1>2
<1> HIDE DEF new, outcomes
<1>7. /\ commit' \in [Commits -> Commit] /\ commit'[c] = new
      /\ \A d \in Commits : d # c => commit'[d] = commit[d] /\ gone'[d] = gone[d]
      /\ gone' \in [Commits -> SUBSET Mails]
  BY <1>1, <1>2, <1>4
<1>8. /\ proposal' \in [Proposals -> Proposal] /\ proposal'[p].at = "spent"
      /\ \A q \in Proposals : q # p => proposal'[q] = proposal[q]
      /\ ~proposal'[p].waiting
  BY <1>1, SpentFacts
<1>9. \A m \in Mails : <<p, m>> \notin moved
  BY <1>1 DEF TrashInv, MovedSpent
<1>10. \A d \in Commits : commit[d].at \in Active => commit[d].token # p
  BY <1>1 DEF TrashInv, CommitOK
<1>11. TrashTypeOK'
  <2>1. ASSUME NEW d \in Commits, commit'[d].located # NoMail
        PROVE  commit'[d].located \in OfAccount(d, commit[d].session)'
    BY <1>5, <1>7, <2>1 DEF TrashInv, TrashTypeOK, OfAccount
  <2>2. QED
    BY <1>1, <1>7, <1>8, <2>1 DEF TrashInv, TrashTypeOK
<1>12. ASSUME NEW q \in Proposals
       PROVE  ProposalOK(q)'
  BY <1>1, <1>8 DEF TrashInv, ProposalOK
<1>13. ASSUME NEW d \in Commits
       PROVE  CommitOK(d)'
  <2>1. CASE d = c
    <3>1. \A m \in Mails : outcomes[m] = "moved" => m \in new.todo \cup gone'[c]
      BY <1>5, <1>6
    <3>2. new.todo \subseteq Mails
      BY <1>2, <1>5
    <3>3. QED
      BY <1>1, <1>3, <1>5, <1>6, <1>7, <1>8, <1>9, <2>1, <3>1, <3>2 DEF CommitOK
  <2>2. CASE d # c
    <3>1. CommitOK(d) /\ commit'[d] = commit[d] /\ gone'[d] = gone[d]
      BY <1>7, <2>2 DEF TrashInv
    <3>2. commit[d].at \in Active => proposal'[commit[d].token].at = "spent"
      BY <1>8, <1>10, <3>1 DEF CommitOK
    <3>3. QED
      BY <1>1, <3>1, <3>2 DEF CommitOK
  <2>3. QED
    BY <2>1, <2>2
<1>14. TokensDiffer'
  BY <1>5, <1>7, <1>10 DEF TrashInv, TokensDiffer
<1>15. MovedSpent'
  BY <1>1, <1>8 DEF TrashInv, MovedSpent
<1>16. QED
  BY <1>11, <1>12, <1>13, <1>14, <1>15 DEF TrashInv

\* What is left of a commit that is done with some of its messages.
LEMMA DoneFacts ==
  ASSUME TrashInv, NEW c \in Commits, NEW S \in SUBSET commit[c].todo,
         NEW result \in {"moved", "failed"}
  PROVE  /\ Done(c, S, result) \in Commit
         /\ Done(c, S, result).at = commit[c].at /\ Done(c, S, result).token = commit[c].token
         /\ Done(c, S, result).todo = commit[c].todo \ S /\ Done(c, S, result).located = NoMail
         /\ \A m \in Mails :
              Done(c, S, result).results[m] = IF m \in S THEN result ELSE commit[c].results[m]
<1>1. commit[c] \in Commit
  BY DEF TrashInv, TrashTypeOK
<1> DEFINE after == [m \in Mails |-> IF m \in S THEN result ELSE commit[c].results[m]]
           sess == IF OfAccount(c, commit[c].session) \subseteq S THEN NoAccount
                   ELSE commit[c].session
<1>2. after \in [Mails -> Results] /\ sess \in Accounts \cup {NoAccount}
  BY <1>1 DEF Commit, Results
<1>3. Done(c, S, result) =
        [commit[c] EXCEPT !.todo = commit[c].todo \ S, !.located = NoMail,
                          !.results = after, !.session = sess]
  BY <1>1 DEF Done, Commit
<1>4. \A m \in Mails : after[m] = IF m \in S THEN result ELSE commit[c].results[m]
  OBVIOUS
<1> HIDE DEF after, sess
<1>5. QED
  BY <1>1, <1>2, <1>3, <1>4 DEF Commit

\* A commit is done with some messages, which have all been outside their
\* folder if it calls them moved.
LEMMA DoneKeeps ==
  ASSUME TrashInv, NEW c \in Commits, NEW S \in SUBSET commit[c].todo, S # {},
         NEW result \in {"moved", "failed"},
         commit' = [commit EXCEPT ![c] = Done(c, S, result)],
         inbox' \subseteq Mails, moved' \subseteq Proposals \X Mails,
         \A p \in Proposals, m \in Mails : <<p, m>> \in moved' =>
           <<p, m>> \in moved \/ (p = commit[c].token /\ m \in S),
         gone' \in [Commits -> SUBSET Mails],
         \A d \in Commits : gone[d] \subseteq gone'[d],
         result = "moved" => S \subseteq gone'[c],
         UNCHANGED <<proposal, page>>
  PROVE  TrashInv'
<1> DEFINE new == Done(c, S, result)
<1>1. /\ new \in Commit /\ new.at = commit[c].at /\ new.token = commit[c].token
      /\ new.todo = commit[c].todo \ S /\ new.located = NoMail
      /\ \A m \in Mails : new.results[m] = IF m \in S THEN result ELSE commit[c].results[m]
  BY DoneFacts
<1> HIDE DEF new
<1>2. /\ commit[c] \in Commit /\ commit[c].todo \subseteq Mails /\ CommitOK(c)
      /\ commit \in [Commits -> Commit]
  BY DEF TrashInv, TrashTypeOK, Commit
<1>3. commit[c].at = "moving" /\ commit'[c] = new
  BY <1>2 DEF CommitOK, new
<1>4. /\ commit[c].token \in Proposals
      /\ page[commit[c].token] = {m \in Mails : commit[c].results[m] # "none"}
      /\ \A m \in commit[c].todo : commit[c].results[m] = "moved"
  BY <1>2, <1>3 DEF CommitOK, Active
<1>5. CommitOK(c)'
  <2>1. {m \in Mails : new.results[m] # "none"} = {m \in Mails : commit[c].results[m] # "none"}
    BY <1>1, <1>4
  <2>2. \A m \in Mails : new.results[m] = "moved" => m \in new.todo \cup gone'[c]
    BY <1>1, <1>2, <1>3 DEF CommitOK, Active
  <2>3. \A m \in Mails : new.results[m] = "skipped" => <<new.token, m>> \notin moved'
    BY <1>1, <1>2, <1>3, <1>4 DEF CommitOK, Active
  <2>4. \A m \in new.todo : new.results[m] = "moved" /\ <<new.token, m>> \notin moved'
    BY <1>1, <1>2, <1>3, <1>4 DEF CommitOK, Active
  <2>5. QED
    BY <1>1, <1>2, <1>3, <1>4, <2>1, <2>2, <2>3, <2>4 DEF CommitOK, Active
<1>6. \A p \in Proposals, m \in Mails : <<p, m>> \in moved' =>
        \/ <<p, m>> \in moved
        \/ commit[c].at \in Active /\ p = commit[c].token /\ m \in page[p]
  BY <1>2, <1>3, <1>4 DEF Active
<1>7. QED
  BY <1>1, <1>3, <1>5, <1>6, CommitChanges DEF new, Active

\* A commit changes only how far it is with its session and its handler.
LEMMA CommitGoesOn ==
  ASSUME TrashInv, NEW c \in Commits, NEW new \in Commit,
         commit' = [commit EXCEPT ![c] = new],
         new.token = commit[c].token, new.results = commit[c].results, new.todo = commit[c].todo,
         new.at = commit[c].at \/ (commit[c].at = "moving" /\ new.todo = {} /\ new.at = "answered"),
         new.located # NoMail =>
           new.located \in new.todo /\ AccountOf[new.located] = new.session,
         UNCHANGED <<inbox, proposal, page, moved, gone>>
  PROVE  TrashInv'
<1>1. /\ commit[c] \in Commit /\ CommitOK(c) /\ commit'[c] = new
      /\ inbox' \subseteq Mails /\ moved' \subseteq Proposals \X Mails
      /\ gone' \in [Commits -> SUBSET Mails]
  BY DEF TrashInv, TrashTypeOK
<1>2. CommitOK(c)'
  BY <1>1 DEF CommitOK, Active
<1>3. new.at \in Active => commit[c].at \in Active
  BY DEF Active
<1>4. QED
  BY <1>1, <1>2, <1>3, CommitChanges

LEMMA OutsideFacts ==
  ASSUME TrashInv, NEW out \in SUBSET Mails
  PROVE  /\ Outside(out) \in [Commits -> SUBSET Mails]
         /\ \A c \in Commits : gone[c] \subseteq Outside(out)[c]
         /\ \A c \in Commits : commit[c].at = "moving" => out \subseteq Outside(out)[c]
BY DEF TrashInv, TrashTypeOK, Outside

LEMMA CommitStepKeeps ==
  ASSUME TrashInv, NEW c \in Commits, CommitStep(c)
  PROVE  TrashInv'
<1>1. /\ commit \in [Commits -> Commit] /\ commit[c] \in Commit /\ CommitOK(c)
      /\ inbox \subseteq Mails /\ moved \subseteq Proposals \X Mails
      /\ gone \in [Commits -> SUBSET Mails] /\ commit[c].todo \subseteq Mails
      /\ commit[c].located # NoMail =>
           commit[c].located \in commit[c].todo /\ AccountOf[commit[c].located] = commit[c].session
  BY DEF TrashInv, TrashTypeOK, Commit, OfAccount
<1>2. ASSUME NEW p \in Proposals, NEW present \in SUBSET proposal[p].confirmed,
             StartCommit(c, p, present)
      PROVE  TrashInv'
  BY <1>2, StartCommitKeeps
<1>3. ASSUME NEW a \in Accounts, OpenSession(c, a)
      PROVE  TrashInv'
  <2> DEFINE new == [commit[c] EXCEPT !.session = a]
  <2>1. /\ new \in Commit /\ new.at = commit[c].at /\ new.token = commit[c].token
        /\ new.results = commit[c].results /\ new.todo = commit[c].todo
        /\ new.located = commit[c].located
    BY <1>1 DEF Commit
  <2>2. /\ commit' = [commit EXCEPT ![c] = new] /\ commit[c].session = NoAccount
        /\ UNCHANGED <<inbox, proposal, page, moved, gone>>
    BY <1>1, <1>3 DEF OpenSession
  <2>3. new.located = NoMail
    BY <1>1, <2>1, <2>2, AccountsAssumption
  <2> HIDE DEF new
  <2>4. QED
    BY <2>1, <2>2, <2>3, CommitGoesOn
<1>4. ASSUME NEW a \in Accounts, SessionFails(c, a)
      PROVE  TrashInv'
  <2>1. OfAccount(c, a) \in SUBSET commit[c].todo /\ OfAccount(c, a) # {}
    BY <1>4 DEF SessionFails, OfAccount
  <2>2. /\ commit' = [commit EXCEPT ![c] = Done(c, OfAccount(c, a), "failed")]
        /\ UNCHANGED <<inbox, proposal, page, moved, gone>>
    BY <1>4 DEF SessionFails
  <2>3. QED
    BY <1>1, <2>1, <2>2, DoneKeeps
<1>5. ASSUME NEW m \in Mails, Locate(c, m)
      PROVE  TrashInv'
  <2> DEFINE new == [commit[c] EXCEPT !.located = m]
  <2>1. /\ new \in Commit /\ new.at = commit[c].at /\ new.token = commit[c].token
        /\ new.results = commit[c].results /\ new.todo = commit[c].todo
        /\ new.located = m /\ new.session = commit[c].session
    BY <1>1 DEF Commit
  <2>2. /\ commit' = [commit EXCEPT ![c] = new]
        /\ m \in commit[c].todo /\ AccountOf[m] = commit[c].session
        /\ UNCHANGED <<inbox, proposal, page, moved, gone>>
    BY <1>1, <1>5 DEF Locate, OfAccount
  <2> HIDE DEF new
  <2>3. QED
    BY <2>1, <2>2, CommitGoesOn
<1>6. ASSUME NEW m \in Mails, MoveFails(c, m)
      PROVE  TrashInv'
  <2>1. {m} \in SUBSET commit[c].todo /\ {m} # {}
    BY <1>6 DEF MoveFails, OfAccount
  <2>2. /\ commit' = [commit EXCEPT ![c] = Done(c, {m}, "failed")]
        /\ UNCHANGED <<inbox, proposal, page, moved, gone>>
    BY <1>6 DEF MoveFails
  <2>3. QED
    BY <1>1, <2>1, <2>2, DoneKeeps
<1>7. ASSUME NEW m \in Mails, NEW reply \in {"moved", "failed"}, Move(c, m, reply)
      PROVE  TrashInv'
  <2>1. /\ commit[c].located = m /\ inbox' = inbox \ {m}
        /\ moved' = (IF m \in inbox THEN moved \cup {<<commit[c].token, m>>} ELSE moved)
        /\ gone' = Outside({m})
        /\ commit' = [commit EXCEPT ![c] = Done(c, {m}, reply)]
        /\ UNCHANGED <<proposal, page>>
    BY <1>7 DEF Move
  <2>2. {m} \in SUBSET commit[c].todo /\ {m} # {}
    BY <1>1, <2>1, NoneAssumption
  <2>3. commit[c].at = "moving" /\ commit[c].token \in Proposals
    BY <1>1, <2>2 DEF CommitOK, Active
  <2>4. /\ gone' \in [Commits -> SUBSET Mails] /\ {m} \subseteq gone'[c]
        /\ \A d \in Commits : gone[d] \subseteq gone'[d]
    BY <2>1, <2>3, OutsideFacts
  <2>5. /\ moved' \subseteq Proposals \X Mails
        /\ \A p \in Proposals, n \in Mails : <<p, n>> \in moved' =>
             <<p, n>> \in moved \/ (p = commit[c].token /\ n \in {m})
    BY <1>1, <2>1, <2>3
  <2>6. QED
    BY <1>1, <2>1, <2>2, <2>4, <2>5, DoneKeeps
<1>8. CASE EndCommit(c)
  <2>1. /\ commit[c].at = "moving" /\ commit[c].todo = {} /\ commit[c].located = NoMail
        /\ UNCHANGED <<inbox, proposal, page, moved>>
    BY <1>1, <1>8, NoneAssumption DEF EndCommit
  <2>2. CASE /\ commit' = [commit EXCEPT ![c].at = "answered", ![c].waiting = FALSE]
             /\ gone' = gone
    <3> DEFINE new == [commit[c] EXCEPT !.at = "answered", !.waiting = FALSE]
    <3>1. /\ new \in Commit /\ new.at = "answered" /\ new.token = commit[c].token
          /\ new.results = commit[c].results /\ new.todo = commit[c].todo
          /\ new.located = commit[c].located
      BY <1>1 DEF Commit
    <3>2. commit' = [commit EXCEPT ![c] = new]
      BY <1>1, <2>2
    <3> HIDE DEF new
    <3>3. QED
      BY <2>1, <2>2, <3>1, <3>2, CommitGoesOn
  <2>3. CASE /\ commit' = [commit EXCEPT ![c] = CommitAt("ended")]
             /\ gone' = [gone EXCEPT ![c] = {}]
    <3>1. /\ CommitAt("ended") \in Commit /\ CommitAt("ended").at = "ended"
          /\ CommitAt("ended").todo = {} /\ CommitAt("ended").located = NoMail
      BY FreshRecords
    <3>2. CommitOK(c)' /\ commit'[c] = CommitAt("ended")
      BY <1>1, <2>3, <3>1 DEF CommitOK, Active
    <3>3. gone' \in [Commits -> SUBSET Mails] /\ \A d \in Commits : d # c => gone'[d] = gone[d]
      BY <1>1, <2>3
    <3>4. QED
      BY <1>1, <2>1, <2>3, <3>1, <3>2, <3>3, CommitChanges DEF Active
  <2>4. QED
    BY <1>8, <2>2, <2>3 DEF EndCommit
<1>9. CASE CommitTimesOut(c)
  <2> DEFINE new == [commit[c] EXCEPT !.waiting = FALSE]
  <2>1. /\ new \in Commit /\ new.at = commit[c].at /\ new.token = commit[c].token
        /\ new.results = commit[c].results /\ new.todo = commit[c].todo
        /\ new.located = commit[c].located /\ new.session = commit[c].session
    BY <1>1 DEF Commit
  <2>2. /\ commit' = [commit EXCEPT ![c] = new]
        /\ UNCHANGED <<inbox, proposal, page, moved, gone>>
    BY <1>1, <1>9 DEF CommitTimesOut
  <2> HIDE DEF new
  <2>3. QED
    BY <1>1, <2>1, <2>2, CommitGoesOn
<1>10. QED
  BY <1>2, <1>3, <1>4, <1>5, <1>6, <1>7, <1>8, <1>9 DEF CommitStep

LEMMA RestartKeeps == TrashInv /\ Restart => TrashInv'
<1> SUFFICES ASSUME TrashInv, Restart PROVE TrashInv'
  OBVIOUS
<1>1. /\ proposal' = [p \in Proposals |->
           IF proposal[p].at = "unused" THEN proposal[p] ELSE ProposalAt("spent", {}, FALSE)]
      /\ commit' = [c \in Commits |-> IF commit[c].at = "moving" THEN CommitAt("ended")
                                                               ELSE commit[c]]
      /\ UNCHANGED <<inbox, page, moved, gone>>
  BY DEF Restart
<1>2. /\ ProposalAt("spent", {}, FALSE) \in Proposal
      /\ ProposalAt("spent", {}, FALSE).at = "spent" /\ ~ProposalAt("spent", {}, FALSE).waiting
      /\ CommitAt("ended") \in Commit /\ CommitAt("ended").at = "ended"
      /\ CommitAt("ended").todo = {} /\ CommitAt("ended").located = NoMail
  BY FreshRecords
<1>3. /\ proposal' \in [Proposals -> Proposal] /\ commit' \in [Commits -> Commit]
  BY <1>1, <1>2 DEF TrashInv, TrashTypeOK
<1>4. TrashTypeOK'
  <2>1. ASSUME NEW d \in Commits, commit'[d].located # NoMail
        PROVE  commit'[d].located \in OfAccount(d, commit[d].session)'
    BY <1>1, <1>2, <2>1 DEF TrashInv, TrashTypeOK, OfAccount
  <2>2. QED
    BY <1>1, <1>3, <2>1 DEF TrashInv, TrashTypeOK
<1>5. ASSUME NEW p \in Proposals
      PROVE  ProposalOK(p)' /\ (proposal[p].at = "spent" => proposal'[p].at = "spent")
  BY <1>1, <1>2 DEF TrashInv, ProposalOK
<1>6. ASSUME NEW c \in Commits
      PROVE  CommitOK(c)'
  <2>1. CASE commit[c].at = "moving"
    BY <1>1, <1>2, <2>1 DEF CommitOK, Active
  <2>2. CASE commit[c].at # "moving"
    <3>1. commit'[c] = commit[c] /\ CommitOK(c)
      BY <1>1, <2>2 DEF TrashInv
    <3>2. CASE commit[c].at \in Active
      <4>1. commit[c].token \in Proposals /\ proposal[commit[c].token].at = "spent"
        BY <3>1, <3>2 DEF CommitOK
      <4>2. proposal'[commit[c].token].at = "spent"
        BY <4>1, <1>5
      <4>3. QED
        BY <1>1, <3>1, <3>2, <4>1, <4>2 DEF CommitOK
    <3>3. CASE commit[c].at \notin Active
      BY <1>1, <3>1, <3>3 DEF CommitOK
    <3>4. QED
      BY <3>2, <3>3
  <2>3. QED
    BY <2>1, <2>2
<1>7. TokensDiffer'
  BY <1>1, <1>2 DEF TrashInv, TokensDiffer, Active
<1>8. MovedSpent'
  BY <1>1, <1>5 DEF TrashInv, MovedSpent
<1>9. QED
  BY <1>4, <1>5, <1>6, <1>7, <1>8 DEF TrashInv

LEMMA RoamsKeeps ==
  ASSUME TrashInv, NEW m \in Roaming, Roams(m)
  PROVE  TrashInv'
<1>1. m \in Mails /\ {m} \in SUBSET Mails
  BY SelectionsAssumption
<1>2. gone' \in [Commits -> SUBSET Mails] /\ \A c \in Commits : gone[c] \subseteq gone'[c]
  BY <1>1, OutsideFacts DEF Roams
<1>3. /\ inbox' \subseteq Mails /\ UNCHANGED <<proposal, page, commit, moved>>
      /\ proposal' \in [Proposals -> Proposal] /\ page' \in [Proposals -> SUBSET Mails]
  BY <1>1 DEF Roams, TrashInv, TrashTypeOK
<1>4. \A p \in Proposals : ProposalOK(p)'
  BY <1>3 DEF TrashInv, ProposalOK
<1>5. QED
  BY <1>2, <1>3, <1>4, ProposalsChange

LEMMA TrashStep == TrashInv /\ [TrashNext]_trashVars => TrashInv'
<1> SUFFICES ASSUME TrashInv, [TrashNext]_trashVars PROVE TrashInv'
  OBVIOUS
<1>1. CASE UNCHANGED trashVars
  BY <1>1 DEF trashVars, TrashInv, TrashTypeOK, OfAccount, ProposalOK, CommitOK, TokensDiffer,
     MovedSpent
<1>2. CASE TrashNext
  BY <1>2, ProposalStepKeeps, RefuseCommitKeeps, CommitStepKeeps, RoamsKeeps, RestartKeeps
     DEF TrashNext
<1>3. QED
  BY <1>1, <1>2

LEMMA TrashInvariant == TrashSpec => []TrashInv
BY TrashInitially, TrashStep, PTL DEF TrashSpec

\* The folders, proposals, pages and commits of the trash workflow keep their
\* types, and a located message is one the open session has to move.
THEOREM TrashTypeCorrect == TrashSpec => []TrashTypeOK
BY TrashInvariant, PTL DEF TrashInv

\* Every message a commit of trash_workflow.py moves was among the rows shown
\* with the token that was confirmed, whatever is skipped, times out or dies.
THEOREM OnlyConfirmedMoves == TrashSpec => []ConfirmedOnly
<1>1. TrashInv => ConfirmedOnly
  BY DEF TrashInv, MovedSpent, ConfirmedOnly
<1>2. QED
  BY <1>1, TrashInvariant, PTL

\* The outcomes /trash/commit shows cover the confirmed rows, call moved only
\* what has been outside its folder since, and skipped only what it left.
THEOREM OutcomesAreHonest == TrashSpec => []OutcomesHonest
<1>1. TrashInv => OutcomesHonest
  <2> SUFFICES ASSUME TrashInv, NEW c \in Commits, commit[c].at = "answered"
               PROVE  /\ page[commit[c].token] = {m \in Mails : commit[c].results[m] # "none"}
                      /\ \A m \in page[commit[c].token] :
                           /\ commit[c].results[m] = "moved" => m \in gone[c]
                           /\ commit[c].results[m] = "skipped" => <<commit[c].token, m>> \notin moved
    BY DEF OutcomesHonest
  <2>1. CommitOK(c) /\ commit[c].at \in Active /\ commit[c].todo = {}
    BY DEF TrashInv, CommitOK, Active
  <2>2. QED
    BY <2>1 DEF CommitOK
<1>2. QED
  BY <1>1, TrashInvariant, PTL

\* A token moves a message once: it is popped before the commit starts
\* (pop_pending), so no second commit of it begins.
THEOREM MovesHappenOnce == TrashSpec => MovedOnce
<1> DEFINE Once ==
      \A c \in Commits :
        LET m == commit[c].located IN
        m \in inbox \ inbox' /\ commit'[c].located # m => <<commit[c].token, m>> \notin moved
<1>1. TrashInv /\ [TrashNext]_trashVars => [Once]_trashVars
  <2> SUFFICES ASSUME TrashInv, TrashNext, NEW c \in Commits,
                      commit[c].located \in inbox \ inbox',
                      commit'[c].located # commit[c].located
               PROVE  <<commit[c].token, commit[c].located>> \notin moved
    OBVIOUS
  <2>1. commit[c].located \in commit[c].todo
    BY NoneAssumption DEF TrashInv, TrashTypeOK, OfAccount
  <2>2. CommitOK(c)
    BY DEF TrashInv
  <2>3. commit[c].at \in Active
    BY <2>1, <2>2 DEF CommitOK, Active
  <2>4. QED
    BY <2>1, <2>2, <2>3 DEF CommitOK
<1>2. QED
  BY <1>1, TrashInvariant, PTL DEF TrashSpec, MovedOnce

-----------------------------------------------------------------------------
(* Trash: what the user sees of it is what ConfirmedMoves promises.        *)

\* What is not in its folder has been noted for every commit under way.
OutsideNoted ==
  \A c \in Commits : commit[c].at = "moving" => Mails \ inbox \subseteq gone[c]

LEMMA OutsideStaysNoted == TrashInv /\ OutsideNoted /\ [TrashNext]_trashVars => OutsideNoted'
<1> SUFFICES ASSUME TrashInv, OutsideNoted, [TrashNext]_trashVars PROVE OutsideNoted'
  OBVIOUS
<1>1. /\ commit \in [Commits -> Commit] /\ gone \in [Commits -> SUBSET Mails]
      /\ inbox \subseteq Mails
  BY DEF TrashInv, TrashTypeOK
<1>2. ASSUME UNCHANGED <<inbox, gone>>,
             \A c \in Commits : commit'[c].at = "moving" => commit[c].at = "moving"
      PROVE  OutsideNoted'
  BY <1>2 DEF OutsideNoted
<1>3. ASSUME NEW m \in Mails, \A n \in Mails : n # m => (n \in inbox' <=> n \in inbox),
             gone' = Outside({m}),
             \A c \in Commits : commit'[c].at = "moving" => commit[c].at = "moving"
      PROVE  OutsideNoted'
  BY <1>1, <1>3 DEF OutsideNoted, Outside
<1>4. ASSUME NEW c \in Commits, NEW S \in SUBSET commit[c].todo, NEW result \in {"moved", "failed"},
             commit' = [commit EXCEPT ![c] = Done(c, S, result)]
      PROVE  \A d \in Commits : commit'[d].at = "moving" => commit[d].at = "moving"
  BY <1>1, <1>4, DoneFacts
<1>5. ASSUME NEW p \in Proposals, ProposalStep(p) \/ RefuseCommit(p)
      PROVE  OutsideNoted'
  BY <1>2, <1>5 DEF ProposalStep, RefuseCommit, Propose, Found, BatchMisses, SkipMissing,
     ProposalFails, StoreToken, ShowProposal, ProposalTimesOut, Expire
<1>6. ASSUME NEW c \in Commits, CommitStep(c)
      PROVE  OutsideNoted'
  <2>1. ASSUME NEW p \in Proposals, NEW present \in SUBSET proposal[p].confirmed,
               StartCommit(c, p, present)
        PROVE  OutsideNoted'
    <3>1. /\ gone' = [gone EXCEPT ![c] = Mails \ inbox] /\ inbox' = inbox
          /\ \A d \in Commits : d # c => commit'[d] = commit[d]
      BY <1>1, <2>1 DEF StartCommit, Begin
    <3>2. QED
      BY <1>1, <3>1 DEF OutsideNoted
  <2>2. ASSUME NEW a \in Accounts, OpenSession(c, a)
        PROVE  OutsideNoted'
    BY <1>1, <1>2, <2>2 DEF OpenSession, Commit
  <2>3. ASSUME NEW a \in Accounts, SessionFails(c, a)
        PROVE  OutsideNoted'
    <3>1. OfAccount(c, a) \in SUBSET commit[c].todo
      BY DEF OfAccount
    <3>2. QED
      BY <1>2, <1>4, <2>3, <3>1 DEF SessionFails
  <2>4. ASSUME NEW m \in Mails, Locate(c, m)
        PROVE  OutsideNoted'
    BY <1>1, <1>2, <2>4 DEF Locate, Commit
  <2>5. ASSUME NEW m \in Mails, MoveFails(c, m)
        PROVE  OutsideNoted'
    <3>1. {m} \in SUBSET commit[c].todo
      BY <2>5 DEF MoveFails, OfAccount
    <3>2. QED
      BY <1>2, <1>4, <2>5, <3>1 DEF MoveFails
  <2>6. ASSUME NEW m \in Mails, NEW reply \in {"moved", "failed"}, Move(c, m, reply)
        PROVE  OutsideNoted'
    <3>1. {m} \in SUBSET commit[c].todo
      BY <2>6, NoneAssumption DEF Move, TrashInv, TrashTypeOK, OfAccount
    <3>2. /\ inbox' = inbox \ {m} /\ gone' = Outside({m})
          /\ commit' = [commit EXCEPT ![c] = Done(c, {m}, reply)]
      BY <2>6 DEF Move
    <3>3. QED
      BY <1>3, <1>4, <3>1, <3>2
  <2>7. CASE EndCommit(c)
    <3>1. /\ inbox' = inbox /\ gone \in [Commits -> SUBSET Mails]
          /\ \A d \in Commits : d # c => commit'[d] = commit[d] /\ gone'[d] = gone[d]
      BY <1>1, <2>7 DEF EndCommit
    <3>2. commit'[c].at # "moving"
      BY <1>1, <2>7, FreshRecords DEF EndCommit, Commit
    <3>3. QED
      BY <3>1, <3>2 DEF OutsideNoted
  <2>8. CASE CommitTimesOut(c)
    BY <1>1, <1>2, <2>8 DEF CommitTimesOut, Commit
  <2>9. QED
    BY <1>6, <2>1, <2>2, <2>3, <2>4, <2>5, <2>6, <2>7, <2>8 DEF CommitStep
<1>7. ASSUME NEW m \in Roaming, Roams(m)
      PROVE  OutsideNoted'
  <2>1. m \in Mails
    BY SelectionsAssumption
  <2>2. QED
    BY <1>3, <1>7, <2>1 DEF Roams
<1>8. CASE Restart
  BY <1>2, <1>8, FreshRecords DEF Restart
<1>9. CASE UNCHANGED trashVars
  BY <1>2, <1>9 DEF trashVars
<1>10. QED
  BY <1>5, <1>6, <1>7, <1>8, <1>9 DEF TrashNext

PromiseInv == TrashInv /\ OutsideNoted

LEMMA PromiseInvariant == TrashSpec => []PromiseInv
<1>1. TrashInit => OutsideNoted
  BY FreshRecords DEF TrashInit, OutsideNoted
<1>2. QED
  BY <1>1, TrashInitially, TrashStep, OutsideStaysNoted, PTL DEF TrashSpec, PromiseInv

\* What a commit under way has seen outside is what its token has.
SeenByToken ==
  /\ Underway \subseteq Proposals
  /\ \A c \in Commits : commit[c].at = "moving" =>
       commit[c].token \in Underway /\ SeenSince(commit[c].token) = gone[c]
  /\ \A p \in Underway : \E c \in Commits : commit[c].at = "moving" /\ commit[c].token = p
  /\ \A p \in Proposals \ Underway : SeenSince(p) = {}

LEMMA TokensSee == TrashInv => SeenByToken
<1> SUFFICES ASSUME TrashInv PROVE SeenByToken
  OBVIOUS
<1>1. \A c \in Commits : commit[c].at = "moving" => commit[c].token \in Proposals
  BY DEF TrashInv, CommitOK, Active
<1>2. ASSUME NEW c \in Commits, commit[c].at = "moving"
      PROVE  commit[c].token \in Underway /\ SeenSince(commit[c].token) = gone[c]
  <2>1. {d \in At("moving") : commit[d].token = commit[c].token} = {c}
    BY <1>2 DEF At, TrashInv, TokensDiffer, Active
  <2>2. QED
    BY <1>2, <2>1 DEF Underway, SeenSince, At
<1>3. ASSUME NEW p \in Proposals \ Underway
      PROVE  SeenSince(p) = {}
  <2>1. {d \in At("moving") : commit[d].token = p} = {}
    BY DEF Underway
  <2>2. QED
    BY <2>1 DEF SeenSince
<1>4. QED
  BY <1>1, <1>2, <1>3 DEF SeenByToken, Underway, At

\* Steps that leave the commits where they are, with their tokens.
LEMMA CommitsStay ==
  ASSUME \A c \in Commits : commit'[c].at = commit[c].at /\ commit'[c].token = commit[c].token,
         \A c \in Commits : commit[c].at = "answered" => commit'[c].results = commit[c].results
  PROVE  Underway' = Underway /\ Told' = Told
<1>1. At("moving")' = At("moving") /\ At("answered")' = At("answered")
  BY DEF At
<1>2. QED
  BY <1>1 DEF Underway, Told, At

LEMMA NothingSeen ==
  ASSUME \A c \in Commits : commit'[c].at = commit[c].at /\ commit'[c].token = commit[c].token,
         gone' = gone, NEW p \in Proposals
  PROVE  SeenSince(p)' = SeenSince(p)
<1>1. At("moving")' = At("moving")
  BY DEF At
<1>2. {d \in At("moving") : commit[d].token = p}' = {d \in At("moving") : commit[d].token = p}
  BY <1>1 DEF At
<1>3. QED
  BY <1>2 DEF SeenSince

\* A message that every commit notes is noted for the tokens under way.
LEMMA SeenByAll ==
  ASSUME TrashInv, TrashInv', NEW m \in Mails, gone' = Outside({m}),
         \A c \in Commits : commit'[c].at = commit[c].at /\ commit'[c].token = commit[c].token
  PROVE  [p \in Proposals |-> SeenSince(p)]' =
           [p \in Proposals |-> IF p \in Underway THEN [q \in Proposals |-> SeenSince(q)][p] \cup {m}
                                ELSE [q \in Proposals |-> SeenSince(q)][p]]
<1>1. SeenByToken /\ SeenByToken'
  BY TokensSee, PTL
<1>2. Underway' = Underway
  <2>1. At("moving")' = At("moving")
    BY DEF At
  <2>2. QED
    BY <2>1 DEF Underway, At
<1>3. ASSUME NEW p \in Underway
      PROVE  SeenSince(p)' = SeenSince(p) \cup {m}
  <2>1. PICK c \in Commits : commit[c].at = "moving" /\ commit[c].token = p
    BY <1>1 DEF SeenByToken
  <2>2. SeenSince(p) = gone[c] /\ SeenSince(p)' = gone'[c]
    BY <1>1, <2>1 DEF SeenByToken
  <2>3. gone'[c] = gone[c] \cup {m}
    BY <2>1 DEF Outside
  <2>4. QED
    BY <2>2, <2>3
<1>4. ASSUME NEW p \in Proposals \ Underway
      PROVE  SeenSince(p)' = SeenSince(p)
  BY <1>1, <1>2 DEF SeenByToken
<1>5. QED
  BY <1>3, <1>4

\* How a step of the assistant, its threads or the server looks to the user.
PromiseStep == [Promise!Next]_(Promise!vars)

\* Nothing the user sees.
LEMMA UserSeesNothing ==
  ASSUME \A c \in Commits : commit'[c].at = commit[c].at /\ commit'[c].token = commit[c].token,
         \A c \in Commits : commit[c].at = "answered" => commit'[c].results = commit[c].results,
         UNCHANGED <<inbox, page, moved, gone>>, Over' = Over
  PROVE  PromiseStep
BY CommitsStay, NothingSeen DEF PromiseStep, Promise!vars

\* The proposals change, and no commit.
LEMMA OverIs ==
  ASSUME \A q \in Proposals :
           proposal'[q].at \in {"expired", "spent"} <=> proposal[q].at \in {"expired", "spent"}
  PROVE  Over' = Over
BY DEF Over

LEMMA ProposalsArePromised ==
  ASSUME TrashInv, NEW p \in Proposals, ProposalStep(p) \/ RefuseCommit(p)
  PROVE  PromiseStep
<1>1. /\ proposal \in [Proposals -> Proposal] /\ ProposalOK(p)
      /\ page \in [Proposals -> SUBSET Mails]
  BY DEF TrashInv, TrashTypeOK
<1>2. UNCHANGED <<inbox, commit, moved, gone>>
  BY DEF ProposalStep, RefuseCommit, Propose, Found, BatchMisses, SkipMissing,
     ProposalFails, StoreToken, ShowProposal, ProposalTimesOut, Expire
<1>3. ASSUME page' = page, Over' = Over
      PROVE  PromiseStep
  BY <1>2, <1>3, UserSeesNothing
<1>4. UNCHANGED <<Underway, Told, [q \in Proposals |-> SeenSince(q)]>>
  BY <1>2, CommitsStay, NothingSeen
<1>5. ASSUME page' = page, \A q \in Proposals : q # p => proposal'[q].at = proposal[q].at,
             proposal'[p].at \in {"expired", "spent"} <=> proposal[p].at \in {"expired", "spent"}
      PROVE  PromiseStep
  BY <1>3, <1>5, OverIs
<1>6. ASSUME NEW S \in Selections, Propose(p, S)
      PROVE  PromiseStep
  BY <1>1, <1>5, <1>6 DEF Propose, ProposalAt
<1>7. ASSUME NEW m \in Mails, Found(p, m) \/ BatchMisses(p, m) \/ SkipMissing(p, m)
      PROVE  PromiseStep
  BY <1>1, <1>5, <1>7 DEF Found, BatchMisses, SkipMissing, Proposal
<1>8. CASE ProposalFails(p)
  BY <1>1, <1>5, <1>8 DEF ProposalFails, Checks, ProposalAt
<1>9. CASE StoreToken(p)
  <2>1. /\ proposal[p].at \in {"checking", "rechecking"} /\ page' = page
        /\ \A q \in Proposals : proposal'[q] = IF q = p THEN TokenFor(p)
                                               ELSE IF proposal[q].at = "expired" THEN Spent(q)
                                               ELSE proposal[q]
    BY <1>9 DEF StoreToken, Checks
  <2>2. TokenFor(p).at = "pending" /\ \A q \in Proposals : Spent(q).at = "spent"
    BY <1>1 DEF TokenFor, Spent, ProposalAt, Proposal
  <2>3. \A q \in Proposals :
          proposal'[q].at \in {"expired", "spent"} <=> proposal[q].at \in {"expired", "spent"}
    BY <2>1, <2>2
  <2>4. QED
    BY <1>3, <2>1, <2>3, OverIs
<1>10. CASE ShowProposal(p)
  <2>1. Over' = Over
    <3>1. \A q \in Proposals : proposal'[q].at = proposal[q].at
      BY <1>1, <1>10 DEF ShowProposal, Proposal
    <3>2. QED
      BY <3>1, OverIs
  <2>2. CASE proposal[p].at = "failed"
    BY <1>3, <1>10, <2>1, <2>2 DEF ShowProposal
  <2>3. CASE proposal[p].at # "failed"
    <3>1. page[p] = {} /\ page' = [page EXCEPT ![p] = proposal[p].rows]
      BY <1>1, <1>10, <2>3 DEF ShowProposal, ProposalOK
    <3>2. proposal[p].rows \in SUBSET Mails
      BY <1>1 DEF Proposal
    <3>3. Promise!Show(p)
      BY <1>2, <1>4, <2>1, <3>1, <3>2 DEF Promise!Show
    <3>4. QED
      BY <3>3 DEF PromiseStep, Promise!Next
  <2>4. QED
    BY <2>2, <2>3
<1>11. CASE ProposalTimesOut(p)
  BY <1>1, <1>5, <1>11 DEF ProposalTimesOut, Proposal
<1>12. CASE Expire(p)
  <2>1. /\ page' = page /\ proposal'[p].at = "expired"
        /\ \A q \in Proposals : q # p => proposal'[q] = proposal[q]
    BY <1>1, <1>12 DEF Expire, Proposal
  <2>2. Over' = Over \cup {p}
    BY <2>1 DEF Over
  <2>3. Promise!Withdraw(p)
    BY <1>2, <1>4, <2>1, <2>2 DEF Promise!Withdraw
  <2>4. QED
    BY <2>3 DEF PromiseStep, Promise!Next
<1>13. CASE RefuseCommit(p)
  BY <1>1, <1>5, <1>13, SpentFacts DEF RefuseCommit, TrashInv
<1>14. QED
  BY <1>6, <1>7, <1>8, <1>9, <1>10, <1>11, <1>12, <1>13 DEF ProposalStep

\* Where a commit is and whose token it carries out, and what it answered,
\* are all the user sees of it.
LEMMA CommitsArePromised ==
  ASSUME PromiseInv, TrashInv', NEW c \in Commits, CommitStep(c)
  PROVE  PromiseStep
<1>1. /\ commit \in [Commits -> Commit] /\ commit[c] \in Commit /\ CommitOK(c)
      /\ page \in [Proposals -> SUBSET Mails] /\ gone \in [Commits -> SUBSET Mails]
      /\ inbox \subseteq Mails /\ TrashInv
  BY DEF PromiseInv, TrashInv, TrashTypeOK
<1>2. SeenByToken /\ SeenByToken'
  BY <1>1, TokensSee, PTL
<1>3. ASSUME NEW new, commit' = [commit EXCEPT ![c] = new],
             new.at = commit[c].at, new.token = commit[c].token,
             commit[c].at = "answered" => new.results = commit[c].results,
             UNCHANGED <<inbox, page, moved, gone, proposal>>
      PROVE  PromiseStep
  <2>1. \A d \in Commits : commit'[d].at = commit[d].at /\ commit'[d].token = commit[d].token
    BY <1>1, <1>3
  <2>2. \A d \in Commits : commit[d].at = "answered" => commit'[d].results = commit[d].results
    BY <1>1, <1>3
  <2>3. Over' = Over
    BY <1>3 DEF Over
  <2>4. QED
    BY <1>3, <2>1, <2>2, <2>3, UserSeesNothing
<1>4. ASSUME NEW S \in SUBSET commit[c].todo, S # {}, NEW result \in {"moved", "failed"}
      PROVE  /\ commit[c].at = "moving"
             /\ Done(c, S, result).at = commit[c].at /\ Done(c, S, result).token = commit[c].token
  BY <1>1, <1>4, DoneFacts DEF CommitOK
<1>5. ASSUME NEW a \in Accounts, OpenSession(c, a)
      PROVE  PromiseStep
  BY <1>1, <1>3, <1>5 DEF OpenSession, Commit
<1>6. ASSUME NEW a \in Accounts, SessionFails(c, a)
      PROVE  PromiseStep
  <2>1. OfAccount(c, a) \in SUBSET commit[c].todo /\ OfAccount(c, a) # {}
    BY <1>6 DEF SessionFails, OfAccount
  <2>2. QED
    BY <1>3, <1>4, <1>6, <2>1 DEF SessionFails
<1>7. ASSUME NEW m \in Mails, Locate(c, m)
      PROVE  PromiseStep
  BY <1>1, <1>3, <1>7 DEF Locate, Commit
<1>8. ASSUME NEW m \in Mails, MoveFails(c, m)
      PROVE  PromiseStep
  <2>1. {m} \in SUBSET commit[c].todo /\ {m} # {}
    BY <1>8 DEF MoveFails, OfAccount
  <2>2. QED
    BY <1>3, <1>4, <1>8, <2>1 DEF MoveFails
<1>9. CASE CommitTimesOut(c)
  BY <1>1, <1>3, <1>9 DEF CommitTimesOut, Commit
<1>10. ASSUME NEW p \in Proposals, NEW present \in SUBSET proposal[p].confirmed,
              StartCommit(c, p, present)
       PROVE  PromiseStep
  <2>1. /\ commit[c].at = "unused" /\ page[p] # {} /\ proposal[p].at = "pending"
        /\ TokenSpent(p) /\ gone' = [gone EXCEPT ![c] = Mails \ inbox]
        /\ UNCHANGED <<inbox, page, moved>>
        /\ commit'[c].at = "moving" /\ commit'[c].token = p
        /\ \A d \in Commits : d # c => commit'[d] = commit[d] /\ gone'[d] = gone[d]
    BY <1>1, <1>10 DEF StartCommit, Begin
  <2>2. /\ proposal'[p].at = "spent"
        /\ \A q \in Proposals : q # p => proposal'[q] = proposal[q]
    BY <1>1, <2>1, SpentFacts
  <2>3. Over' = Over \cup {p} /\ p \notin Over
    BY <2>1, <2>2 DEF Over
  <2>4. At("moving")' = At("moving") \cup {c} /\ At("answered")' = At("answered")
    BY <2>1 DEF At
  <2>5. Underway' = Underway \cup {p} /\ Told' = Told
    BY <2>1, <2>4 DEF Underway, Told, At
  <2>6. SeenSince(p)' = Mails \ inbox
    BY <1>1, <1>2, <2>1 DEF SeenByToken
  <2>7. ASSUME NEW q \in Proposals, q # p
        PROVE  SeenSince(q)' = SeenSince(q)
    <3>1. {d \in At("moving") : commit[d].token = q}' = {d \in At("moving") : commit[d].token = q}
      BY <2>1, <2>4, <2>7 DEF At
    <3>2. \A d \in {e \in At("moving") : commit[e].token = q} : gone'[d] = gone[d]
      BY <2>1 DEF At
    <3>3. QED
      BY <3>1, <3>2 DEF SeenSince
  <2>8. Promise!Confirm(p)
    BY <2>1, <2>3, <2>5, <2>6, <2>7 DEF Promise!Confirm
  <2>9. QED
    BY <2>8 DEF PromiseStep, Promise!Next
<1>11. ASSUME NEW m \in Mails, NEW reply \in {"moved", "failed"}, Move(c, m, reply)
       PROVE  PromiseStep
  <2> DEFINE t == commit[c].token
  <2>1. /\ commit[c].located = m /\ inbox' = inbox \ {m}
        /\ moved' = (IF m \in inbox THEN moved \cup {<<t, m>>} ELSE moved)
        /\ gone' = Outside({m})
        /\ commit' = [commit EXCEPT ![c] = Done(c, {m}, reply)]
        /\ UNCHANGED <<proposal, page>>
    BY <1>11 DEF Move
  <2>2. {m} \in SUBSET commit[c].todo /\ {m} # {}
    BY <2>1, NoneAssumption DEF PromiseInv, TrashInv, TrashTypeOK, OfAccount
  <2>3. /\ commit[c].at = "moving" /\ t \in Proposals /\ t \in Underway
        /\ m \in page[t] /\ <<t, m>> \notin moved
    BY <1>1, <1>2, <2>2 DEF CommitOK, Active, SeenByToken
  <2>4. /\ \A d \in Commits : commit'[d].at = commit[d].at /\ commit'[d].token = commit[d].token
        /\ \A d \in Commits : commit[d].at = "answered" => commit'[d].results = commit[d].results
    BY <1>1, <1>4, <2>1, <2>2
  <2>5. Underway' = Underway /\ Told' = Told /\ Over' = Over
    BY <2>1, <2>4, CommitsStay DEF Over
  <2>6. CASE m \in inbox
    <3>1. [p \in Proposals |-> SeenSince(p)]' =
            [p \in Proposals |-> IF p \in Underway THEN [q \in Proposals |-> SeenSince(q)][p] \cup {m}
                                 ELSE [q \in Proposals |-> SeenSince(q)][p]]
      BY <1>1, <2>1, <2>4, SeenByAll
    <3>2. Promise!Remove(t, m)
      BY <2>1, <2>3, <2>5, <2>6, <3>1 DEF Promise!Remove, Promise!SeenOutside
    <3>3. QED
      BY <2>3, <3>2 DEF PromiseStep, Promise!Next
  <2>7. CASE m \notin inbox
    <3>1. gone' = gone
      <4>1. \A d \in Commits : commit[d].at = "moving" => m \in gone[d]
        BY <2>7 DEF PromiseInv, OutsideNoted
      <4>2. QED
        BY <1>1, <2>1, <4>1 DEF Outside
    <3>2. QED
      BY <2>1, <2>4, <2>5, <2>7, <3>1, UserSeesNothing
  <2>8. QED
    BY <2>6, <2>7
<1>12. CASE EndCommit(c)
  <2> PICK t \in Proposals : t = commit[c].token
    BY <1>1, <1>12 DEF EndCommit, CommitOK, Active
  <2>1. /\ commit[c].at = "moving" /\ commit[c].todo = {} /\ t \in Underway
        /\ UNCHANGED <<inbox, proposal, page, moved>>
    BY <1>2, <1>12 DEF EndCommit, SeenByToken
  <2>2. /\ \A d \in Commits : d # c => commit'[d] = commit[d] /\ gone'[d] = gone[d]
        /\ commit'[c].at # "moving"
    BY <1>1, <1>12, FreshRecords DEF EndCommit, Commit
  <2>3. At("moving")' = At("moving") \ {c}
    BY <2>1, <2>2 DEF At
  <2>4. Underway' = Underway \ {t}
    <3>1. \A d \in At("moving") : commit[d].token = t => d = c
      BY <1>1, <2>1 DEF At, TrashInv, TokensDiffer, Active
    <3>2. QED
      BY <2>1, <2>2, <2>3, <3>1 DEF Underway, At
  <2>5. Over' = Over
    BY <2>1 DEF Over
  <2>6. [p \in Proposals |-> SeenSince(p)]' = [[p \in Proposals |-> SeenSince(p)] EXCEPT ![t] = {}]
    <3>1. SeenSince(t)' = {}
      BY <1>2, <2>1, <2>4 DEF SeenByToken
    <3>2. ASSUME NEW q \in Proposals, q # t
          PROVE  SeenSince(q)' = SeenSince(q)
      <4>1. At("moving") \subseteq Commits
        BY DEF At
      <4>2. {d \in At("moving") : commit[d].token = q}' = {d \in At("moving") : commit[d].token = q}
        BY <2>2, <2>3, <3>2, <4>1
      <4>3. \A d \in {e \in At("moving") : commit[e].token = q} : gone'[d] = gone[d]
        BY <2>2, <3>2, <4>1
      <4>4. QED
        BY <4>2, <4>3 DEF SeenSince
    <3>3. QED
      BY <2>1, <3>1, <3>2
  <2>7. Promise!Finish(t)
    BY <2>1, <2>4, <2>5, <2>6 DEF Promise!Finish
  <2>8. CASE commit' = [commit EXCEPT ![c].at = "answered", ![c].waiting = FALSE]
    <3> DEFINE became == commit[c].results
    <3>1. commit'[c].at = "answered" /\ commit'[c].token = t /\ commit'[c].results = became
      BY <1>1, <2>8 DEF Commit
    <3>2. At("answered")' = At("answered") \cup {c} /\ c \notin At("answered")
      BY <2>1, <2>2, <3>1 DEF At
    <3>3. Told' = Told \cup {<<t, became>>}
      BY <2>2, <3>1, <3>2 DEF Told, At
    <3>4. became \in [Mails -> Promise!Outcomes]
      BY <1>1 DEF Commit, Results, Promise!Outcomes
    <3>5. ASSUME NEW m \in Mails
          PROVE  /\ became[m] # "none" <=> m \in page[t]
                 /\ became[m] = "moved" => m \in [p \in Proposals |-> SeenSince(p)][t]
                 /\ became[m] = "skipped" => <<t, m>> \notin moved
      <4>1. SeenSince(t) = gone[c]
        BY <1>2, <2>1 DEF SeenByToken
      <4>2. QED
        BY <1>1, <2>1, <4>1 DEF CommitOK, Active
    <3>6. Promise!Answer(t)
      <4> HIDE DEF became
      <4>1. QED
        BY <2>7, <3>3, <3>4, <3>5 DEF Promise!Answer
    <3>7. QED
      BY <2>1, <3>6 DEF PromiseStep, Promise!Next
  <2>9. CASE commit' = [commit EXCEPT ![c] = CommitAt("ended")]
    <3>1. At("answered")' = At("answered")
      BY <1>1, <2>1, <2>2, <2>9, FreshRecords DEF At
    <3>2. Told' = Told
      BY <2>1, <2>2, <3>1 DEF Told, At
    <3>3. Promise!Abandon(t)
      BY <2>7, <3>2 DEF Promise!Abandon
    <3>4. QED
      BY <2>1, <3>3 DEF PromiseStep, Promise!Next
  <2>10. QED
    BY <1>12, <2>8, <2>9 DEF EndCommit
<1>13. QED
  BY <1>5, <1>6, <1>7, <1>8, <1>9, <1>10, <1>11, <1>12 DEF CommitStep

LEMMA SurroundingsArePromised ==
  ASSUME PromiseInv, TrashInv', Restart \/ \E m \in Roaming : Roams(m)
  PROVE  PromiseStep
<1>1. TrashInv /\ proposal \in [Proposals -> Proposal] /\ commit \in [Commits -> Commit]
  BY DEF PromiseInv, TrashInv, TrashTypeOK
<1>2. ASSUME NEW m \in Roaming, Roams(m)
      PROVE  PromiseStep
  <2>1. m \in Mails
    BY SelectionsAssumption
  <2>2. /\ inbox' = (inbox \ {m}) \cup ({m} \ inbox) /\ gone' = Outside({m})
        /\ UNCHANGED <<proposal, page, commit, moved>>
    BY <1>2 DEF Roams
  <2>3. Underway' = Underway /\ Told' = Told /\ Over' = Over
    BY <2>2, CommitsStay DEF Over
  <2>4. [p \in Proposals |-> SeenSince(p)]' =
          [p \in Proposals |-> IF p \in Underway THEN [q \in Proposals |-> SeenSince(q)][p] \cup {m}
                               ELSE [q \in Proposals |-> SeenSince(q)][p]]
    BY <1>1, <2>1, <2>2, SeenByAll
  <2>5. Promise!Elsewhere(m)
    BY <2>2, <2>3, <2>4 DEF Promise!Elsewhere, Promise!SeenOutside
  <2>6. QED
    BY <2>5 DEF PromiseStep, Promise!Next
<1>3. CASE Restart
  <2>1. /\ \A p \in Proposals : proposal'[p].at = IF proposal[p].at = "unused" THEN "unused" ELSE "spent"
        /\ \A d \in Commits : commit'[d] = IF commit[d].at = "moving" THEN CommitAt("ended")
                                                                      ELSE commit[d]
        /\ CommitAt("ended").at = "ended"
        /\ UNCHANGED <<inbox, page, moved, gone>>
    BY <1>3, FreshRecords DEF Restart, ProposalAt
  <2>2. At("moving")' = {} /\ At("answered")' = At("answered")
    BY <2>1 DEF At
  <2>3. Underway' = {} /\ \A p \in Proposals : SeenSince(p)' = {}
    BY <2>2 DEF Underway, SeenSince
  <2>4. Told' = Told
    BY <2>1, <2>2 DEF Told, At
  <2>5. Over' = Over \cup {p \in Proposals : proposal[p].at # "unused"}
    BY <2>1 DEF Over
  <2>6. {p \in Proposals : page[p] # {}} \subseteq {p \in Proposals : proposal[p].at # "unused"}
    BY <1>1 DEF TrashInv, ProposalOK
  <2>7. Promise!Crash
    BY <2>1, <2>3, <2>4, <2>5, <2>6 DEF Promise!Crash
  <2>8. QED
    BY <2>7 DEF PromiseStep, Promise!Next
<1>4. QED
  BY <1>2, <1>3

\* However proposals and commits overlap, time out, fail or are killed, the
\* trash workflow (trash_workflow.py, imap_trash.py, web_app.py) does what
\* ConfirmedMoves promises the user.
THEOREM TrashKeepsPromise == TrashSpec => ImplementsConfirmedMoves
<1>1. TrashInit => Promise!Init
  <2> SUFFICES ASSUME TrashInit PROVE Promise!Init
    OBVIOUS
  <2>1. At("moving") = {} /\ At("answered") = {}
    BY FreshRecords DEF TrashInit, At
  <2>2. Underway = {} /\ Told = {} /\ \A p \in Proposals : SeenSince(p) = {}
    BY <2>1 DEF Underway, Told, SeenSince
  <2>3. Over = {}
    BY FreshRecords DEF TrashInit, Over
  <2>4. QED
    BY <2>2, <2>3 DEF TrashInit, Promise!Init
<1>2. PromiseInv /\ TrashInv' /\ [TrashNext]_trashVars => [Promise!Next]_(Promise!vars)
  <2> SUFFICES ASSUME PromiseInv, TrashInv', [TrashNext]_trashVars PROVE PromiseStep
    BY DEF PromiseStep
  <2>1. CASE UNCHANGED trashVars
    BY <2>1, UserSeesNothing DEF trashVars, Over
  <2>2. CASE TrashNext
    BY <2>2, ProposalsArePromised, CommitsArePromised, SurroundingsArePromised
       DEF TrashNext, PromiseInv
  <2>3. QED
    BY <2>1, <2>2
<1>3. QED
  BY <1>1, <1>2, PromiseInvariant, TrashInvariant, PTL
     DEF TrashSpec, ImplementsConfirmedMoves, Promise!Spec

-----------------------------------------------------------------------------
(* Rules: a draft is its base with one key set.                            *)

\* The candidate of a proposal is its base with one key set.
Reviewed(p) ==
  p.key \in RuleKeys /\ p.candidate = With(p.base, p.key, p.candidate.of[p.key])

RulesInv ==
  /\ RulesTypeOK
  /\ \A d \in Drafts : draft[d].at \in {"pending", "expired"} => Reviewed(draft[d])
  /\ \A d \in writtenDrafts : draft[d].at = "spent"
  /\ committing.at # "idle" =>
       /\ Reviewed(committing.of)
       /\ committing.of.base.valid /\ committing.of.candidate.valid
       /\ committing.id \in Drafts \ writtenDrafts
       /\ draft[committing.id].at = "spent"
  /\ EditsSurvive
  /\ committing.at = "writing" /\ ~raced => rules = committing.of.base

LEMMA WithIsContent ==
  ASSUME NEW content \in Content, NEW k \in RuleKeys, NEW v \in Verdicts \cup {"absent"}
  PROVE  With(content, k, v) \in Content /\ With(content, k, v).valid = content.valid
         /\ With(content, k, v).of[k] = v
BY DEF With, Content

LEMMA NothingDrafted ==
  /\ NoRules \in Content /\ NoRules.valid
  /\ \A place \in {"unused", "pending", "expired", "spent"} :
       /\ DraftAt(place) \in Draft /\ DraftAt(place).at = place
       /\ DraftAt(place).base = NoRules /\ DraftAt(place).candidate = NoRules
  /\ NotCommitting \in Committing /\ NotCommitting.at = "idle"
<1>1. NoRules \in Content /\ NoRules.valid
  BY DEF NoRules, Content
<1>2. ASSUME NEW place \in {"unused", "pending", "expired", "spent"}
      PROVE  /\ DraftAt(place) \in Draft /\ DraftAt(place).at = place
             /\ DraftAt(place).base = NoRules /\ DraftAt(place).candidate = NoRules
  BY <1>1 DEF DraftAt, Draft
<1>3. NotCommitting \in Committing /\ NotCommitting.at = "idle"
  BY <1>2 DEF NotCommitting, Committing
<1>4. QED
  BY <1>1, <1>2, <1>3

LEMMA RulesInitially == RulesInit => RulesInv
BY NothingDrafted DEF RulesInit, RulesInv, RulesTypeOK, EditsSurvive

LEMMA ProposeRuleKeeps ==
  ASSUME RulesInv, NEW d \in Drafts, NEW k \in RuleKeys, NEW v \in Verdicts, ProposeRule(d, k, v)
  PROVE  RulesInv'
<1> DEFINE new == [at |-> "pending", base |-> rules, candidate |-> With(rules, k, v), key |-> k]
<1>1. With(rules, k, v) \in Content /\ With(rules, k, v).valid /\ With(rules, k, v).of[k] = v
  BY WithIsContent DEF RulesInv, RulesTypeOK, ProposeRule
<1>2. new \in Draft /\ Reviewed(new) /\ new.at = "pending" /\ new.base.valid /\ new.candidate.valid
  BY <1>1 DEF Draft, Reviewed, RulesInv, RulesTypeOK, ProposeRule
<1>3. /\ draft' = [e \in Drafts |-> IF e = d THEN new
                                    ELSE IF draft[e].at = "expired" THEN DraftAt("spent")
                                    ELSE draft[e]]
      /\ committing.at = "idle" /\ draft[d].at = "unused"
      /\ UNCHANGED <<rules, committing, latest, raced, writtenDrafts>>
  BY NothingDrafted DEF ProposeRule
<1> HIDE DEF new
<1>4. draft' \in [Drafts -> Draft]
  BY <1>2, <1>3, NothingDrafted DEF RulesInv, RulesTypeOK
<1>5. \A e \in Drafts : draft'[e].base.valid /\ draft'[e].candidate.valid
  BY <1>2, <1>3, NothingDrafted DEF RulesInv, RulesTypeOK
<1>6. \A e \in Drafts : draft'[e].at \in {"pending", "expired"} => Reviewed(draft'[e])
  BY <1>2, <1>3, NothingDrafted DEF RulesInv
<1>7. \A e \in writtenDrafts' : draft'[e].at = "spent"
  BY <1>2, <1>3 DEF RulesInv, RulesTypeOK
<1>8. QED
  BY <1>3, <1>4, <1>5, <1>6, <1>7 DEF RulesInv, RulesTypeOK, EditsSurvive

LEMMA ExpireDraftKeeps ==
  ASSUME RulesInv, NEW d \in Drafts, ExpireDraft(d)
  PROVE  RulesInv'
<1>1. /\ draft[d].at = "pending"
      /\ draft' = [draft EXCEPT ![d].at = "expired"]
      /\ UNCHANGED <<rules, committing, latest, raced, writtenDrafts>>
  BY DEF ExpireDraft
<1>2. draft[d] \in Draft /\ draft \in [Drafts -> Draft] /\ Reviewed(draft[d])
  BY <1>1 DEF RulesInv, RulesTypeOK
<1>3. /\ draft'[d] = [draft[d] EXCEPT !.at = "expired"]
      /\ \A e \in Drafts : e # d => draft'[e] = draft[e]
  BY <1>1, <1>2
<1>4. /\ draft'[d] \in Draft /\ Reviewed(draft'[d]) /\ draft'[d].at = "expired"
      /\ draft'[d].base = draft[d].base /\ draft'[d].candidate = draft[d].candidate
  BY <1>2, <1>3 DEF Draft, Reviewed
<1>5. draft' \in [Drafts -> Draft]
  BY <1>1, <1>2, <1>3, <1>4
<1>6. QED
  BY <1>1, <1>3, <1>4, <1>5 DEF RulesInv, RulesTypeOK, EditsSurvive

LEMMA TakeDraftKeeps ==
  ASSUME RulesInv, NEW d \in Drafts, TakeDraft(d)
  PROVE  RulesInv'
<1>1. /\ draft[d].at \in {"pending", "expired"}
      /\ draft' = [draft EXCEPT ![d] = DraftAt("spent")]
      /\ UNCHANGED <<rules, latest, raced, writtenDrafts>>
      /\ committing.at = "idle"
      /\ \/ committing' = [at |-> "checking", of |-> draft[d], id |-> d]
         \/ committing' = NotCommitting
  BY NothingDrafted DEF TakeDraft, DraftPopped
<1>2. /\ draft[d] \in Draft /\ draft \in [Drafts -> Draft] /\ Reviewed(draft[d])
      /\ draft[d].base.valid /\ draft[d].candidate.valid /\ d \notin writtenDrafts
  BY <1>1 DEF RulesInv, RulesTypeOK
<1>3. /\ draft' \in [Drafts -> Draft] /\ draft'[d] = DraftAt("spent")
      /\ \A e \in Drafts : e # d => draft'[e] = draft[e]
  BY <1>1, <1>2, NothingDrafted
<1>4. /\ \A e \in Drafts : draft'[e].base.valid /\ draft'[e].candidate.valid
      /\ \A e \in Drafts : draft'[e].at \in {"pending", "expired"} => Reviewed(draft'[e])
      /\ \A e \in writtenDrafts : draft'[e].at = "spent"
      /\ draft'[d].at = "spent"
  BY <1>3, NothingDrafted DEF RulesInv, RulesTypeOK
<1>5. CASE committing' = [at |-> "checking", of |-> draft[d], id |-> d]
  <2>1. committing' \in Committing
    BY <1>2, <1>5 DEF Committing
  <2>2. QED
    BY <1>1, <1>2, <1>3, <1>4, <1>5, <2>1 DEF RulesInv, RulesTypeOK, EditsSurvive
<1>6. CASE committing' = NotCommitting
  BY <1>1, <1>3, <1>4, <1>6, NothingDrafted DEF RulesInv, RulesTypeOK, EditsSurvive
<1>7. QED
  BY <1>1, <1>5, <1>6

LEMMA CheckBaseKeeps == RulesInv /\ CheckBase => RulesInv'
<1> SUFFICES ASSUME RulesInv, CheckBase PROVE RulesInv'
  OBVIOUS
<1>1. /\ committing.at = "checking" /\ committing \in Committing
      /\ UNCHANGED <<rules, draft, latest, raced, writtenDrafts>>
  BY DEF CheckBase, RulesInv, RulesTypeOK
<1>2. CASE BaseUnchanged
  <2>1. committing' = [committing EXCEPT !.at = "writing"]
    BY <1>2 DEF CheckBase
  <2>2. /\ committing' \in Committing /\ committing'.at = "writing"
        /\ committing'.of = committing.of /\ committing'.id = committing.id
    BY <1>1, <2>1 DEF Committing
  <2>3. QED
    BY <1>1, <1>2, <2>2 DEF RulesInv, RulesTypeOK, EditsSurvive, BaseUnchanged
<1>3. CASE ~BaseUnchanged
  BY <1>1, <1>3, NothingDrafted DEF CheckBase, RulesInv, RulesTypeOK, EditsSurvive
<1>4. QED
  BY <1>2, <1>3

LEMMA WriteFailsKeeps == RulesInv /\ WriteFails => RulesInv'
BY NothingDrafted DEF WriteFails, RulesInv, RulesTypeOK, EditsSurvive

LEMMA ReplaceKeeps == RulesInv /\ Replace => RulesInv'
<1> SUFFICES ASSUME RulesInv, Replace PROVE RulesInv'
  OBVIOUS
<1> DEFINE p == committing.of
<1>1. /\ committing \in Committing /\ Reviewed(p) /\ p \in Draft
      /\ committing.id \in Drafts /\ draft[committing.id].at = "spent"
      /\ committing.at = "writing" /\ p.candidate.valid
  BY DEF RulesInv, RulesTypeOK, Replace, Committing
<1>2. /\ p.candidate \in Content /\ p.key \in RuleKeys /\ latest \in Content
      /\ p.candidate.of[p.key] \in Verdicts \cup {"absent"}
  BY <1>1 DEF Draft, Reviewed, Content, RulesInv, RulesTypeOK
<1>3. With(latest, p.key, p.candidate.of[p.key]) \in Content
  BY <1>2, WithIsContent
<1>4. /\ rules' = p.candidate /\ latest' = With(latest, p.key, p.candidate.of[p.key])
      /\ writtenDrafts' = writtenDrafts \cup {committing.id}
      /\ committing' = NotCommitting
      /\ UNCHANGED <<draft, raced>>
  BY DEF Replace
<1>5. ~raced => rules' = latest'
  BY <1>1, <1>4 DEF RulesInv, EditsSurvive, Reviewed
<1> HIDE DEF p
<1>6. QED
  BY <1>1, <1>2, <1>3, <1>4, <1>5, NothingDrafted DEF RulesInv, RulesTypeOK, EditsSurvive

LEMMA EditRulesKeeps ==
  ASSUME RulesInv, NEW content \in Content, EditRules(content)
  PROVE  RulesInv'
BY DEF EditRules, RulesInv, RulesTypeOK, EditsSurvive

LEMMA KillAssistantKeeps == RulesInv /\ KillAssistant => RulesInv'
<1> SUFFICES ASSUME RulesInv, KillAssistant PROVE RulesInv'
  OBVIOUS
<1>1. /\ draft' = [d \in Drafts |-> IF draft[d].at = "unused" THEN draft[d] ELSE DraftAt("spent")]
      /\ committing' = NotCommitting
      /\ UNCHANGED <<rules, latest, raced, writtenDrafts>>
  BY DEF KillAssistant
<1>2. draft' \in [Drafts -> Draft]
  BY <1>1, NothingDrafted DEF RulesInv, RulesTypeOK
<1>3. \A d \in Drafts : draft'[d].base.valid /\ draft'[d].candidate.valid
  BY <1>1, NothingDrafted DEF RulesInv, RulesTypeOK
<1>4. \A d \in Drafts : draft'[d].at \in {"unused", "spent"}
  BY <1>1, NothingDrafted
<1>5. \A d \in writtenDrafts' : draft'[d].at = "spent"
  BY <1>1, NothingDrafted DEF RulesInv, RulesTypeOK
<1>6. QED
  BY <1>1, <1>2, <1>3, <1>4, <1>5, NothingDrafted DEF RulesInv, RulesTypeOK, EditsSurvive

LEMMA RulesStep == RulesInv /\ [RulesNext]_ruleVars => RulesInv'
<1> SUFFICES ASSUME RulesInv, [RulesNext]_ruleVars PROVE RulesInv'
  OBVIOUS
<1>1. ASSUME NEW d \in Drafts, NEW k \in RuleKeys, NEW v \in Verdicts, ProposeRule(d, k, v)
      PROVE  RulesInv'
  BY <1>1, ProposeRuleKeeps
<1>2. ASSUME NEW d \in Drafts, ExpireDraft(d)
      PROVE  RulesInv'
  BY <1>2, ExpireDraftKeeps
<1>3. ASSUME NEW d \in Drafts, TakeDraft(d)
      PROVE  RulesInv'
  BY <1>3, TakeDraftKeeps
<1>4. CASE EditorStep
  <2>1. ASSUME NEW k \in RuleKeys, NEW v \in Verdicts \cup {"absent"}, EditRules(With(rules, k, v))
        PROVE  RulesInv'
    BY <2>1, WithIsContent, EditRulesKeeps DEF RulesInv, RulesTypeOK
  <2>2. CASE EditRules([rules EXCEPT !.valid = ~@])
    <3>1. [rules EXCEPT !.valid = ~@] \in Content
      BY DEF RulesInv, RulesTypeOK, Content
    <3>2. QED
      BY <2>2, <3>1, EditRulesKeeps
  <2>3. QED
    BY <1>4, <2>1, <2>2 DEF EditorStep
<1>5. CASE UNCHANGED ruleVars
  BY <1>5 DEF ruleVars, RulesInv, RulesTypeOK, EditsSurvive
<1>6. QED
  BY <1>1, <1>2, <1>3, <1>4, <1>5, CheckBaseKeeps, WriteFailsKeeps, ReplaceKeeps,
     KillAssistantKeeps DEF RulesNext

LEMMA RulesInvariant == RulesSpec => []RulesInv
BY RulesInitially, RulesStep, PTL DEF RulesSpec

\* The rules file, the drafts and the histories of the rule workflow keep their
\* types.
THEOREM RulesTypeCorrect == RulesSpec => []RulesTypeOK
<1>1. RulesInv => RulesTypeOK
  BY DEF RulesInv
<1>2. QED
  BY <1>1, RulesInvariant, PTL

\* Committing a reviewed rule never undoes an edit of the file that was made
\* since the draft: the base is compared again before the replacement.
THEOREM EditsAlwaysSurvive == RulesSpec => []EditsSurvive
<1>1. RulesInv => EditsSurvive
  BY DEF RulesInv
<1>2. QED
  BY <1>1, RulesInvariant, PTL

\* A draft of a rule change is written at most once.
THEOREM DraftsWrittenOnce == RulesSpec => DraftWrittenOnce
<1>1. RulesInv /\ Replace => committing.id \notin writtenDrafts
  BY DEF RulesInv, Replace
<1>2. RulesInv /\ [RulesNext]_ruleVars =>
        [Replace => committing.id \notin writtenDrafts]_ruleVars
  BY <1>1
<1>3. QED
  BY <1>2, RulesInvariant, PTL DEF RulesSpec, DraftWrittenOnce

-----------------------------------------------------------------------------
(* Snapshot: what is on its way to memory or disk, and what it may hold.   *)

SnapShape ==
  /\ ~up => task = IdleTask /\ loop = FreeLoop
  /\ task.at # "idle" => task.days \in Windows
  /\ loop.todo \subseteq loop.ids
  /\ loop.at = "saving" => loop.remaining \in Snapshot

\* What a suppression has already recorded and not yet removed.
Recorded == IF loop.at = "suppressing" THEN loop.ids \ loop.todo ELSE {}

HiddenInv ==
  /\ up => hidden = missing
  /\ snap.messages \cap hidden \subseteq stale \cup Recorded
  /\ task.loaded \cap hidden \subseteq late

Matches ==
  IF disk = NoSnapshot THEN snap = EmptySnapshot
  ELSE /\ snap.days = disk.days
       /\ snap.messages \ hidden = disk.messages \ hidden

\* Between the two writes of a refresh the row is what is about to be
\* published, between those of a removal memory is what is about to be stored.
MatchInv ==
  up /\ ~overlapped =>
    /\ task.at # "publishing" /\ loop.at # "saving" => Matches
    /\ task.at = "publishing" =>
         loop.at # "saving" /\ disk = [messages |-> task.loaded, days |-> task.days]
    /\ loop.at = "saving" => loop.remaining = snap

SnapInv == SnapTypeOK /\ SnapShape /\ HiddenInv /\ MatchInv

LEMMA SnapConstants ==
  /\ EmptySnapshot \in Snapshot /\ EmptySnapshot.messages = {}
  /\ IdleTask \in Task /\ IdleTask.at = "idle" /\ IdleTask.loaded = {}
  /\ FreeLoop \in Loop /\ FreeLoop.at = "free" /\ FreeLoop.todo = {} /\ FreeLoop.ids = {}
  /\ Windows \subseteq Coverage
BY DEF EmptySnapshot, Snapshot, Coverage, IdleTask, Task, Running, FreeLoop, Loop

LEMMA SnapInitially == SnapInit => SnapInv
<1> SUFFICES ASSUME SnapInit PROVE SnapInv
  OBVIOUS
<1>1. LegacyRows \subseteq Snapshot
  BY BatchesAssumption DEF LegacyRows, Snapshot, Coverage
<1>2. SnapTypeOK
  BY <1>1, SnapConstants DEF SnapInit, SnapTypeOK
<1>3. QED
  BY <1>2, SnapConstants DEF SnapInit, SnapInv, SnapShape, HiddenInv, MatchInv

\* A refresh that is started or queued.
LEMMA StartOrQueueFacts ==
  ASSUME SnapInv, NEW d \in Windows, StartOrQueue(d)
  PROVE  /\ task' \in Task /\ requested' \in Windows \cup {NoWindow}
         /\ error' \in BOOLEAN /\ late' \subseteq Messages
         /\ task'.at # "idle" => task'.days \in Windows
         /\ task'.loaded \cap hidden \subseteq late'
         /\ task.at = "publishing" => task' = task
         /\ task'.at = "publishing" => task' = task
<1>1. CASE task.at = "idle"
  <2>1. /\ task' = [at |-> "reading", days |-> d, todo |-> Messages, loaded |-> {}]
        /\ error' = FALSE /\ late' = {} /\ requested' = NoWindow
    BY <1>1 DEF StartOrQueue, StartTask
  <2>2. QED
    BY <1>1, <2>1 DEF Task, Running
<1>2. CASE task.at # "idle"
  BY <1>2 DEF StartOrQueue, SnapInv, SnapTypeOK, SnapShape, HiddenInv
<1>3. QED
  BY <1>1, <1>2

LEMMA AskKeeps ==
  ASSUME SnapInv, NEW d \in Windows, AskWindow(d) \/ AskRefresh(d)
  PROVE  SnapInv'
<1>1. /\ StartOrQueue(d) /\ up
      /\ UNCHANGED <<local, up, snap, hidden, loop, disk, missing, stale, overlapped>>
  BY DEF AskWindow, AskRefresh, LoopFree
<1>2. /\ task' \in Task /\ requested' \in Windows \cup {NoWindow}
      /\ error' \in BOOLEAN /\ late' \subseteq Messages
      /\ task'.at # "idle" => task'.days \in Windows
      /\ task'.loaded \cap hidden \subseteq late'
      /\ task.at = "publishing" => task' = task
      /\ task'.at = "publishing" => task' = task
  BY <1>1, StartOrQueueFacts
<1>3. SnapTypeOK' /\ SnapShape'
  BY <1>1, <1>2 DEF SnapInv, SnapTypeOK, SnapShape
<1>4. HiddenInv' /\ MatchInv'
  BY <1>1, <1>2 DEF SnapInv, HiddenInv, Recorded, MatchInv, Matches
<1>5. QED
  BY <1>3, <1>4 DEF SnapInv

\* A step of the refresh that leaves memory, row and handlers alone.
LEMMA TaskMoves ==
  ASSUME SnapInv, task.at # "idle", task.at # "publishing",
         task' \in Task, task'.at # "publishing", task'.at # "idle" => task'.days \in Windows,
         requested' \in Windows \cup {NoWindow}, error' \in BOOLEAN, late' \subseteq Messages,
         task'.loaded \cap hidden \subseteq late',
         UNCHANGED <<local, up, snap, hidden, loop, disk, missing, stale, overlapped>>
  PROVE  SnapInv'
<1>1. up
  BY SnapConstants DEF SnapInv, SnapShape
<1>2. SnapTypeOK' /\ SnapShape'
  BY <1>1 DEF SnapInv, SnapTypeOK, SnapShape
<1>3. HiddenInv' /\ MatchInv'
  BY DEF SnapInv, HiddenInv, Recorded, MatchInv, Matches
<1>4. QED
  BY <1>2, <1>3 DEF SnapInv

LEMMA ReadRowKeeps == SnapInv /\ ReadRow => SnapInv'
<1> SUFFICES ASSUME SnapInv, ReadRow PROVE SnapInv'
  OBVIOUS
<1>1. PICK m \in task.todo :
       task' = [task EXCEPT !.todo = @ \ {m},
                            !.loaded = IF Included(m, task.days) THEN @ \cup {m} ELSE @]
  BY DEF ReadRow
<1>2. /\ task \in Task /\ task.at = "reading" /\ m \in Messages
      /\ task.days \in Windows
      /\ UNCHANGED <<local, up, snap, hidden, requested, error, loop, disk, missing,
                     late, stale, overlapped>>
  BY <1>1 DEF ReadRow, SnapInv, SnapTypeOK, SnapShape, Task, history
<1>3. /\ task' \in Task /\ task'.at = "reading" /\ task'.days = task.days
      /\ task'.loaded \subseteq task.loaded \cup ({m} \ hidden)
  BY <1>1, <1>2 DEF Task, Included
<1>4. task'.loaded \cap hidden \subseteq late'
  BY <1>2, <1>3 DEF SnapInv, HiddenInv
<1>5. QED
  BY <1>2, <1>3, <1>4, TaskMoves DEF SnapInv, SnapTypeOK

LEMMA RefreshFailsKeeps == SnapInv /\ RefreshFails => SnapInv'
<1> SUFFICES ASSUME SnapInv, RefreshFails PROVE SnapInv'
  OBVIOUS
<1>1. /\ task.at = "reading" /\ task \in Task
      /\ task' = [task EXCEPT !.at = "failed", !.todo = {}, !.loaded = {}]
      /\ late' = {} /\ task.days \in Windows
      /\ UNCHANGED <<local, up, snap, hidden, requested, error, loop, disk, missing,
                     stale, overlapped>>
  BY DEF RefreshFails, SnapInv, SnapTypeOK, SnapShape
<1>2. task' \in Task /\ task'.at = "failed" /\ task'.days = task.days /\ task'.loaded = {}
  BY <1>1 DEF Task, Running
<1>3. QED
  BY <1>1, <1>2, TaskMoves DEF SnapInv, SnapTypeOK

LEMMA StoreRefreshKeeps == SnapInv /\ StoreRefresh => SnapInv'
<1> SUFFICES ASSUME SnapInv, StoreRefresh PROVE SnapInv'
  OBVIOUS
<1> DEFINE row == [messages |-> task.loaded, days |-> task.days]
<1>1. /\ task.at = "reading" /\ task \in Task /\ up /\ task.days \in Windows
      /\ task' = [task EXCEPT !.at = "publishing"]
      /\ disk' = row /\ overlapped' = (loop.at = "saving")
      /\ UNCHANGED <<local, up, snap, hidden, requested, error, loop, missing, late, stale>>
  BY SnapConstants DEF StoreRefresh, SnapInv, SnapTypeOK, SnapShape
<1>2. /\ task' \in Task /\ task'.at = "publishing" /\ task'.days = task.days
      /\ task'.loaded = task.loaded
  BY <1>1 DEF Task, Running
<1>3. row \in Snapshot
  BY <1>1, SnapConstants DEF Snapshot, Task
<1> HIDE DEF row
<1>4. SnapTypeOK' /\ SnapShape'
  BY <1>1, <1>2, <1>3 DEF SnapInv, SnapTypeOK, SnapShape
<1>5. HiddenInv'
  BY <1>1, <1>2 DEF SnapInv, HiddenInv, Recorded
<1>6. MatchInv'
  BY <1>1, <1>2 DEF MatchInv, row
<1>7. QED
  BY <1>4, <1>5, <1>6 DEF SnapInv

LEMMA PublishRefreshKeeps == SnapInv /\ PublishRefresh => SnapInv'
<1> SUFFICES ASSUME SnapInv, PublishRefresh PROVE SnapInv'
  OBVIOUS
<1> DEFINE row == [messages |-> task.loaded, days |-> task.days]
<1>1. /\ task.at = "publishing" /\ task \in Task /\ up /\ task.days \in Windows
      /\ task' = [task EXCEPT !.at = "finished", !.loaded = {}]
      /\ snap' = row /\ stale' = late /\ late' = {}
      /\ overlapped' = (overlapped \/ loop.at = "saving")
      /\ UNCHANGED <<local, up, hidden, requested, error, loop, disk, missing>>
  BY SnapConstants DEF PublishRefresh, SnapInv, SnapTypeOK, SnapShape
<1>2. /\ task' \in Task /\ task'.at = "finished" /\ task'.days = task.days
      /\ task'.loaded = {}
  BY <1>1 DEF Task, Running
<1>3. row \in Snapshot /\ row.messages = task.loaded /\ row # NoSnapshot
  BY <1>1, SnapConstants, SnapshotAssumption DEF Snapshot, Task
<1>4. ~overlapped => disk = row
  BY <1>1 DEF SnapInv, MatchInv
<1> HIDE DEF row
<1>5. SnapTypeOK' /\ SnapShape'
  BY <1>1, <1>2, <1>3 DEF SnapInv, SnapTypeOK, SnapShape
<1>6. HiddenInv'
  BY <1>1, <1>2, <1>3 DEF SnapInv, HiddenInv
<1>7. MatchInv'
  BY <1>1, <1>2, <1>3, <1>4 DEF MatchInv, Matches
<1>8. QED
  BY <1>5, <1>6, <1>7 DEF SnapInv

LEMMA ResumeKeeps == SnapInv /\ (ResumeFailed \/ ResumeFinished) => SnapInv'
<1> SUFFICES ASSUME SnapInv, ResumeFailed \/ ResumeFinished PROVE SnapInv'
  OBVIOUS
<1>1. CASE ResumeFailed
  BY <1>1, SnapConstants, TaskMoves DEF ResumeFailed, SnapInv, SnapTypeOK, history
<1>2. CASE ResumeFinished
  <2>1. /\ task.at = "finished" /\ requested' = NoWindow
        /\ UNCHANGED <<local, up, snap, hidden, loop, disk, missing, stale, overlapped>>
    BY <1>2 DEF ResumeFinished
  <2>2. CASE requested = NoWindow \/ Covers(snap.days, requested)
    <3>1. task' = IdleTask /\ error' = error /\ late' = late
      BY <1>2, <2>2 DEF ResumeFinished
    <3>2. QED
      BY <2>1, <3>1, SnapConstants, TaskMoves DEF SnapInv, SnapTypeOK
  <2>3. CASE ~(requested = NoWindow \/ Covers(snap.days, requested))
    <3>1. StartTask(requested) /\ requested \in Windows
      BY <1>2, <2>3 DEF ResumeFinished, SnapInv, SnapTypeOK
    <3>2. /\ task' \in Task /\ task'.at = "reading" /\ task'.days \in Windows
          /\ task'.loaded = {} /\ error' = FALSE /\ late' = {}
      BY <3>1 DEF StartTask, Task, Running
    <3>3. QED
      BY <2>1, <3>2, TaskMoves
  <2>4. QED
    BY <2>2, <2>3
<1>3. QED
  BY <1>1, <1>2

\* A handler begins, and nothing else changes.
LEMMA HandlerBegins ==
  ASSUME SnapInv, NEW S \in Batches,
         (\E d \in Windows : Suppress(S, d)) \/ Remove(S)
  PROVE  SnapInv'
<1>1. PICK place \in {"suppressing", "removing"}, T \in {S, {}}, d \in Windows \cup {NoWindow} :
        /\ loop' = [at |-> place, todo |-> T, ids |-> S, days |-> d, remaining |-> NoSnapshot]
        /\ place = "suppressing" => T = S
        /\ loop = FreeLoop /\ up
        /\ UNCHANGED <<local, up, snap, hidden, task, requested, error, disk, missing,
                       late, stale, overlapped>>
  <2>1. ASSUME NEW d \in Windows, Suppress(S, d)
        PROVE  /\ loop' = [at |-> "suppressing", todo |-> S, ids |-> S, days |-> d,
                           remaining |-> NoSnapshot]
               /\ loop = FreeLoop /\ up
               /\ UNCHANGED <<local, up, snap, hidden, task, requested, error, disk, missing,
                              late, stale, overlapped>>
    BY <2>1 DEF Suppress, Handler, LoopFree, history
  <2>2. ASSUME Remove(S)
        PROVE  /\ loop' = [at |-> "removing", todo |-> {}, ids |-> S, days |-> NoWindow,
                           remaining |-> NoSnapshot]
               /\ loop = FreeLoop /\ up
               /\ UNCHANGED <<local, up, snap, hidden, task, requested, error, disk, missing,
                              late, stale, overlapped>>
    BY <2>2 DEF Remove, Handler, LoopFree, history
  <2>3. QED
    BY <2>1, <2>2
<1>2. S \subseteq Messages
  BY BatchesAssumption
<1>3. /\ loop' \in Loop /\ loop'.at = place /\ loop'.todo = T /\ loop'.ids = S
  BY <1>1, <1>2 DEF Loop
<1>4. SnapTypeOK' /\ SnapShape'
  BY <1>1, <1>3 DEF SnapInv, SnapTypeOK, SnapShape
<1>5. HiddenInv' /\ MatchInv'
  BY <1>1, <1>3, SnapConstants DEF SnapInv, HiddenInv, Recorded, MatchInv, Matches
<1>6. QED
  BY <1>4, <1>5 DEF SnapInv

LEMMA RecordMissingKeeps ==
  ASSUME SnapInv, NEW m \in Messages, RecordMissing(m)
  PROVE  SnapInv'
<1>1. /\ loop.at = "suppressing" /\ m \in loop.todo /\ loop \in Loop /\ up
      /\ missing' = missing \cup {m} /\ hidden' = hidden \cup {m}
      /\ late' = (IF m \in task.loaded THEN late \cup {m} ELSE late)
      /\ loop' = [loop EXCEPT !.todo = @ \ {m}]
      /\ UNCHANGED <<local, up, snap, task, requested, error, disk, stale, overlapped>>
  BY SnapConstants DEF RecordMissing, SnapInv, SnapTypeOK, SnapShape
<1>2. /\ loop' \in Loop /\ loop'.at = "suppressing" /\ loop'.ids = loop.ids
      /\ loop'.todo = loop.todo \ {m} /\ m \in loop.ids
  BY <1>1 DEF Loop, SnapInv, SnapShape
<1>3. SnapTypeOK' /\ SnapShape'
  BY <1>1, <1>2 DEF SnapInv, SnapTypeOK, SnapShape
<1>4. HiddenInv'
  BY <1>1, <1>2 DEF SnapInv, SnapShape, HiddenInv, Recorded
<1>5. MatchInv'
  BY <1>1, <1>2 DEF SnapInv, MatchInv, Matches
<1>6. QED
  BY <1>3, <1>4, <1>5 DEF SnapInv

LEMMA RecordFailsKeeps == SnapInv /\ RecordFails => SnapInv'
<1> SUFFICES ASSUME SnapInv, RecordFails PROVE SnapInv'
  OBVIOUS
<1>1. /\ loop.at = "suppressing" /\ up /\ loop \in Loop
      /\ stale' = stale \cup ((loop.ids \ loop.todo) \cap snap.messages)
      /\ loop' = FreeLoop
      /\ UNCHANGED <<local, up, snap, hidden, task, requested, error, disk, missing,
                     late, overlapped>>
  BY SnapConstants DEF RecordFails, SnapInv, SnapTypeOK, SnapShape
<1>2. SnapTypeOK' /\ SnapShape'
  BY <1>1, SnapConstants DEF SnapInv, SnapTypeOK, SnapShape, Loop
<1>3. HiddenInv' /\ MatchInv'
  BY <1>1, SnapConstants DEF SnapInv, HiddenInv, Recorded, MatchInv, Matches
<1>4. QED
  BY <1>2, <1>3 DEF SnapInv

LEMMA RemoveRowsKeeps == SnapInv /\ RemoveRows => SnapInv'
<1> SUFFICES ASSUME SnapInv, RemoveRows PROVE SnapInv'
  OBVIOUS
<1>1. /\ loop.at \in {"suppressing", "removing"} /\ up /\ loop \in Loop /\ snap \in Snapshot
      /\ loop.todo = {}
      /\ snap' = Remaining
      /\ loop' = [loop EXCEPT !.at = "saving", !.remaining = Remaining]
      /\ stale' = stale \ loop.ids
      /\ overlapped' = (overlapped \/ task.at = "publishing")
      /\ UNCHANGED <<local, up, hidden, task, requested, error, disk, missing, late>>
  BY SnapConstants DEF RemoveRows, ReadyToRemove, SnapInv, SnapTypeOK, SnapShape
<1>2. Remaining \in Snapshot /\ Remaining.messages = snap.messages \ loop.ids
  BY <1>1 DEF Remaining, Snapshot
<1>3. /\ loop' \in Loop /\ loop'.at = "saving" /\ loop'.remaining = Remaining
      /\ loop'.todo = loop.todo /\ loop'.ids = loop.ids
  BY <1>1, <1>2 DEF Loop
<1>4. SnapTypeOK' /\ SnapShape'
  BY <1>1, <1>2, <1>3 DEF SnapInv, SnapTypeOK, SnapShape
<1>5. HiddenInv' /\ MatchInv'
  BY <1>1, <1>2, <1>3 DEF SnapInv, HiddenInv, Recorded, MatchInv
<1>6. QED
  BY <1>4, <1>5 DEF SnapInv

\* What a removal ends with.
LEMMA AfterRemovalFacts ==
  ASSUME SnapInv, AfterRemoval
  PROVE  /\ task' \in Task /\ requested' \in Windows \cup {NoWindow}
         /\ error' \in BOOLEAN /\ late' \subseteq Messages
         /\ task'.at # "idle" => task'.days \in Windows
         /\ task'.loaded \cap hidden \subseteq late'
         /\ task.at = "publishing" => task' = task
         /\ task'.at = "publishing" => task' = task
<1>1. CASE loop.days = NoWindow
  BY <1>1 DEF AfterRemoval, SnapInv, SnapTypeOK, SnapShape, HiddenInv
<1>2. CASE loop.days # NoWindow
  <2>1. loop.days \in Windows
    BY <1>2 DEF SnapInv, SnapTypeOK, Loop
  <2>2. QED
    BY <1>2, <2>1, StartOrQueueFacts DEF AfterRemoval
<1>3. QED
  BY <1>1, <1>2

LEMMA RemoveNothingKeeps == SnapInv /\ RemoveNothing => SnapInv'
<1> SUFFICES ASSUME SnapInv, RemoveNothing PROVE SnapInv'
  OBVIOUS
<1>1. /\ loop.at \in {"suppressing", "removing"} /\ up
      /\ snap.messages \cap loop.ids = {}
      /\ loop' = FreeLoop /\ AfterRemoval
      /\ UNCHANGED <<local, up, snap, hidden, disk, missing, stale, overlapped>>
  BY SnapConstants DEF RemoveNothing, ReadyToRemove, SnapInv, SnapShape
<1>2. /\ task' \in Task /\ requested' \in Windows \cup {NoWindow}
      /\ error' \in BOOLEAN /\ late' \subseteq Messages
      /\ task'.at # "idle" => task'.days \in Windows
      /\ task'.loaded \cap hidden \subseteq late'
      /\ task.at = "publishing" => task' = task
      /\ task'.at = "publishing" => task' = task
  BY <1>1, AfterRemovalFacts
<1>3. SnapTypeOK' /\ SnapShape'
  BY <1>1, <1>2, SnapConstants DEF SnapInv, SnapTypeOK, SnapShape
<1>4. HiddenInv' /\ MatchInv'
  BY <1>1, <1>2, SnapConstants DEF SnapInv, HiddenInv, Recorded, MatchInv, Matches
<1>5. QED
  BY <1>3, <1>4 DEF SnapInv

LEMMA SaveRemainingKeeps == SnapInv /\ SaveRemaining => SnapInv'
<1> SUFFICES ASSUME SnapInv, SaveRemaining PROVE SnapInv'
  OBVIOUS
<1>1. /\ loop.at = "saving" /\ up /\ loop.remaining \in Snapshot
      /\ disk' = loop.remaining /\ loop' = FreeLoop /\ AfterRemoval
      /\ overlapped' = (overlapped \/ task.at = "publishing")
      /\ UNCHANGED <<local, up, snap, hidden, missing, stale>>
  BY SnapConstants DEF SaveRemaining, SnapInv, SnapShape
<1>2. /\ task' \in Task /\ requested' \in Windows \cup {NoWindow}
      /\ error' \in BOOLEAN /\ late' \subseteq Messages
      /\ task'.at # "idle" => task'.days \in Windows
      /\ task'.loaded \cap hidden \subseteq late'
      /\ task.at = "publishing" => task' = task
      /\ task'.at = "publishing" => task' = task
  BY <1>1, AfterRemovalFacts
<1>3. SnapTypeOK' /\ SnapShape'
  BY <1>1, <1>2, SnapConstants DEF SnapInv, SnapTypeOK, SnapShape
<1>4. HiddenInv'
  BY <1>1, <1>2, SnapConstants DEF SnapInv, HiddenInv, Recorded
<1>5. MatchInv'
  BY <1>1, <1>2, SnapConstants, SnapshotAssumption DEF SnapInv, MatchInv, Matches
<1>6. QED
  BY <1>3, <1>4, <1>5 DEF SnapInv

LEMMA SaveFailsKeeps == SnapInv /\ SaveFails => SnapInv'
<1> SUFFICES ASSUME SnapInv, SaveFails PROVE SnapInv'
  OBVIOUS
<1>1. /\ loop.at = "saving" /\ up /\ loop' = FreeLoop /\ overlapped' = TRUE
      /\ UNCHANGED <<local, up, snap, hidden, task, requested, error, disk, missing,
                     late, stale>>
  BY SnapConstants DEF SaveFails, SnapInv, SnapShape
<1>2. SnapTypeOK' /\ SnapShape'
  BY <1>1, SnapConstants DEF SnapInv, SnapTypeOK, SnapShape
<1>3. HiddenInv' /\ MatchInv'
  BY <1>1, SnapConstants DEF SnapInv, HiddenInv, Recorded, MatchInv
<1>4. QED
  BY <1>2, <1>3 DEF SnapInv

LEMMA StopKeeps == SnapInv /\ Stop => SnapInv'
<1> SUFFICES ASSUME SnapInv, Stop PROVE SnapInv'
  OBVIOUS
<1>1. SnapTypeOK' /\ SnapShape'
  BY SnapConstants DEF Stop, SnapInv, SnapTypeOK, SnapShape
<1>2. HiddenInv' /\ MatchInv'
  BY SnapConstants DEF Stop, HiddenInv, MatchInv
<1>3. QED
  BY <1>1, <1>2 DEF SnapInv

LEMMA StartKeeps == SnapInv /\ Start => SnapInv'
<1> SUFFICES ASSUME SnapInv, Start PROVE SnapInv'
  OBVIOUS
<1>1. /\ ~up /\ up' = TRUE /\ loop = FreeLoop
      /\ hidden' = missing /\ snap' = Cached(missing)
      /\ task' = [at |-> "reading", days |-> DefaultWindow, todo |-> Messages, loaded |-> {}]
      /\ error' = FALSE /\ late' = {}
      /\ UNCHANGED <<local, requested, loop, disk, missing, stale, overlapped>>
  BY DEF Start, StartTask, SnapInv, SnapShape
<1>2. /\ task' \in Task /\ task'.at = "reading" /\ task'.days \in Windows /\ task'.loaded = {}
  BY <1>1, WindowsAssumption DEF Task, Running
<1>3. /\ snap' \in Snapshot
      /\ snap'.messages \cap missing = {}
      /\ IF disk = NoSnapshot THEN snap' = EmptySnapshot
         ELSE snap'.days = disk.days /\ snap'.messages = disk.messages \ missing
  <2>1. CASE disk = NoSnapshot
    BY <1>1, <2>1, SnapConstants DEF Cached
  <2>2. CASE disk # NoSnapshot
    BY <1>1, <2>2 DEF Cached, Snapshot, SnapInv, SnapTypeOK
  <2>3. QED
    BY <2>1, <2>2
<1>4. SnapTypeOK' /\ SnapShape'
  BY <1>1, <1>2, <1>3, SnapConstants DEF SnapInv, SnapTypeOK, SnapShape
<1>5. HiddenInv' /\ MatchInv'
  BY <1>1, <1>2, <1>3, SnapConstants DEF HiddenInv, MatchInv, Matches
<1>6. QED
  BY <1>4, <1>5 DEF SnapInv

LEMMA SnapStep == SnapInv /\ [SnapNext]_snapVars => SnapInv'
<1> SUFFICES ASSUME SnapInv, [SnapNext]_snapVars PROVE SnapInv'
  OBVIOUS
<1>1. ASSUME NEW m \in Volatile, MailChanges(m)
      PROVE  SnapInv'
  <2>1. SnapTypeOK' /\ SnapShape'
    BY <1>1, BatchesAssumption DEF MailChanges, memory, history, SnapInv, SnapTypeOK, SnapShape
  <2>2. HiddenInv' /\ MatchInv'
    BY <1>1 DEF MailChanges, memory, history, SnapInv, HiddenInv, Recorded, MatchInv, Matches
  <2>3. QED
    BY <2>1, <2>2 DEF SnapInv
<1>2. CASE UNCHANGED snapVars
  BY <1>2 DEF snapVars, memory, history, SnapInv, SnapTypeOK, SnapShape, HiddenInv, Recorded,
     MatchInv, Matches
<1>3. CASE RefreshStep
  BY <1>3, ReadRowKeeps, RefreshFailsKeeps, StoreRefreshKeeps, PublishRefreshKeeps, ResumeKeeps
     DEF RefreshStep
<1>4. CASE LoopStep
  BY <1>4, RecordMissingKeeps, RecordFailsKeeps, RemoveRowsKeeps, RemoveNothingKeeps,
     SaveRemainingKeeps, SaveFailsKeeps DEF LoopStep
<1>5. QED
  BY <1>1, <1>2, <1>3, <1>4, AskKeeps, HandlerBegins, StopKeeps, StartKeeps DEF SnapNext

LEMMA SnapInvariant == SnapSpec => []SnapInv
BY SnapInitially, SnapStep, PTL DEF SnapSpec

\* The mail snapshot in memory and on disk, the refresh and the event loop's
\* work keep their types.
THEOREM SnapTypeCorrect == SnapSpec => []SnapTypeOK
BY SnapInvariant, PTL DEF SnapInv

\* A message the user has suppressed does not come back into the snapshot,
\* neither by a refresh that had read it before nor by a restart.
THEOREM SuppressedStayHidden == SnapSpec => []SuppressedHidden
<1>1. SnapInv => SuppressedHidden
  BY DEF SnapInv, HiddenInv, Recorded, SuppressedHidden
<1>2. QED
  BY <1>1, SnapInvariant, PTL

\* The snapshot in memory is the stored one whenever nobody is changing them,
\* but for the overlap of a refresh and a removal that the code leaves open.
THEOREM MemoryAndStoreMatch == SnapSpec => []MemoryMatchesStore
<1>1. SnapInv => MemoryMatchesStore
  BY DEF SnapInv, MatchInv, Matches, MemoryMatchesStore
<1>2. QED
  BY <1>1, SnapInvariant, PTL

\* Window d is still being worked on: it is read or queued, or the refresh
\* that read it has not yet published it or reported its failure.
Owed(d) == Awaited(d) \/ (task.at \in {"publishing", "failed"} /\ task.days >= d)

Served(d) == Covers(snap.days, d) \/ error \/ ~up

\* No request for a window is lost on the way to the snapshot.
RequestsKept ==
  [][\A d \in Windows : Owed(d) /\ ~Served(d) => Owed(d)' \/ Served(d)']_snapVars

\* Another request widens the queue or leaves it.
LEMMA QueueKeepsOwed ==
  ASSUME SnapInv, NEW d \in Windows, Owed(d), NEW e \in Windows, StartOrQueue(e)
  PROVE  Owed(d)'
<1>1. task.at # "idle"
  BY DEF Owed, Awaited
<1>2. /\ requested' = IF requested = NoWindow \/ e > requested THEN e ELSE requested
      /\ task' = task
  BY <1>1 DEF StartOrQueue
<1>3. /\ requested \in Windows \cup {NoWindow} /\ task.days \in Windows
      /\ d \in Nat /\ e \in Nat /\ NoWindow \notin Nat /\ Windows \subseteq Nat
  BY <1>1, WindowsAssumption DEF SnapInv, SnapTypeOK, SnapShape
<1>4. CASE requested # NoWindow /\ requested >= d
  BY <1>1, <1>2, <1>3, <1>4 DEF Owed, Awaited
<1>5. CASE task.at \in {"reading", "publishing", "failed"} /\ task.days >= d
  BY <1>2, <1>5 DEF Owed, Awaited
<1>6. QED
  BY <1>4, <1>5 DEF Owed, Awaited

\* What leaves the task, the queue and the coverage alone.
LEMMA QuietKeepsOwed ==
  ASSUME NEW d \in Windows, Owed(d), UNCHANGED <<task, requested>>
  PROVE  Owed(d)'
BY DEF Owed, Awaited

LEMMA RefreshKeepsOwed ==
  ASSUME SnapInv, NEW d \in Windows, Owed(d), ~Served(d), RefreshStep
  PROVE  Owed(d)' \/ Served(d)'
<1>1. task.at # "idle"
  BY DEF Owed, Awaited
<1>2. /\ task \in Task /\ task.days \in Windows /\ snap.days \in Coverage
      /\ requested \in Windows \cup {NoWindow}
      /\ d \in Nat /\ NoWindow \notin Nat /\ Windows \subseteq Nat /\ Unbounded \notin Nat
  BY <1>1, WindowsAssumption, CoverageAssumption DEF SnapInv, SnapTypeOK, SnapShape, Snapshot
<1>3. CASE ReadRow
  <2>1. /\ task'.at = task.at /\ task'.days = task.days /\ requested' = requested
    BY <1>2, <1>3 DEF ReadRow, Task
  <2>2. QED
    BY <2>1 DEF Owed, Awaited
<1>4. CASE RefreshFails \/ StoreRefresh
  <2>1. /\ task.at = "reading" /\ task'.at \in {"failed", "publishing"}
        /\ task'.days = task.days /\ requested' = requested
    BY <1>2, <1>4 DEF RefreshFails, StoreRefresh, Task
  <2>2. QED
    BY <2>1 DEF Owed, Awaited
<1>5. CASE PublishRefresh
  <2>1. /\ task'.at = "finished" /\ requested' = requested /\ snap'.days = task.days
        /\ task.at = "publishing"
    BY <1>2, <1>5 DEF PublishRefresh, Task
  <2>2. QED
    BY <2>1 DEF Owed, Awaited, Served, Covers
<1>6. CASE ResumeFailed
  BY <1>6 DEF ResumeFailed, Served
<1>7. CASE ResumeFinished
  <2>1. requested # NoWindow /\ requested >= d
    BY <1>7 DEF ResumeFinished, Owed, Awaited
  <2>2. snap.days \in Nat \/ snap.days = Unbounded
    <3>1. snap.days \in Windows \/ snap.days = 0 \/ snap.days = Unbounded
      BY <1>2, Zenon DEF Coverage
    <3>2. 0 \in Nat /\ Windows \subseteq Nat
      BY <1>2
    <3>3. QED
      BY <3>1, <3>2, Zenon
  <2>3. ~Covers(snap.days, requested)
    BY <1>2, <2>1, <2>2 DEF Served, Covers
  <2>4. task' = [at |-> "reading", days |-> requested, todo |-> Messages, loaded |-> {}]
    BY <1>7, <2>1, <2>3 DEF ResumeFinished, StartTask
  <2>5. QED
    BY <2>1, <2>4 DEF Owed, Awaited
<1>8. QED
  BY <1>3, <1>4, <1>5, <1>6, <1>7 DEF RefreshStep

LEMMA LoopKeepsOwed ==
  ASSUME SnapInv, NEW d \in Windows, Owed(d), ~Served(d), LoopStep
  PROVE  Owed(d)'
<1>1. ASSUME AfterRemoval
      PROVE  Owed(d)'
  <2>1. loop.days # NoWindow => loop.days \in Windows
    BY DEF SnapInv, SnapTypeOK, Loop
  <2>2. QED
    BY <1>1, <2>1, QueueKeepsOwed, QuietKeepsOwed DEF AfterRemoval
<1>2. CASE RemoveNothing \/ SaveRemaining
  BY <1>1, <1>2 DEF RemoveNothing, SaveRemaining
<1>3. CASE \/ \E m \in Messages : RecordMissing(m)
           \/ RecordFails \/ RemoveRows \/ SaveFails
  BY <1>3, QuietKeepsOwed DEF RecordMissing, RecordFails, RemoveRows, SaveFails
<1>4. QED
  BY <1>2, <1>3 DEF LoopStep

LEMMA OwedStep ==
  ASSUME SnapInv, [SnapNext]_snapVars, NEW d \in Windows, Owed(d), ~Served(d)
  PROVE  Owed(d)' \/ Served(d)'
<1>1. ASSUME NEW e \in Windows, AskWindow(e) \/ AskRefresh(e)
      PROVE  Owed(d)'
  BY <1>1, QueueKeepsOwed DEF AskWindow, AskRefresh
<1>2. ASSUME NEW S \in Batches, Remove(S) \/ \E e \in Windows : Suppress(S, e)
      PROVE  Owed(d)'
  BY <1>2, QuietKeepsOwed DEF Remove, Suppress
<1>3. ASSUME NEW m \in Volatile, MailChanges(m)
      PROVE  Owed(d)'
  BY <1>3, QuietKeepsOwed DEF MailChanges, memory
<1>4. CASE Stop \/ Start
  BY <1>4 DEF Stop, Start, Served
<1>5. CASE UNCHANGED snapVars
  BY <1>5, QuietKeepsOwed DEF snapVars, memory
<1>6. QED
  BY <1>1, <1>2, <1>3, <1>4, <1>5, RefreshKeepsOwed, LoopKeepsOwed DEF SnapNext

\* For any windows, messages and interleaving of requests, removals and the
\* refresh: a window that is read or queued stays on its way until the
\* snapshot covers it, the failure is shown, or the process stops.
THEOREM RequestsAreKept == SnapSpec => RequestsKept
<1>1. SnapInv /\ [SnapNext]_snapVars =>
        [\A d \in Windows : Owed(d) /\ ~Served(d) => Owed(d)' \/ Served(d)']_snapVars
  BY OwedStep
<1>2. QED
  BY <1>1, SnapInvariant, PTL DEF SnapSpec, RequestsKept

-----------------------------------------------------------------------------
(* Propagation: only what is settled is reported.                          *)

\* Only what is settled is about to be reported as a success.
SeenInv ==
  /\ SeenTypeOK /\ SucceededIsSeen /\ PendingHasThread
  /\ \A r \in Readers : reader[r].result = "succeeded" => reader[r].letter \in settledSeen

LEMMA SeenInitially == SeenInit => SeenInv
<1> SUFFICES ASSUME SeenInit PROVE SeenInv
  OBVIOUS
<1>1. IdleReader \in Reader /\ IdleReader.at = "idle" /\ IdleReader.result = "none"
  BY DEF IdleReader, Reader
<1>2. SeenTypeOK
  BY <1>1 DEF SeenInit, SeenTypeOK
<1>3. QED
  BY <1>1, <1>2 DEF SeenInit, SeenInv, SucceededIsSeen, PendingHasThread

\* The thread of one request moves on; the others stay as they are.
LEMMA ReaderMoves ==
  ASSUME SeenInv, NEW r \in Readers, NEW new \in Reader, reader' = [reader EXCEPT ![r] = new]
  PROVE  /\ reader' \in [Readers -> Reader] /\ reader'[r] = new
         /\ \A q \in Readers : q # r => reader'[q] = reader[q]
BY DEF SeenInv, SeenTypeOK

LEMMA MarkReadKeeps ==
  ASSUME SeenInv, NEW r \in Readers, NEW m \in Letters, MarkRead(r, m)
  PROVE  SeenInv'
<1> DEFINE new == [at |-> "recording", letter |-> m, result |-> "none"]
<1>1. new \in Reader /\ new.at = "recording" /\ new.letter = m /\ new.result = "none"
  BY DEF Reader
<1>2. /\ reader[r].at = "idle" /\ readState' = readState \cup {m}
      /\ reader' = [reader EXCEPT ![r] = new]
      /\ UNCHANGED <<seenStatus, folder, flagged, settledSeen, interrupted>>
  BY DEF MarkRead
<1> HIDE DEF new
<1>3. /\ reader' \in [Readers -> Reader] /\ reader'[r] = new
      /\ \A q \in Readers : q # r => reader'[q] = reader[q]
  BY <1>1, <1>2, ReaderMoves
<1>4. SeenTypeOK'
  BY <1>1, <1>2, <1>3 DEF SeenInv, SeenTypeOK
<1>5. SucceededIsSeen'
  BY <1>2 DEF SeenInv, SucceededIsSeen
<1>6. PendingHasThread'
  BY <1>2, <1>3 DEF SeenInv, PendingHasThread
<1>7. QED
  BY <1>1, <1>2, <1>3, <1>4, <1>5, <1>6 DEF SeenInv

\* What a thread that goes on does to the invariant, whatever it does to the
\* server and the tables of its own letter.
LEMMA ReaderGoesOn ==
  ASSUME SeenInv, NEW r \in Readers, reader[r].at # "idle",
         NEW place \in {"connecting", "storing", "reporting"},
         NEW outcome \in {"none", "succeeded", "failed"},
         ReaderGoes(r, place, outcome),
         UNCHANGED <<readState, folder>>, flagged' \subseteq Letters,
         seenStatus' \in {seenStatus, [seenStatus EXCEPT ![reader[r].letter] = "pending"]},
         settledSeen \subseteq settledSeen', settledSeen' \subseteq Letters,
         outcome = "succeeded" => reader[r].letter \in settledSeen',
         interrupted' \in {interrupted, interrupted \ {reader[r].letter}}
  PROVE  SeenInv'
<1> DEFINE m == reader[r].letter
           new == [reader[r] EXCEPT !.at = place, !.result = outcome]
<1>1. /\ reader \in [Readers -> Reader] /\ reader[r] \in Reader /\ m \in Letters
      /\ seenStatus \in [Letters -> {"none", "pending", "succeeded", "failed"}]
  BY DEF SeenInv, SeenTypeOK
<1>2. new \in Reader /\ new.at = place /\ new.letter = m /\ new.result = outcome
  BY <1>1 DEF Reader
<1>3. reader' = [reader EXCEPT ![r] = new]
  BY <1>1 DEF ReaderGoes
<1> HIDE DEF new
<1>4. /\ reader' \in [Readers -> Reader] /\ reader'[r] = new
      /\ \A q \in Readers : q # r => reader'[q] = reader[q]
  BY <1>2, <1>3, ReaderMoves
<1>5. /\ seenStatus' \in [Letters -> {"none", "pending", "succeeded", "failed"}]
      /\ \A n \in Letters : n # m => seenStatus'[n] = seenStatus[n]
      /\ seenStatus'[m] \in {seenStatus[m], "pending"}
  BY <1>1
<1> HIDE DEF m
<1>6. SeenTypeOK'
  BY <1>1, <1>2, <1>4, <1>5 DEF SeenInv, SeenTypeOK, m
<1>7. SucceededIsSeen'
  BY <1>1, <1>5 DEF SeenInv, SucceededIsSeen
<1>8. PendingHasThread'
  <2> SUFFICES ASSUME NEW n \in Letters, seenStatus'[n] = "pending", n \notin interrupted'
               PROVE  \E q \in Readers : reader'[q].letter = n
                        /\ reader'[q].at \in {"connecting", "storing", "reporting"}
    BY DEF PendingHasThread
  <2>1. CASE n = m
    BY <1>2, <1>4, <2>1
  <2>2. CASE n # m
    <3>1. seenStatus[n] = "pending" /\ n \notin interrupted
      BY <1>5, <2>2 DEF m
    <3>2. PICK q \in Readers : reader[q].letter = n
                        /\ reader[q].at \in {"connecting", "storing", "reporting"}
      BY <3>1 DEF SeenInv, PendingHasThread
    <3>3. QED
      BY <1>4, <2>2, <3>2 DEF m
  <2>3. QED
    BY <2>1, <2>2
<1>9. \A q \in Readers : reader'[q].result = "succeeded" => reader'[q].letter \in settledSeen'
  BY <1>2, <1>4 DEF SeenInv, m
<1>10. QED
  BY <1>6, <1>7, <1>8, <1>9 DEF SeenInv

\* A thread ends, with an outcome in the table or an interruption.
LEMMA ReaderEnds ==
  ASSUME SeenInv, NEW r \in Readers, reader[r].at # "idle",
         reader' = [reader EXCEPT ![r] = IdleReader],
         UNCHANGED <<readState, folder, flagged, settledSeen>>,
         \/ /\ seenStatus' = [seenStatus EXCEPT ![reader[r].letter] = reader[r].result]
            /\ interrupted' = interrupted
         \/ /\ seenStatus' = seenStatus
            /\ interrupted' = interrupted \cup {reader[r].letter}
  PROVE  SeenInv'
<1> DEFINE m == reader[r].letter
<1>1. /\ reader \in [Readers -> Reader] /\ m \in Letters
      /\ reader[r].result \in {"none", "succeeded", "failed"}
      /\ seenStatus \in [Letters -> {"none", "pending", "succeeded", "failed"}]
  BY DEF SeenInv, SeenTypeOK, Reader
<1>2. IdleReader \in Reader /\ IdleReader.at = "idle" /\ IdleReader.result = "none"
  BY DEF IdleReader, Reader
<1>3. /\ reader' \in [Readers -> Reader] /\ reader'[r] = IdleReader
      /\ \A q \in Readers : q # r => reader'[q] = reader[q]
  BY <1>2, ReaderMoves
<1>4. /\ seenStatus' \in [Letters -> {"none", "pending", "succeeded", "failed"}]
      /\ \A n \in Letters : n # m => seenStatus'[n] = seenStatus[n]
      /\ seenStatus'[m] = "pending" => m \in interrupted'
      /\ interrupted \subseteq interrupted'
      /\ seenStatus'[m] = "succeeded" => m \in settledSeen
  BY <1>1 DEF SeenInv, SucceededIsSeen
<1>5. SeenTypeOK'
  BY <1>1, <1>2, <1>3, <1>4 DEF SeenInv, SeenTypeOK
<1>6. SucceededIsSeen'
  BY <1>4 DEF SeenInv, SucceededIsSeen
<1>7. PendingHasThread'
  <2> SUFFICES ASSUME NEW n \in Letters, seenStatus'[n] = "pending", n \notin interrupted'
               PROVE  \E q \in Readers : reader'[q].letter = n
                        /\ reader'[q].at \in {"connecting", "storing", "reporting"}
    BY DEF PendingHasThread
  <2>1. n # m /\ seenStatus[n] = "pending" /\ n \notin interrupted
    BY <1>4
  <2>2. PICK q \in Readers : reader[q].letter = n
                      /\ reader[q].at \in {"connecting", "storing", "reporting"}
    BY <2>1 DEF SeenInv, PendingHasThread
  <2>3. QED
    BY <1>3, <2>1, <2>2
<1>8. \A q \in Readers : reader'[q].result = "succeeded" => reader'[q].letter \in settledSeen'
  BY <1>2, <1>3 DEF SeenInv
<1>9. QED
  BY <1>5, <1>6, <1>7, <1>8 DEF SeenInv

LEMMA ReaderStepKeeps ==
  ASSUME SeenInv, NEW r \in Readers, ReaderStep(r)
  PROVE  SeenInv'
<1>1. flagged \subseteq Letters /\ settledSeen \subseteq Letters
      /\ (reader[r].at # "idle" => reader[r].letter \in Letters)
  BY DEF SeenInv, SeenTypeOK
<1>2. CASE RecordPending(r)
  BY <1>1, <1>2, ReaderGoesOn DEF RecordPending
<1>3. CASE FindLetter(r)
  BY <1>1, <1>3, ReaderGoesOn DEF FindLetter
<1>4. CASE PropagationFails(r)
  BY <1>1, <1>4, ReaderGoesOn DEF PropagationFails
<1>5. ASSUME NEW outcome \in {"succeeded", "failed"}, StoreSeen(r, outcome)
      PROVE  SeenInv'
  BY <1>1, <1>5, ReaderGoesOn DEF StoreSeen
<1>6. CASE Report(r)
  BY <1>6, ReaderEnds DEF Report, OutcomeOf
<1>7. CASE StoreRaises(r)
  BY <1>7, ReaderEnds DEF StoreRaises
<1>8. QED
  BY <1>2, <1>3, <1>4, <1>5, <1>6, <1>7 DEF ReaderStep

LEMMA KillReadersKeeps == SeenInv /\ KillReaders => SeenInv'
<1> SUFFICES ASSUME SeenInv, KillReaders PROVE SeenInv'
  OBVIOUS
<1>1. IdleReader \in Reader /\ IdleReader.at = "idle" /\ IdleReader.result = "none"
  BY DEF IdleReader, Reader
<1>2. /\ reader' = [r \in Readers |-> IdleReader]
      /\ interrupted' = interrupted \cup {reader[r].letter : r \in {q \in Readers : reader[q].at # "idle"}}
      /\ UNCHANGED <<readState, seenStatus, folder, flagged, settledSeen>>
  BY DEF KillReaders
<1>3. interrupted' \subseteq Letters
  BY <1>2 DEF SeenInv, SeenTypeOK
<1>4. SeenTypeOK'
  BY <1>1, <1>2, <1>3 DEF SeenInv, SeenTypeOK
<1>5. SucceededIsSeen'
  BY <1>2 DEF SeenInv, SucceededIsSeen
<1>6. PendingHasThread'
  BY <1>2 DEF SeenInv, PendingHasThread
<1>7. QED
  BY <1>1, <1>2, <1>4, <1>5, <1>6 DEF SeenInv

LEMMA OthersKeep ==
  ASSUME SeenInv, NEW m \in Letters, OthersFlag(m) \/ OthersMove(m)
  PROVE  SeenInv'
<1>1. /\ UNCHANGED <<readState, seenStatus, reader, interrupted>>
      /\ folder' \subseteq Letters /\ flagged' \subseteq Letters
      /\ settledSeen \subseteq settledSeen' /\ settledSeen' \subseteq Letters
  BY DEF OthersFlag, OthersMove, Noted, SeenInv, SeenTypeOK
<1>2. QED
  BY <1>1 DEF SeenInv, SeenTypeOK, SucceededIsSeen, PendingHasThread

LEMMA SeenInvariant == SeenSpec => []SeenInv
<1>1. SeenInv /\ [SeenNext]_seenVars => SeenInv'
  <2> SUFFICES ASSUME SeenInv, [SeenNext]_seenVars PROVE SeenInv'
    OBVIOUS
  <2>1. CASE UNCHANGED seenVars
    BY <2>1 DEF seenVars, SeenInv, SeenTypeOK, SucceededIsSeen, PendingHasThread
  <2>2. CASE SeenNext
    BY <2>2, ReaderStepKeeps, MarkReadKeeps, KillReadersKeeps, OthersKeep DEF SeenNext
  <2>3. QED
    BY <2>1, <2>2
<1>2. QED
  BY <1>1, SeenInitially, PTL DEF SeenSpec

\* The unread folder, the states of propagation and the readers keep their
\* types.
THEOREM SeenTypeCorrect == SeenSpec => []SeenTypeOK
BY SeenInvariant, PTL DEF SeenInv

\* A letter whose propagation is said to have succeeded has been flagged on
\* the server or has left its folder since its first propagation, although
\* threads report late and requests time out.
THEOREM SuccessIsSeen == SeenSpec => []SucceededIsSeen
BY SeenInvariant, PTL DEF SeenInv

\* A propagation that is pending has a thread that works on it, unless a
\* thread for it was killed or the store failed one.
THEOREM PendingIsWorkedOn == SeenSpec => []PendingHasThread
BY SeenInvariant, PTL DEF SeenInv

-----------------------------------------------------------------------------
(* Propagation: a thread ends.                                             *)

\* How many steps a thread at a place has left at most.
StepsAt(place) ==
  CASE place = "idle" -> 0
    [] place = "reporting" -> 1
    [] place = "storing" -> 2
    [] place = "connecting" -> 3
    [] place = "recording" -> 4

\* A thread that goes on has fewer steps left, and neither other threads nor
\* a kill give it more; it lets go of its letter only with an outcome in the
\* table, or when it is interrupted.
ReadersAdvance ==
  [][\A r \in Readers :
       /\ ReaderStep(r) => StepsAt(reader'[r].at) < StepsAt(reader[r].at)
       /\ reader[r].at # "idle" =>
            /\ StepsAt(reader'[r].at) <= StepsAt(reader[r].at)
            /\ \/ reader'[r].letter = reader[r].letter
               \/ /\ reader'[r].at = "idle"
                  /\ \/ seenStatus'[reader[r].letter] \in {"succeeded", "failed"}
                     \/ reader[r].letter \in interrupted']_seenVars

\* What a thread reports is an outcome.
OutcomesReported ==
  \A r \in Readers : reader[r].at = "reporting" => reader[r].result \in {"succeeded", "failed"}

\* One thread moves; the others have the steps they had.
LEMMA StepsOfOne ==
  ASSUME SeenInv, OutcomesReported, NEW r \in Readers, ReaderStep(r)
  PROVE  /\ \A q \in Readers \ {r} : reader'[q] = reader[q]
         /\ StepsAt(reader'[r].at) < StepsAt(reader[r].at)
         /\ StepsAt(reader[r].at) \in 0..4
         /\ OutcomesReported'
         /\ \/ reader'[r].letter = reader[r].letter
            \/ /\ reader'[r].at = "idle"
               /\ \/ seenStatus'[reader[r].letter] \in {"succeeded", "failed"}
                  \/ reader[r].letter \in interrupted'
<1>1. /\ reader \in [Readers -> Reader] /\ reader[r] \in Reader
      /\ seenStatus \in [Letters -> {"none", "pending", "succeeded", "failed"}]
      /\ interrupted \subseteq Letters
      /\ reader[r].at # "idle" => reader[r].letter \in Letters
  BY DEF SeenInv, SeenTypeOK
<1>2. ASSUME NEW place \in {"connecting", "storing", "reporting"}, NEW outcome,
             ReaderGoes(r, place, outcome)
      PROVE  /\ reader'[r].at = place /\ reader'[r].result = outcome
             /\ reader'[r].letter = reader[r].letter
             /\ \A q \in Readers \ {r} : reader'[q] = reader[q]
  BY <1>1, <1>2 DEF ReaderGoes, Reader
<1>3. ASSUME reader' = [reader EXCEPT ![r] = IdleReader]
      PROVE  /\ reader'[r].at = "idle" /\ \A q \in Readers \ {r} : reader'[q] = reader[q]
  BY <1>1, <1>3 DEF IdleReader
<1>4. CASE RecordPending(r)
  BY <1>2, <1>4 DEF RecordPending, StepsAt, OutcomesReported
<1>5. CASE FindLetter(r)
  BY <1>2, <1>5 DEF FindLetter, StepsAt, OutcomesReported
<1>6. CASE PropagationFails(r)
  BY <1>2, <1>6 DEF PropagationFails, StepsAt, OutcomesReported
<1>7. ASSUME NEW outcome \in {"succeeded", "failed"}, StoreSeen(r, outcome)
      PROVE  /\ \A q \in Readers \ {r} : reader'[q] = reader[q]
             /\ StepsAt(reader[r].at) = 2 /\ StepsAt(reader'[r].at) = 1 /\ OutcomesReported'
             /\ reader'[r].letter = reader[r].letter
  BY <1>2, <1>7 DEF StoreSeen, StepsAt, OutcomesReported
<1>8. CASE Report(r)
  <2>1. /\ reader[r].at = "reporting" /\ reader' = [reader EXCEPT ![r] = IdleReader]
        /\ seenStatus' = [seenStatus EXCEPT ![reader[r].letter] = reader[r].result]
    BY <1>8 DEF Report, OutcomeOf
  <2>2. seenStatus'[reader[r].letter] \in {"succeeded", "failed"}
    BY <1>1, <2>1 DEF OutcomesReported
  <2>3. QED
    BY <1>3, <2>1, <2>2 DEF StepsAt, OutcomesReported
<1>9. CASE StoreRaises(r)
  BY <1>1, <1>3, <1>9 DEF StoreRaises, StepsAt, OutcomesReported
<1>10. QED
  BY <1>4, <1>5, <1>6, <1>7, <1>8, <1>9 DEF ReaderStep

LEMMA OutcomesAreReported == SeenSpec => []OutcomesReported
<1>1. SeenInit => OutcomesReported
  BY DEF SeenInit, OutcomesReported, IdleReader
<1>2. SeenInv /\ OutcomesReported /\ [SeenNext]_seenVars => OutcomesReported'
  <2> SUFFICES ASSUME SeenInv, OutcomesReported, [SeenNext]_seenVars PROVE OutcomesReported'
    OBVIOUS
  <2>1. ASSUME NEW r \in Readers, NEW m \in Letters, MarkRead(r, m)
        PROVE  OutcomesReported'
    BY <2>1 DEF MarkRead, OutcomesReported, SeenInv, SeenTypeOK
  <2>2. CASE KillReaders
    BY <2>2 DEF KillReaders, OutcomesReported, IdleReader
  <2>3. CASE UNCHANGED reader
    BY <2>3 DEF OutcomesReported
  <2>4. QED
    BY <2>1, <2>2, <2>3, StepsOfOne DEF SeenNext, OthersFlag, OthersMove, seenVars
<1>3. QED
  BY <1>1, <1>2, SeenInvariant, PTL DEF SeenSpec

\* Each thread of a propagation (seen_workflow.py) is done after four steps of
\* its own at most, and the letter it works on then has an outcome, unless it
\* was killed or could not record it.
THEOREM PropagationsAdvance == SeenSpec => ReadersAdvance
<1> DEFINE Advances(r) ==
      /\ ReaderStep(r) => StepsAt(reader'[r].at) < StepsAt(reader[r].at)
      /\ reader[r].at # "idle" =>
            /\ StepsAt(reader'[r].at) <= StepsAt(reader[r].at)
            /\ \/ reader'[r].letter = reader[r].letter
               \/ /\ reader'[r].at = "idle"
                  /\ \/ seenStatus'[reader[r].letter] \in {"succeeded", "failed"}
                     \/ reader[r].letter \in interrupted'
<1>1. ASSUME SeenInv, OutcomesReported, SeenNext, NEW r \in Readers
      PROVE  Advances(r)
  <2>1. reader \in [Readers -> Reader] /\ StepsAt(reader[r].at) \in 0..4
    BY <1>1 DEF SeenInv, SeenTypeOK, Reader, StepsAt
  <2>2. CASE ReaderStep(r)
    <3>1. /\ StepsAt(reader'[r].at) < StepsAt(reader[r].at)
          /\ \/ reader'[r].letter = reader[r].letter
             \/ /\ reader'[r].at = "idle"
                /\ \/ seenStatus'[reader[r].letter] \in {"succeeded", "failed"}
                   \/ reader[r].letter \in interrupted'
      BY <1>1, <2>2, StepsOfOne
    <3>2. reader'[r] \in Reader
      BY <1>1, <2>2, ReaderStepKeeps DEF SeenInv, SeenTypeOK
    <3>3. StepsAt(reader'[r].at) \in 0..4
      BY <3>2 DEF Reader, StepsAt
    <3>4. QED
      BY <2>1, <3>1, <3>3
  <2>3. CASE ~ReaderStep(r)
    <3>1. CASE reader'[r] = reader[r]
      BY <2>1, <2>3, <3>1
    <3>2. CASE KillReaders
      <4>1. reader'[r].at = "idle" /\ StepsAt(reader'[r].at) = 0
        BY <3>2 DEF KillReaders, IdleReader, StepsAt
      <4>2. reader[r].at # "idle" => reader[r].letter \in interrupted'
        BY <3>2 DEF KillReaders
      <4>3. QED
        BY <2>1, <2>3, <4>1, <4>2
    <3>3. ASSUME NEW m \in Letters, MarkRead(r, m)
          PROVE  Advances(r)
      BY <2>3, <3>3 DEF MarkRead
    <3>4. ASSUME NEW q \in Readers, q # r, ReaderStep(q) \/ \E m \in Letters : MarkRead(q, m)
          PROVE  reader'[r] = reader[r]
      BY <1>1, <2>1, <3>4, StepsOfOne DEF MarkRead
    <3>5. CASE \E m \in Letters : OthersFlag(m) \/ OthersMove(m)
      BY <3>1, <3>5 DEF OthersFlag, OthersMove
    <3>6. QED
      BY <1>1, <2>3, <3>1, <3>2, <3>3, <3>4, <3>5 DEF SeenNext
  <2>4. QED
    BY <2>2, <2>3
<1>2. SeenInv /\ OutcomesReported /\ [SeenNext]_seenVars => [\A r \in Readers : Advances(r)]_seenVars
  BY <1>1
<1>3. QED
  BY <1>2, SeenInvariant, OutcomesAreReported, PTL DEF SeenSpec, ReadersAdvance
=============================================================================
