--------------------------- MODULE ConfirmedMoves ---------------------------
(***************************************************************************)
(* What the trash workflow of the mail assistant promises its user: mail   *)
(* leaves its folder only while a confirmation is carried out, only if it  *)
(* was shown with the confirmed token, and for each token once.  A token   *)
(* is shown once and confirmed at most once, before it is over.  What the  *)
(* user is told of a confirmation covers what was shown to him, calls      *)
(* moved what has been outside its folder since he confirmed, and skipped  *)
(* what the confirmation left alone; of the rest it says only that it      *)
(* failed.  He may be told nothing, and after that nothing is moved.       *)
(*                                                                         *)
(* Requests, threads, logins, waiting handlers and lost replies do not     *)
(* appear: they are MailTrash's business.                                  *)
(***************************************************************************)
CONSTANTS
  Tokens, Messages,
  Others   \* the messages that other clients move out of the folders and back

VARIABLES
  present,   \* the messages in their folders
  shown,     \* the rows shown with each token
  over,      \* the tokens that cannot be confirmed any more
  underway,  \* the confirmed tokens whose messages are being moved
  outside,   \* of these, the messages that have been outside since
  moved,     \* which token's confirmation moved which message
  told       \* what the user was told became of the messages, by token

vars == <<present, shown, over, underway, outside, moved, told>>

Outcomes == {"none", "moved", "failed", "skipped"}

Init ==
  /\ present \in SUBSET Messages
  /\ shown = [t \in Tokens |-> {}] /\ outside = [t \in Tokens |-> {}]
  /\ over = {} /\ underway = {} /\ moved = {} /\ told = {}

\* Everybody whose confirmation is under way sees the message outside.
SeenOutside(m) ==
  outside' = [t \in Tokens |-> IF t \in underway THEN outside[t] \cup {m} ELSE outside[t]]

-----------------------------------------------------------------------------
Show(t) ==
  /\ shown[t] = {}
  /\ \E rows \in SUBSET Messages : shown' = [shown EXCEPT ![t] = rows]
  /\ UNCHANGED <<present, over, underway, outside, moved, told>>

Withdraw(t) ==
  /\ over' = over \cup {t}
  /\ UNCHANGED <<present, shown, underway, outside, moved, told>>

Confirm(t) ==
  /\ shown[t] # {} /\ t \notin over
  /\ over' = over \cup {t} /\ underway' = underway \cup {t}
  /\ outside' = [outside EXCEPT ![t] = Messages \ present]
  /\ UNCHANGED <<present, shown, moved, told>>

Remove(t, m) ==
  /\ t \in underway /\ m \in shown[t] /\ <<t, m>> \notin moved
  /\ m \in present /\ present' = present \ {m}
  /\ moved' = moved \cup {<<t, m>>}
  /\ SeenOutside(m)
  /\ UNCHANGED <<shown, over, underway, told>>

\* The confirmation is over, and nothing is left to be done for it.
Finish(t) ==
  /\ t \in underway /\ underway' = underway \ {t}
  /\ outside' = [outside EXCEPT ![t] = {}]
  /\ UNCHANGED <<present, shown, over, moved>>

Answer(t) ==
  /\ Finish(t)
  /\ \E became \in [Messages -> Outcomes] :
       /\ \A m \in Messages :
            /\ became[m] # "none" <=> m \in shown[t]
            /\ became[m] = "moved" => m \in outside[t]
            /\ became[m] = "skipped" => <<t, m>> \notin moved
       /\ told' = told \cup {<<t, became>>}

Abandon(t) == Finish(t) /\ told' = told

\* Nothing that was shown before can be confirmed afterwards.
Crash ==
  /\ underway' = {} /\ outside' = [t \in Tokens |-> {}]
  /\ \E T \in SUBSET Tokens : over' = over \cup T /\ {t \in Tokens : shown[t] # {}} \subseteq T
  /\ UNCHANGED <<present, shown, moved, told>>

\* Another client moves a message out of its folder or back into it.
Elsewhere(m) ==
  /\ present' = (present \ {m}) \cup ({m} \ present)
  /\ SeenOutside(m)
  /\ UNCHANGED <<shown, over, underway, moved, told>>

Next ==
  \/ Crash
  \/ \E t \in Tokens :
       \/ Show(t) \/ Withdraw(t) \/ Confirm(t) \/ Answer(t) \/ Abandon(t)
       \/ \E m \in Messages : Remove(t, m)
  \/ \E m \in Others : Elsewhere(m)

Spec == Init /\ [][Next]_vars
=============================================================================
