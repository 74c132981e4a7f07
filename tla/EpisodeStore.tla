---------------------------- MODULE EpisodeStore ----------------------------
(***************************************************************************)
(* What a project of engram promises whoever has it open: a set of         *)
(* episodes with one user at a time, which only the user's operations      *)
(* change, each in one step.  Storing first drops or retires the topic's   *)
(* earlier values and then adds the new one, in two steps, because the     *)
(* program may be killed in between.  The file, memory, locks and indexes  *)
(* do not appear: they are ProjectMemory's business.                       *)
(*                                                                         *)
(* There are two ways to get less.  A crash while the file is written      *)
(* keeps only the oldest episodes, or makes two rows illegible, perhaps    *)
(* only when the project is left the next time.  Once the project was      *)
(* opened while somebody else had it open, or was opening it, openings and *)
(* closings may find older contents.                                       *)
(***************************************************************************)
EXTENDS Integers

CONSTANTS
  Users, Topics, NoTopic,
  MaxEpisodes   \* bound: how many episodes are ever stored

VARIABLES
  held,        \* the episodes of the project
  made,        \* how many have been stored: the id of the youngest
  users,       \* who has the project open
  damaged,     \* whether somebody has crashed while writing the file
  overlapped   \* whether openings have overlapped

vars == <<held, made, users, damaged, overlapped>>

Episode == [id : 1..MaxEpisodes, topic : Topics \cup {NoTopic}, active : BOOLEAN]

Init ==
  /\ held = {} /\ made = 0 /\ users = {}
  /\ damaged = FALSE /\ overlapped = FALSE

\* Contents the project may once have had.
Earlier(rows) ==
  /\ rows \subseteq Episode
  /\ \A r \in rows : r.id <= made'
  /\ \A r, s \in rows : r.id = s.id => r = s

-----------------------------------------------------------------------------
Open(u) ==
  /\ users = {} /\ users' = {u}
  /\ held' = held \/ (overlapped /\ Earlier(held'))
  /\ UNCHANGED <<made, damaged, overlapped>>

\* Closed, or killed while it was not writing: nothing is lost unless the
\* file was damaged before.
Leave(u) ==
  /\ users = {u} /\ users' = {}
  /\ \/ held' = held
     \/ damaged /\ \E r, s \in held : held' = held \ {r, s}
     \/ overlapped /\ Earlier(held')
  /\ UNCHANGED <<made, damaged, overlapped>>

\* Killed while it rewrote the file, also before it had the project open.
CrashRewriting(u) ==
  /\ users \subseteq {u} /\ users' = {}
  /\ damaged' = TRUE
  /\ \/ \E age \in 0..MaxEpisodes : held' = {r \in held : r.id <= age}
     \/ overlapped /\ Earlier(held')
  /\ UNCHANGED <<made, overlapped>>

\* Killed while it appended an episode, which may be there.
CrashAppending(u, t) ==
  /\ users = {u} /\ users' = {}
  /\ damaged' = TRUE
  /\ \E new \in {{}, {[id |-> made + 1, topic |-> t, active |-> TRUE]}} :
       /\ \/ held' = held \cup new
          \/ damaged /\ \E r, s \in held : held' = (held \ {r, s}) \cup new
          \/ overlapped /\ Earlier(held')
       /\ made' = IF new = {} THEN made ELSE made + 1
  /\ UNCHANGED overlapped

\* An opening overlaps another, or what it does to the file goes on: who has
\* the project open keeps it as it is.
Overlap ==
  /\ overlapped' = TRUE
  /\ held' = held \/ (users = {} /\ Earlier(held'))
  /\ damaged' \in {damaged, TRUE}
  /\ UNCHANGED <<made, users>>

\* A new value is added when the topic has no active one.
Put(t) ==
  /\ users # {} /\ made < MaxEpisodes
  /\ \A r \in held : r.topic = t /\ t # NoTopic => ~r.active
  /\ held' = held \cup {[id |-> made + 1, topic |-> t, active |-> TRUE]}
  /\ made' = made + 1
  /\ UNCHANGED <<users, damaged, overlapped>>

Retire(t) ==
  /\ users # {}
  /\ held' = {r \in held : r.topic # t} \cup
               {[r EXCEPT !.active = FALSE] : r \in {s \in held : s.topic = t}}
  /\ UNCHANGED <<made, users, damaged, overlapped>>

\* Replaced, deleted or forgotten.
Drop(S) ==
  /\ users # {}
  /\ held' = held \ S
  /\ UNCHANGED <<made, users, damaged, overlapped>>

Next ==
  \/ \E u \in Users : Open(u) \/ Leave(u) \/ CrashRewriting(u)
  \/ \E u \in Users, t \in Topics \cup {NoTopic} : CrashAppending(u, t)
  \/ Overlap
  \/ \E t \in Topics \cup {NoTopic} : Put(t)
  \/ \E t \in Topics : Retire(t)
  \/ \E S \in SUBSET held : Drop(S)

Spec == Init /\ [][Next]_vars
=============================================================================
