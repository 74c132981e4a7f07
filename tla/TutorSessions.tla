---------------------------- MODULE TutorSessions ----------------------------
(***************************************************************************)
(* The sessions of the language tutor: the registry and its reaper thread  *)
(* (routes/session.py), the handlers that use a session, among them a      *)
(* websocket and an upload of speech that keep it while they wait          *)
(* (routes/conversation.py), and what a session holds and logs             *)
(* (tutor_session.py).  A session opens the project memory of its          *)
(* language, whose writer lock it keeps until it is closed or, once nobody *)
(* refers to it, deleted.                                                  *)
(*                                                                         *)
(* Handlers run on one event loop and change only where they await; the    *)
(* reaper is a thread of its own.  Abstractions: sessions are numbered as  *)
(* they start; instead of times, a session is fresh until it has been idle *)
(* for two hours, which no handler lasts; drills, messages and lookups     *)
(* alike are work done in a session.                                       *)
(***************************************************************************)
EXTENDS Naturals

CONSTANTS Languages, Clients, MaxSessions

ASSUME SessionsAssumption == MaxSessions \in Nat /\ Languages # {}

VARIABLES
  started,     \* the number of sessions started
  language,    \* the language of each
  registered,  \* active_sessions
  fresh,       \* the sessions resolved or started in the last two hours
  lock,        \* who has the writer lock of each language's memory; 0 for nobody
  client,      \* what each handler has of a session
  reaping,     \* the sessions the reaper has taken out and not closed yet
  remembered,  \* the session the reaper's loop variable refers to; 0 for none
  logged,      \* the sessions whose end the session store has
  again,       \* history: sessions whose end was logged more than once
  halfEnded,   \* history: sessions whose end failed after it was logged
  reapedInUse, \* history: sessions reaped while a handler had them
  stuck        \* history: sessions whose closing failed

tutorVars == <<started, language, registered, fresh, lock, client, reaping,
               remembered, logged, again, halfEnded, reapedInUse, stuck>>

-----------------------------------------------------------------------------
Sessions == 1..MaxSessions

Away == [at |-> "away", session |-> 0]
Client ==
  [at : {"away", "resolved", "working", "waiting", "ending", "popping"},
   session : Sessions \cup {0}]

\* No handler is between two awaits.
OthersWait(c) == \A d \in Clients \ {c} : client[d].at \in {"away", "waiting"}
Idling == \A c \in Clients : client[c].at \in {"away", "waiting"}

Held(s) == \E c \in Clients : client[c].session = s
Reachable(s) == s \in registered \/ Held(s)
Locks(s) == s \in 1..started /\ lock[language[s]] = s
MovesTo(c, place) == client' = [client EXCEPT ![c].at = place]
Leaves(c) == client' = [client EXCEPT ![c] = Away]

-----------------------------------------------------------------------------
(* Starting: the memory of the language is opened, which fails while       *)
(* another session has it, and the session is planned and registered.      *)

Opens(l) ==
  /\ Idling /\ started < MaxSessions /\ lock[l] = 0
  /\ started' = started + 1
  /\ language' = [language EXCEPT ![started + 1] = l]
  /\ lock' = [lock EXCEPT ![l] = started + 1]
  /\ UNCHANGED <<client, reaping, remembered, logged, again, halfEnded, reapedInUse,
                 stuck>>

\* A session started in the same second has the same id and is replaced.
StartSession(l, sameSecond) ==
  /\ Opens(l)
  /\ sameSecond => started \in fresh
  /\ registered' =
       (IF sameSecond THEN registered \ {started} ELSE registered) \cup {started + 1}
  /\ fresh' = fresh \cup {started + 1}

\* The store or the planner raises: the session is dropped as it is.
StartFails(l) == Opens(l) /\ UNCHANGED <<registered, fresh, remembered>>

-----------------------------------------------------------------------------
(* Using a session.                                                        *)

\* The registry is looked up, without its lock; then the session is touched.
Resolve(c, s) ==
  /\ Idling /\ client[c] = Away /\ s \in registered
  /\ client' = [client EXCEPT ![c] = [at |-> "resolved", session |-> s]]
  /\ UNCHANGED <<started, language, registered, fresh, lock, reaping, remembered,
                 logged, again, halfEnded, reapedInUse, stuck>>

Touch(c, use) ==
  /\ client[c].at = "resolved"
  /\ fresh' = fresh \cup {client[c].session}
  /\ MovesTo(c, use)
  /\ UNCHANGED <<started, language, registered, lock, reaping, remembered, logged,
                 again, halfEnded, reapedInUse, stuck>>

\* A message arrives on the websocket, or speech has been transcribed: the
\* session is used without being resolved again.
Receive(c) ==
  /\ OthersWait(c) /\ client[c].at = "waiting"
  /\ MovesTo(c, "working")
  /\ UNCHANGED <<started, language, registered, fresh, lock, reaping, remembered,
                 logged, again, halfEnded, reapedInUse, stuck>>

\* The handler returns or raises, or the websocket waits for the next message
\* or is closed.
Finish(c) ==
  /\ \/ client[c].at = "working" /\ (Leaves(c) \/ MovesTo(c, "waiting"))
     \/ client[c].at = "waiting" /\ OthersWait(c) /\ Leaves(c)
  /\ UNCHANGED <<started, language, registered, fresh, lock, reaping, remembered,
                 logged, again, halfEnded, reapedInUse, stuck>>

\* end_session: the summary cannot be made, or the end is logged; what fails
\* after that leaves the session registered.
EndFails(c) ==
  /\ client[c].at = "ending"
  /\ Leaves(c)
  /\ UNCHANGED <<started, language, registered, fresh, lock, reaping, remembered,
                 logged, again, halfEnded, reapedInUse, stuck>>

LogEnd(c, completes) ==
  /\ client[c].at = "ending"
  /\ LET s == client[c].session IN
       /\ logged' = logged \cup {s}
       /\ again' = IF s \in logged THEN again \cup {s} ELSE again
       /\ halfEnded' = IF completes THEN halfEnded ELSE halfEnded \cup {s}
  /\ IF completes THEN MovesTo(c, "popping") ELSE Leaves(c)
  /\ UNCHANGED <<started, language, registered, fresh, lock, reaping, reapedInUse,
                 stuck, remembered>>

\* Mutant: an ended session stays in the registry.
PopNothing(c) ==
  /\ client[c].at = "popping"
  /\ Leaves(c)
  /\ UNCHANGED <<started, language, registered, fresh, lock, reaping, remembered,
                 logged, again, halfEnded, reapedInUse, stuck>>

\* The session leaves the registry; it is not closed.
Pop(c) ==
  /\ client[c].at = "popping"
  /\ registered' = registered \ {client[c].session}
  /\ Leaves(c)
  /\ UNCHANGED <<started, language, fresh, lock, reaping, remembered, logged, again,
                 halfEnded, reapedInUse, stuck>>

-----------------------------------------------------------------------------
(* The reaper, and the memory that is released.                            *)

\* Two hours pass without the session being resolved.
GrowsIdle(s) ==
  /\ s \in fresh
  /\ \A c \in Clients : client[c].session = s => client[c].at = "waiting"
  /\ fresh' = fresh \ {s}
  /\ UNCHANGED <<started, language, registered, lock, client, reaping, remembered,
                 logged, again, halfEnded, reapedInUse, stuck>>

Idle == registered \ fresh

\* The registry keeps the order in which its sessions were started.
Last(S) == CHOOSE s \in S : \A r \in S : r <= s
LastScanned == IF Idle = {} THEN Last(registered) ELSE Last(Idle)

\* Mutant: the sessions leave the registry when they are closed.
ScanKeeping ==
  /\ reaping = {} /\ registered # {}
  /\ reaping' = Idle
  /\ remembered' = LastScanned
  /\ reapedInUse' = reapedInUse \cup {s \in Idle : Held(s)}
  /\ UNCHANGED <<started, language, registered, fresh, lock, client, logged, again,
                 halfEnded, stuck>>

\* Mutant: sessions that a handler has are left alone.
ScanUnheld ==
  /\ reaping = {} /\ registered # {}
  /\ reaping' = {s \in Idle : ~Held(s)}
  /\ registered' = registered \ reaping'
  /\ remembered' = LastScanned
  /\ UNCHANGED <<started, language, fresh, lock, client, logged, again,
                 halfEnded, reapedInUse, stuck>>

\* Under the registry's lock all idle sessions are taken out; the variable of
\* the loops over the sessions goes on referring to the last one.
Scan ==
  /\ reaping = {} /\ registered # {}
  /\ reaping' = Idle
  /\ registered' = registered \ Idle
  /\ remembered' = LastScanned
  /\ reapedInUse' = reapedInUse \cup {s \in Idle : Held(s)}
  /\ UNCHANGED <<started, language, fresh, lock, client, logged, again,
                 halfEnded, stuck>>

\* The writer lock is given back, if the session still has it.
Released(s) == [l \in Languages |-> IF lock[l] = s THEN 0 ELSE lock[l]]

CloseReaped(s) ==
  /\ s \in reaping
  /\ reaping' = reaping \ {s}
  /\ lock' = Released(s)
  /\ UNCHANGED <<started, language, registered, fresh, client, remembered, logged,
                 again, halfEnded, reapedInUse, stuck>>

\* Saving the semantic layer raises before the lock is released; the reaper
\* swallows it and may go on referring to the session.
CloseFails(s) ==
  /\ s \in reaping
  /\ reaping' = reaping \ {s}
  /\ stuck' = stuck \cup {s}
  /\ UNCHANGED <<started, language, registered, fresh, lock, client, remembered,
                 logged, again, halfEnded, reapedInUse>>

\* Nobody refers to the session any more: it is deleted, its memory closed.
Delete(s) ==
  /\ Locks(s) /\ ~Reachable(s) /\ s \notin reaping /\ s # remembered
  /\ lock' = Released(s)
  /\ UNCHANGED <<started, language, registered, fresh, client, reaping, remembered,
                 logged, again, halfEnded, reapedInUse, stuck>>

TutorInit ==
  /\ started = 0 /\ language = [s \in Sessions |-> CHOOSE l \in Languages : TRUE]
  /\ registered = {} /\ fresh = {} /\ lock = [l \in Languages |-> 0]
  /\ client = [c \in Clients |-> Away] /\ reaping = {} /\ remembered = 0
  /\ logged = {} /\ again = {} /\ halfEnded = {} /\ reapedInUse = {} /\ stuck = {}

ClientStep(c) ==
  \/ \E s \in Sessions : Resolve(c, s)
  \/ \E use \in {"working", "waiting", "ending"} : Touch(c, use)
  \/ Receive(c) \/ Finish(c)
  \/ EndFails(c) \/ Pop(c) \/ \E completes \in BOOLEAN : LogEnd(c, completes)

ReaperStep == Scan \/ \E s \in Sessions : CloseReaped(s) \/ CloseFails(s)

TutorNext ==
  \/ \E l \in Languages : StartFails(l) \/ \E sameSecond \in BOOLEAN : StartSession(l, sameSecond)
  \/ \E c \in Clients : ClientStep(c)
  \/ ReaperStep
  \/ \E s \in Sessions : GrowsIdle(s) \/ Delete(s)

TutorSpec == TutorInit /\ [][TutorNext]_tutorVars

\* The reaper looks every five minutes and closes what it has taken out, and
\* what nobody refers to is deleted.
TutorFairness ==
  WF_tutorVars(ReaperStep) /\ \A s \in Sessions : WF_tutorVars(Delete(s))
FairTutorSpec == TutorSpec /\ TutorFairness

-----------------------------------------------------------------------------
(* Properties.                                                             *)

TutorTypeOK ==
  /\ started \in 0..MaxSessions
  /\ language \in [Sessions -> Languages]
  /\ registered \subseteq 1..started /\ fresh \subseteq 1..started
  /\ lock \in [Languages -> 0..started]
  /\ client \in [Clients -> Client]
  /\ \A c \in Clients : client[c].at = "away" <=> client[c].session = 0
  /\ remembered \in 0..started
  /\ reaping \subseteq 1..started /\ reaping \cap registered = {}
  /\ {logged, again, halfEnded, reapedInUse, stuck} \subseteq SUBSET Sessions

\* A session that anybody can still use has the writer lock of its language,
\* so that no two write the same memory, except one that was reaped while a
\* handler had it: the websocket that keeps it, or the handler that had just
\* looked it up, then writes without the lock.
UsableHoldsLock ==
  \A s \in Sessions \ reapedInUse : Reachable(s) => Locks(s)

\* The end of a session is logged once, unless an end failed half way, also
\* when it is ended from two pages or while the reaper is at work.
EndLoggedOnce == again \subseteq halfEnded

\* Nobody is locked out of a language for ever by a session that has been left
\* alone for two hours, be a websocket open on it or not, or that nobody can
\* reach any more.  The exception is a session that ended after the reaper had
\* looked at it: the reaper's loop variable keeps it, and with it the lock of
\* its language, until the reaper finds another session in the registry.
LanguageFreed ==
  \A s \in Sessions :
    (Locks(s) /\ (s \in Idle \/ ~Reachable(s))) ~>
      \/ ~Locks(s) \/ s \in fresh \/ s \in stuck
      \/ s = remembered /\ registered = {}
=============================================================================
