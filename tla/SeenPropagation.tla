--------------------------- MODULE SeenPropagation ---------------------------
(***************************************************************************)
(* Marking mail as read: the handler of /read (web_app.py) records it in   *)
(* the store's ledger and a daemon thread tells the IMAP server            *)
(* (seen_workflow.py, imap_seen.py), keeping the progress in the table     *)
(* seen_propagation (store.py).  The thread goes on when the handler stops *)
(* waiting, so several may work on one message; the process may be killed. *)
(*                                                                         *)
(* Abstractions: one letter per request, as /read has it; the snapshot the *)
(* handler looks the letter up in always has it.  Other clients set and    *)
(* clear the flag and move letters out of their folder and back.           *)
(***************************************************************************)
EXTENDS Naturals

CONSTANTS Letters, Readers  \* the requests to /read under way at a time

VARIABLES
  readState,    \* table read_state
  seenStatus,   \* table seen_propagation
  folder,       \* server: the letters where they are expected
  flagged,      \* server: the letters flagged \Seen
  reader,       \* the thread of each request
  settledSeen,  \* history: letters flagged, or outside the folder, since their first
                \*   propagation
  interrupted   \* history: letters whose thread was killed or could not record

seenVars == <<readState, seenStatus, folder, flagged, reader, settledSeen, interrupted>>

-----------------------------------------------------------------------------
IdleReader == [at |-> "idle", letter |-> "none", result |-> "none"]
Reader ==
  [at : {"idle", "recording", "connecting", "storing", "reporting"},
   letter : Letters \cup {"none"}, result : {"none", "succeeded", "failed"}]

ReaderGoes(r, place, outcome) ==
  reader' = [reader EXCEPT ![r].at = place, ![r].result = outcome]

\* The ledger comes first: a failure to record it ends the request.
MarkRead(r, m) ==
  /\ reader[r].at = "idle"
  /\ readState' = readState \cup {m}
  /\ reader' = [reader EXCEPT ![r] = [at |-> "recording", letter |-> m, result |-> "none"]]
  /\ UNCHANGED <<seenStatus, folder, flagged, settledSeen, interrupted>>

\* What the server has of the letter by now is noted.
RecordPending(r) ==
  /\ reader[r].at = "recording"
  /\ LET m == reader[r].letter IN
       /\ seenStatus' = [seenStatus EXCEPT ![m] = "pending"]
       /\ settledSeen' = IF m \in flagged \/ m \notin folder THEN settledSeen \cup {m}
                                                           ELSE settledSeen
       /\ interrupted' = interrupted \ {m}
  /\ ReaderGoes(r, "connecting", "none")
  /\ UNCHANGED <<readState, folder, flagged>>

\* The letter is looked for on the server.
FindLetter(r) ==
  /\ reader[r].at = "connecting" /\ reader[r].letter \in folder
  /\ ReaderGoes(r, "storing", "none")
  /\ UNCHANGED <<readState, seenStatus, folder, flagged, settledSeen, interrupted>>

\* Mutant: a letter that is not found is waited for.
FailsWhenStoring(r) ==
  /\ reader[r].at = "storing"
  /\ ReaderGoes(r, "reporting", "failed")
  /\ UNCHANGED <<readState, seenStatus, folder, flagged, settledSeen, interrupted>>

\* Login, search or the command fails, or the letter is not where it should be.
PropagationFails(r) ==
  /\ reader[r].at \in {"connecting", "storing"}
  /\ ReaderGoes(r, "reporting", "failed")
  /\ UNCHANGED <<readState, seenStatus, folder, flagged, settledSeen, interrupted>>

\* UID STORE flags the letter if it is still there, and succeeds in any case;
\* its reply may be lost.
StoreSeen(r, outcome) ==
  /\ reader[r].at = "storing"
  /\ LET m == reader[r].letter IN
       /\ flagged' = IF m \in folder THEN flagged \cup {m} ELSE flagged
       /\ settledSeen' = settledSeen \cup {m}
  /\ ReaderGoes(r, "reporting", outcome)
  /\ UNCHANGED <<readState, seenStatus, folder, interrupted>>

\* Mutant: the outcome of the call is not looked at.
OutcomeAssumed(r) == "succeeded"

OutcomeOf(r) == reader[r].result

Report(r) ==
  /\ reader[r].at = "reporting"
  /\ seenStatus' = [seenStatus EXCEPT ![reader[r].letter] = OutcomeOf(r)]
  /\ reader' = [reader EXCEPT ![r] = IdleReader]
  /\ UNCHANGED <<readState, folder, flagged, settledSeen, interrupted>>

\* The store raises (it is locked for longer than its busy timeout).
StoreRaises(r) ==
  /\ reader[r].at \in {"recording", "reporting"}
  /\ interrupted' = interrupted \cup {reader[r].letter}
  /\ reader' = [reader EXCEPT ![r] = IdleReader]
  /\ UNCHANGED <<readState, seenStatus, folder, flagged, settledSeen>>

\* The process is killed with all its threads.
KillReaders ==
  /\ \E r \in Readers : reader[r].at # "idle"
  /\ interrupted' = interrupted \cup {reader[r].letter : r \in {q \in Readers : reader[q].at # "idle"}}
  /\ reader' = [r \in Readers |-> IdleReader]
  /\ UNCHANGED <<readState, seenStatus, folder, flagged, settledSeen>>

\* Before and after the change one of the two holds, or neither matters yet.
Noted(m) == IF seenStatus[m] = "none" THEN settledSeen ELSE settledSeen \cup {m}

\* Another client sets or clears the flag.
OthersFlag(m) ==
  /\ flagged' = (flagged \ {m}) \cup ({m} \ flagged)
  /\ settledSeen' = Noted(m)
  /\ UNCHANGED <<readState, seenStatus, folder, reader, interrupted>>

\* Another client moves the letter out of the folder or back.
OthersMove(m) ==
  /\ folder' = (folder \ {m}) \cup ({m} \ folder)
  /\ settledSeen' = Noted(m)
  /\ UNCHANGED <<readState, seenStatus, flagged, reader, interrupted>>

SeenInit ==
  /\ readState = {} /\ seenStatus = [m \in Letters |-> "none"]
  /\ folder \in SUBSET Letters /\ flagged = {}
  /\ reader = [r \in Readers |-> IdleReader]
  /\ settledSeen = {} /\ interrupted = {}

ReaderStep(r) ==
  \/ RecordPending(r) \/ FindLetter(r) \/ PropagationFails(r)
  \/ \E outcome \in {"succeeded", "failed"} : StoreSeen(r, outcome)
  \/ Report(r) \/ StoreRaises(r)

SeenNext ==
  \/ \E r \in Readers : ReaderStep(r) \/ \E m \in Letters : MarkRead(r, m)
  \/ KillReaders
  \/ \E m \in Letters : OthersFlag(m) \/ OthersMove(m)

SeenSpec == SeenInit /\ [][SeenNext]_seenVars

\* A thread goes on: its calls to the server and the store have time limits.
SeenFairness == \A r \in Readers : WF_seenVars(ReaderStep(r))
FairSeenSpec == SeenSpec /\ SeenFairness

-----------------------------------------------------------------------------
(* Properties.                                                             *)

SeenTypeOK ==
  /\ readState \subseteq Letters
  /\ seenStatus \in [Letters -> {"none", "pending", "succeeded", "failed"}]
  /\ folder \subseteq Letters /\ flagged \subseteq Letters
  /\ reader \in [Readers -> Reader]
  /\ \A r \in Readers : reader[r].at # "idle" => reader[r].letter \in readState
  /\ settledSeen \subseteq Letters /\ interrupted \subseteq Letters

\* A propagation that is recorded as succeeded has reached the server: since
\* its first propagation the letter was flagged there, or had left its folder,
\* however threads for one letter overlap.
SucceededIsSeen ==
  \A m \in Letters : seenStatus[m] = "succeeded" => m \in settledSeen

\* A propagation stays pending only while a thread is at work on it, unless a
\* thread was killed or the store failed one.
PendingHasThread ==
  \A m \in Letters : seenStatus[m] = "pending" /\ m \notin interrupted =>
    \E r \in Readers :
      reader[r].letter = m /\ reader[r].at \in {"connecting", "storing", "reporting"}

\* A pending propagation is settled in the end, or a thread was interrupted.
PropagationSettles ==
  \A m \in Letters :
    (seenStatus[m] = "pending") ~> (seenStatus[m] # "pending" \/ m \in interrupted)
=============================================================================
