---------------------------- MODULE MailSnapshot ----------------------------
(***************************************************************************)
(* The mail snapshot of the mail assistant: MailAssistantService           *)
(* (services.py), its row in the SQLite store (store.py), and the          *)
(* background refresh and the suppression of messages the server no longer *)
(* has (web_app.py).                                                       *)
(*                                                                         *)
(* Two threads of control share the snapshot: the event loop, which runs   *)
(* one handler at a time, and the daemon thread that a refresh reads the   *)
(* mail in.  The process may be killed at any point; the store survives.   *)
(*                                                                         *)
(* Abstractions: a message is its Message-ID; a window is the number of    *)
(* days it spans; what a page shows of the snapshot is left out.  The      *)
(* local mail is external: Thunderbird's own synchronization adds and      *)
(* drops rows, and a row in a configured Trash folder counts as dropped.   *)
(***************************************************************************)
EXTENDS Naturals

CONSTANTS
  Messages,
  Windows,        \* the windows pages ask for, in days
  DefaultWindow,  \* the window of the refresh a start begins with
  AgeOf,          \* the age of a message in days
  Batches,        \* the sets of messages a handler removes or suppresses
  Volatile,       \* the messages whose local row comes and goes
  Unbounded,      \* the coverage of a snapshot without max_age_days
  NoWindow, NoSnapshot

ASSUME WindowsAssumption ==
  Windows \subseteq Nat \ {0} /\ DefaultWindow \in Windows /\ NoWindow \notin Nat
ASSUME AgesAssumption == AgeOf \in [Messages -> Nat]
ASSUME BatchesAssumption == Batches \subseteq (SUBSET Messages) \ {{}} /\ Volatile \subseteq Messages
ASSUME CoverageAssumption == Unbounded \notin Nat

VARIABLES
  local,      \* the messages whose rows the mail reader finds outside Trash
  up,         \* the process is running
  snap,       \* _state of the service
  hidden,     \* server_missing_ids
  task,       \* the background refresh: its coroutine and its thread
  requested,  \* refresh_requested_days
  error,      \* refresh_error is set
  loop,       \* what the handler on the event loop is in the middle of
  disk,       \* the row of mail_snapshot_cache
  missing,    \* the table server_missing
  late,       \* history: suppressed after the refresh in progress loaded them
  stale,      \* history: suppressed messages that are nevertheless shown
  overlapped  \* history: snapshot and row were written in overlapping steps

memory == <<snap, hidden, task, requested, error, loop>>
history == <<late, stale, overlapped>>
snapVars == <<local, up, memory, disk, missing, history>>

-----------------------------------------------------------------------------
(* Records.                                                                *)

Coverage == Windows \cup {0, Unbounded}
Snapshot == [messages : SUBSET Messages, days : Coverage]

ASSUME SnapshotAssumption == NoSnapshot \notin Snapshot

\* SnapshotState((), 0, None): nothing read yet.
EmptySnapshot == [messages |-> {}, days |-> Unbounded]

Running == {"reading", "publishing", "finished", "failed"}
IdleTask == [at |-> "idle", days |-> NoWindow, todo |-> {}, loaded |-> {}]
Task ==
  [at : Running \cup {"idle"}, days : Windows \cup {NoWindow},
   todo : SUBSET Messages, loaded : SUBSET Messages]

FreeLoop ==
  [at |-> "free", todo |-> {}, ids |-> {}, days |-> NoWindow, remaining |-> NoSnapshot]
Loop ==
  [at : {"free", "suppressing", "removing", "saving"},
   todo : SUBSET Messages, ids : SUBSET Messages, days : Windows \cup {NoWindow},
   remaining : Snapshot \cup {NoSnapshot}]

Handler(place, S, T, d) ==
  [at |-> place, todo |-> T, ids |-> S, days |-> d, remaining |-> NoSnapshot]

\* _snapshot_covers_window: a snapshot without a window covers everything.
Covers(days, window) == days = Unbounded \/ days >= window

LoopFree == up /\ loop = FreeLoop

-----------------------------------------------------------------------------
(* Starting and queueing refreshes.                                        *)

StartTask(d) ==
  /\ task' = [at |-> "reading", days |-> d, todo |-> Messages, loaded |-> {}]
  /\ error' = FALSE
  /\ late' = {}

\* start_background_refresh: at most one refresh runs; the widest window
\* asked for meanwhile is queued.
StartOrQueue(d) ==
  IF task.at = "idle"
    THEN StartTask(d) /\ requested' = NoWindow
    ELSE /\ requested' = IF requested = NoWindow \/ d > requested THEN d ELSE requested
         /\ UNCHANGED <<task, error, late>>

\* A page is shown for a window the snapshot does not cover.
AskWindow(d) ==
  /\ LoopFree
  /\ ~Covers(snap.days, d)
  /\ StartOrQueue(d)
  /\ UNCHANGED <<local, up, snap, hidden, loop, disk, missing, stale, overlapped>>

\* The user asks for a refresh.
AskRefresh(d) ==
  /\ LoopFree
  /\ StartOrQueue(d)
  /\ UNCHANGED <<local, up, snap, hidden, loop, disk, missing, stale, overlapped>>

-----------------------------------------------------------------------------
(* The refresh: its thread reads the mail row by row, stores the snapshot  *)
(* and only then publishes it in memory.                                   *)

\* The rows a refresh keeps: in its window and passed by include_message.
Included(m, d) == m \in local /\ AgeOf[m] <= d /\ m \notin hidden

ReadRow ==
  /\ task.at = "reading"
  /\ \E m \in task.todo :
       task' = [task EXCEPT !.todo = @ \ {m},
                            !.loaded = IF Included(m, task.days) THEN @ \cup {m} ELSE @]
  /\ UNCHANGED <<local, up, snap, hidden, requested, error, loop, disk, missing, history>>

\* Reading the mail, or storing the snapshot, raises.
RefreshFails ==
  /\ task.at = "reading"
  /\ task' = [task EXCEPT !.at = "failed", !.todo = {}, !.loaded = {}]
  /\ late' = {}
  /\ UNCHANGED <<local, up, snap, hidden, requested, error, loop, disk, missing,
                 stale, overlapped>>

StoreRefresh ==
  /\ task.at = "reading" /\ task.todo = {}
  /\ disk' = [messages |-> task.loaded, days |-> task.days]
  /\ task' = [task EXCEPT !.at = "publishing"]
  /\ overlapped' = (loop.at = "saving")
  /\ UNCHANGED <<local, up, snap, hidden, requested, error, loop, missing, late, stale>>

PublishRefresh ==
  /\ task.at = "publishing"
  /\ snap' = [messages |-> task.loaded, days |-> task.days]
  /\ task' = [task EXCEPT !.at = "finished", !.loaded = {}]
  /\ stale' = late
  /\ late' = {}
  /\ overlapped' = (overlapped \/ loop.at = "saving")
  /\ UNCHANGED <<local, up, hidden, requested, error, loop, disk, missing>>

\* The coroutine sees its thread raise: it keeps what is queued.
ResumeFailed ==
  /\ task.at = "failed" /\ LoopFree
  /\ error' = TRUE
  /\ task' = IdleTask
  /\ UNCHANGED <<local, up, snap, hidden, requested, loop, disk, missing, history>>

\* Mutant: the queue is cleared whatever the snapshot covers.
ResumeForgetful ==
  /\ task.at = "finished" /\ LoopFree
  /\ requested' = NoWindow
  /\ task' = IdleTask
  /\ UNCHANGED <<local, up, snap, hidden, error, loop, disk, missing, history>>

\* The coroutine sees its thread finish: a queued window that the snapshot
\* covers is dropped, another one is refreshed next.
ResumeFinished ==
  /\ task.at = "finished" /\ LoopFree
  /\ requested' = NoWindow
  /\ IF requested = NoWindow \/ Covers(snap.days, requested)
       THEN task' = IdleTask /\ UNCHANGED <<error, late>>
       ELSE StartTask(requested)
  /\ UNCHANGED <<local, up, snap, hidden, loop, disk, missing, stale, overlapped>>

-----------------------------------------------------------------------------
(* Removing messages from the snapshot.                                    *)

\* suppress_server_missing is called for what a proposal skipped; the page's
\* window is refreshed afterwards.
Suppress(S, d) ==
  /\ LoopFree
  /\ loop' = Handler("suppressing", S, S, d)
  /\ UNCHANGED <<local, up, snap, hidden, task, requested, error, disk, missing, history>>

\* One message is recorded as missing on the server and hidden from reads.
RecordMissing(m) ==
  /\ loop.at = "suppressing" /\ m \in loop.todo
  /\ missing' = missing \cup {m}
  /\ hidden' = hidden \cup {m}
  /\ late' = IF m \in task.loaded THEN late \cup {m} ELSE late
  /\ loop' = [loop EXCEPT !.todo = @ \ {m}]
  /\ UNCHANGED <<local, up, snap, task, requested, error, disk, stale, overlapped>>

\* The store raises: the handler fails, what it recorded stays recorded and
\* nothing is removed from the snapshot.
RecordFails ==
  /\ loop.at = "suppressing" /\ loop.todo # {}
  /\ stale' = stale \cup ((loop.ids \ loop.todo) \cap snap.messages)
  /\ loop' = FreeLoop
  /\ UNCHANGED <<local, up, snap, hidden, task, requested, error, disk, missing,
                 late, overlapped>>

\* remove_messages is called for the messages a commit has moved.
Remove(S) ==
  /\ LoopFree
  /\ loop' = Handler("removing", S, {}, NoWindow)
  /\ UNCHANGED <<local, up, snap, hidden, task, requested, error, disk, missing, history>>

ReadyToRemove == loop.at \in {"suppressing", "removing"} /\ loop.todo = {}

Remaining == [snap EXCEPT !.messages = @ \ loop.ids]

\* Under the service's lock the snapshot is replaced by what remains of it.
RemoveRows ==
  /\ ReadyToRemove
  /\ snap.messages \cap loop.ids # {}
  /\ snap' = Remaining
  /\ loop' = [loop EXCEPT !.at = "saving", !.remaining = Remaining]
  /\ stale' = stale \ loop.ids
  /\ overlapped' = (overlapped \/ task.at = "publishing")
  /\ UNCHANGED <<local, up, hidden, task, requested, error, disk, missing, late>>

\* What follows a removal: the refresh a suppression ends with.
AfterRemoval ==
  IF loop.days = NoWindow THEN UNCHANGED <<task, requested, error, late>>
                          ELSE StartOrQueue(loop.days)

\* None of the messages is in the snapshot: remove_messages raises KeyError,
\* which a suppression swallows and a commit does not.
RemoveNothing ==
  /\ ReadyToRemove
  /\ snap.messages \cap loop.ids = {}
  /\ loop' = FreeLoop
  /\ AfterRemoval
  /\ UNCHANGED <<local, up, snap, hidden, disk, missing, stale, overlapped>>

\* Mutant: what remains is not stored.
SaveNothing ==
  /\ loop.at = "saving"
  /\ loop' = FreeLoop
  /\ AfterRemoval
  /\ UNCHANGED <<local, up, snap, hidden, disk, missing, stale, overlapped>>

\* Outside the lock, what remained is stored, whatever was published since.
SaveRemaining ==
  /\ loop.at = "saving"
  /\ disk' = loop.remaining
  /\ loop' = FreeLoop
  /\ AfterRemoval
  /\ overlapped' = (overlapped \/ task.at = "publishing")
  /\ UNCHANGED <<local, up, snap, hidden, missing, stale>>

\* The store raises: the handler fails, the snapshot stays reduced.
SaveFails ==
  /\ loop.at = "saving"
  /\ loop' = FreeLoop
  /\ overlapped' = TRUE
  /\ UNCHANGED <<local, up, snap, hidden, task, requested, error, disk, missing,
                 late, stale>>

-----------------------------------------------------------------------------
(* The process and its surroundings.                                       *)

\* Thunderbird's mail files gain or lose a row.
MailChanges(m) ==
  /\ local' = (local \ {m}) \cup ({m} \ local)
  /\ UNCHANGED <<up, memory, disk, missing, history>>

\* The process ends or is killed, and the refresh thread with it.
Stop ==
  /\ up
  /\ up' = FALSE
  /\ snap' = EmptySnapshot /\ hidden' = {}
  /\ task' = IdleTask /\ requested' = NoWindow /\ error' = FALSE
  /\ loop' = FreeLoop
  /\ late' = {} /\ stale' = {} /\ overlapped' = FALSE
  /\ UNCHANGED <<local, disk, missing>>

\* Mutant: the cached rows are shown as they were stored.
CachedUnfiltered(ids) ==
  IF disk = NoSnapshot THEN EmptySnapshot ELSE disk

\* load_cached: the row, if there is one, passed through include_message.
Cached(ids) ==
  IF disk = NoSnapshot THEN EmptySnapshot ELSE [disk EXCEPT !.messages = @ \ ids]

\* The application starts: the suppressed messages and the cached snapshot
\* are loaded and the default window is refreshed.
Start ==
  /\ ~up
  /\ up' = TRUE
  /\ hidden' = missing
  /\ snap' = Cached(missing)
  /\ StartTask(DefaultWindow)
  /\ UNCHANGED <<local, requested, loop, disk, missing, stale, overlapped>>

\* A database may hold nothing, or a row of a version that kept no coverage.
LegacyRows == [messages : Batches, days : {0}]

SnapInit ==
  /\ local \in {L \in SUBSET Messages : Messages \ Volatile \subseteq L}
  /\ up = FALSE
  /\ snap = EmptySnapshot /\ hidden = {}
  /\ task = IdleTask /\ requested = NoWindow /\ error = FALSE
  /\ loop = FreeLoop
  /\ disk \in {NoSnapshot} \cup LegacyRows
  /\ missing = {}
  /\ late = {} /\ stale = {} /\ overlapped = FALSE

\* What the refresh and a handler that has begun do by themselves.
RefreshStep ==
  ReadRow \/ RefreshFails \/ StoreRefresh \/ PublishRefresh \/ ResumeFailed \/ ResumeFinished
LoopStep ==
  \/ \E m \in Messages : RecordMissing(m)
  \/ RecordFails \/ RemoveRows \/ RemoveNothing \/ SaveRemaining \/ SaveFails

SnapNext ==
  \/ \E d \in Windows : AskWindow(d) \/ AskRefresh(d)
  \/ RefreshStep
  \/ \E S \in Batches : Remove(S) \/ (\E d \in Windows : Suppress(S, d))
  \/ LoopStep
  \/ \E m \in Volatile : MailChanges(m)
  \/ Stop \/ Start

SnapSpec == SnapInit /\ [][SnapNext]_snapVars

\* The refresh thread runs, and the event loop goes on with a handler it has
\* begun and resumes the coroutine when its thread is done.
SnapFairness ==
  /\ WF_snapVars(LoopStep) /\ WF_snapVars(ReadRow \/ RefreshFails)
  /\ WF_snapVars(StoreRefresh) /\ WF_snapVars(PublishRefresh)
  /\ SF_snapVars(ResumeFailed) /\ SF_snapVars(ResumeFinished)
FairSnapSpec == SnapSpec /\ SnapFairness

-----------------------------------------------------------------------------
(* Properties.                                                             *)

SnapTypeOK ==
  /\ local \subseteq Messages
  /\ up \in BOOLEAN
  /\ snap \in Snapshot
  /\ hidden \subseteq Messages
  /\ task \in Task
  /\ requested \in Windows \cup {NoWindow}
  /\ error \in BOOLEAN
  /\ loop \in Loop
  /\ disk \in Snapshot \cup {NoSnapshot}
  /\ missing \subseteq Messages
  /\ late \subseteq Messages
  /\ stale \subseteq Messages
  /\ overlapped \in BOOLEAN

\* A message recorded as missing on the server is shown only while the
\* handler that recorded it has not removed it yet, or when a refresh had
\* read it before it was recorded (or the recording itself failed half way):
\* no later refresh and no restart brings it back.
SuppressedHidden ==
  /\ up => hidden = missing
  /\ snap.messages \cap hidden \subseteq
       stale \cup (IF loop.at = "suppressing" THEN loop.ids ELSE {})

\* The row in the store is the snapshot in memory, but for what is hidden,
\* whenever neither is being written and no refresh overlapped a removal or
\* lost its save since the last refresh: a restart shows what was shown.
MemoryMatchesStore ==
  up /\ ~overlapped /\ task.at # "publishing" /\ loop.at # "saving" =>
    IF disk = NoSnapshot THEN snap = EmptySnapshot
    ELSE /\ snap.days = disk.days
         /\ snap.messages \ hidden = disk.messages \ hidden

\* Window d, or a wider one, is being refreshed or queued behind a refresh.
Awaited(d) ==
  \/ task.at # "idle" /\ requested # NoWindow /\ requested >= d
  \/ task.at = "reading" /\ task.days >= d

\* Whatever window is being refreshed or queued is covered in the end, or the
\* failure of a refresh is shown, however requests, removals and refreshes
\* interleave, unless the process stops.
WindowServed ==
  \A d \in Windows :
    Awaited(d) ~> (Covers(snap.days, d) \/ error \/ ~up)
=============================================================================
