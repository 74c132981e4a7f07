---------------------------- MODULE ProjectMemory ----------------------------
(***************************************************************************)
(* The episodes of one engram project (engram/project_memory.py): the      *)
(* JSONL file, the vector index beside it, the writer lock, and the        *)
(* processes that open the project, store, replace, supersede and delete   *)
(* episodes, and close it or are killed.                                   *)
(*                                                                         *)
(* A ProjectMemory reads the file when it is made, mends it if a row of it *)
(* cannot be converted, then waits for the writer lock; from then on it    *)
(* works from what it read.  New episodes are appended; every other change *)
(* truncates the file and writes it anew.  Both take several writes, and a *)
(* process may be killed between any two.                                  *)
(*                                                                         *)
(* Texts, scores, metadata other than topic and temporal status, session   *)
(* files, the semantic graph and the extension layers are left out.        *)
(* Writers at work at the same time leave any mixture of their rows, where *)
(* two versions of one row count as one.                                   *)
(***************************************************************************)
EXTENDS Integers, FiniteSets

CONSTANTS
  Procs, Topics, NoTopic,
  MaxEpisodes   \* bound: how many episodes are ever stored

ASSUME TopicsAssumption == NoTopic \notin Topics
ASSUME BoundsAssumption == MaxEpisodes \in Nat

VARIABLES
  disk,     \* episodes.jsonl
  mixed,    \* the writers who are not alone in the file they have truncated
  index,    \* the ids in the vector index
  pc,       \* where each process is
  mem,      \* each process' _episodes
  indexed,  \* whether a process has the vector index open
  job,      \* the operation a process is in
  made,     \* how many episodes have been stored: the age of the youngest
  acked,    \* history: ids stored, and not replaced or removed since
  spoiled,  \* history: ids lost in a line they share with another row
  replaced, \* history: ids a stored value of their topic has replaced
  gone,     \* history: ids whose removal has returned
  since,    \* history: how many were stored when a process got the lock
  hurt      \* history: what has happened that excuses a loss

file == <<disk, mixed>>
records == <<acked, spoiled, replaced, gone, since>>
vars == <<file, index, pc, mem, indexed, job, made, records, hurt>>

\* A process was killed while it rewrote the file, or while it appended to
\* it; an operation on the vector index failed; two processes had the project
\* open, or were opening it; a process without the lock wrote beside its holder.
Hurts == {"damage", "torn", "failure", "overlap", "intrusion"}

\* The id of an episode is its age: the file holds its rows in this order.
Ages == 1..MaxEpisodes
Episode == [id : Ages, topic : Topics \cup {NoTopic}, active : BOOLEAN]
Ids(rows) == {r.id : r \in rows}

\* A file has the rows that can be read from it.  It may end without a
\* newline (torn), behind a whole row (last) or inside one; it may hold a
\* broken character, and a row that parses but cannot be converted.
Jsonl ==
  [rows : SUBSET Episode, torn : BOOLEAN, last : SUBSET Episode,
   readable : BOOLEAN, malformed : BOOLEAN]
File(rows) ==
  [rows |-> rows, torn |-> FALSE, last |-> {}, readable |-> TRUE, malformed |-> FALSE]
Torn(rows, last, readable) ==
  [rows |-> rows, torn |-> TRUE, last |-> last, readable |-> readable, malformed |-> FALSE]

Places ==
  {"off", "malformed", "mending", "waiting", "open", "rewriting", "append", "index",
   "unindex", "rebuild", "drop"}
Idle == [next |-> "open", topic |-> NoTopic, out |-> {}]

Closed(p) == pc[p] \in {"off", "malformed", "mending", "waiting"}
Locked == \E p \in Procs : ~Closed(p)

\* Who has truncated the file and not yet written it.
Writers == {p \in Procs : pc[p] \in {"rewriting", "mending"}}

\* The file may have been edited by hand, or written by another version.
Init ==
  /\ disk \in {[File({}) EXCEPT !.malformed = m] : m \in BOOLEAN} /\ mixed = {}
  /\ index = {}
  /\ pc = [p \in Procs |-> "off"] /\ mem = [p \in Procs |-> {}]
  /\ indexed = [p \in Procs |-> FALSE] /\ job = [p \in Procs |-> Idle]
  /\ made = 0 /\ acked = {} /\ spoiled = {} /\ replaced = {} /\ gone = {}
  /\ since = [p \in Procs |-> 0] /\ hurt = {}

-----------------------------------------------------------------------------
(* Opening and closing.                                                    *)

\* p changes the file; whoever else is writing is not alone any more.
Changes(p, f) == disk' = f /\ mixed' = Writers \ {p}

\* A process without the lock writes beside the one that has it.
Intruding(p) == IF Closed(p) /\ Locked THEN {"intrusion"} ELSE {}

\* What p has written up to some point: the rows up to an age, and perhaps a
\* part of the next, or whatever mixture several writers can make; who has no
\* rows writes nothing.
Mixtures(p) ==
  LET sets == {S \in SUBSET (mem[p] \cup disk.rows) : \A r, s \in S : r.id = s.id => r = s}
      ends(S) == {Torn(S, last, ok) : last \in {{}} \cup {{r} : r \in S}, ok \in BOOLEAN}
  IN  IF mem[p] = {} THEN {disk}
      ELSE UNION {{File(S), [File(S) EXCEPT !.readable = FALSE]} \cup ends(S) : S \in sets}
Prefixes(p) ==
  LET upto(age) == {r \in mem[p] : r.id <= age}
      row(age) == {r \in mem[p] : r.id = age}
  IN  UNION {{File(upto(age)), Torn(upto(age), row(age), TRUE), Torn(upto(age), {}, TRUE),
              Torn(upto(age), {}, FALSE)} : age \in Ages \cup {0}}
Partial(p) == IF p \in mixed THEN Mixtures(p) ELSE Prefixes(p)
Complete(p) == IF p \in mixed THEN Mixtures(p) ELSE {File(mem[p])}

\* What can be read: of a file that is being written, what is there so far.
Visible ==
  IF Writers = {} THEN {disk.rows} ELSE {f.rows : f \in UNION {Partial(q) : q \in Writers}}

\* The constructor reads the episodes before it asks for the writer lock;
\* lines it cannot parse are skipped.
LoadEpisodes(p) ==
  /\ pc[p] = "off" /\ disk.readable
  /\ \E rows \in Visible : mem' = [mem EXCEPT ![p] = rows]
  /\ pc' = [pc EXCEPT ![p] = IF disk.malformed THEN "malformed" ELSE "waiting"]
  /\ hurt' = IF \A q \in Procs : pc[q] = "off" THEN hurt ELSE hurt \cup {"overlap"}
  /\ UNCHANGED <<file, index, indexed, job, made, records>>

\* A broken character in the file is an exception of the constructor.
LoadFails(p) ==
  /\ pc[p] = "off"
  /\ ~disk.readable \/ \E q \in Procs : pc[q] \in {"rewriting", "mending", "append"}
  /\ UNCHANGED vars

\* A row that cannot be converted is skipped and the rows read are written
\* back, still without the lock.
MendStarts(p) ==
  /\ pc[p] = "malformed"
  /\ Changes(p, File({}))
  /\ pc' = [pc EXCEPT ![p] = "mending"]
  /\ hurt' = hurt \cup Intruding(p)
  /\ UNCHANGED <<index, mem, indexed, job, made, records>>

MendEnds(p) ==
  /\ pc[p] = "mending"
  /\ \E f \in Complete(p) : Changes(p, f)
  /\ pc' = [pc EXCEPT ![p] = "waiting"]
  /\ hurt' = hurt \cup Intruding(p)
  /\ UNCHANGED <<index, mem, indexed, job, made, records>>

\* Mutant: the PID in the lock file is taken for stale.
AcquireStale(p) ==
  /\ pc[p] = "waiting"
  /\ pc' = [pc EXCEPT ![p] = "open"]
  /\ indexed' = [indexed EXCEPT ![p] = TRUE]
  /\ since' = [since EXCEPT ![p] = made]
  /\ UNCHANGED <<file, index, mem, job, made, acked, spoiled, replaced, gone, hurt>>

\* The kernel lock is free; the vector index may fail to open.
Acquire(p) ==
  /\ pc[p] = "waiting" /\ ~Locked
  /\ pc' = [pc EXCEPT ![p] = "open"]
  /\ \E opened \in BOOLEAN :
       /\ indexed' = [indexed EXCEPT ![p] = opened]
       /\ hurt' = IF opened THEN hurt ELSE hurt \cup {"failure"}
  /\ since' = [since EXCEPT ![p] = made]
  /\ UNCHANGED <<file, index, mem, job, made, acked, spoiled, replaced, gone>>

\* The process has nothing of the project in memory any more.
Forgets(p) ==
  /\ mem' = [mem EXCEPT ![p] = {}]
  /\ indexed' = [indexed EXCEPT ![p] = FALSE]
  /\ job' = [job EXCEPT ![p] = Idle]
  /\ pc' = [pc EXCEPT ![p] = "off"]

AcquireTimesOut(p) ==
  /\ pc[p] = "waiting" /\ Locked
  /\ Forgets(p)
  /\ UNCHANGED <<file, index, made, records, hurt>>

Close(p) ==
  /\ pc[p] = "open"
  /\ Forgets(p)
  /\ UNCHANGED <<file, index, made, records, hurt>>

\* The row p is about to store.
NewRow(p) == [id |-> made + 1, topic |-> job[p].topic, active |-> TRUE]

\* A process can be killed while it writes the file anew ...
CutWrite(p) ==
  /\ p \in Writers
  /\ \E f \in Partial(p) : Changes(p, f)
  /\ hurt' = hurt \cup {"damage"} \cup Intruding(p)
  /\ UNCHANGED <<made, spoiled>>

\* ... or while it appends: a part of the row is in the file, behind a whole
\* one if the file was torn already, or all of it but the newline.
CutAppend(p) ==
  /\ pc[p] = "append"
  /\ \E ok \in BOOLEAN :
       Changes(p, [disk EXCEPT !.rows = @ \ disk.last, !.torn = TRUE, !.last = {},
                               !.readable = @ /\ ok])
  /\ spoiled' = spoiled \cup Ids(disk.last)
  /\ hurt' = hurt \cup {"torn"}
  /\ UNCHANGED made

CutNewline(p) ==
  /\ pc[p] = "append" /\ ~disk.torn
  /\ Changes(p, [disk EXCEPT !.rows = @ \cup {NewRow(p)}, !.torn = TRUE, !.last = {NewRow(p)}])
  /\ made' = made + 1
  /\ hurt' = hurt \cup {"torn"}
  /\ UNCHANGED spoiled

Die(p) ==
  /\ pc[p] # "off"
  /\ Forgets(p)
  /\ \/ CutWrite(p) \/ CutAppend(p) \/ CutNewline(p)
     \/ p \notin Writers /\ UNCHANGED <<file, made, spoiled, hurt>>
  /\ UNCHANGED <<index, acked, replaced, gone, since>>

-----------------------------------------------------------------------------
(* Writing.                                                                *)

\* Mutant: the rows are computed, but _episodes is what is kept and written.
RewriteOld(p, rows, next, topic, out) ==
  /\ mem' = mem
  /\ Changes(p, File({}))
  /\ job' = [job EXCEPT ![p] = [next |-> next, topic |-> topic, out |-> out]]
  /\ pc' = [pc EXCEPT ![p] = "rewriting"]
  /\ acked' = acked \ out

\* _rewrite_jsonl: _episodes becomes rows, the file is truncated; out is
\* removed, and next is what the operation does when the file is written.
Rewrite(p, rows, next, topic, out) ==
  /\ mem' = [mem EXCEPT ![p] = rows]
  /\ Changes(p, File({}))
  /\ job' = [job EXCEPT ![p] = [next |-> next, topic |-> topic, out |-> out]]
  /\ pc' = [pc EXCEPT ![p] = "rewriting"]
  /\ acked' = acked \ out

RewriteEnds(p) ==
  /\ pc[p] = "rewriting"
  /\ \E f \in Complete(p) : Changes(p, f)
  /\ pc' = [pc EXCEPT ![p] = job[p].next]
  /\ spoiled' = spoiled \ Ids(mem[p])
  /\ UNCHANGED <<index, mem, indexed, job, made, acked, replaced, gone, since, hurt>>

OfTopic(p, t) == {r \in mem[p] : r.topic = t /\ t # NoTopic}

\* store_episode: the earlier values of the topic are dropped and the file
\* is rewritten; then a text like one of those left is not stored.
Store(p) ==
  /\ pc[p] = "open" /\ made < MaxEpisodes
  /\ \E t \in Topics \cup {NoTopic} :
       LET old == OfTopic(p, t) IN
         IF old = {}
           THEN /\ job' = [job EXCEPT ![p] = [next |-> "append", topic |-> t, out |-> {}]]
                /\ pc' = [pc EXCEPT ![p] = "append"]
                /\ UNCHANGED <<file, mem, acked>>
           ELSE \E next \in {"append"} \cup (IF mem[p] = old THEN {} ELSE {"open"}) :
                  Rewrite(p, mem[p] \ old, next, t, Ids(old))
  /\ UNCHANGED <<index, indexed, made, spoiled, replaced, gone, since, hurt>>

\* Mutants: an update leaves its predecessors active; it drops them.
SupersedingNothing(p, t) == mem[p]
SupersedingAll(p, t) == mem[p] \ OfTopic(p, t)

Superseding(p, t) ==
  (mem[p] \ OfTopic(p, t)) \cup {[r EXCEPT !.active = FALSE] : r \in OfTopic(p, t)}

\* store_temporal_episode: the topic's active value is marked superseded.
StoreTemporal(p) ==
  /\ pc[p] = "open" /\ made < MaxEpisodes
  /\ \E t \in Topics :
       IF \E r \in OfTopic(p, t) : r.active
         THEN Rewrite(p, Superseding(p, t), "append", t, {})
         ELSE /\ job' = [job EXCEPT ![p] = [next |-> "append", topic |-> t, out |-> {}]]
              /\ pc' = [pc EXCEPT ![p] = "append"]
              /\ UNCHANGED <<file, mem, acked>>
  /\ UNCHANGED <<index, indexed, made, spoiled, replaced, gone, since, hurt>>

\* _append_jsonl: behind the end of a torn file the row shares a line with
\* what is there, and nobody can parse that line.
AppendRow(p) ==
  /\ pc[p] = "append"
  /\ mem' = [mem EXCEPT ![p] = @ \cup {NewRow(p)}]
  /\ IF disk.torn
       THEN /\ Changes(p, [disk EXCEPT !.rows = @ \ disk.last, !.torn = FALSE, !.last = {}])
            /\ spoiled' = spoiled \cup Ids(disk.last) \cup {made + 1}
       ELSE /\ Changes(p, [disk EXCEPT !.rows = @ \cup {NewRow(p)}])
            /\ UNCHANGED spoiled
  /\ acked' = acked \cup {made + 1}
  /\ made' = made + 1
  /\ pc' = [pc EXCEPT ![p] = "index"]
  /\ UNCHANGED <<index, indexed, job, replaced, gone, since, hurt>>

\* An operation on the vector index, if there is one; a failure is logged.
Indexes(p, result, failures) ==
  \/ ~indexed[p] /\ UNCHANGED <<index, hurt>>
  \/ indexed[p] /\ index' = result /\ UNCHANGED hurt
  \/ indexed[p] /\ index' \in failures /\ hurt' = hurt \cup {"failure"}

\* The episode is indexed, and a layer may adjust its importance, which
\* rewrites the file.
Index(p) ==
  /\ pc[p] = "index"
  /\ Indexes(p, index \cup {made}, {index})
  /\ replaced' = replaced \cup job[p].out
  /\ \/ /\ job' = [job EXCEPT ![p] = Idle]
        /\ pc' = [pc EXCEPT ![p] = "open"]
        /\ UNCHANGED <<file, mem, acked>>
     \/ Rewrite(p, mem[p], "open", NoTopic, {})
  /\ UNCHANGED <<indexed, made, spoiled, gone, since>>

\* review_episode_trust: metadata no property tells apart is rewritten.
Review(p) ==
  /\ pc[p] = "open" /\ mem[p] # {}
  /\ Rewrite(p, mem[p], "open", NoTopic, {})
  /\ UNCHANGED <<index, indexed, made, spoiled, replaced, gone, since, hurt>>

-----------------------------------------------------------------------------
(* Removing.                                                               *)

DeleteEpisode(p) ==
  /\ pc[p] = "open"
  /\ \E r \in mem[p] : Rewrite(p, mem[p] \ {r}, "unindex", NoTopic, {r.id})
  /\ UNCHANGED <<index, indexed, made, spoiled, replaced, gone, since, hurt>>

\* The episodes of a session are some of the episodes.
ForgetSession(p) ==
  /\ pc[p] = "open"
  /\ \E S \in (SUBSET mem[p]) \ {{}} : Rewrite(p, mem[p] \ S, "rebuild", NoTopic, Ids(S))
  /\ UNCHANGED <<index, indexed, made, spoiled, replaced, gone, since, hurt>>

\* forget_user_data unlinks the file.
ForgetUserData(p) ==
  /\ pc[p] = "open"
  /\ Changes(p, File({}))
  /\ mem' = [mem EXCEPT ![p] = {}]
  /\ job' = [job EXCEPT ![p] = [next |-> "drop", topic |-> NoTopic, out |-> Ids(mem[p])]]
  /\ pc' = [pc EXCEPT ![p] = "drop"]
  /\ acked' = acked \ Ids(mem[p])
  /\ UNCHANGED <<index, indexed, made, spoiled, replaced, gone, since, hurt>>

Removed(p) ==
  /\ gone' = gone \cup job[p].out
  /\ job' = [job EXCEPT ![p] = Idle]
  /\ pc' = [pc EXCEPT ![p] = "open"]

\* Mutant: the episode stays in the vector index.
UnindexNothing(p) ==
  /\ pc[p] = "unindex"
  /\ Removed(p)
  /\ UNCHANGED <<file, index, mem, indexed, made, acked, spoiled, replaced, since, hurt>>

Unindex(p) ==
  /\ pc[p] = "unindex"
  /\ Indexes(p, index \ job[p].out, {index})
  /\ Removed(p)
  /\ UNCHANGED <<file, mem, indexed, made, acked, spoiled, replaced, since>>

\* The collection is deleted and filled again.
Rebuild(p) ==
  /\ pc[p] = "rebuild"
  /\ Indexes(p, Ids(mem[p]), {index, {}})
  /\ Removed(p)
  /\ UNCHANGED <<file, mem, indexed, made, acked, spoiled, replaced, since>>

\* Once the collection is deleted this process has no index.
Drop(p) ==
  /\ pc[p] = "drop"
  /\ \/ Indexes(p, {}, {}) /\ indexed' = [indexed EXCEPT ![p] = FALSE]
     \/ indexed[p] /\ UNCHANGED <<index, indexed>> /\ hurt' = hurt \cup {"failure"}
  /\ Removed(p)
  /\ UNCHANGED <<file, mem, made, acked, spoiled, replaced, since>>

\* reconcile_chromadb: every missing id is added, every orphan deleted, each
\* on its own.
Reconcile(p) ==
  /\ pc[p] = "open" /\ indexed[p]
  /\ LET missing == Ids(mem[p]) \ index
         orphaned == index \ Ids(mem[p]) IN
       Indexes(p, Ids(mem[p]), {(index \cup added) \ removed : added \in SUBSET missing,
                                                             removed \in SUBSET orphaned})
  /\ UNCHANGED <<file, pc, mem, indexed, job, made, records>>

Step(p) ==
  \/ LoadEpisodes(p) \/ LoadFails(p) \/ MendStarts(p) \/ MendEnds(p)
  \/ Acquire(p) \/ AcquireTimesOut(p) \/ Close(p) \/ Die(p)
  \/ RewriteEnds(p) \/ Store(p) \/ StoreTemporal(p) \/ AppendRow(p) \/ Index(p) \/ Review(p)
  \/ DeleteEpisode(p) \/ ForgetSession(p) \/ ForgetUserData(p)
  \/ Unindex(p) \/ Rebuild(p) \/ Drop(p) \/ Reconcile(p)

Next == \E p \in Procs : Step(p)

Spec == Init /\ [][Next]_vars

-----------------------------------------------------------------------------
(* Properties.                                                             *)

TypeOK ==
  /\ disk \in Jsonl /\ mixed \in SUBSET Procs
  /\ index \in SUBSET Ages
  /\ pc \in [Procs -> Places]
  /\ mem \in [Procs -> SUBSET Episode]
  /\ indexed \in [Procs -> BOOLEAN]
  /\ job \in [Procs -> [next : Places, topic : Topics \cup {NoTopic}, out : SUBSET Ages]]
  /\ made \in 0..MaxEpisodes
  /\ acked \in SUBSET Ages /\ spoiled \in SUBSET Ages
  /\ replaced \in SUBSET Ages /\ gone \in SUBSET Ages
  /\ since \in [Procs -> 0..MaxEpisodes]
  /\ hurt \in SUBSET Hurts

\* What a process has stored since it got the lock stays in the file as long
\* as it has the project open; only what it stored first, behind a row an
\* earlier process left unfinished, is missing until the next rewrite.
OwnIsStored ==
  \A p \in Procs : ~Closed(p) /\ pc[p] # "rewriting" =>
    {i \in acked \ spoiled : i > since[p]} \subseteq Ids(disk.rows)

\* This holds however openings overlap and wherever others are killed, as
\* long as nobody mends the file beside the holder.
WriterKeepsOwn == "intrusion" \notin hurt => OwnIsStored

\* As long as the project is not opened while a process has it open, what
\* delete_episode, forget_session or forget_user_data has removed is never
\* again in the file or in a process' memory, though the file may be cut
\* short by kills and be rewritten by later processes.
RemovedStaysRemoved ==
  "overlap" \notin hurt =>
    /\ gone \cap Ids(disk.rows) = {}
    /\ \A p \in Procs : gone \cap Ids(mem[p]) = {}

\* Under the same condition an episode whose store has returned an id is in
\* the file until it is replaced or removed, except while the file is being
\* rewritten and after a process was killed doing that.  A kill during an
\* append costs the episode stored next, and the unfinished one.
StoredIsKept ==
  \/ hurt \cap {"overlap", "damage"} # {}
  \/ Writers # {}
  \/ acked \ spoiled \subseteq Ids(disk.rows)

\* Under the same condition a topic has at most one active value, in the file
\* and in memory, through replacements, updates, kills between marking the
\* old value and appending the new one, and reopening.
OneActive(rows) ==
  \A r, s \in rows : r.topic = s.topic /\ r.topic # NoTopic /\ r.active /\ s.active => r = s

OneActiveValue ==
  "overlap" \notin hurt => OneActive(disk.rows) /\ \A p \in Procs : OneActive(mem[p])

\* If moreover no operation on the index has failed, what was removed cannot
\* be found by vector search either.
RemovedIsUnindexed == hurt \cap {"overlap", "failure"} = {} => gone \cap index = {}

\* The contents of the project: what its user has in memory, what is in the
\* file when nobody has it open, and what the only process is about to write
\* when it mends the file.
Contents ==
  LET all(P) == UNION {mem[p] : p \in P} IN
    IF Locked THEN all({p \in Procs : ~Closed(p)})
    ELSE IF Writers # {} /\ "overlap" \notin hurt THEN all(Writers)
    ELSE disk.rows

Abstract == INSTANCE EpisodeStore WITH
  Users <- Procs, held <- Contents, users <- {p \in Procs : ~Closed(p)},
  damaged <- hurt \cap {"damage", "torn"} # {}, overlapped <- "overlap" \in hurt

\* However processes interleave and wherever they are killed, the project
\* behaves like a set of episodes with one user, whose operations take effect
\* at once although memory, file and index are changed one after the other:
\* nothing stored is lost unless the file was cut by a kill, and nothing
\* dropped returns unless openings have overlapped.
ImplementsEpisodeStore == Abstract!Spec

\* concurrency.py:77: "Only one ProjectMemory writer per project is allowed":
\* what the writer has stored is not undone by anybody else.
HolderWritesAlone == OwnIsStored

\* forget_session "Remove[s] all turns and auto-ingested episodes for a
\* session" (project_memory.py:2055): what is removed stays out of the file,
\* also when another process was waiting for the writer lock meanwhile.
RemovedStaysOffDisk == gone \cap Ids(disk.rows) = {}

\* docs/temporal_memory.md:82 calls the JSONL file authoritative and (:90) a
\* topic's replacement a removal of the previous episode: if no operation on
\* the index has failed, vector search does not return a replaced episode.
ReplacedIsUnindexed == "failure" \notin hurt => replaced \cap index = {}
=============================================================================
