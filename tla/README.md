# Verification of ai_tools

TLA+ models of the parts of `ai_tools` whose correctness depends on the order in which things happen: the
path-ownership leases and workspaces shared by agent processes, the callers of the leases, the agent run loop with its
state file, loop guard and budgeted navigation, the project memory with its writer lock and vector index, the failover
engine with its circuit breakers, the retrieval library's cached index, and the applications that change somebody
else's state: the mail assistant and the language tutor. Each model is checked by TLC on small instances, and its
safety properties are proved by TLAPS for every value of the constants.

Paths below are relative to `src/`. `PROJECT.json` maps every definition to the lines it models.

## 1. The system

`ai_tools` is a collection of Python libraries with a few applications on top. Most of it is sequential data
processing. The table lists all its parts; the ones with hard behaviour are described after it.

| Component | State it keeps | Operations | Modelled |
|---|---|---|---|
| patch leases (`agent_lib/…/programming_workspace.py`) | `patch_leases.json`, an `flock`ed lock file | `acquire_patch_lease`, `release_patch_lease` | yes |
| workspace preparation (same file) | `workspace_allocations.json`, worktrees and copies | `prepare_workspace` | partly: the command sandbox is out |
| managed coordination (`coordination.py`, `programming.py`) | the frames of running calls, approval policy | the `replace_text` gate, the release tool, `reserve_paths`, `release_paths` | partly: messages, capability routing and external sessions are out |
| agent run (`runtime.py`, `programming_state.py`, `programming.py`) | `AgentRun`, `task.context`, the task's state file | `run`, the hooks `on_start`, `on_step`, `on_finish` of the state tracker and the failure controller | partly: context building, memory records and plan bookkeeping are out |
| trajectory loop guard (`detector.py`, `control.py`) | the verdict of a run | `assess_trajectory`, `after_step` | yes |
| navigation planner (`eval/navigation_planner.py`, `navigation_goals.py`, `navigation_context.py`, `repo_navigation.py`) | the goal ledger, the tokens spent, the steps of a run | `plan`, `finalize`, the loop around them | partly: the checks of claims and arguments and the tools' reading are out |
| failover engine (`llm_engines/…/router.py`) | per-engine failure count and cooldown | `generate`, `embed`, `stream`, `reset_health` | yes |
| project memory (`engram/…/project_memory.py`, `concurrency.py`) | `episodes.jsonl`, the ChromaDB index, the writer lock, `_episodes` | open, store, temporal update, review, delete, forget, reconcile, close | partly: turns, search, the semantic graph and export are out |
| retrieval library (`rag_lib/…/pipeline.py`, `storage/chroma.py`, `retrieval/retriever.py`) | the collection, its marker, the cached BM25 index in a file and in each process | ingest, prune, build, query | partly: loading, embedding, ranking and question answering are out |
| mail trash workflow (`examples/mail_assistant/trash_workflow.py`, `imap_trash.py`, `web_app.py`) | proposal tokens, the worker threads, the IMAP folders | propose, check, pop the token, commit | partly: the other handlers are out |
| mail snapshot (`services.py`, `store.py`, `web_app.py`) | the snapshot in memory and in SQLite, the queue of the background refresh, suppressed messages | refresh, remove, suppress, load, restart | partly: filters and the summary cache are out |
| read propagation (`seen_workflow.py`, `imap_seen.py`) | the ledger of read messages and its progress | mark, propagate | yes |
| reviewed rules (`rules.py`) | `personal_rules.toml`, pending proposals | propose, commit | yes |
| language tutor (`language_tutor_reference_app`) | the registry of sessions, their memories' writer locks | start, use, end, reap | partly: what a session says, drills and statistics are out |
| neural memory coordination | adapter weights | hints for ranking | no: numeric, one thread |
| tool executor (`llm_engines/…/tools.py`) | the transcript of one call | the tool loop | no: a sequential loop bounded by `max_steps` |
| engine backends | clients of engines | adapters over HTTP and local runtimes | no: I/O; `Failover` takes them as engines that answer or fail |
| mail reading, harness contracts, inspection | files they read | parsing, validation, display | no: data without protocol |
| diagnostics agent, teaching examples, evaluation campaigns | results of one run | compose the packages | no: applications |

### How the modelled parts interact

```
 worker process                      coordinator process
 ProgrammingToolRuntime              InMemoryMailbox(manager=...)
   replace_text gate, release tool     reserve_paths, release_paths
            \                         /
             WorkspaceIsolationManager          AgentRuntime.run
             lock file + patch_leases.json        planner, critic -> engines -> FailoverEngine
                                                  tool runtime    -> the gate on the left
                                                  hooks           -> task state file
                                                  memory          -> ProjectMemory (episodes.jsonl, ChromaDB, lock)
```

* Processes that share a workspace meet only in the lease file. A gate asks for the lease and *then* lets the inner
  tool write; the mailbox makes its lease call and *then* looks at the record again, without the lock.
* The hooks of a run talk to the loop through `task.context`, which outlives the run, and through the state file,
  which outlives the process.
* Two processes may open the same engram project. The writer lock orders their writes, not their reads, and not the
  write by which an opening mends a file with a row it cannot convert.
* One `FailoverEngine` is shared by overlapping calls: a stream is a generator its consumer resumes between other
  calls, and nothing keeps the object from being shared by threads.

* The mail assistant runs its handlers on one event loop and its slow work (reading mail, IMAP) in daemon threads that
  outlive the handler's patience. Snapshot, tokens and tables are shared by both; the mail itself is also changed by
  Thunderbird and by other clients, the rules file by the user's editor.
* A tutor session opens the project memory of its language and so holds that memory's writer lock; handlers, a
  websocket and the reaper thread share the registry of sessions.
* Pipelines of several processes share one collection; what tells them that a cached index is old is a marker file.

### What is hard, and what correct means

| Component | Hard behaviour | Correct when |
|---|---|---|
| patch leases | load, decide and save are separate steps; lock timeouts; processes killed anywhere; a save that fails after the decision | every call takes effect at one instant, as on a single table; no update is lost, no lease is stolen, answers are true when given |
| workspace preparation | no lock at all; git and copying fail or are killed half way; directories found as others left them | what is on record is there and complete, and no allocation is lost except in the named interleavings |
| managed coordination | check then act; several lease calls per operation; a second, unlocked look | nobody writes without its lease, nor reports a reservation that is not held, unless it was released in its owner's name |
| agent run | five exits, retries left for a later iteration, exceptions, kills, restarts | retries stay within policy, none is replayed by a later run, outcomes are on disk, every run ends |
| loop guard | warm-up, comparison window, novelty and confirmation meet at their boundaries | a run is stopped late enough and at little cost, a repetition is found, a verdict stands |
| navigation planner | evidence is checked against a moving window; a budget is shared by planning and finalization | answers rest on what was observed, the budget holds |
| project memory | reading and mending before locking, in-place rewriting, appends of several writes, kills, an index that fails independently | what is stored stays, what is removed stays removed, one active value per topic |
| failover engine | shared health changed by overlapping calls, three counters of attempts | priority order, calls that end, breakers opened only by failures in a row |
| retrieval library | marker, data and index are separate files, written in this order by several processes | an index that looks fresh is exact; one version of a document |
| mail trash workflow | commits that outlive their page, lost replies, other clients, tokens that expire | only what was confirmed is moved, once, and the outcomes shown are true |
| mail snapshot | memory and store written in different orders by refresh and removal; a queue of one | memory and store agree, suppressed mail stays hidden, a window asked for is served |
| read propagation | overlapping threads, lost replies, kills | success is true, nothing pends for ever |
| reviewed rules | an editor between check and replacement | no edit is overwritten outside that gap |
| language tutor | sessions looked up and used across awaits, reaped by a thread, freed by garbage collection | a usable session holds its lock, an end is logged once, a language is freed in the end |

The hazards themselves are listed in `PROJECT.json`, each at the line where it bites, with the properties that cover
it or the reason why none does.

## 2. Modules

| Module | What it is |
|---|---|
| `LeaseTable` | Abstract specification: a table of holders on which every call is one step |
| `PatchLeases` | The lock-file protocol, one action per step of a call; implements `LeaseTable` |
| `ManagedCoordination` | EXTENDS `PatchLeases`: gate, release tool and mailbox over the real protocol |
| `AgentRun` | The run loop with its two hooks and the state file |
| `EpisodeStore` | Abstract specification: a project as a set of episodes with one user at a time, changed by single steps |
| `ProjectMemory` | Episodes, writer lock, index, several processes; implements `EpisodeStore` |
| `Failover` | Engines, breakers, overlapping calls |
| `ConfirmedMoves` | Abstract specification: what the trash workflow promises its user, without requests, threads and replies |
| `MailTrash`, `MailSnapshot`, `SeenPropagation`, `RuleTransactions` | The mail assistant, one module per protocol; `MailTrash` implements `ConfirmedMoves` |
| `LexicalCache` | Ingestion and the cached lexical index of several processes |
| `Workspaces` | Preparation of workspaces without a lock |
| `LoopGuard` | The detector as operators on a trajectory, and its hook |
| `NavigationPlanner` | One budgeted navigation run with its goal ledger |
| `TutorSessions` | Sessions, their registry, reaper and writer locks |
| `MC…` | The instances TLC checks; `MCAgentMemory`, `MCParts` and `MCThreads` check several parts in one run |
| `…_proofs` | The theorems; `ManagedCoordination_proofs` EXTENDS `PatchLeases_proofs`; `Mail_proofs`, `Services_proofs` (`LexicalCache`, `Workspaces`, `TutorSessions`) and `Navigation_proofs` (`LoopGuard`, `NavigationPlanner`) hold those of several modules |

Definitions whose comment says *Mutant* are wrong on purpose: each is a plausible bug in the definition below it, is
part of no specification, and shows that a property can fail: with the mutant in place of the definition, TLC finds
the property violated.

### PatchLeases

`leases` is the contents of `patch_leases.json`, `lock` the holder of the `flock`, and `pc`, `call`, `table`,
`answer` are the locals of a call in each process. A call goes `Begin` (normalizing its paths, which drops the
workspace root) → `TryLock` or `LockTimeout` → `Load` or `LoadFails` → `Deny`, or `Stage` (the changed table and the
temporary file) → `Replace` (`os.replace`) or `SaveFails` → `Unlock` → `Return`. `Crash` closes the descriptors and
with them the lock. Data: a record's `thread_id`, `note`, `created_at` and `metadata` are one *scope*; that the
deadline has passed is possible at any failed attempt to lock. A lease file may have been left by an earlier version
without scopes. Paths start normalized: which spellings denote one file is a matter of the file system.

### ManagedCoordination

`frame[p]` is the managed operation a process is in. Every action makes one step of `PatchLeases` or none, so that
waiting for a lease is waiting for the real protocol. The gate's grant (`GateOpens`) and the end of the write
(`WriteEnds`) are different steps; under an approval mode other than `auto` the granted gate only proposes
(`GateCloses`) and keeps the lease, as the code does. `reserve_paths` makes one lease call per path and looks at the
record after each (`ReserveView`); `release_paths` makes one call for all paths and looks at each afterwards
(`ReleaseView`). Several processes may act for one owner: the mailbox does, for its workers. `Relied` says what a
process may count on nevertheless: what it was granted stays leased to its owner until another process releases it in
that owner's name (`GivenUp`).

### AgentRun

`where` follows `run()`: `top` (choice of controller) → `context` → `act` → `record` → `recording` → `apply` → `top`,
with the five exits repetition, stop, final action, guard and step limit going through `finish`. `ctx` is what the
failure controller leaves in `task.context`, `state` the tracker's `ProgrammingTaskState`, `stateFile` what it keeps on
disk. Each save is two steps because `write_text` truncates before it writes. The planner, the critic, tool results and
the loop detector are free, which covers every implementation of them. `Raise` leaves the loop from every place where
the code calls something that may raise; `RunDies` may happen anywhere.

### ProjectMemory

`disk` is `episodes.jsonl`: the rows that can be read from it, whether it ends inside a line (`torn`, with the whole row
that line may be in `last`), whether it can be decoded at all, and whether it has a row that parses but cannot be
converted. `index` is the ids in ChromaDB, `mem[p]` a process' `_episodes`. The order of the code's writes is kept:
read, mend, lock, then per operation change in memory, rewrite or append, index.

* *Opening.* `LoadEpisodes` reads what can be seen, also in the middle of somebody's rewrite. `LoadFails` is the
  exception a broken character raises. When a row cannot be converted, `MendStarts` and `MendEnds` write back what was
  read, before the lock is asked for and beside whoever has it.
* *Rewriting* truncates the file and writes it in several writes: two steps, and a kill in between (`CutWrite`) leaves
  a prefix of the rows, perhaps with a part of the next one, cut inside a character or not. When writers overlap
  (`mixed`), as a mending process and the holder of the lock may, what is left is any mixture of their rows.
* *Appending* a row larger than the buffer is several writes as well. A kill (`CutAppend`, `CutNewline`) leaves a part
  of the row, or all of it but the newline. What is stored next (`AppendRow`) then shares a line with it, which nobody
  can parse: the new row is in memory and not in the file until the next rewrite (`spoiled`).
* *Index.* Every operation on the index may fail and is then only logged.

The histories `acked`, `gone`, `replaced` say what the callers were told; `hurt` records what excuses a loss: *overlap*
(the project was opened while another process had it open or was opening it), *intrusion* (a process without the lock
wrote beside its holder), *damage* (a kill during a rewrite), *torn* (a kill during an append), *failure* (of an index
operation).

`EpisodeStore` is what all this amounts to for whoever has the project open. Its `held` is `Contents`: the memories of
the processes that have the project open, as far as their operations have come; the file when nobody has it; and what
the only process is about to write when it mends it. Its `users` are the processes that have it open, `made` the number
of ids given; `damaged` and `overlapped` say whether `hurt` has that excuse. Storing is up to two of its steps (`Drop`
or `Retire`, then `Put`), since a kill may fall between them; rewriting, closing the file and all that concerns the
index are none. It says what a user may count on after a crash: a rewrite that is killed keeps the oldest episodes
(`CrashRewriting`), an append that is killed costs at most two rows, perhaps only when the project is left the next time
(`CrashAppending`, `Leave`); and that only overlapping openings can ever bring anything back.

### Failover

`failures` and `cooling` are each engine's `_EngineHealth`; a cooldown is a flag that ends at some time
(`CooldownEnds`). `call[c]` holds the engines a call still has, its attempts and its reduced `max_tokens`. An answer
and each kind of error are separate actions. `record_failure` is one step: it makes no call in which another thread
would have to be let in. Error classes that the code treats alike are one value.

### MailTrash

A proposal is a thread that looks for the selected messages, in one pass and, when one is missing, once more one by
one; it stores the rows it found under a token, and the handler shows them. `page` is what the user sees. A commit
takes the token, opens one session per account, and locates and moves each message. The handler waits 120 seconds;
`ProposalTimesOut` and `CommitTimesOut` let the thread go on without it. `Move` succeeds on the server whether or not
the reply arrives, and does nothing when another client has moved the message meanwhile (`Roams`), as `UID MOVE` does.
`Restart` kills threads and tokens; pages in the user's browser remain. The snapshot in which a commit looks up its
messages is any part of the confirmed rows, which covers what `MailSnapshot` does with it. When all moved messages have
left the snapshot by the time a commit ends, the removal raises `KeyError` and the page fails (`EndCommit`).

`ConfirmedMoves` leaves to the user: messages in their folders, rows shown with tokens, tokens that are over, confirmed
ones whose messages are being moved, and what he was told. An expired or spent token is over; the moving commit of a
token is `underway`, and the messages noted in its `gone` are `outside`; the results of an answered commit are what he
was told. A reply that is lost, a login, a timeout of the handler are no steps of it. `Answer` is the page of outcomes,
`Abandon` a page that fails; after either the token moves nothing more.

### MailSnapshot

`snap` is the service's `_state`, `disk` its row in SQLite, `task` the background refresh (its thread and the coroutine
that waits for it), `requested` the one window that can be queued behind it, `loop` the handler the event loop is in
the middle of. A refresh reads row by row, stores, and then publishes; a removal publishes under the lock and stores
after it. `late`, `stale` and `overlapped` are the named exceptions: a message suppressed after the refresh in progress
had read it is shown until the next one, and the two orders of writing leave memory and store different until the next
refresh. Both are stated because nothing in the code promises more; the properties say that nothing *else* goes wrong.

### SeenPropagation

`readState` and `seenStatus` are the tables, `reader` the thread of each request. Requests for one letter may overlap;
each records its own outcome. `interrupted` names letters whose thread was killed or could not record its outcome:
those stay pending until somebody asks again, since no start resumes them.

### RuleTransactions

A content maps match keys to verdicts and may be invalid. `TakeDraft` (pop the token) → `CheckBase` (same digest as the
base of the diff) → `Replace` or `WriteFails`. Editors change the file between any two steps; `raced` marks the one gap
the code leaves, between check and replacement.

### LexicalCache

A chunk is a version of a document. Each mutation marks the collection, then changes it; building an index reads all
chunks, stamps the index and writes it. `LooksFresh` is the code's test: as many chunks as the store, and no mark since
the stamp. `blurred` marks an index during whose building the store was being changed, `doubled` a document two
processes ingested at the same time. As in the code, the old chunks are deleted before the new ones are embedded, so
that a failed embedding leaves the document without any. Not modelled: an index is built from at most 10,000 chunks,
so that with a larger collection it never looks fresh and is rebuilt on every query.

### Workspaces

`tree[o]` is what lies at `workspaces/<owner>`. A preparation makes a worktree (or, where git fails, falls back to a
copy), or takes a directory that is there for whole, loads the table and saves it. `disturbed` names owners whose
directory was left half made, or met half made by another process; `overwritten` a save between another's load and
save. The code takes whatever is there: after a git failure left a copy, a later preparation records it as
`git_worktree` (`programming_workspace.py:317`), which `RecordsTrue` allows, as either is a complete workspace.

### LoopGuard

`Verdict(t)` is `assess_trajectory` as an operator on the whole trajectory: near duplicates (overlapping ranges of one
file), novelty over everything seen before, the trailing window of comparison, warm-up, and two redundant tool actions
in a row. `GuardedStep` appends an event and runs the hook. `AgentRun` leaves the verdict free, which covers this and
every other detector.

### NavigationPlanner

`goals` is the ledger, `steps` what each step brought to light, `spent` the tokens counted. `AskForAction` calls the
engine if prompt and reserve fit; the response is then accepted (`AcceptTool`, `AcceptFinal`) or becomes a step of its
own (`Reject`, which also stands for every malformed response and for what is left out of the model: claims,
arguments, requirements). What a ledger resolves must be among the lines of the visible steps (`EntryObserved`). In
guarded mode the guard may end the run after a tool call with one `Finalize` within what is left of the budget.
`overran` excuses backends that report more tokens than were asked for. `loose` marks an answer whose kind is not
spelled `final` exactly: `_validate_payload` lower-cases the kind, `validate_goal_transition` compares it as it came,
so that `Final` is an answer and may leave goals open; only a backend that does not enforce the schema produces it.
Modelled is the one run a harness is built for: the tokens spent and the stop reason are not reset by `on_start`.
A read past the end of a file brings a path without lines, which satisfies `require_observed_evidence_before_final`.

### TutorSessions

Sessions are numbered as they start; `lock` is the writer lock of each language's memory. Handlers resolve a session,
work in it, wait across awaits (a websocket for as long as it is open), and end it. The reaper takes idle sessions out
of the registry and closes them; `remembered` is what its loop variable refers to. An ended session is popped and not
closed: `Delete` (its memory's `__del__`) frees the lock when nothing refers to it any more. Named exceptions:
`reapedInUse` (a session reaped while a handler had it goes on without the lock), `halfEnded` (an end that failed after
it was logged), `stuck` (a close that raised). A websocket that keeps an ended session keeps its lock until it
disconnects or has been idle for two hours, and the reaper's variable keeps the last session it looked at until it
finds another one: `LanguageFreed` states both.

### MCParts, MCAgentMemory, MCThreads

Components that share no state are checked in one run: the initial state picks a part, whose actions alone are then
enabled, while the others stay in an initial state. The reachable states are those of the parts side by side.
`MCParts` has nine parts and their safety properties, `MCAgentMemory` the run loop and the project memory with theirs,
`MCThreads` the five parts in which threads owe something, with fairness. In `MCManagedCoordination` the parts are
sets of operations on the same leases.

## 3. Runs

| Run | Instance | Result |
|---|---|---|
| `managed` | 3 processes of 2 owners, 2 paths and the root, 2 scopes, in three parts (see below); 0.14 M states | `ImplementsLeaseTable`: the protocol implements the atomic table, answers included; `LockReleased`; `WriterHoldsLease`, `ReservedStillHeld`, `ScopePreserved`; every managed operation ends (`OperationsReturn`) |
| `managed_views` | the rivals' part | **violated**: `ReleasedViewsAgree` |
| `agent_memory` | agent: 2 tools, 1 plan step, 4 steps, 2 runs; memory: 2 processes, 1 topic, 2 episodes; 1.6 M states | `RetriesBudgeted`, `RetryIsFresh`, `RepeatsBounded`, `OutcomePersisted`, `GuardIsFinal`; `ImplementsEpisodeStore`: the project is a set of episodes with one user; `WriterKeepsOwn`, `StoredIsKept`, `RemovedStaysRemoved`, `RemovedIsUnindexed` |
| `agent_durability` | 2 steps | **violated**: `StateDurable` |
| `memory_stale` | as in `agent_memory` | **violated**: `RemovedStaysOffDisk` |
| `memory_writer` | as in `agent_memory` | **violated**: `HolderWritesAlone` |
| `memory_replaced` | as in `agent_memory` | **violated**: `ReplacedIsUnindexed` |
| `failover_oom` | 2 callers, 2 engines, 3 attempts | **violated**: `OomNeverBlamed` |
| `failover_attempts` | the same | **violated**: `AttemptsTotal` |
| `parts` | nine parts, see below; 1.5 M states | failover: `PriorityKept`, `GivesUpExhausted`, `BreakerEarned`; snapshot: `SuppressedHidden`, `MemoryMatchesStore`; trash: `ImplementsConfirmedMoves`, `OutcomesHonest`, `MovedOnce`; rules: `EditsSurvive`; index: `FreshIsExact`, `OneVersion`; workspaces: `RecordsTrue`; guard: `StopJustified`, `RepetitionIsStopped`; navigation: `AnswersSettled`; tutor: `UsableHoldsLock`, `EndLoggedOnce` |
| `threads` | five parts with fairness; 0.2 M states | `RunEnds`, `CallReturns`, `WindowServed`, `PropagationSettles`, `LanguageFreed`, and `SucceededIsSeen` |
| `navigation_ledger` | 2 goals, 2 lines, 4 steps, a window of 2 | **violated**: `HeldLedgerAccepted` |

The type invariants, and `LockExclusive`, `NoLostUpdate`, `NeverStolen`, `AnswerGrounded`, `AttemptsBounded`, `OneActiveValue`,
`OwnTripsRespected`, `ConfirmedOnly`, `DraftWrittenOnce`, `PendingHasThread`, `VerdictStands` and `BudgetHeld`, are proved
for every instance and need no run.

### What the violated runs show

* `managed_views` (`coordination.py:188`): after `release_paths` has given the lock back it looks at each record again.
  If another owner acquires the path in between, the reservation it returns is *released* but carries that owner's
  name, although that owner's lease is active. ADR-018 calls such a contradiction unrepresentable.
* `agent_durability` (`programming_state.py:111`): a process killed while it rewrites the state file leaves a file that
  no later process can read; the README of `agent_lib` promises durable task state.
* `memory_stale` (`project_memory.py:154`): the constructor reads the episodes and then waits for the writer lock. What
  the former writer removes meanwhile is written back by the next rewrite.
* `memory_writer` (`project_memory.py:430`): an opening that finds a row it cannot convert writes the file back from what
  it has read, before it asks for the lock. An episode that the lock's holder stores in between is no longer in the
  file, though `concurrency.py:77` allows only one writer.
* `memory_replaced` (`project_memory.py:1148`): an episode replaced by a newer value of its topic stays in the vector
  index, and vector search returns it without consulting the file.
* `failover_oom` (`router.py:303`): the inline retry after a transient error counts every failure against the engine,
  also running out of memory, which the docstring at `router.py:250` excludes.
* `failover_attempts` (`router.py:297`): the inline retry is made without looking at the attempts, so that a call whose
  last allowed attempt fails transiently asks its engines once more than `max_attempts`, which `router.py:52` calls the
  total over all engines. `AttemptsAreBounded` proves that it is never more than once.
* `navigation_ledger` (`eval/navigation_planner.py:480`): the evidence of the whole ledger is checked against the last
  eight steps of up to 25. Once the step that showed the evidence of a resolved goal has left them, the planner's own
  ledger is refused as citing unobserved evidence when it is returned unchanged, as the prompt asks. Since a resolved
  goal cannot change its status, the run can only go on by resolving it anew on lines still shown.

### Bounds, and why they are enough

* **Leases and managed coordination.** The run has three parts. *table*: two owners on two paths, one always asking for
  both, which gives the races between their calls and tells "all or nothing" from "path by path". *rivals*: two owners
  and every managed operation on one path; `p1` applies patches and `p2` only proposes them, so both ends of the gate
  occur against each other and against both mailbox operations; the second path of a call is the root, which is
  normalized away, and the second scope lets `p2` acquire again under a different one. *proxy*: the tools of a worker
  beside a mailbox that reserves and releases in the worker's name. At most two of the three processes act in a
  behaviour; calls and crashes are not bounded. More processes at a time, and all operations together, are covered by
  the proofs, which hold for any number.
* **Agent run.** `MaxRuns = 2` starts of the task (the second may find what the first left, in the process or on
  disk), `MaxSteps = 4`: long enough for a repetition limit of three, a retry, an escalation and the critic's
  handing back. `edit` is retried once, `check` calls for the critic; both carry the same plan step, so that one's
  failures count against the other's budget. `threads` has three steps, and `check` carries no plan step, so that its
  failures are never counted and only the limits end the run.
* **Memory.** `MaxEpisodes = 2` episodes are stored at all: one to be kept, replaced, superseded or removed, one that
  does it. Once openings have overlapped, one episode is stored if the file is cut by a kill or has a row that cannot
  be converted (`Disordered`), since any mixture of rows is then possible; without overlap there are two whatever
  happens to the file. The two processes are interchangeable (`Interchangeable`; the run has no liveness property). The
  proofs cover every number of processes and episodes, and with it what needs three: a rewrite killed in the middle of
  a row that is not the first, or a third row after two that share a line.
* **Failover.** Two engines, of which one streams; three attempts let a call fail, retry and move on; a breaker that
  opens at two failures can be opened by one call or by two together; 4 tokens can be halved once to the floor of 2.
  In `threads` a breaker opens at one failure and two attempts suffice: a call's progress depends on its own engines,
  attempts and tokens.
* **Mail.** Trash: two messages of two accounts (two logins, one of which may fail), one of them moved by others too;
  two proposals and two commits overlap in every way. Rules: two keys, so that an edit may concern another rule than
  the draft; two drafts. Snapshot: two messages of different age and two windows, so that a window may be covered, not
  covered or queued; one row comes and goes. In `threads` one message suffices, as the queue is about windows. Seen:
  one letter and two threads for it; letters do not meet.
* **Lexical cache.** One document in two versions, two processes: one builds while the other ingests, prunes or dies.
* **Workspaces.** Two owners (one in place), two processes, any number of kills and failures.
* **Loop guard.** Two overlapping reads of one file and a search; evidence that grows; warm-up 1, window 2, novelty one
  half and four events: three equal calls after the warm-up, a verdict, and a step after it in shadow mode.
* **Navigation.** Two goals and two lines; a window of one step and three steps let evidence leave the window; prompts
  of 1 and 2 tokens against 4 in all and a context of 2 meet every comparison at its boundary. `navigation_ledger` has
  a window of two steps and four steps, and tokens enough.
* **Tutor.** Two sessions over two languages and two clients (in `threads` one): the second session may be one of the
  same language, refused while the lock is held, or of the other.

Deadlock is checked in all runs but those that really stop: in `agent_memory`
and `agent_durability` no process can start a task whose state file is torn; in `parts`, `threads` and
`navigation_ledger` tokens, drafts, sessions and steps are used up.

### Fairness

Fairness is on what an operation that has begun does by itself; nobody is ever obliged to begin one, to die or to
restart. It is weak except where named.

* `PatchLeases`: `Step(p)` and `Return(p)`. The operating system schedules the process, every step is a bounded file
  operation, and a failed attempt to lock either retries or times out after five seconds. So an operation returns
  without a fair lock: under contention the deadline answers.
* `ManagedCoordination`: `Continue(p)`. The loops run over finite lists of paths.
* `AgentRun`: `Continue`. `run()` is one thread, and the engines and tools it calls have timeouts: they return or raise.
* `Failover`: `Proceed(c)`. Engines answer or fail because their clients have timeouts; a stream ends, breaks or is
  dropped by its consumer.
* `MailSnapshot`: the handler that the event loop is in the middle of goes on, and so does the refresh thread; strong
  fairness on `ResumeFailed` and `ResumeFinished`, because the coroutine can be resumed only between handlers, of which
  there may be ever new ones: asyncio's ready queue is first in, first out.
* `SeenPropagation`: `ReaderStep(r)`. The thread runs, and its calls to server and store have time limits.
* `TutorSessions`: `ReaperStep`, a thread that wakes every five minutes, and `Delete(s)`, since CPython frees an object
  as soon as nothing refers to it. Clients need not do anything.

`ProjectMemory` states no liveness: a process may keep the project open for ever, and those who wait for it time out.

## 4. Proofs

All theorems hold for every value of the constants under the assumptions named in the modules (no more than that the
special values are distinct from the ordinary ones, that functions have their domains, that limits are numbers, and
that an engine is given a finite sequence of engines). TLC evaluates the assumptions in the passing runs.

### Safety invariants and action properties

* **PatchLeases.** The inductive invariant `SafeInv` is `TypeOK`, `LockExclusive`, `NoLostUpdate` and `CallDiscipline`.
  `LockExclusive` is not inductive alone: `Unlock` must know that the lock is its own, which `pc ∈ Critical <=> lock`
  gives. `NoLostUpdate` follows because only `Replace` writes (`OnlyReplaceWrites`), and only from inside the lock.
  `CallDiscipline` says which calls and answers go with which place; `AnswerGrounded` needs it to exclude the answers
  of other calls. `NeverStolen` and `ScopePreserved` follow from `SafeInv`, as the table that is renamed into place is
  the file with this one call applied.
* **ManagedCoordination.** `ManagedUsesLeases` shows that every behaviour is one of `PatchLeases`, so the theorems
  above carry over (`ManagedNeverSteals`). Nothing is assumed of who acts for whom. `HeldInv` adds which lease call a
  frame waits for (`FramesTied`) and `AnswerGrounded` of the call inside it. A lease can only be lost to a release in
  its owner's name (`LostByColleague`), and a call is granted while its owner holds what it asked for (`GrantedStep`);
  this gives `WriterHoldsLease` and `ReservedStillHeld`, which speak of single steps: what a writer relies on appears
  only when it is held, and goes only with such a release.
* **AgentRun.** One strengthening per property, each proved relative to the earlier ones: `LoopInv` (room left in a
  run), `FreshInv` (what is pending belongs to the last step), `OutcomeInv`, `RepeatInv` (an action about to be
  executed does not complete a repetition), `BudgetInv`. The last is the interesting one: the counts in memory *and*
  those of a readable file cover all retries ever asked for, or a new process would start from too low a count; and
  the tracker counts a failure before the controller asks for the retry.
* **ProjectMemory.** `IInv` is `Core` and `Indexed`. `Shared` says what is true of the file: one holder; rows with ids
  of their own, and at most one whole row in an unfinished line; under `Alone` (no overlap) nothing removed, one active
  value, and all that is acknowledged and not spoiled when nobody is writing the file anew. `Mixing` says that writers
  share the file only after an overlap, and the holder only after an intrusion. `Local` ties a process' job to its
  memory: what it is removing is not in memory; while it is about to append, no other value of the topic is active.
  `Fresh` relates memory to the file: under `Alone` the memory contains the file (more, after a kill has cut the file),
  and, overlaps or not, it contains what the process stored since it got the lock, as does the file unless somebody
  intruded. The properties about the file need the facts about memory because every rewrite copies memory to file.
  Every step is one process', and either that of the lock's holder, or one that leaves what is shared alone, or a write
  to the file beside the holder, which is an intrusion (`Entitled`, `Mixes`); so a step keeps the others' parts
  (`OthersKept`). What files a killed or finished write may leave is a matter of lemmas of its own (`PrefixFiles`,
  `MixtureFiles`, `PartialFiles`, `CompleteFiles`).
* **Failover.** `IInv` is `FailoverTypeOK`, `HealthOK` (the failures counted are among the last results; only an open breaker
  names somebody) and `CallOK` (the engines left and those that failed are all that were seen; none left was tripped
  by this call; the attempts equal the calls made where the code compares them with the limit).

* **MailTrash.** `TrashInv`: a token stands for what its page shows (`ProposalOK`), a commit's outcomes are about the
  rows of its page and what it has still to do was not moved by its token (`CommitOK`), two commits have different
  tokens, and what was moved was moved under a spent token and shown on its page.
* **RuleTransactions.** `RulesInv`: every pending draft is its valid base with one key changed (`Reviewed`), a written
  one is spent, and the base of a commit about to write is the file unless a change raced.
* **MailSnapshot.** `SnapInv` says which shapes handler and refresh have together, that what a refresh has loaded is
  hidden only if it was suppressed late (`HiddenInv`), and what memory and row have in common between the two writes of
  a refresh and of a removal (`MatchInv`).
* **SeenPropagation.** `SeenInv` adds to the properties only that a thread's success is about a settled letter.
* **LexicalCache.** `LexInv` is types, `FreshOK` and `IngestOK`. An index stamped while a mutation was between mark and
  data is blurred, and a mark outdates all others, so an index that looks fresh and is not blurred was read from the
  store as it is. `IngestOK`: of a document not ingested twice at once there is at most one chunk, and its ingester knows
  it and removes it before it adds another.
* **Workspaces.** `WsInv`: a maker is alone at its owner's directory unless disturbed (`MakersAlone`), what a process
  has read of the file is true of the directories (`ReadTrue`), and a table about to be saved is the one on file unless
  one has been overwritten (`ReadCurrent`).
* **TutorSessions.** `TutorInv`: a session being reaped that a handler has was noted (`ReapedKnown`); one handler at a
  time is between two awaits, and whoever can still end a session ends one whose end is not logged or was half logged
  (`EndsOpen`).
* **LoopGuard.** The inductive invariant is only that `verdict` is `Verdict(trajectory)`. The properties are lemmas on
  the detector: the positions of tool actions grow (`PositionsGrow`), the previous action is the last before
  (`PreviousIsLast`), a prefix of a trajectory is judged as it was (`PrefixIsJudgedAlike`), from which a verdict stands.
* **NavigationPlanner.** `NavInv` is types, room for the next step (`RoomLeft`), `BudgetHeld` (an output that keeps to
  `max_tokens` keeps to the budget), that every resolved goal of the ledger rests on lines the run has observed
  (`LedgerGrounded`; steps are only ever added), and that an accepted answer left no goal open (`AnswerComplete`).

### Refinements

Three abstract specifications are implemented, by `THEOREM Spec => Implements…`: the initial states map to initial
states, and every step to a step or a stutter.

* **LeaseTable** by `PatchLeases` (`LeasesImplementTable`): `Replace` is `Grant` or `Release`, `Deny` is `Refuse`,
  failures are `Fail`, `Return` and `Crash` are `Respond` and `Vanish`. `ManagedSeesTable` carries this over to the
  runtimes and the mailbox: each managed step is a step of `PatchLeases` or none.
* **EpisodeStore** by `ProjectMemory` (`MemoryIsEpisodeStore`). `StoreInv` is `Core` (the part of `IInv` that needs no
  working index) and `Kept`: as long as openings do not overlap, the memory of a process that has read the file and is
  not in the middle of a rewrite is the rows of the file, or, once a write was killed, those rows and two more that
  share an unreadable line. Each action of the process that has the project open maps as its name says: `Store`,
  `Delete` and `Forget` to `Drop`, `StoreTemporal` to `Retire`, `AppendRow` to `Put`, rewriting and indexing to nothing;
  `Die` is `CrashRewriting`, `CrashAppending` or `Leave` by where it strikes; the openings of a second process, what it
  writes without the lock and its end are `Overlap`. `ContentsNeverReturn` is then proved of the abstract steps alone:
  as long as openings do not overlap, an id that is not in the contents does not enter them, unless it is a new one.
* **ConfirmedMoves** by `MailTrash` (`TrashKeepsPromise`). The one fact needed beyond `TrashInv` is `OutsideNoted`: what
  is not in its folder is in `gone` of every moving commit. It makes a `Move` that finds nothing to move a stutter, and
  it is not implied by `TrashInv`, which speaks only of messages called moved. That tokens of commits differ
  (`TokensDiffer`) makes what a token has seen outside the `gone` of one commit (`TokensSee`).

### What stands behind the liveness properties

The prover can neither use fairness nor `ENABLED`, so `LockReleased`, `OperationsReturn`, `RunEnds`, `CallReturns`,
`WindowServed`, `PropagationSettles` and `LanguageFreed` are only model-checked. What they rest on beside fairness is
proved for every instance: that the steps fairness speaks of lead somewhere, and that nobody else's steps lead back.

* `RunsAreFinite` (`AgentRun`): the work left to a run is a number that every step of `run()` lowers, at most
  `6 * MaxSteps + 12`, whatever planner, critic and hooks do. A finalization attempt and a retry do not restart it.
* `CallsAreFinite` (`Failover`): what is left to a call is a number that each of its steps lowers, although retries of an
  engine and reductions of the output alternate. It weighs the engines left more than the attempts, and these more than
  the tokens, so it assumes finitely many engines (`router.py:187` takes a sequence of them).
* `HoldersAdvance` (`PatchLeases`): each step of the holder of the lock brings it nearer to giving the lock back, and no
  step of another process moves it.
* `OperationsAdvanceAlways` (`ManagedCoordination`): a lexicographic order on paths left, lease call and place in the
  call. It needs no bound on the number of paths, since an operation only ever takes one off its list.
* `RequestsAreKept` (`MailSnapshot`): a window that is asked for is owed by the refresh under way or by the queue of one
  until the snapshot covers it, an error is shown or the assistant stops. This is the half of `WindowServed` that the
  order of clearing and restarting in `refresh_in_background` could break.
* `PropagationsAdvance` (`SeenPropagation`): a thread has at most four steps, and lets go of its letter only with an
  outcome in the table or as an interrupted one.
* `SessionsLeaveForGood` (`TutorSessions`): a session that has left the registry, that nobody refers to or that has
  given back its lock stays so; so `Delete`, once nothing refers to the session, can be done until the lock is free.

The eight violated statements are false and have no theorem.

## 5. Not modelled, and why

* **Data without protocol**: mail parsing, harness contracts, chunking, embedding and ranking, trace normalization,
  neural adapters, prompts, the scoring of evaluation runs. A test reaches them as well as a model does. Together they
  are most of the repository's lines, which is why the map covers a small share of them.
* **I/O adapters**: engine backends, the command sandbox and what external commands leave behind.
* **The tool executor**: a loop in one thread over at most `max_steps` answers, which nothing outlives. (Its `run` is
  documented to return a response with `finish_reason="stop"`; at `max_steps` the last one may still ask for tools.)
* **Applications and campaigns**: the diagnostics agent, the teaching examples and the campaign scripts compose the
  parts above.
* **Inside modelled files**: mailbox messages and the unmanaged reservations (one dictionary in one thread), capability
  routing, external sessions, context building and plan bookkeeping of a run, timing fields, session turns, search,
  the semantic graph, export and import of memory, deletion of whole
  collections, the choice of account and folder of a message, claims in navigation answers.
* **In `ProjectMemory`**: writes to `episodes.jsonl` that fail and are survived (a full disk, metadata that cannot be
  serialized); line separators inside texts that `splitlines` takes for ends of lines; editing the file by hand while a
  process has it open. Two versions of one row in a mixture of writers count as one. An unreadable file keeps its rows
  in the model, but nobody can open the project until somebody repairs it, which is not modelled either.
* **Stated as they are**: an owner that dies keeps its leases (ADR-019 says that reclaiming is not built), so no
  liveness is promised to the others; two spellings of one file (symbolic links, letter case) have different leases,
  which is a matter of the file system; a refused duplicate may leave a topic without a value
  (`project_memory.py:1152`); a killed propagation stays pending.

## 6. Plan

Modelled in the order of the damage an error would do.

1. `LeaseTable`, `PatchLeases` with refinement and proofs. *Done.*
2. `ManagedCoordination` composed with it. *Done.*
3. `AgentRun` with hooks, state file and restarts. *Done.*
4. `ProjectMemory` with its lock and index. *Done.*
5. `Failover`. *Done.*
6. The mail assistant: `MailSnapshot`, `MailTrash`, `SeenPropagation`, `RuleTransactions`. *Done.*
7. Services: `LexicalCache`, `Workspaces`, `TutorSessions`. *Done.*
8. `LoopGuard` and `NavigationPlanner`. *Done.*
9. Refinements: `EpisodeStore` for the memory, `ConfirmedMoves` for the trash workflow. *Done.*
10. The safety halves of the liveness properties. *Done.*

Left, in the order in which they would add most: an abstract specification of the lexical cache (a query sees the
documents as of some moment since the last mark) with the refinement for builds that no mutation overlaps; `LoopGuard`
in place of the free verdict of `AgentRun`; the memory's session turns and semantic facts; the mailbox's messages; the
staged assessments under `docs/projects`, whose resumption after a crash is a protocol of its own.
