------------------------ MODULE ProjectMemory_proofs ------------------------
(***************************************************************************)
(* Proofs about ProjectMemory for any processes, topics and number of      *)
(* episodes: types, what the writer lock protects, what holds as long as   *)
(* openings do not overlap, and that the project is an EpisodeStore.       *)
(***************************************************************************)
EXTENDS ProjectMemory, TLAPS

-----------------------------------------------------------------------------
(* The inductive invariant.                                                *)

Alone == "overlap" \notin hurt
Undamaged == "damage" \notin hurt
Intact == hurt \cap {"damage", "torn"} = {}
Undisturbed == "intrusion" \notin hurt

\* Rows have ids of their own, given out before.
Sound(rows) ==
  /\ \A r \in rows : r.id <= made
  /\ \A r, s \in rows : r.id = s.id => r = s

\* The unfinished end of a file holds at most one row.
Ends(f) ==
  /\ f.last \subseteq f.rows /\ \A r, s \in f.last : r = s
  /\ ~f.torn => f.last = {}

\* What p has stored since it got the lock, and is not removed.
Own(p) == {i \in acked : i > since[p]}

\* p is about to append a value of its job's topic.
Appending(p) == pc[p] = "append" \/ (pc[p] = "rewriting" /\ job[p].next = "append")

Shared ==
  /\ \A p, q \in Procs : ~Closed(p) /\ ~Closed(q) => p = q
  /\ Sound(disk.rows) /\ Ends(disk)
  /\ \A i \in acked \cup gone : i <= made
  /\ Alone /\ Intact => ~disk.torn
  /\ Alone =>
       /\ \A p, q \in Procs : pc[p] # "off" /\ pc[q] # "off" => p = q
       /\ gone \cap Ids(disk.rows) = {}
       /\ OneActive(disk.rows)
  /\ Alone /\ Undamaged /\ Writers = {} => acked \ spoiled \subseteq Ids(disk.rows)

\* Who shares the file it writes with another writer.
Mixing ==
  /\ mixed \subseteq Writers
  /\ Alone => mixed = {}
  /\ \A p \in Procs : ~Closed(p) /\ p \in mixed => ~Undisturbed

\* A process' memory and job.
Local(p) ==
  /\ Sound(mem[p])
  /\ Closed(p) => job[p] = Idle
  /\ pc[p] = "off" => mem[p] = {}
  /\ \A i \in job[p].out : i <= made /\ i \notin Ids(mem[p])
  /\ pc[p] = "rewriting" => job[p].next \in {"open", "append", "unindex", "rebuild"}
  /\ Appending(p) =>
       /\ made < MaxEpisodes
       /\ \A r \in mem[p] : r.topic = job[p].topic /\ r.topic # NoTopic => ~r.active
  /\ pc[p] = "index" => made > 0 /\ made \notin gone

\* How its memory relates to the file and to what was stored and removed.
Fresh(p) ==
  /\ Alone /\ pc[p] # "off" =>
       /\ disk.rows \subseteq mem[p]
       /\ gone \cap Ids(mem[p]) = {}
       /\ OneActive(mem[p])
       /\ Undamaged => acked \ spoiled \subseteq Ids(mem[p])
  /\ ~Closed(p) =>
       /\ Own(p) \subseteq Ids(mem[p])
       /\ Undisturbed /\ pc[p] # "rewriting" => Own(p) \ spoiled \subseteq Ids(disk.rows)

Core == TypeOK /\ Shared /\ Mixing /\ \A p \in Procs : Local(p) /\ Fresh(p)

\* A process without the index has dropped it or failed to open it.
Indexed ==
  hurt \cap {"overlap", "failure"} = {} =>
    /\ gone \cap index = {}
    /\ \A p \in Procs : ~Closed(p) /\ ~indexed[p] => index = {}

IInv == Core /\ Indexed

-----------------------------------------------------------------------------
(* A step is one process'.                                                 *)

\* What a step of p leaves to the others.
Apart(p) ==
  \A q \in Procs : q # p =>
    /\ pc'[q] = pc[q] /\ mem'[q] = mem[q] /\ indexed'[q] = indexed[q]
    /\ job'[q] = job[q] /\ since'[q] = since[q]

\* Either p is the writer, or it leaves everything that is shared alone, or
\* it writes to the file, which is an intrusion if there is a writer.
Entitled(p) ==
  \/ ~Closed(p)
  \/ UNCHANGED <<disk, made, acked, spoiled, gone>>
  \/ /\ pc[p] # "off" /\ (Locked => ~Undisturbed')
     /\ UNCHANGED <<made, acked, spoiled, gone>>

\* A step that does not write to the file leaves the writers as they are.
Mixes(p) ==
  \/ UNCHANGED mixed /\ p \notin Writers
  \/ /\ mixed' = Writers \ {p} /\ pc[p] # "off"
     /\ Closed(p) /\ Locked => ~Undisturbed'

LEMMA OthersKept ==
  ASSUME Core, NEW p \in Procs, TypeOK', Apart(p), Entitled(p), made <= made', hurt \subseteq hurt',
         NEW q \in Procs, q # p
  PROVE  Local(q)' /\ Fresh(q)'
<1>1. /\ pc'[q] = pc[q] /\ mem'[q] = mem[q] /\ indexed'[q] = indexed[q]
      /\ job'[q] = job[q] /\ since'[q] = since[q]
  BY DEF Apart
<1>2. Local(q) /\ Fresh(q) /\ Shared /\ made \in Nat /\ made' \in Nat
  BY BoundsAssumption DEF Core, TypeOK
<1>3. CASE UNCHANGED <<disk, made, acked, spoiled, gone>>
  <2>1. Local(q)'
    BY <1>1, <1>2, <1>3 DEF Local, Sound, Closed, Appending
  <2>2. Fresh(q)'
    BY <1>1, <1>2, <1>3 DEF Fresh, Alone, Undamaged, Undisturbed, Own, Closed
  <2>3. QED
    BY <2>1, <2>2
<1>4. CASE ~Closed(p)
  <2>1. Closed(q) /\ Closed(q)' /\ (pc[q] # "off" => ~Alone)
    BY <1>1, <1>2, <1>4 DEF Shared, Closed
  <2>2. mem[q] \in SUBSET Episode
    BY DEF Core, TypeOK
  <2>3. Sound(mem[q])'
    BY <1>1, <1>2, <2>2 DEF Local, Sound, Episode, Ages
  <2>4. job[q].out = {}
    BY <1>2, <2>1 DEF Local, Idle
  <2>5. Local(q)'
    BY <1>1, <1>2, <2>1, <2>3, <2>4 DEF Local, Closed, Appending
  <2>6. Fresh(q)'
    BY <1>1, <1>2, <2>1 DEF Fresh, Alone, Closed
  <2>7. QED
    BY <2>5, <2>6
<1>5. CASE /\ pc[p] # "off" /\ (Locked => ~Undisturbed')
           /\ UNCHANGED <<made, acked, spoiled, gone>>
  <2>1. Local(q)'
    BY <1>1, <1>2, <1>5 DEF Local, Sound, Closed, Appending
  <2>2. Alone' => pc'[q] = "off"
    BY <1>1, <1>2, <1>5 DEF Shared, Alone
  <2>3. ~Closed(q)' => Own(q)' \subseteq Ids(mem[q])' /\ ~Undisturbed'
    BY <1>1, <1>2, <1>5 DEF Fresh, Closed, Locked, Own
  <2>4. QED
    BY <2>1, <2>2, <2>3 DEF Fresh
<1>6. QED
  BY <1>3, <1>4, <1>5 DEF Entitled

LEMMA MixingKept ==
  ASSUME Core, NEW p \in Procs, Apart(p), Mixes(p), hurt \subseteq hurt'
  PROVE  Mixing'
<1>1. Shared /\ Mixing /\ (Alone' => Alone) /\ (~Undisturbed => ~Undisturbed')
  BY DEF Core, Alone, Undisturbed
<1>2. \A q \in Procs : q # p => (q \in Writers' <=> q \in Writers) /\ (Closed(q)' <=> Closed(q))
  BY DEF Apart, Writers, Closed
<1>3. CASE UNCHANGED mixed /\ p \notin Writers
  BY <1>1, <1>2, <1>3 DEF Mixing, Writers
<1>4. CASE /\ mixed' = Writers \ {p} /\ pc[p] # "off"
           /\ Closed(p) /\ Locked => ~Undisturbed'
  <2>1. mixed' \subseteq Writers'
    BY <1>2, <1>4 DEF Writers
  <2>2. Alone' => mixed' = {}
    BY <1>1, <1>4 DEF Shared, Writers
  <2>3. ASSUME NEW q \in Procs, ~Closed(q)', q \in mixed'
        PROVE  ~Undisturbed'
    <3>1. q # p /\ ~Closed(q)
      BY <1>2, <1>4, <2>3
    <3>2. Closed(p) /\ Locked
      BY <1>1, <3>1 DEF Shared, Locked
    <3>3. QED
      BY <1>4, <3>2
  <2>4. QED
    BY <2>1, <2>2, <2>3 DEF Mixing
<1>5. QED
  BY <1>3, <1>4 DEF Mixes

LEMMA CoreKept ==
  ASSUME Core, NEW p \in Procs, TypeOK', Apart(p), Entitled(p), Mixes(p),
         made <= made', hurt \subseteq hurt', Shared', Local(p)', Fresh(p)'
  PROVE  Core'
BY OthersKept, MixingKept DEF Core

\* The writer may do anything to the file, in one write or none.
LEMMA WriterIsEntitled ==
  ASSUME NEW p \in Procs, ~Closed(p),
         (UNCHANGED mixed /\ p \notin Writers) \/ mixed' = Writers \ {p}
  PROVE  Entitled(p) /\ Mixes(p)
BY DEF Entitled, Mixes, Closed

\* The fields a step may set for its process, with their types.
LEMMA Typed ==
  ASSUME TypeOK, NEW p \in Procs, NEW m \in SUBSET Episode, NEW w \in Places,
         NEW j \in [next : Places, topic : Topics \cup {NoTopic}, out : SUBSET Ages],
         NEW b \in BOOLEAN
  PROVE  /\ [mem EXCEPT ![p] = m] \in [Procs -> SUBSET Episode]
         /\ [pc EXCEPT ![p] = w] \in [Procs -> Places]
         /\ [job EXCEPT ![p] = j] \in
              [Procs -> [next : Places, topic : Topics \cup {NoTopic}, out : SUBSET Ages]]
         /\ [indexed EXCEPT ![p] = b] \in [Procs -> BOOLEAN]
BY DEF TypeOK

-----------------------------------------------------------------------------
(* Files.                                                                  *)

\* A whole file.
LEMMA WholeFile ==
  ASSUME NEW rows \in SUBSET Episode
  PROVE  /\ File(rows) \in Jsonl /\ File(rows).rows = rows /\ ~File(rows).torn
         /\ File(rows).last = {} /\ Ends(File(rows))
BY DEF File, Jsonl, Ends

\* A file with an unfinished end.
LEMMA TornFile ==
  ASSUME NEW rows \in SUBSET Episode, NEW last \in SUBSET rows, NEW ok \in BOOLEAN,
         \A r, s \in last : r = s
  PROVE  /\ Torn(rows, last, ok) \in Jsonl /\ Torn(rows, last, ok).rows = rows
         /\ Ends(Torn(rows, last, ok))
BY DEF Torn, Jsonl, Ends

LEMMA SoundPart ==
  ASSUME Core, NEW p \in Procs, NEW S \in SUBSET mem[p]
  PROVE  Sound(S) /\ S \in SUBSET Episode
BY DEF Core, Local, Sound, TypeOK

\* What a process alone in the file has written up to some point.
LEMMA PrefixFiles ==
  ASSUME Core, NEW p \in Procs, NEW f \in Prefixes(p)
  PROVE  /\ f \in Jsonl /\ Sound(f.rows) /\ Ends(f) /\ f.rows \subseteq mem[p]
         /\ \E age \in Ages \cup {0} : f.rows = {r \in mem[p] : r.id <= age}
<1>1. PICK age \in Ages \cup {0} :
        f \in {File({r \in mem[p] : r.id <= age}),
               Torn({r \in mem[p] : r.id <= age}, {r \in mem[p] : r.id = age}, TRUE),
               Torn({r \in mem[p] : r.id <= age}, {}, TRUE),
               Torn({r \in mem[p] : r.id <= age}, {}, FALSE)}
  BY DEF Prefixes
<1> DEFINE S == {r \in mem[p] : r.id <= age}
           last == {r \in mem[p] : r.id = age}
<1>2. S \in SUBSET mem[p] /\ S \in SUBSET Episode /\ Sound(S)
  BY SoundPart
<1>3. last \in SUBSET S /\ \A r, s \in last : r = s
  <2>1. age \in Int
    BY BoundsAssumption DEF Ages
  <2>2. \A r, s \in mem[p] : r.id = s.id => r = s
    BY DEF Core, Local, Sound
  <2>3. QED
    BY <2>1, <2>2
<1>4. f \in {File(S), Torn(S, last, TRUE), Torn(S, {}, TRUE), Torn(S, {}, FALSE)}
  BY <1>1
<1>5. S = {r \in mem[p] : r.id <= age}
  OBVIOUS
<1> HIDE DEF S, last
<1>6. f \in Jsonl /\ f.rows = S /\ Ends(f)
  <2>1. CASE f = File(S)
    BY <1>2, <2>1, WholeFile
  <2>2. CASE f = Torn(S, last, TRUE)
    BY <1>2, <1>3, <2>2, TornFile
  <2>3. CASE f = Torn(S, {}, TRUE) \/ f = Torn(S, {}, FALSE)
    <3>1. {} \in SUBSET S /\ \A r, s \in {} : r = s
      OBVIOUS
    <3>2. QED
      BY <1>2, <2>3, <3>1, TornFile
  <2>4. QED
    BY <1>4, <2>1, <2>2, <2>3
<1>7. QED
  BY <1>2, <1>5, <1>6

\* Several writers leave whole rows of theirs, each at most once.
LEMMA MixtureFiles ==
  ASSUME Core, NEW p \in Procs, NEW f \in Mixtures(p)
  PROVE  f \in Jsonl /\ Sound(f.rows) /\ Ends(f)
<1>0. SUFFICES ASSUME mem[p] # {}
               PROVE  f \in Jsonl /\ Sound(f.rows) /\ Ends(f)
  BY DEF Mixtures, Core, TypeOK, Shared
<1>1. PICK S \in SUBSET (mem[p] \cup disk.rows) :
        /\ \A r, s \in S : r.id = s.id => r = s
        /\ f \in {File(S), [File(S) EXCEPT !.readable = FALSE]} \cup
                 {Torn(S, last, ok) : last \in {{}} \cup {{r} : r \in S}, ok \in BOOLEAN}
  BY <1>0 DEF Mixtures
<1>2. S \in SUBSET Episode /\ Sound(S)
  <2>1. mem[p] \in SUBSET Episode /\ disk.rows \in SUBSET Episode
    BY DEF Core, TypeOK, Jsonl
  <2>2. Sound(mem[p]) /\ Sound(disk.rows)
    BY DEF Core, Shared, Local
  <2>3. QED
    BY <1>1, <2>1, <2>2 DEF Sound
<1>3. f \in Jsonl /\ f.rows = S /\ Ends(f)
  <2>1. CASE f = File(S)
    BY <1>2, <2>1, WholeFile
  <2>2. CASE f = [File(S) EXCEPT !.readable = FALSE]
    BY <1>2, <2>2 DEF File, Jsonl, Ends
  <2>3. CASE f \in {Torn(S, last, ok) : last \in {{}} \cup {{r} : r \in S}, ok \in BOOLEAN}
    <3>1. PICK last \in {{}} \cup {{r} : r \in S}, ok \in BOOLEAN : f = Torn(S, last, ok)
      BY <2>3
    <3>2. last \in SUBSET S /\ \A r, s \in last : r = s
      BY <3>1
    <3>3. QED
      BY <1>2, <3>1, <3>2, TornFile
  <2>4. QED
    BY <1>1, <2>1, <2>2, <2>3
<1>4. QED
  BY <1>2, <1>3

LEMMA PartialFiles ==
  ASSUME Core, NEW p \in Procs, NEW f \in Partial(p)
  PROVE  /\ f \in Jsonl /\ Sound(f.rows) /\ Ends(f)
         /\ p \notin mixed =>
              /\ f.rows \subseteq mem[p]
              /\ \E age \in Ages \cup {0} : f.rows = {r \in mem[p] : r.id <= age}
BY PrefixFiles, MixtureFiles DEF Partial

LEMMA CompleteFiles ==
  ASSUME Core, NEW p \in Procs, NEW f \in Complete(p)
  PROVE  /\ f \in Jsonl /\ Sound(f.rows) /\ Ends(f)
         /\ p \notin mixed => f.rows = mem[p] /\ ~f.torn
<1>1. mem[p] \in SUBSET Episode /\ Sound(mem[p])
  BY DEF Core, TypeOK, Local
<1>2. QED
  BY <1>1, WholeFile, MixtureFiles DEF Complete

LEMMA VisibleRows ==
  ASSUME Core, NEW rows \in Visible
  PROVE  /\ rows \in SUBSET Episode /\ Sound(rows)
         /\ Writers = {} => rows = disk.rows
<1>1. CASE Writers = {}
  BY <1>1 DEF Visible, Core, TypeOK, Jsonl, Shared
<1>2. CASE Writers # {}
  <2>1. PICK q \in Writers : \E f \in Partial(q) : rows = f.rows
    BY <1>2 DEF Visible
  <2>2. q \in Procs
    BY DEF Writers
  <2>3. QED
    BY <1>2, <2>1, <2>2, PartialFiles DEF Jsonl
<1>3. QED
  BY <1>1, <1>2

\* Every rewrite of the file keeps Core: the rows that are left are sound,
\* what is out is no longer acknowledged.
LEMMA RewriteKeeps ==
  ASSUME Core, NEW p \in Procs, NEW rows \in SUBSET Episode, NEW topic \in Topics \cup {NoTopic},
         NEW next \in {"open", "append", "unindex", "rebuild"}, NEW out \in SUBSET Ages,
         pc[p] \in {"open", "index"}, Rewrite(p, rows, next, topic, out),
         Sound(rows), out \subseteq Ids(mem[p]), Ids(rows) = Ids(mem[p]) \ out,
         OneActive(mem[p]) => OneActive(rows),
         next = "append" =>
           made < MaxEpisodes /\ \A r \in rows : r.topic = topic /\ r.topic # NoTopic => ~r.active,
         UNCHANGED <<made, spoiled, gone, since, indexed>>, hurt' \in {hurt, hurt \cup {"failure"}},
         index' \in SUBSET Ages, replaced' \in SUBSET Ages
  PROVE  Core'
<1>1. TypeOK /\ Shared /\ Local(p) /\ Fresh(p)
  BY DEF Core
<1>2. /\ mem' = [mem EXCEPT ![p] = rows] /\ disk' = File({}) /\ mixed' = Writers \ {p}
      /\ job' = [job EXCEPT ![p] = [next |-> next, topic |-> topic, out |-> out]]
      /\ pc' = [pc EXCEPT ![p] = "rewriting"] /\ acked' = acked \ out
  BY DEF Rewrite, Changes
<1>3. /\ mem'[p] = rows /\ job'[p] = [next |-> next, topic |-> topic, out |-> out]
      /\ pc'[p] = "rewriting" /\ Apart(p)
  BY <1>1, <1>2 DEF TypeOK, Apart
<1>4. TypeOK'
  <2>1. [next |-> next, topic |-> topic, out |-> out] \in
          [next : Places, topic : Topics \cup {NoTopic}, out : SUBSET Ages]
    BY DEF Places
  <2>2. disk' \in Jsonl /\ mixed' \in SUBSET Procs
    BY <1>2, WholeFile DEF Writers
  <2>3. /\ mem' \in [Procs -> SUBSET Episode] /\ pc' \in [Procs -> Places]
        /\ job' \in [Procs -> [next : Places, topic : Topics \cup {NoTopic}, out : SUBSET Ages]]
    BY <1>1, <1>2, <2>1, Typed DEF Places
  <2>4. hurt' \in SUBSET Hurts
    BY <1>1 DEF TypeOK, Hurts
  <2>5. QED
    BY <1>1, <1>2, <2>2, <2>3, <2>4 DEF TypeOK
<1>5. /\ ~Closed(p) /\ ~Closed(p)' /\ disk'.rows = {} /\ ~disk'.torn /\ Ends(disk')
      /\ (Alone' <=> Alone) /\ (Undamaged' <=> Undamaged) /\ (Undisturbed' <=> Undisturbed)
  BY <1>2, <1>3, WholeFile DEF Closed, Alone, Undamaged, Undisturbed
<1>6. Ids(disk.rows)' = {} /\ OneActive(disk.rows)' /\ Sound(disk.rows)' /\ Sound(rows)'
  BY <1>5 DEF Ids, OneActive, Sound
<1>7. Shared'
  <2>1. p \in Writers'
    BY <1>3 DEF Writers
  <2>2. QED
    BY <1>1, <1>2, <1>3, <1>5, <1>6, <2>1 DEF Shared, Closed, Apart, Ends
<1>8. Local(p)'
  <2>1. \A i \in out : i <= made /\ i \notin Ids(rows)
    BY <1>1 DEF Local, Sound, Ids
  <2>2. Ids(mem[p])' = Ids(rows) /\ Sound(mem[p])'
    BY <1>3, <1>6 DEF Ids, Sound
  <2>3. \A i \in job'[p].out : i <= made' /\ i \notin Ids(mem[p])'
    BY <1>3, <1>6, <2>1, <2>2
  <2>4. Appending(p)' =>
          /\ made' < MaxEpisodes
          /\ \A r \in mem'[p] : r.topic = job'[p].topic /\ r.topic # NoTopic => ~r.active
    BY <1>3 DEF Appending
  <2>5. job'[p].next \in {"open", "append", "unindex", "rebuild"}
    BY <1>2, <1>3
  <2>6. pc'[p] # "off" /\ pc'[p] # "index"
    BY <1>3
  <2>7. QED
    BY <1>5, <2>2, <2>3, <2>4, <2>5, <2>6 DEF Local
<1>9. Fresh(p)'
  <2>1. Ids(mem[p])' = Ids(rows) /\ (OneActive(mem[p])' <=> OneActive(rows))
    BY <1>3 DEF Ids, OneActive
  <2>2. Own(p)' = Own(p) \ out
    BY <1>2 DEF Own
  <2>3. pc[p] # "off"
    BY <1>5 DEF Closed
  <2>4. QED
    BY <1>1, <1>2, <1>3, <1>5, <1>6, <2>1, <2>2, <2>3 DEF Fresh
<1>10. QED
  <2>1. made <= made' /\ hurt \subseteq hurt' /\ Entitled(p) /\ Mixes(p)
    BY <1>1, <1>2, <1>5, WriterIsEntitled, BoundsAssumption DEF TypeOK
  <2>2. QED
    BY <1>3, <1>4, <1>7, <1>8, <1>9, <2>1, CoreKept

LEMMA RowsLeft ==
  ASSUME Core, NEW p \in Procs, NEW S \in SUBSET mem[p]
  PROVE  /\ mem[p] \ S \in SUBSET Episode
         /\ Ids(S) \in SUBSET Ages /\ Ids(S) \subseteq Ids(mem[p])
         /\ Sound(mem[p] \ S)
         /\ Ids(mem[p] \ S) = Ids(mem[p]) \ Ids(S)
         /\ OneActive(mem[p]) => OneActive(mem[p] \ S)
<1>1. mem[p] \in SUBSET Episode /\ Sound(mem[p])
  BY DEF Core, TypeOK, Local
<1>2. \A r \in mem[p] : r.id \in Ages
  BY <1>1 DEF Episode
<1>3. Ids(S) \in SUBSET Ages /\ Ids(S) \subseteq Ids(mem[p])
  BY <1>2 DEF Ids
<1>4. Sound(mem[p] \ S)
  BY <1>1 DEF Sound
<1>5. Ids(mem[p] \ S) = Ids(mem[p]) \ Ids(S)
  BY <1>1 DEF Sound, Ids
<1>6. OneActive(mem[p]) => OneActive(mem[p] \ S)
  BY DEF OneActive
<1>7. QED
  BY <1>1, <1>3, <1>4, <1>5, <1>6

\* A store with nothing to rewrite goes straight to appending.
LEMMA AppendStarts ==
  ASSUME Core, NEW p \in Procs, NEW t \in Topics \cup {NoTopic},
         pc[p] = "open", made < MaxEpisodes,
         \A r \in mem[p] : r.topic = t /\ r.topic # NoTopic => ~r.active,
         job' = [job EXCEPT ![p] = [next |-> "append", topic |-> t, out |-> {}]],
         pc' = [pc EXCEPT ![p] = "append"],
         UNCHANGED <<disk, mixed, mem, acked, index, indexed, made, spoiled, replaced, gone, since, hurt>>
  PROVE  Core'
<1>1. TypeOK /\ Shared /\ Local(p) /\ Fresh(p)
  BY DEF Core
<1>2. /\ pc'[p] = "append" /\ job'[p] = [next |-> "append", topic |-> t, out |-> {}] /\ Apart(p)
  BY <1>1 DEF TypeOK, Apart
<1>3. TypeOK'
  <2>1. [next |-> "append", topic |-> t, out |-> {}] \in
          [next : Places, topic : Topics \cup {NoTopic}, out : SUBSET Ages]
    BY DEF Places
  <2>2. /\ pc' \in [Procs -> Places]
        /\ job' \in [Procs -> [next : Places, topic : Topics \cup {NoTopic}, out : SUBSET Ages]]
    BY <1>1, <2>1, Typed DEF Places
  <2>3. QED
    BY <1>1, <2>2 DEF TypeOK
<1>4. /\ ~Closed(p) /\ ~Closed(p)' /\ p \notin Writers /\ Writers' = Writers
      /\ (Alone' <=> Alone) /\ (Undamaged' <=> Undamaged) /\ (Undisturbed' <=> Undisturbed)
  BY <1>2 DEF Closed, Alone, Undamaged, Undisturbed, Writers, Apart
<1>5. Shared'
  BY <1>1, <1>2, <1>4 DEF Shared, Closed, Apart, Sound, Ends, Intact
<1>6. Local(p)'
  <2>1. Sound(mem[p])' /\ job'[p].out = {}
    BY <1>1, <1>2 DEF Local, Sound
  <2>2. Appending(p)' =>
          /\ made' < MaxEpisodes
          /\ \A r \in mem'[p] : r.topic = job'[p].topic /\ r.topic # NoTopic => ~r.active
    BY <1>2
  <2>3. QED
    BY <1>2, <1>4, <2>1, <2>2 DEF Local
<1>7. Fresh(p)'
  BY <1>1, <1>2, <1>4 DEF Fresh, Own, Closed
<1>8. made <= made' /\ hurt \subseteq hurt' /\ Entitled(p) /\ Mixes(p)
  BY <1>1, <1>4, WriterIsEntitled, BoundsAssumption DEF TypeOK
<1>9. QED
  BY <1>2, <1>3, <1>5, <1>6, <1>7, <1>8, CoreKept

LEMMA StoreKeeps ==
  ASSUME Core, NEW p \in Procs, Store(p)
  PROVE  Core'
<1>1. PICK t \in Topics \cup {NoTopic} :
        LET old == OfTopic(p, t) IN
          IF old = {}
            THEN /\ job' = [job EXCEPT ![p] = [next |-> "append", topic |-> t, out |-> {}]]
                 /\ pc' = [pc EXCEPT ![p] = "append"]
                 /\ UNCHANGED <<file, mem, acked>>
            ELSE \E next \in {"append"} \cup (IF mem[p] = old THEN {} ELSE {"open"}) :
                   Rewrite(p, mem[p] \ old, next, t, Ids(old))
  BY DEF Store
<1> DEFINE old == OfTopic(p, t)
<1>2. /\ pc[p] = "open" /\ made < MaxEpisodes
      /\ UNCHANGED <<index, indexed, made, spoiled, replaced, gone, since, hurt>>
  BY DEF Store
<1>3. \A r \in mem[p] \ old : r.topic = t /\ r.topic # NoTopic => ~r.active
  BY DEF OfTopic
<1>4. CASE old = {}
  BY <1>1, <1>2, <1>3, <1>4, AppendStarts DEF file
<1>5. CASE old # {}
  <2>1. PICK next \in {"append", "open"} : Rewrite(p, mem[p] \ old, next, t, Ids(old))
    BY <1>1, <1>5
  <2>2. old \in SUBSET mem[p]
    BY DEF OfTopic
  <2>3. index' \in SUBSET Ages /\ replaced' \in SUBSET Ages
    BY <1>2 DEF Core, TypeOK
  <2> HIDE DEF old
  <2>4. /\ mem[p] \ old \in SUBSET Episode
        /\ Ids(old) \in SUBSET Ages /\ Ids(old) \subseteq Ids(mem[p])
        /\ Sound(mem[p] \ old)
        /\ Ids(mem[p] \ old) = Ids(mem[p]) \ Ids(old)
        /\ OneActive(mem[p]) => OneActive(mem[p] \ old)
    BY <2>2, RowsLeft
  <2>5. QED
    BY <1>2, <1>3, <2>1, <2>3, <2>4, RewriteKeeps
<1>6. QED
  BY <1>4, <1>5

LEMMA StoreTemporalKeeps ==
  ASSUME Core, NEW p \in Procs, StoreTemporal(p)
  PROVE  Core'
<1>1. PICK t \in Topics :
        IF \E r \in OfTopic(p, t) : r.active
          THEN Rewrite(p, Superseding(p, t), "append", t, {})
          ELSE /\ job' = [job EXCEPT ![p] = [next |-> "append", topic |-> t, out |-> {}]]
               /\ pc' = [pc EXCEPT ![p] = "append"]
               /\ UNCHANGED <<file, mem, acked>>
  BY DEF StoreTemporal
<1>2. /\ pc[p] = "open" /\ made < MaxEpisodes /\ t # NoTopic
      /\ UNCHANGED <<index, indexed, made, spoiled, replaced, gone, since, hurt>>
  BY TopicsAssumption DEF StoreTemporal
<1>3. CASE \E r \in OfTopic(p, t) : r.active
  <2> DEFINE rows == Superseding(p, t)
  <2>1. mem[p] \in SUBSET Episode /\ Sound(mem[p])
    BY DEF Core, TypeOK, Local
  <2>2. ASSUME NEW s \in rows
        PROVE  /\ s \in Episode
               /\ \E r \in mem[p] : /\ r.id = s.id /\ r.topic = s.topic /\ (s.active => s = r)
                                    /\ (s.topic = t => ~s.active)
                                    /\ s = IF r.topic = t THEN [r EXCEPT !.active = FALSE] ELSE r
    <3>1. CASE s \in mem[p] \ OfTopic(p, t)
      BY <1>2, <2>1, <3>1 DEF OfTopic
    <3>2. CASE s \notin mem[p] \ OfTopic(p, t)
      <4>1. PICK r \in OfTopic(p, t) : s = [r EXCEPT !.active = FALSE]
        BY <3>2 DEF Superseding
      <4>2. r \in mem[p] /\ r \in Episode /\ r.topic = t
        BY <2>1 DEF OfTopic
      <4>3. s \in Episode /\ s.id = r.id /\ s.topic = r.topic /\ ~s.active
        BY <4>1, <4>2 DEF Episode
      <4>4. QED
        BY <4>1, <4>2, <4>3
    <3>3. QED
      BY <3>1, <3>2
  <2>3. ASSUME NEW r \in mem[p]
        PROVE  \E s \in rows : s.id = r.id
    <3>1. CASE r \in OfTopic(p, t)
      <4>1. [r EXCEPT !.active = FALSE].id = r.id
        BY <2>1 DEF Episode
      <4>2. QED
        BY <3>1, <4>1 DEF Superseding
    <3>2. CASE r \notin OfTopic(p, t)
      BY <3>2 DEF Superseding
    <3>3. QED
      BY <3>1, <3>2
  <2> HIDE DEF rows
  <2>4. rows \in SUBSET Episode /\ Sound(rows)
    <3>1. ASSUME NEW s1 \in rows, NEW s2 \in rows, s1.id = s2.id
          PROVE  s1 = s2
      <4>1. PICK r1 \in mem[p] :
              r1.id = s1.id /\ s1 = IF r1.topic = t THEN [r1 EXCEPT !.active = FALSE] ELSE r1
        BY <2>2
      <4>2. PICK r2 \in mem[p] :
              r2.id = s2.id /\ s2 = IF r2.topic = t THEN [r2 EXCEPT !.active = FALSE] ELSE r2
        BY <2>2
      <4>3. r1 = r2
        BY <2>1, <3>1, <4>1, <4>2 DEF Sound
      <4>4. QED
        BY <4>1, <4>2, <4>3
    <3>2. \A s \in rows : s.id <= made
      BY <2>1, <2>2 DEF Sound
    <3>3. QED
      BY <2>2, <3>1, <3>2 DEF Sound
  <2>5. Ids(rows) = Ids(mem[p]) \ {}
    BY <2>2, <2>3 DEF Ids
  <2>6. OneActive(mem[p]) => OneActive(rows)
    BY <2>2 DEF OneActive
  <2>7. \A r \in rows : r.topic = t => ~r.active
    BY <2>2
  <2>8. Rewrite(p, rows, "append", t, {})
    BY <1>1, <1>3 DEF rows
  <2>9. index' \in SUBSET Ages /\ replaced' \in SUBSET Ages
    BY <1>2 DEF Core, TypeOK
  <2>10. QED
    BY <1>2, <2>4, <2>5, <2>6, <2>7, <2>8, <2>9, RewriteKeeps
<1>4. CASE ~ \E r \in OfTopic(p, t) : r.active
  <2>1. \A r \in mem[p] : r.topic = t /\ r.topic # NoTopic => ~r.active
    BY <1>4 DEF OfTopic
  <2>2. QED
    BY <1>1, <1>2, <1>4, <2>1, AppendStarts DEF file
<1>5. QED
  BY <1>3, <1>4

LEMMA ReviewKeeps ==
  ASSUME Core, NEW p \in Procs, Review(p)
  PROVE  Core'
<1>1. /\ pc[p] = "open" /\ Rewrite(p, mem[p], "open", NoTopic, {})
      /\ UNCHANGED <<index, indexed, made, spoiled, replaced, gone, since, hurt>>
  BY DEF Review
<1>2. /\ mem[p] \in SUBSET Episode /\ Sound(mem[p])
      /\ index' \in SUBSET Ages /\ replaced' \in SUBSET Ages
  BY <1>1 DEF Core, TypeOK, Local
<1>3. QED
  BY <1>1, <1>2, RewriteKeeps

LEMMA DeleteEpisodeKeeps ==
  ASSUME Core, NEW p \in Procs, DeleteEpisode(p)
  PROVE  Core'
<1>1. PICK r \in mem[p] : Rewrite(p, mem[p] \ {r}, "unindex", NoTopic, {r.id})
  BY DEF DeleteEpisode
<1>2. pc[p] = "open" /\ UNCHANGED <<index, indexed, made, spoiled, replaced, gone, since, hurt>>
  BY DEF DeleteEpisode
<1>3. Ids({r}) = {r.id} /\ {r} \in SUBSET mem[p]
  BY DEF Ids
<1>4. index' \in SUBSET Ages /\ replaced' \in SUBSET Ages
  BY <1>2 DEF Core, TypeOK
<1>5. /\ mem[p] \ {r} \in SUBSET Episode
      /\ {r.id} \in SUBSET Ages /\ {r.id} \subseteq Ids(mem[p])
      /\ Sound(mem[p] \ {r})
      /\ Ids(mem[p] \ {r}) = Ids(mem[p]) \ {r.id}
      /\ OneActive(mem[p]) => OneActive(mem[p] \ {r})
  BY <1>3, RowsLeft
<1>6. QED
  BY <1>1, <1>2, <1>4, <1>5, RewriteKeeps

LEMMA ForgetSessionKeeps ==
  ASSUME Core, NEW p \in Procs, ForgetSession(p)
  PROVE  Core'
<1>1. PICK S \in SUBSET mem[p] : Rewrite(p, mem[p] \ S, "rebuild", NoTopic, Ids(S))
  BY DEF ForgetSession
<1>2. pc[p] = "open" /\ UNCHANGED <<index, indexed, made, spoiled, replaced, gone, since, hurt>>
  BY DEF ForgetSession
<1>3. index' \in SUBSET Ages /\ replaced' \in SUBSET Ages
  BY <1>2 DEF Core, TypeOK
<1>4. /\ mem[p] \ S \in SUBSET Episode
      /\ Ids(S) \in SUBSET Ages /\ Ids(S) \subseteq Ids(mem[p])
      /\ Sound(mem[p] \ S)
      /\ Ids(mem[p] \ S) = Ids(mem[p]) \ Ids(S)
      /\ OneActive(mem[p]) => OneActive(mem[p] \ S)
  BY RowsLeft
<1>5. QED
  BY <1>1, <1>2, <1>3, <1>4, RewriteKeeps

\* What an operation on the index leaves is a set of ages, and only a
\* failure is added to what excuses a loss.
LEMMA IndexTyped ==
  ASSUME TypeOK, NEW p \in Procs, NEW result \in SUBSET Ages, NEW failures \in SUBSET SUBSET Ages,
         Indexes(p, result, failures)
  PROVE  index' \in SUBSET Ages /\ hurt' \in {hurt, hurt \cup {"failure"}}
BY DEF Indexes, TypeOK

LEMMA IndexKeeps ==
  ASSUME Core, NEW p \in Procs, Index(p)
  PROVE  Core'
<1>1. TypeOK /\ Shared /\ Local(p) /\ Fresh(p) /\ pc[p] = "index"
  BY DEF Core, Index
<1>2. made \in Ages
  BY <1>1, BoundsAssumption DEF TypeOK, Local, Ages
<1>3. index' \in SUBSET Ages /\ hurt' \in {hurt, hurt \cup {"failure"}}
  <2>1. index \cup {made} \in SUBSET Ages /\ {index} \in SUBSET SUBSET Ages
    BY <1>1, <1>2 DEF TypeOK
  <2>2. Indexes(p, index \cup {made}, {index})
    BY DEF Index
  <2>3. QED
    BY <1>1, <2>1, <2>2, IndexTyped
<1>4. replaced' \in SUBSET Ages /\ UNCHANGED <<indexed, made, spoiled, gone, since>>
  BY <1>1 DEF Index, TypeOK
<1>5. CASE Rewrite(p, mem[p], "open", NoTopic, {})
  <2>1. mem[p] \in SUBSET Episode /\ Sound(mem[p])
    BY <1>1 DEF TypeOK, Local
  <2>2. QED
    BY <1>1, <1>3, <1>4, <1>5, <2>1, RewriteKeeps
<1>6. CASE /\ job' = [job EXCEPT ![p] = Idle]
           /\ pc' = [pc EXCEPT ![p] = "open"]
           /\ UNCHANGED <<file, mem, acked>>
  <2>1. pc'[p] = "open" /\ job'[p] = Idle /\ Apart(p)
    BY <1>1, <1>4, <1>6 DEF TypeOK, Apart
  <2>2. TypeOK'
    <3>1. Idle \in [next : Places, topic : Topics \cup {NoTopic}, out : SUBSET Ages]
      BY DEF Places, Idle
    <3>2. /\ pc' \in [Procs -> Places]
          /\ job' \in [Procs -> [next : Places, topic : Topics \cup {NoTopic}, out : SUBSET Ages]]
      BY <1>1, <1>6, <3>1, Typed DEF Places
    <3>3. hurt' \in SUBSET Hurts
      BY <1>1, <1>3 DEF TypeOK, Hurts
    <3>4. QED
      BY <1>1, <1>3, <1>4, <1>6, <3>2, <3>3 DEF TypeOK, file
  <2>3. /\ ~Closed(p) /\ ~Closed(p)' /\ p \notin Writers /\ Writers' = Writers
        /\ (Alone' <=> Alone) /\ (Undamaged' <=> Undamaged) /\ (Undisturbed' <=> Undisturbed)
        /\ (Intact' <=> Intact)
    BY <1>1, <1>3, <2>1 DEF Closed, Alone, Undamaged, Undisturbed, Intact, Writers, Apart
  <2>4. Shared'
    BY <1>1, <1>4, <1>6, <2>1, <2>3 DEF Shared, Closed, Apart, Sound, Ends, file
  <2>5. Local(p)'
    <3>1. Sound(mem[p])' /\ job'[p].out = {} /\ ~Appending(p)'
      BY <1>1, <1>4, <1>6, <2>1 DEF Local, Sound, Idle, Appending
    <3>2. QED
      BY <2>1, <2>3, <3>1 DEF Local
  <2>6. Fresh(p)'
    BY <1>1, <1>4, <1>6, <2>1, <2>3 DEF Fresh, Own, Closed, file
  <2>7. made <= made' /\ hurt \subseteq hurt' /\ Entitled(p) /\ Mixes(p)
    BY <1>1, <1>3, <1>4, <1>6, <2>3, WriterIsEntitled, BoundsAssumption DEF TypeOK, file
  <2>8. QED
    BY <2>1, <2>2, <2>4, <2>5, <2>6, <2>7, CoreKept
<1>7. QED
  BY <1>5, <1>6 DEF Index

\* What was removed leaves the process' job and is gone.
LEMMA RemovalKeeps ==
  ASSUME Core, NEW p \in Procs, pc[p] \in {"unindex", "rebuild", "drop"}, Removed(p),
         UNCHANGED <<file, mem, made, acked, spoiled, replaced, since>>,
         indexed' \in {indexed, [indexed EXCEPT ![p] = FALSE]},
         index' \in SUBSET Ages, hurt' \in {hurt, hurt \cup {"failure"}}
  PROVE  Core'
<1>1. TypeOK /\ Shared /\ Local(p) /\ Fresh(p)
  BY DEF Core
<1>2. pc'[p] = "open" /\ job'[p] = Idle /\ gone' = gone \cup job[p].out /\ Apart(p)
  BY <1>1 DEF TypeOK, Apart, Removed
<1>3. TypeOK'
  <2>1. Idle \in [next : Places, topic : Topics \cup {NoTopic}, out : SUBSET Ages]
    BY DEF Places, Idle
  <2>2. /\ pc' \in [Procs -> Places]
        /\ job' \in [Procs -> [next : Places, topic : Topics \cup {NoTopic}, out : SUBSET Ages]]
    BY <1>1, <2>1, Typed DEF Places, Removed
  <2>3. hurt' \in SUBSET Hurts /\ indexed' \in [Procs -> BOOLEAN]
    BY <1>1, Typed DEF TypeOK, Hurts
  <2>4. gone' \in SUBSET Ages
    BY <1>1, <1>2 DEF TypeOK
  <2>5. QED
    BY <1>1, <2>2, <2>3, <2>4 DEF TypeOK, file
<1>4. /\ ~Closed(p) /\ ~Closed(p)' /\ p \notin Writers /\ Writers' = Writers
      /\ (Alone' <=> Alone) /\ (Undamaged' <=> Undamaged) /\ (Undisturbed' <=> Undisturbed)
      /\ (Intact' <=> Intact)
  BY <1>2 DEF Closed, Alone, Undamaged, Undisturbed, Intact, Writers, Apart
<1>5. /\ \A i \in job[p].out : i <= made /\ i \notin Ids(mem[p])
      /\ Alone => Ids(disk.rows) \subseteq Ids(mem[p])
  BY <1>1, <1>4 DEF Local, Fresh, Ids, Closed
<1>6. Shared'
  BY <1>1, <1>2, <1>4, <1>5 DEF Shared, Closed, Apart, Sound, Ends, file
<1>7. Local(p)'
  BY <1>1, <1>2, <1>4 DEF Local, Appending, Sound, Idle
<1>8. Fresh(p)'
  BY <1>1, <1>2, <1>4, <1>5 DEF Fresh, Own, Closed, file
<1>9. made <= made' /\ hurt \subseteq hurt' /\ Entitled(p) /\ Mixes(p)
  BY <1>1, <1>4, WriterIsEntitled, BoundsAssumption DEF TypeOK, file
<1>10. QED
  BY <1>2, <1>3, <1>6, <1>7, <1>8, <1>9, CoreKept

LEMMA UnindexKeeps ==
  ASSUME Core, NEW p \in Procs, Unindex(p) \/ Rebuild(p) \/ Drop(p)
  PROVE  Core'
<1>1. TypeOK
  BY DEF Core
<1>2. Ids(mem[p]) \in SUBSET Ages
  BY <1>1 DEF TypeOK, Ids, Episode
<1>3. CASE Unindex(p)
  <2>1. index \ job[p].out \in SUBSET Ages /\ {index} \in SUBSET SUBSET Ages
    BY <1>1 DEF TypeOK
  <2>2. index' \in SUBSET Ages /\ hurt' \in {hurt, hurt \cup {"failure"}}
    BY <1>1, <1>3, <2>1, IndexTyped DEF Unindex
  <2>3. QED
    BY <1>3, <2>2, RemovalKeeps DEF Unindex
<1>4. CASE Rebuild(p)
  <2>1. {index, {}} \in SUBSET SUBSET Ages
    BY <1>1 DEF TypeOK
  <2>2. index' \in SUBSET Ages /\ hurt' \in {hurt, hurt \cup {"failure"}}
    BY <1>1, <1>2, <1>4, <2>1, IndexTyped DEF Rebuild
  <2>3. QED
    BY <1>4, <2>2, RemovalKeeps DEF Rebuild
<1>5. CASE Drop(p)
  <2>1. index' \in SUBSET Ages /\ hurt' \in {hurt, hurt \cup {"failure"}}
    BY <1>1, <1>5 DEF Drop, Indexes, TypeOK
  <2>2. QED
    BY <1>5, <2>1, RemovalKeeps DEF Drop
<1>6. QED
  BY <1>3, <1>4, <1>5

LEMMA ReconcileKeeps ==
  ASSUME Core, NEW p \in Procs, Reconcile(p)
  PROVE  Core'
<1>1. TypeOK /\ Shared /\ Local(p) /\ Fresh(p)
  BY DEF Core
<1>2. index' \in SUBSET Ages /\ hurt' \in {hurt, hurt \cup {"failure"}}
  <2> DEFINE failures == {(index \cup added) \ removed : added \in SUBSET (Ids(mem[p]) \ index),
                                                         removed \in SUBSET (index \ Ids(mem[p]))}
  <2>1. Ids(mem[p]) \in SUBSET Ages
    BY <1>1 DEF TypeOK, Ids, Episode
  <2>2. failures \in SUBSET SUBSET Ages
    BY <1>1, <2>1 DEF TypeOK
  <2>3. Indexes(p, Ids(mem[p]), failures)
    BY DEF Reconcile
  <2> HIDE DEF failures
  <2>4. QED
    BY <1>1, <2>1, <2>2, <2>3, IndexTyped
<1>3. /\ UNCHANGED <<disk, mixed, pc, mem, indexed, job, made, acked, spoiled, replaced, gone, since>>
      /\ pc[p] = "open"
  BY DEF Reconcile, records, file
<1>4. TypeOK'
  BY <1>1, <1>2, <1>3 DEF TypeOK, Hurts
<1>5. /\ (Alone' <=> Alone) /\ (Undamaged' <=> Undamaged) /\ (Undisturbed' <=> Undisturbed)
      /\ (Intact' <=> Intact)
  BY <1>2 DEF Alone, Undamaged, Undisturbed, Intact
<1>6. Shared'
  BY <1>1, <1>3, <1>5 DEF Shared, Closed, Sound, Ends, Writers
<1>7. Local(p)'
  BY <1>1, <1>3 DEF Local, Closed, Appending, Sound
<1>8. Fresh(p)'
  BY <1>1, <1>3, <1>5 DEF Fresh, Own, Closed
<1>9. made <= made' /\ hurt \subseteq hurt' /\ Entitled(p) /\ Mixes(p) /\ Apart(p)
  BY <1>1, <1>2, <1>3, WriterIsEntitled, BoundsAssumption DEF TypeOK, Apart, Closed, Writers
<1>10. QED
  BY <1>4, <1>6, <1>7, <1>8, <1>9, CoreKept

LEMMA AppendKeeps ==
  ASSUME Core, NEW p \in Procs, AppendRow(p)
  PROVE  Core'
<1> DEFINE r == NewRow(p)
           kept == disk.rows \ disk.last
<1>1. /\ TypeOK /\ Shared /\ Local(p) /\ Fresh(p) /\ pc[p] = "append"
      /\ made < MaxEpisodes
      /\ \A s \in mem[p] : s.topic = job[p].topic /\ s.topic # NoTopic => ~s.active
  BY DEF Core, AppendRow, Local, Appending
<1>2. /\ mem' = [mem EXCEPT ![p] = mem[p] \cup {r}]
      /\ mixed' = Writers \ {p}
      /\ IF disk.torn
           THEN /\ disk' = [disk EXCEPT !.rows = kept, !.torn = FALSE, !.last = {}]
                /\ spoiled' = spoiled \cup Ids(disk.last) \cup {made + 1}
           ELSE disk' = [disk EXCEPT !.rows = disk.rows \cup {r}] /\ spoiled' = spoiled
      /\ acked' = acked \cup {made + 1} /\ made' = made + 1
      /\ pc' = [pc EXCEPT ![p] = "index"]
      /\ UNCHANGED <<index, indexed, job, replaced, gone, since, hurt>>
  BY <1>1 DEF AppendRow, Changes, TypeOK
<1>3. made \in Nat /\ made + 1 \in Ages /\ made' \in 0..MaxEpisodes
  BY <1>1, <1>2, BoundsAssumption DEF TypeOK, Ages
<1>4. r \in Episode
  BY <1>1, <1>3 DEF TypeOK, Episode, NewRow
<1>5. r.id = made + 1 /\ r.topic = job[p].topic
  BY DEF NewRow
<1> HIDE DEF r
<1>6. /\ pc'[p] = "index" /\ mem'[p] = mem[p] \cup {r} /\ Apart(p)
      /\ disk' \in Jsonl /\ Ends(disk') /\ ~disk'.torn
      /\ IF disk.torn
           THEN disk'.rows = kept /\ spoiled' = spoiled \cup Ids(disk.last) \cup {made + 1}
           ELSE disk'.rows = disk.rows \cup {r} /\ spoiled' = spoiled
  <2>1. pc'[p] = "index" /\ mem'[p] = mem[p] \cup {r} /\ Apart(p)
    BY <1>1, <1>2 DEF TypeOK, Apart
  <2>2. disk \in Jsonl /\ Ends(disk)
    BY <1>1 DEF TypeOK, Shared
  <2>3. CASE disk.torn
    BY <1>2, <2>1, <2>2, <2>3 DEF Jsonl, Ends
  <2>4. CASE ~disk.torn
    BY <1>2, <1>4, <2>1, <2>2, <2>4 DEF Jsonl, Ends
  <2>5. QED
    BY <2>3, <2>4
<1>7. TypeOK'
  <2>1. mixed' \in SUBSET Procs /\ spoiled' \in SUBSET Ages
    <3>1. Ids(disk.last) \in SUBSET Ages
      BY <1>1 DEF TypeOK, Jsonl, Ids, Episode
    <3>2. QED
      BY <1>1, <1>2, <1>3, <3>1 DEF TypeOK, Writers
  <2>2. mem[p] \cup {r} \in SUBSET Episode
    BY <1>1, <1>4 DEF TypeOK
  <2>3. mem' \in [Procs -> SUBSET Episode]
    BY <1>1, <1>2, <2>2 DEF TypeOK
  <2>6. pc' \in [Procs -> Places]
    BY <1>1, <1>2 DEF TypeOK, Places
  <2>4. acked' \in SUBSET Ages
    BY <1>1, <1>2, <1>3 DEF TypeOK
  <2>5. QED
    BY <1>1, <1>2, <1>3, <1>6, <2>1, <2>3, <2>4, <2>6 DEF TypeOK
<1>8. /\ ~Closed(p) /\ ~Closed(p)' /\ Writers' = Writers
      /\ (Alone' <=> Alone) /\ (Undamaged' <=> Undamaged) /\ (Undisturbed' <=> Undisturbed)
  BY <1>1, <1>2, <1>6 DEF Closed, Alone, Undamaged, Undisturbed, Writers, Apart
<1>9. ASSUME NEW rows \in SUBSET Episode, Sound(rows)
      PROVE  \A R \in SUBSET (rows \cup {r}) :
               \A s, u \in R : s.id <= made + 1 /\ (s.id = u.id => s = u)
  <2>1. \A s \in rows : s.id <= made /\ s.id \in Int
    BY <1>9 DEF Sound, Episode, Ages
  <2>2. \A s, u \in rows : s.id = u.id => s = u
    BY <1>9 DEF Sound
  <2>3. QED
    BY <1>3, <1>5, <2>1, <2>2
<1>10. disk.rows \in SUBSET Episode /\ mem[p] \in SUBSET Episode
  BY <1>1 DEF TypeOK, Jsonl
<1>11. Sound(disk.rows)' /\ Sound(mem[p])'
  <2>1. disk'.rows \in SUBSET (disk.rows \cup {r}) /\ Sound(disk.rows) /\ Sound(mem[p])
    BY <1>1, <1>6 DEF Shared, Local
  <2>2. \A s, u \in disk'.rows : s.id <= made + 1 /\ (s.id = u.id => s = u)
    BY <1>9, <1>10, <2>1
  <2>3. \A s, u \in mem'[p] : s.id <= made + 1 /\ (s.id = u.id => s = u)
    BY <1>6, <1>9, <1>10, <2>1
  <2>4. QED
    BY <1>2, <2>2, <2>3 DEF Sound
<1>12. /\ Ids(mem[p])' = Ids(mem[p]) \cup {made + 1}
       /\ Ids(disk.rows)' \subseteq Ids(disk.rows) \cup {made + 1}
       /\ \A i \in Ids(disk.rows) \cup {made + 1} : i \in Ids(disk.rows)' \/ i \in spoiled'
       /\ spoiled \subseteq spoiled'
  <2>1. Ids(mem[p])' = Ids(mem[p]) \cup {made + 1}
    BY <1>5, <1>6 DEF Ids
  <2>2. CASE disk.torn
    <3>1. Ids(disk.rows) \subseteq Ids(kept) \cup Ids(disk.last) /\ Ids(kept) \subseteq Ids(disk.rows)
      BY DEF Ids
    <3>2. Ids(disk.rows)' = Ids(kept)
      BY <1>6, <2>2 DEF Ids
    <3>3. QED
      BY <1>6, <2>1, <2>2, <3>1, <3>2
  <2>3. CASE ~disk.torn
    <3>1. Ids(disk.rows)' = Ids(disk.rows) \cup {made + 1}
      BY <1>5, <1>6, <2>3 DEF Ids
    <3>2. QED
      BY <1>6, <2>1, <2>3, <3>1
  <2>4. QED
    BY <2>2, <2>3
<1>13. ASSUME OneActive(mem[p]), NEW R \in SUBSET (mem[p] \cup {r})
       PROVE  OneActive(R)
  BY <1>1, <1>5, <1>13 DEF OneActive
<1>14. Shared'
  <2>1. \A i \in gone \cup acked : i <= made /\ i \in Int /\ i # made + 1
    BY <1>1, <1>3 DEF Shared, TypeOK, Ages
  <2>2. Alone => OneActive(disk.rows)'
    <3>1. Alone => disk.rows \subseteq mem[p] /\ OneActive(mem[p])
      BY <1>1 DEF Fresh
    <3>2. Alone => disk'.rows \in SUBSET (mem[p] \cup {r})
      BY <1>6, <3>1
    <3>3. QED
      BY <1>13, <3>1, <3>2 DEF OneActive
  <2>3. Alone => gone' \cap Ids(disk.rows)' = {}
    BY <1>1, <1>2, <1>12, <2>1 DEF Shared
  <2>4. Alone /\ Undamaged /\ Writers' = {} => acked' \ spoiled' \subseteq Ids(disk.rows)'
    BY <1>1, <1>2, <1>8, <1>12 DEF Shared
  <2>5. \A i \in acked' \cup gone' : i <= made'
    BY <1>2, <1>3, <2>1
  <2>6. /\ \A q1, q2 \in Procs : ~Closed(q1)' /\ ~Closed(q2)' => q1 = q2
        /\ Alone => \A q1, q2 \in Procs : pc'[q1] # "off" /\ pc'[q2] # "off" => q1 = q2
    BY <1>1, <1>6, <1>8 DEF Shared, Closed, Apart
  <2>7. QED
    BY <1>6, <1>8, <1>11, <2>2, <2>3, <2>4, <2>5, <2>6 DEF Shared
<1>15. Local(p)'
  <2>1. \A i \in job[p].out : i <= made /\ i \in Int /\ i \notin Ids(mem[p])
    BY <1>1 DEF Local, TypeOK, Ages
  <2>2. \A i \in job'[p].out : i <= made' /\ i \notin Ids(mem[p])'
    <3>1. job'[p].out = job[p].out /\ made' = made + 1
      BY <1>2
    <3>2. \A i \in job[p].out : i <= made + 1 /\ i # made + 1
      BY <1>3, <2>1
    <3>3. QED
      BY <1>12, <2>1, <3>1, <3>2
  <2>3. made' > 0 /\ made' \notin gone'
    BY <1>1, <1>2, <1>3 DEF Shared
  <2>4. ~Appending(p)'
    BY <1>6 DEF Appending
  <2>5. QED
    BY <1>6, <1>8, <1>11, <2>2, <2>3, <2>4 DEF Local
<1>16. Fresh(p)'
  <2>1. pc[p] # "off" /\ pc[p] # "rewriting"
    BY <1>1
  <2>2. Own(p)' \subseteq Own(p) \cup {made + 1}
    BY <1>2 DEF Own
  <2>3. Own(p) \subseteq Ids(mem[p]) /\ (Undisturbed => Own(p) \ spoiled \subseteq Ids(disk.rows))
    BY <1>1, <1>8, <2>1 DEF Fresh
  <2>4. Alone => /\ disk'.rows \subseteq mem'[p]
                 /\ gone' \cap Ids(mem[p])' = {}
                 /\ OneActive(mem[p])'
                 /\ Undamaged => acked' \ spoiled' \subseteq Ids(mem[p])'
    <3>1. Alone => /\ disk.rows \subseteq mem[p] /\ gone \cap Ids(mem[p]) = {}
                   /\ OneActive(mem[p]) /\ (Undamaged => acked \ spoiled \subseteq Ids(mem[p]))
      BY <1>1, <2>1 DEF Fresh
    <3>2. made + 1 \notin gone
      BY <1>1, <1>3 DEF Shared
    <3>3. Alone => OneActive(mem[p])'
      BY <1>6, <1>13, <3>1 DEF OneActive
    <3>4. QED
      BY <1>2, <1>6, <1>12, <3>1, <3>2, <3>3
  <2>5. /\ Own(p)' \subseteq Ids(mem[p])'
        /\ Undisturbed => Own(p)' \ spoiled' \subseteq Ids(disk.rows)'
    BY <1>12, <2>2, <2>3
  <2>6. QED
    BY <1>8, <2>4, <2>5 DEF Fresh
<1>17. made <= made'
  <2>1. made' = made + 1
    BY <1>2
  <2>2. QED
    BY <1>3, <2>1
<1>18. hurt \subseteq hurt' /\ Entitled(p) /\ Mixes(p)
  BY <1>2, <1>8, WriterIsEntitled
<1>19. QED
  BY <1>6, <1>7, <1>14, <1>15, <1>16, <1>17, <1>18, CoreKept

LEMMA ForgetUserDataKeeps ==
  ASSUME Core, NEW p \in Procs, ForgetUserData(p)
  PROVE  Core'
<1> DEFINE j == [next |-> "drop", topic |-> NoTopic, out |-> Ids(mem[p])]
<1>1. TypeOK /\ Shared /\ Local(p) /\ Fresh(p) /\ pc[p] = "open"
  BY DEF Core, ForgetUserData
<1>2. /\ disk' = File({}) /\ mixed' = Writers \ {p} /\ mem' = [mem EXCEPT ![p] = {}]
      /\ job' = [job EXCEPT ![p] = j] /\ pc' = [pc EXCEPT ![p] = "drop"]
      /\ acked' = acked \ Ids(mem[p])
      /\ UNCHANGED <<index, indexed, made, spoiled, replaced, gone, since, hurt>>
  BY DEF ForgetUserData, Changes
<1>3. mem[p] \in SUBSET Episode /\ Ids(mem[p]) \in SUBSET Ages
  BY <1>1 DEF TypeOK, Ids, Episode
<1>4. j \in [next : Places, topic : Topics \cup {NoTopic}, out : SUBSET Ages] /\ j.out = Ids(mem[p])
  BY <1>3 DEF Places
<1> HIDE DEF j
<1>5. /\ pc'[p] = "drop" /\ mem'[p] = {} /\ job'[p] = j
      /\ disk'.rows = {} /\ ~disk'.torn /\ Ends(disk') /\ Apart(p)
  BY <1>1, <1>2, WholeFile DEF TypeOK, Apart
<1>6. TypeOK'
  <2>1. disk' \in Jsonl /\ mixed' \in SUBSET Procs
    BY <1>2, WholeFile DEF Writers
  <2>2. mem' \in [Procs -> SUBSET Episode] /\ pc' \in [Procs -> Places]
    BY <1>1, <1>2 DEF TypeOK, Places
  <2>3. job' \in [Procs -> [next : Places, topic : Topics \cup {NoTopic}, out : SUBSET Ages]]
    BY <1>1, <1>2, <1>4 DEF TypeOK
  <2>4. QED
    BY <1>1, <1>2, <2>1, <2>2, <2>3 DEF TypeOK
<1>7. /\ ~Closed(p) /\ ~Closed(p)' /\ (Alone' <=> Alone) /\ (Undamaged' <=> Undamaged)
      /\ (Undisturbed' <=> Undisturbed)
  BY <1>1, <1>2, <1>5 DEF Closed, Alone, Undamaged, Undisturbed
<1>8. /\ Ids(disk.rows)' = {} /\ Ids(mem[p])' = {} /\ Sound(disk.rows)' /\ Sound(mem[p])'
      /\ OneActive(disk.rows)' /\ OneActive(mem[p])'
  BY <1>5 DEF Ids, Sound, OneActive
<1>9. (Alone /\ Undamaged => acked' \ spoiled' = {}) /\ Own(p)' = {}
  BY <1>1, <1>2, <1>7 DEF Fresh, Own, Closed
<1>10. Shared'
  BY <1>1, <1>2, <1>5, <1>7, <1>8, <1>9 DEF Shared, Closed, Apart, Ends
<1>11. Local(p)'
  <2>1. \A i \in Ids(mem[p]) : i <= made
    BY <1>1 DEF Local, Sound, Ids
  <2>2. ~Appending(p)'
    BY <1>5 DEF Appending
  <2>3. QED
    BY <1>2, <1>4, <1>5, <1>7, <1>8, <2>1, <2>2 DEF Local
<1>12. Fresh(p)'
  BY <1>5, <1>7, <1>8, <1>9 DEF Fresh
<1>13. made <= made' /\ hurt \subseteq hurt' /\ Entitled(p) /\ Mixes(p)
  <2>1. made \in Nat /\ made' = made
    BY <1>1, <1>2, BoundsAssumption DEF TypeOK
  <2>2. made <= made'
    BY <2>1
  <2>3. QED
    BY <1>2, <1>7, <2>2, WriterIsEntitled
<1>14. QED
  BY <1>5, <1>6, <1>10, <1>11, <1>12, <1>13, CoreKept

LEMMA LoadEpisodesKeeps ==
  ASSUME Core, NEW p \in Procs, LoadEpisodes(p)
  PROVE  Core'
<1>1. TypeOK /\ Shared /\ Local(p) /\ Fresh(p) /\ pc[p] = "off"
  BY DEF Core, LoadEpisodes
<1>2. PICK rows \in Visible : mem' = [mem EXCEPT ![p] = rows]
  BY DEF LoadEpisodes
<1>3. PICK w \in {"malformed", "waiting"} : pc' = [pc EXCEPT ![p] = w]
  BY DEF LoadEpisodes
<1>4. /\ hurt' = IF \A q \in Procs : pc[q] = "off" THEN hurt ELSE hurt \cup {"overlap"}
      /\ UNCHANGED <<disk, mixed, index, indexed, job, made, acked, spoiled, replaced, gone, since>>
  BY DEF LoadEpisodes, records, file
<1>5. /\ rows \in SUBSET Episode /\ Sound(rows)
      /\ Writers = {} => rows = disk.rows
  BY VisibleRows
<1>6. pc'[p] = w /\ mem'[p] = rows /\ Apart(p)
  BY <1>1, <1>2, <1>3, <1>4 DEF TypeOK, Apart
<1>7. TypeOK'
  <2>1. mem' \in [Procs -> SUBSET Episode] /\ pc' \in [Procs -> Places]
    BY <1>1, <1>2, <1>3, <1>5 DEF TypeOK, Places
  <2>2. hurt' \in SUBSET Hurts
    BY <1>1, <1>4 DEF TypeOK, Hurts
  <2>3. QED
    BY <1>1, <1>4, <2>1, <2>2 DEF TypeOK
<1>8. /\ Closed(p) /\ Closed(p)' /\ hurt \subseteq hurt' /\ (Undamaged' <=> Undamaged)
      /\ (Intact' <=> Intact) /\ (Alone' => Alone /\ \A q \in Procs : pc[q] = "off")
      /\ p \notin Writers /\ Writers' = Writers
  BY <1>1, <1>4, <1>6 DEF Closed, Alone, Undamaged, Intact, Writers, Apart
<1>9. Shared'
  BY <1>1, <1>4, <1>6, <1>8 DEF Shared, Closed, Apart, Sound, Ends
<1>10. Local(p)'
  <2>1. Sound(mem[p])' /\ job'[p] = Idle /\ ~Appending(p)'
    BY <1>1, <1>4, <1>5, <1>6, <1>8 DEF Local, Sound, Appending
  <2>2. QED
    BY <1>6, <2>1 DEF Local, Idle
<1>11. Fresh(p)'
  <2>1. Alone' => Writers = {} /\ rows = disk.rows
    BY <1>5, <1>8 DEF Writers
  <2>2. Ids(mem[p])' = Ids(rows) /\ (OneActive(mem[p])' <=> OneActive(rows))
    BY <1>6 DEF Ids, OneActive
  <2>3. QED
    BY <1>1, <1>4, <1>6, <1>8, <2>1, <2>2 DEF Fresh, Shared
<1>12. made <= made' /\ Entitled(p) /\ Mixes(p)
  BY <1>1, <1>4, <1>8, BoundsAssumption DEF TypeOK, Entitled, Mixes
<1>13. QED
  BY <1>6, <1>7, <1>8, <1>9, <1>10, <1>11, <1>12, CoreKept

\* A file that is mended: nothing is in it that the mender has not read, if
\* it is alone.
LEMMA MendingKeeps ==
  ASSUME Core, NEW p \in Procs, NEW f \in Jsonl, NEW w \in {"mending", "waiting"},
         pc[p] \in {"malformed", "mending"}, Sound(f.rows), Ends(f),
         Alone => f.rows \subseteq mem[p] /\ ~f.torn /\ (w = "waiting" => f.rows = mem[p]),
         Changes(p, f), pc' = [pc EXCEPT ![p] = w], hurt' = hurt \cup Intruding(p),
         UNCHANGED <<index, mem, indexed, job, made, records>>
  PROVE  Core'
<1>1. TypeOK /\ Shared /\ Local(p) /\ Fresh(p) /\ pc[p] # "off"
  BY DEF Core
<1>2. /\ disk' = f /\ mixed' = Writers \ {p}
      /\ UNCHANGED <<index, mem, indexed, job, made, acked, spoiled, replaced, gone, since>>
  BY DEF Changes, records
<1>3. pc'[p] = w /\ Apart(p)
  BY <1>1, <1>2 DEF TypeOK, Apart
<1>4. TypeOK'
  <2>1. pc' \in [Procs -> Places] /\ hurt' \in SUBSET Hurts
    BY <1>1 DEF TypeOK, Places, Hurts, Intruding
  <2>2. mixed' \in SUBSET Procs
    BY <1>2 DEF Writers
  <2>3. QED
    BY <1>1, <1>2, <2>1, <2>2 DEF TypeOK
<1>5. /\ Closed(p) /\ Closed(p)' /\ hurt \subseteq hurt' /\ (Undamaged' <=> Undamaged)
      /\ (Intact' <=> Intact) /\ (Alone' <=> Alone) /\ (Locked => ~Undisturbed')
  BY <1>3 DEF Closed, Alone, Undamaged, Undisturbed, Intact, Intruding
<1>6. /\ Ids(disk.rows)' = Ids(f.rows) /\ (OneActive(disk.rows)' <=> OneActive(f.rows))
      /\ Sound(disk.rows)' /\ Ends(disk)' /\ Sound(mem[p])'
  BY <1>1, <1>2 DEF Ids, OneActive, Local, Sound, Ends
<1>7. Alone => /\ f.rows \subseteq mem[p] /\ ~f.torn /\ (w = "waiting" => f.rows = mem[p])
               /\ gone \cap Ids(mem[p]) = {} /\ OneActive(mem[p])
               /\ Undamaged => acked \ spoiled \subseteq Ids(mem[p])
  BY <1>1 DEF Fresh
<1>8. Shared'
  <2>1. Alone => gone \cap Ids(f.rows) = {} /\ OneActive(f.rows)
    BY <1>7 DEF Ids, OneActive
  <2>2. Alone /\ Undamaged /\ Writers' = {} => acked \ spoiled \subseteq Ids(f.rows)
    BY <1>3, <1>7 DEF Writers
  <2>3. QED
    BY <1>1, <1>2, <1>3, <1>5, <1>6, <1>7, <2>1, <2>2 DEF Shared, Closed, Apart
<1>9. Local(p)'
  BY <1>1, <1>2, <1>3, <1>5, <1>6 DEF Local, Appending, Idle
<1>10. Fresh(p)'
  BY <1>2, <1>5, <1>7 DEF Fresh
<1>11. made <= made' /\ Entitled(p) /\ Mixes(p)
  BY <1>1, <1>2, <1>5, BoundsAssumption DEF TypeOK, Entitled, Mixes
<1>12. QED
  BY <1>3, <1>4, <1>5, <1>8, <1>9, <1>10, <1>11, CoreKept

LEMMA MendKeeps ==
  ASSUME Core, NEW p \in Procs, MendStarts(p) \/ MendEnds(p)
  PROVE  Core'
<1>1. CASE MendStarts(p)
  <2>1. {} \in SUBSET Episode /\ Sound({})
    BY DEF Sound
  <2>2. /\ File({}) \in Jsonl /\ File({}).rows = {} /\ ~File({}).torn /\ Ends(File({}))
    BY <2>1, WholeFile
  <2>3. QED
    BY <1>1, <2>1, <2>2, MendingKeeps DEF MendStarts
<1>2. CASE MendEnds(p)
  <2>1. PICK f \in Complete(p) : Changes(p, f)
    BY <1>2 DEF MendEnds
  <2>2. Alone => p \notin mixed
    BY DEF Core, Mixing
  <2>3. QED
    BY <1>2, <2>1, <2>2, CompleteFiles, MendingKeeps DEF MendEnds
<1>3. QED
  BY <1>1, <1>2

LEMMA AcquireKeeps ==
  ASSUME Core, NEW p \in Procs, Acquire(p)
  PROVE  Core'
<1>1. TypeOK /\ Shared /\ Local(p) /\ Fresh(p) /\ pc[p] = "waiting" /\ ~Locked
  BY DEF Core, Acquire
<1>2. /\ pc' = [pc EXCEPT ![p] = "open"] /\ since' = [since EXCEPT ![p] = made]
      /\ UNCHANGED <<disk, mixed, index, mem, job, made, acked, spoiled, replaced, gone>>
  BY DEF Acquire, file
<1>3. PICK opened \in BOOLEAN :
        /\ indexed' = [indexed EXCEPT ![p] = opened]
        /\ hurt' = IF opened THEN hurt ELSE hurt \cup {"failure"}
  BY DEF Acquire
<1>4. pc'[p] = "open" /\ since'[p] = made /\ Apart(p)
  BY <1>1, <1>2, <1>3 DEF TypeOK, Apart
<1>5. TypeOK'
  <2>1. pc' \in [Procs -> Places] /\ since' \in [Procs -> 0..MaxEpisodes]
    BY <1>1, <1>2 DEF TypeOK, Places
  <2>2. hurt' \in SUBSET Hurts
    BY <1>1, <1>3 DEF TypeOK, Hurts
  <2>3. indexed' \in [Procs -> BOOLEAN]
    BY <1>1, <1>3 DEF TypeOK
  <2>4. QED
    BY <1>1, <1>2, <2>1, <2>2, <2>3 DEF TypeOK
<1>6. /\ Closed(p) /\ hurt \subseteq hurt' /\ (Undamaged' <=> Undamaged) /\ (Alone' <=> Alone)
      /\ (Intact' <=> Intact) /\ p \notin Writers /\ Writers' = Writers
      /\ \A q \in Procs : Closed(q)
  BY <1>1, <1>3, <1>4 DEF Closed, Alone, Undamaged, Intact, Locked, Writers, Apart
<1>7. Shared'
  BY <1>1, <1>2, <1>4, <1>6 DEF Shared, Closed, Apart, Sound, Ends
<1>8. Local(p)'
  <2>1. Sound(mem[p])' /\ job'[p] = Idle /\ ~Appending(p)'
    BY <1>1, <1>2, <1>4, <1>6 DEF Local, Sound, Appending
  <2>2. QED
    BY <1>4, <2>1 DEF Local, Idle
<1>9. Fresh(p)'
  <2>1. \A i \in acked : i <= made /\ i \in Int
    BY <1>1 DEF Shared, TypeOK, Ages
  <2>2. Own(p)' = {}
    BY <1>1, <1>2, <1>4, <2>1, BoundsAssumption DEF Own, TypeOK
  <2>3. QED
    BY <1>1, <1>2, <1>4, <1>6, <2>2 DEF Fresh
<1>10. made <= made' /\ Entitled(p) /\ Mixes(p)
  BY <1>1, <1>2, <1>6, BoundsAssumption DEF TypeOK, Entitled, Mixes
<1>11. QED
  BY <1>4, <1>5, <1>6, <1>7, <1>8, <1>9, <1>10, CoreKept

\* A process that leaves gives up the lock, its memory and its job.
LEMMA Left ==
  ASSUME TypeOK, NEW p \in Procs, Forgets(p), UNCHANGED <<index, acked, replaced, gone, since>>,
         disk' \in Jsonl, mixed' \in SUBSET Procs, made' \in 0..MaxEpisodes,
         spoiled' \in SUBSET Ages, hurt' \in SUBSET Hurts
  PROVE  /\ pc'[p] = "off" /\ Closed(p)' /\ mem'[p] = {} /\ job'[p] = Idle /\ Apart(p)
         /\ TypeOK' /\ Local(p)' /\ Fresh(p)' /\ Writers' = Writers \ {p}
<1>1. /\ pc' = [pc EXCEPT ![p] = "off"] /\ mem' = [mem EXCEPT ![p] = {}]
      /\ job' = [job EXCEPT ![p] = Idle] /\ indexed' = [indexed EXCEPT ![p] = FALSE]
  BY DEF Forgets
<1>2. pc'[p] = "off" /\ mem'[p] = {} /\ job'[p] = Idle /\ Apart(p)
  BY <1>1 DEF TypeOK, Apart
<1>3. TypeOK'
  <2>1. Idle \in [next : Places, topic : Topics \cup {NoTopic}, out : SUBSET Ages]
    BY DEF Places, Idle
  <2>2. job' \in [Procs -> [next : Places, topic : Topics \cup {NoTopic}, out : SUBSET Ages]]
    BY <1>1, <2>1 DEF TypeOK
  <2>3. mem' \in [Procs -> SUBSET Episode] /\ indexed' \in [Procs -> BOOLEAN]
    BY <1>1 DEF TypeOK
  <2>4. pc' \in [Procs -> Places]
    BY <1>1 DEF TypeOK, Places
  <2>5. QED
    BY <2>2, <2>3, <2>4 DEF TypeOK
<1>4. Closed(p)' /\ Writers' = Writers \ {p}
  BY <1>2 DEF Closed, Writers, Apart
<1>5. Local(p)'
  <2>1. Sound(mem[p])' /\ job'[p].out = {} /\ ~Appending(p)'
    BY <1>2 DEF Sound, Idle, Appending
  <2>2. QED
    BY <1>2, <2>1 DEF Local
<1>6. Fresh(p)'
  BY <1>2, <1>4 DEF Fresh
<1>7. QED
  BY <1>2, <1>3, <1>4, <1>5, <1>6

\* Leaving while nothing is being written.
LeavesQuietly(p) == Forgets(p) /\ p \notin Writers /\ UNCHANGED <<file, index, made, records, hurt>>

LEMMA WaysToLeave ==
  ASSUME NEW p \in Procs, AcquireTimesOut(p) \/ Close(p) \/ Die(p)
  PROVE  /\ Forgets(p) /\ UNCHANGED <<index, acked, replaced, gone, since>> /\ pc[p] # "off"
         /\ LeavesQuietly(p) \/ CutWrite(p) \/ CutAppend(p) \/ CutNewline(p)
<1>1. CASE AcquireTimesOut(p) \/ Close(p)
  BY <1>1 DEF AcquireTimesOut, Close, LeavesQuietly, Writers, records
<1>2. CASE Die(p)
  BY <1>2 DEF Die, LeavesQuietly, records
<1>3. QED
  BY <1>1, <1>2

LEMMA QuietLeavingKeeps ==
  ASSUME Core, NEW p \in Procs, LeavesQuietly(p), pc[p] # "off"
  PROVE  Core'
<1>1. TypeOK /\ Shared /\ Forgets(p) /\ p \notin Writers
  BY DEF Core, LeavesQuietly
<1>2. UNCHANGED <<disk, mixed, index, made, acked, spoiled, replaced, gone, since, hurt>>
  BY DEF LeavesQuietly, file, records
<1>3. /\ pc'[p] = "off" /\ Closed(p)' /\ Apart(p)
      /\ TypeOK' /\ Local(p)' /\ Fresh(p)' /\ Writers' = Writers
  <2>1. /\ disk' \in Jsonl /\ mixed' \in SUBSET Procs /\ made' \in 0..MaxEpisodes
        /\ spoiled' \in SUBSET Ages /\ hurt' \in SUBSET Hurts
    BY <1>1, <1>2 DEF TypeOK
  <2>2. QED
    BY <1>1, <1>2, <2>1, Left
<1>4. /\ (Alone' <=> Alone) /\ (Undamaged' <=> Undamaged) /\ (Intact' <=> Intact)
      /\ hurt \subseteq hurt'
  BY <1>2 DEF Alone, Undamaged, Intact
<1>5. Shared'
  BY <1>1, <1>2, <1>3, <1>4 DEF Shared, Closed, Apart, Sound, Ends
<1>6. made <= made' /\ Entitled(p) /\ Mixes(p)
  BY <1>1, <1>2, BoundsAssumption DEF TypeOK, Entitled, Mixes
<1>7. QED
  BY <1>3, <1>4, <1>5, <1>6, CoreKept

LEMMA CutWriteKeeps ==
  ASSUME Core, NEW p \in Procs, Forgets(p), UNCHANGED <<index, acked, replaced, gone, since>>,
         CutWrite(p)
  PROVE  Core'
<1>1. TypeOK /\ Shared /\ Local(p) /\ Fresh(p) /\ pc[p] # "off" /\ p \in Writers
  BY DEF Core, CutWrite, Writers
<1>2. PICK f \in Partial(p) : disk' = f /\ mixed' = Writers \ {p}
  BY DEF CutWrite, Changes
<1>3. /\ f \in Jsonl /\ Sound(f.rows) /\ Ends(f)
      /\ Alone => f.rows \subseteq mem[p]
  <2>1. Alone => p \notin mixed
    BY DEF Core, Mixing
  <2>2. QED
    BY <2>1, PartialFiles
<1>4. hurt' = hurt \cup {"damage"} \cup Intruding(p) /\ UNCHANGED <<made, spoiled>>
  BY DEF CutWrite
<1>5. hurt' \in SUBSET Hurts /\ mixed' \in SUBSET Procs
  BY <1>1, <1>2, <1>4 DEF TypeOK, Hurts, Intruding, Writers
<1>6. /\ pc'[p] = "off" /\ Closed(p)' /\ Apart(p)
      /\ TypeOK' /\ Local(p)' /\ Fresh(p)'
  BY <1>1, <1>2, <1>3, <1>4, <1>5, Left DEF TypeOK
<1>7. /\ ~Undamaged' /\ ~Intact' /\ (Alone' <=> Alone) /\ hurt \subseteq hurt'
      /\ (Closed(p) /\ Locked => ~Undisturbed')
  BY <1>4 DEF Undamaged, Alone, Undisturbed, Intact, Intruding
<1>8. Sound(disk.rows)' /\ Ends(disk)'
  BY <1>2, <1>3, <1>4 DEF Sound, Ends
<1>9. Alone => gone' \cap Ids(disk.rows)' = {} /\ OneActive(disk.rows)'
  BY <1>1, <1>2, <1>3 DEF Fresh, Ids, OneActive
<1>10. Shared'
  BY <1>1, <1>4, <1>6, <1>7, <1>8, <1>9 DEF Shared, Closed, Apart
<1>11. made <= made' /\ Entitled(p) /\ Mixes(p)
  BY <1>1, <1>2, <1>4, <1>7, BoundsAssumption DEF TypeOK, Entitled, Mixes
<1>12. QED
  BY <1>6, <1>7, <1>10, <1>11, CoreKept

LEMMA CutAppendKeeps ==
  ASSUME Core, NEW p \in Procs, Forgets(p), UNCHANGED <<index, acked, replaced, gone, since>>,
         CutAppend(p)
  PROVE  Core'
<1>1. TypeOK /\ Shared /\ Local(p) /\ Fresh(p) /\ pc[p] = "append" /\ disk \in Jsonl /\ Ends(disk)
  BY DEF Core, CutAppend, Shared, TypeOK
<1>2. PICK ok \in BOOLEAN :
        /\ disk' = [disk EXCEPT !.rows = @ \ disk.last, !.torn = TRUE, !.last = {},
                                !.readable = @ /\ ok]
        /\ mixed' = Writers \ {p}
  BY DEF CutAppend, Changes
<1>3. /\ spoiled' = spoiled \cup Ids(disk.last) /\ made' = made
      /\ hurt' = hurt \cup {"torn"}
  BY DEF CutAppend
<1>4. disk' \in Jsonl /\ disk'.rows = disk.rows \ disk.last /\ disk'.last = {} /\ Ends(disk')
  BY <1>1, <1>2 DEF Jsonl, Ends
<1>5. hurt' \in SUBSET Hurts /\ mixed' \in SUBSET Procs /\ spoiled' \in SUBSET Ages
  <2>1. Ids(disk.last) \in SUBSET Ages
    BY <1>1 DEF Jsonl, Ids, Episode
  <2>2. QED
    BY <1>1, <1>2, <1>3, <2>1 DEF TypeOK, Hurts, Writers
<1>6. /\ pc'[p] = "off" /\ Closed(p)' /\ Apart(p)
      /\ TypeOK' /\ Local(p)' /\ Fresh(p)' /\ Writers' = Writers
  <2>1. p \notin Writers /\ made' \in 0..MaxEpisodes
    BY <1>1, <1>3 DEF Writers, TypeOK
  <2>2. QED
    BY <1>1, <1>4, <1>5, <2>1, Left
<1>7. /\ ~Intact' /\ (Alone' <=> Alone) /\ (Undamaged' <=> Undamaged) /\ hurt \subseteq hurt'
      /\ ~Closed(p)
  BY <1>1, <1>3 DEF Undamaged, Alone, Intact, Closed
<1>8. Sound(disk.rows)'
  BY <1>1, <1>3, <1>4 DEF Shared, Sound
<1>9. Alone => gone' \cap Ids(disk.rows)' = {} /\ OneActive(disk.rows)'
  BY <1>1, <1>4 DEF Shared, Ids, OneActive
<1>10. Alone /\ Undamaged /\ Writers = {} => acked' \ spoiled' \subseteq Ids(disk.rows)'
  <2>1. Ids(disk.rows) \subseteq Ids(disk.rows)' \cup Ids(disk.last)
    BY <1>4 DEF Ids
  <2>2. QED
    BY <1>1, <1>3, <2>1 DEF Shared
<1>11. Shared'
  BY <1>1, <1>3, <1>4, <1>6, <1>7, <1>8, <1>9, <1>10 DEF Shared, Closed, Apart
<1>12. made <= made' /\ Entitled(p) /\ Mixes(p)
  BY <1>1, <1>2, <1>3, <1>7, WriterIsEntitled, BoundsAssumption DEF TypeOK
<1>13. QED
  BY <1>6, <1>7, <1>11, <1>12, CoreKept

LEMMA CutNewlineKeeps ==
  ASSUME Core, NEW p \in Procs, Forgets(p), UNCHANGED <<index, acked, replaced, gone, since>>,
         CutNewline(p)
  PROVE  Core'
<1> DEFINE r == NewRow(p)
<1>1. /\ TypeOK /\ Shared /\ Local(p) /\ Fresh(p) /\ pc[p] = "append"
      /\ disk \in Jsonl /\ Ends(disk) /\ Sound(disk.rows) /\ made < MaxEpisodes
      /\ \A s \in mem[p] : s.topic = job[p].topic /\ s.topic # NoTopic => ~s.active
  BY DEF Core, CutNewline, Local, Appending, Shared, TypeOK
<1>2. /\ disk' = [disk EXCEPT !.rows = @ \cup {r}, !.torn = TRUE, !.last = {r}]
      /\ mixed' = Writers \ {p} /\ made' = made + 1 /\ spoiled' = spoiled
      /\ hurt' = hurt \cup {"torn"}
  BY DEF CutNewline, Changes
<1>3. made \in Nat /\ made + 1 \in Ages /\ made' \in 0..MaxEpisodes
  BY <1>1, <1>2, BoundsAssumption DEF TypeOK, Ages
<1>4. r \in Episode /\ r.id = made + 1 /\ r.topic = job[p].topic
  BY <1>1, <1>3 DEF TypeOK, Episode, NewRow
<1> HIDE DEF r
<1>5. disk' \in Jsonl /\ disk'.rows = disk.rows \cup {r} /\ Ends(disk')
  BY <1>1, <1>2, <1>4 DEF Jsonl, Ends
<1>6. hurt' \in SUBSET Hurts /\ mixed' \in SUBSET Procs /\ spoiled' \in SUBSET Ages
  BY <1>1, <1>2 DEF TypeOK, Hurts, Writers
<1>7. /\ pc'[p] = "off" /\ Closed(p)' /\ Apart(p)
      /\ TypeOK' /\ Local(p)' /\ Fresh(p)' /\ Writers' = Writers
  <2>1. p \notin Writers
    BY <1>1 DEF Writers
  <2>2. QED
    BY <1>1, <1>3, <1>5, <1>6, <2>1, Left
<1>8. /\ ~Intact' /\ (Alone' <=> Alone) /\ (Undamaged' <=> Undamaged) /\ hurt \subseteq hurt'
      /\ ~Closed(p)
  BY <1>1, <1>2 DEF Undamaged, Alone, Intact, Closed
<1>9. Sound(disk.rows)'
  <2>1. \A s \in disk.rows : s.id <= made /\ s.id \in Int
    BY <1>1 DEF Sound, Jsonl, Episode, Ages
  <2>2. \A s, u \in disk.rows : s.id = u.id => s = u
    BY <1>1 DEF Sound
  <2>3. \A s, u \in disk'.rows : s.id <= made + 1 /\ (s.id = u.id => s = u)
    BY <1>3, <1>4, <1>5, <2>1, <2>2
  <2>4. QED
    BY <1>2, <2>3 DEF Sound
<1>10. Ids(disk.rows)' = Ids(disk.rows) \cup {made + 1}
  BY <1>4, <1>5 DEF Ids
<1>11. \A i \in acked \cup gone : i <= made /\ i \in Int /\ i # made + 1
  BY <1>1, <1>3 DEF Shared, TypeOK, Ages
<1>12. Alone => gone' \cap Ids(disk.rows)' = {} /\ OneActive(disk.rows)'
  <2>1. Alone => gone \cap Ids(disk.rows) = {} /\ OneActive(disk.rows) /\ disk.rows \subseteq mem[p]
    BY <1>1 DEF Shared, Fresh
  <2>2. Alone => OneActive(disk.rows)'
    BY <1>1, <1>4, <1>5, <2>1 DEF OneActive
  <2>3. QED
    BY <1>10, <1>11, <2>1, <2>2
<1>13. Alone /\ Undamaged /\ Writers = {} => acked' \ spoiled' \subseteq Ids(disk.rows)'
  BY <1>1, <1>2, <1>10 DEF Shared
<1>14. \A i \in acked' \cup gone' : i <= made'
  BY <1>2, <1>3, <1>11
<1>15. Shared'
  BY <1>1, <1>5, <1>7, <1>8, <1>9, <1>12, <1>13, <1>14 DEF Shared, Closed, Apart
<1>16. made <= made'
  <2>1. made' = made + 1
    BY <1>2
  <2>2. QED
    BY <1>3, <2>1
<1>17. Entitled(p) /\ Mixes(p)
  BY <1>2, <1>8, WriterIsEntitled
<1>18. QED
  BY <1>7, <1>8, <1>15, <1>16, <1>17, CoreKept

LEMMA LeavingKeeps ==
  ASSUME Core, NEW p \in Procs, AcquireTimesOut(p) \/ Close(p) \/ Die(p)
  PROVE  Core'
BY WaysToLeave, QuietLeavingKeeps, CutWriteKeeps, CutAppendKeeps, CutNewlineKeeps

LEMMA RewriteEndsKeeps ==
  ASSUME Core, NEW p \in Procs, RewriteEnds(p)
  PROVE  Core'
<1>1. /\ TypeOK /\ Shared /\ Local(p) /\ Fresh(p) /\ pc[p] = "rewriting"
      /\ job[p].next \in {"open", "append", "unindex", "rebuild"}
  BY DEF Core, RewriteEnds, Local
<1>2. PICK f \in Complete(p) : disk' = f /\ mixed' = Writers \ {p}
  BY DEF RewriteEnds, Changes
<1>3. /\ pc' = [pc EXCEPT ![p] = job[p].next] /\ spoiled' = spoiled \ Ids(mem[p])
      /\ UNCHANGED <<index, mem, indexed, job, made, acked, replaced, gone, since, hurt>>
  BY DEF RewriteEnds
<1>4. /\ f \in Jsonl /\ Sound(f.rows) /\ Ends(f)
      /\ p \notin mixed => f.rows = mem[p] /\ ~f.torn
  BY CompleteFiles
<1>5. pc'[p] = job[p].next /\ Apart(p)
  BY <1>1, <1>3 DEF TypeOK, Apart
<1>6. TypeOK'
  <2>1. pc' \in [Procs -> Places]
    BY <1>1, <1>3 DEF TypeOK, Places
  <2>2. mixed' \in SUBSET Procs
    BY <1>2 DEF Writers
  <2>3. QED
    BY <1>1, <1>2, <1>3, <1>4, <2>1, <2>2 DEF TypeOK
<1>7. /\ ~Closed(p) /\ ~Closed(p)' /\ (Alone' <=> Alone) /\ (Undamaged' <=> Undamaged)
      /\ (Undisturbed' <=> Undisturbed)
  BY <1>1, <1>3, <1>5 DEF Closed, Alone, Undamaged, Undisturbed
<1>8. (Alone => p \notin mixed) /\ (Undisturbed => p \notin mixed)
  BY <1>7 DEF Core, Mixing
<1>9. /\ Sound(disk.rows)' /\ Ends(disk)' /\ Sound(mem[p])'
      /\ p \notin mixed =>
           Ids(disk.rows)' = Ids(mem[p]) /\ (OneActive(disk.rows)' <=> OneActive(mem[p]))
  BY <1>1, <1>2, <1>3, <1>4 DEF Ids, OneActive, Local, Sound, Ends
<1>10. Shared'
  <2>1. Alone => /\ gone \cap Ids(mem[p]) = {} /\ OneActive(mem[p])
                 /\ Undamaged => acked \ spoiled \subseteq Ids(mem[p])
    BY <1>1 DEF Fresh
  <2>2. QED
    BY <1>1, <1>2, <1>3, <1>4, <1>5, <1>7, <1>8, <1>9, <2>1 DEF Shared, Closed, Apart
<1>11. Local(p)'
  <2>1. \A i \in job'[p].out : i <= made' /\ i \notin Ids(mem[p])'
    BY <1>1, <1>3 DEF Local
  <2>2. Appending(p)' =>
          /\ made' < MaxEpisodes
          /\ \A r \in mem'[p] : r.topic = job'[p].topic /\ r.topic # NoTopic => ~r.active
    BY <1>1, <1>3, <1>5 DEF Local, Appending
  <2>3. pc'[p] \notin {"off", "rewriting", "index"}
    BY <1>1, <1>5
  <2>4. QED
    BY <1>7, <1>9, <2>1, <2>2, <2>3 DEF Local
<1>12. Fresh(p)'
  <2>1. Own(p)' = Own(p)
    BY <1>3 DEF Own
  <2>2. QED
    BY <1>1, <1>2, <1>3, <1>4, <1>5, <1>7, <1>8, <1>9, <2>1 DEF Fresh
<1>13. made <= made' /\ hurt \subseteq hurt' /\ Entitled(p) /\ Mixes(p)
  <2>1. made \in Nat /\ made' = made
    BY <1>1, <1>3, BoundsAssumption DEF TypeOK
  <2>2. made <= made'
    BY <2>1
  <2>3. QED
    BY <1>2, <1>3, <1>7, <2>2, WriterIsEntitled
<1>14. QED
  BY <1>5, <1>6, <1>7, <1>10, <1>11, <1>12, <1>13, CoreKept

\* A step that changes nothing.
LEMMA StutterKeeps ==
  ASSUME IInv, UNCHANGED vars
  PROVE  IInv'
<1>1. UNCHANGED <<disk, mixed, index, pc, mem, indexed, job, made, acked, spoiled, replaced, gone,
                  since, hurt>>
  BY DEF vars, records, file
<1>2. TypeOK' /\ Shared' /\ Mixing' /\ Indexed'
  BY <1>1 DEF IInv, Core, TypeOK, Shared, Mixing, Indexed, Closed, Sound, Ends, Ids, OneActive, Alone,
              Undamaged, Undisturbed, Intact, Writers
<1>3. ASSUME NEW p \in Procs
      PROVE  Local(p)' /\ Fresh(p)'
  BY <1>1 DEF IInv, Core, Local, Fresh, Closed, Sound, Ids, OneActive, Alone, Undamaged, Undisturbed,
              Appending, Own
<1>4. QED
  BY <1>2, <1>3 DEF IInv, Core

LEMMA StepKeepsCore ==
  ASSUME IInv, Next
  PROVE  Core'
<1>1. PICK p \in Procs : Step(p)
  BY DEF Next
<1>2. Core
  BY DEF IInv
<1>3. CASE LoadEpisodes(p)
  BY <1>2, <1>3, LoadEpisodesKeeps
<1>4. CASE LoadFails(p)
  BY <1>4, StutterKeeps DEF LoadFails, IInv
<1>5. CASE MendStarts(p) \/ MendEnds(p)
  BY <1>2, <1>5, MendKeeps
<1>6. CASE Acquire(p)
  BY <1>2, <1>6, AcquireKeeps
<1>7. CASE AcquireTimesOut(p) \/ Close(p) \/ Die(p)
  BY <1>2, <1>7, LeavingKeeps
<1>8. CASE RewriteEnds(p)
  BY <1>2, <1>8, RewriteEndsKeeps
<1>9. CASE Store(p)
  BY <1>2, <1>9, StoreKeeps
<1>10. CASE StoreTemporal(p)
  BY <1>2, <1>10, StoreTemporalKeeps
<1>11. CASE AppendRow(p)
  BY <1>2, <1>11, AppendKeeps
<1>12. CASE Index(p)
  BY <1>2, <1>12, IndexKeeps
<1>13. CASE Review(p)
  BY <1>2, <1>13, ReviewKeeps
<1>14. CASE DeleteEpisode(p)
  BY <1>2, <1>14, DeleteEpisodeKeeps
<1>15. CASE ForgetSession(p)
  BY <1>2, <1>15, ForgetSessionKeeps
<1>16. CASE ForgetUserData(p)
  BY <1>2, <1>16, ForgetUserDataKeeps
<1>17. CASE Unindex(p) \/ Rebuild(p) \/ Drop(p)
  BY <1>2, <1>17, UnindexKeeps
<1>18. CASE Reconcile(p)
  BY <1>2, <1>18, ReconcileKeeps
<1>19. QED
  BY <1>1, <1>3, <1>4, <1>5, <1>6, <1>7, <1>8, <1>9, <1>10, <1>11, <1>12, <1>13, <1>14, <1>15, <1>16,
     <1>17, <1>18 DEF Step

-----------------------------------------------------------------------------
(* The vector index.                                                       *)

Healthy == hurt \cap {"overlap", "failure"} = {}

\* While nothing overlaps and no operation on the index fails, the index is
\* the writer's; one without the index has nothing to find in it.
LEMMA HealthyIndex ==
  ASSUME Core, Indexed, Healthy, NEW p \in Procs, ~Closed(p)
  PROVE  /\ gone \cap index = {} /\ (~indexed[p] => index = {})
         /\ gone \cap Ids(mem[p]) = {}
         /\ \A q \in Procs : q # p => pc[q] = "off"
<1>1. Alone /\ pc[p] # "off" /\ Shared /\ Fresh(p)
  BY DEF Core, Healthy, Alone, Closed
<1>2. QED
  BY <1>1 DEF Indexed, Healthy, Shared, Fresh

\* Operations that leave the index and what is gone alone.
LEMMA IndexUntouched ==
  ASSUME Core, Indexed, NEW p \in Procs, UNCHANGED <<index, gone>>, hurt \subseteq hurt', Apart(p),
         ~Closed(p)' => ~Closed(p) /\ indexed'[p] = indexed[p]
  PROVE  Indexed'
<1>1. SUFFICES ASSUME Healthy'
               PROVE  /\ gone' \cap index' = {}
                      /\ \A q \in Procs : ~Closed(q)' /\ ~indexed'[q] => index' = {}
  BY DEF Indexed, Healthy
<1>2. Healthy
  BY <1>1 DEF Healthy
<1>3. ASSUME NEW q \in Procs, ~Closed(q)', ~indexed'[q]
      PROVE  ~Closed(q) /\ ~indexed[q]
  <2>1. CASE q = p
    BY <1>3, <2>1
  <2>2. CASE q # p
    BY <1>3, <2>2 DEF Apart, Closed
  <2>3. QED
    BY <2>1, <2>2
<1>4. QED
  BY <1>2, <1>3 DEF Indexed, Healthy

\* Operations of the writer on the index: they may only leave in it what is
\* not gone, and nothing if the writer has no index.
LEMMA IndexTouched ==
  ASSUME Core, Indexed, NEW p \in Procs, ~Closed(p), hurt \subseteq hurt', Apart(p), pc'[p] # "off",
         Healthy' => gone' \cap index' = {} /\ (~indexed'[p] => index' = {})
  PROVE  Indexed'
<1>1. SUFFICES ASSUME Healthy'
               PROVE  /\ gone' \cap index' = {}
                      /\ \A q \in Procs : ~Closed(q)' /\ ~indexed'[q] => index' = {}
  BY DEF Indexed, Healthy
<1>2. Healthy
  BY <1>1 DEF Healthy
<1>3. \A q \in Procs : q # p => Closed(q)'
  BY <1>2, HealthyIndex DEF Apart, Closed
<1>4. QED
  BY <1>1, <1>3

\* The operations that do not touch the index.
Writes(p) ==
  \/ RewriteEnds(p) \/ Store(p) \/ StoreTemporal(p) \/ AppendRow(p) \/ Review(p)
  \/ DeleteEpisode(p) \/ ForgetSession(p) \/ ForgetUserData(p)

LEMMA WritesApart ==
  ASSUME TypeOK, NEW p \in Procs, Writes(p)
  PROVE  /\ UNCHANGED <<index, gone, indexed, hurt>> /\ Apart(p) /\ ~Closed(p)
<1>1. CASE RewriteEnds(p)
  BY <1>1 DEF RewriteEnds, records, Apart, Closed, TypeOK
<1>2. CASE Store(p)
  BY <1>2 DEF Store, Rewrite, Apart, Closed, TypeOK
<1>3. CASE StoreTemporal(p)
  BY <1>3 DEF StoreTemporal, Rewrite, Apart, Closed, TypeOK
<1>4. CASE AppendRow(p)
  BY <1>4 DEF AppendRow, Apart, Closed, TypeOK
<1>5. CASE Review(p)
  BY <1>5 DEF Review, Rewrite, Apart, Closed, TypeOK
<1>6. CASE DeleteEpisode(p)
  BY <1>6 DEF DeleteEpisode, Rewrite, Apart, Closed, TypeOK
<1>7. CASE ForgetSession(p)
  BY <1>7 DEF ForgetSession, Rewrite, Apart, Closed, TypeOK
<1>8. CASE ForgetUserData(p)
  BY <1>8 DEF ForgetUserData, Apart, Closed, TypeOK
<1>9. QED
  BY <1>1, <1>2, <1>3, <1>4, <1>5, <1>6, <1>7, <1>8 DEF Writes

\* The operations that end with one on the index.
Touches(p) == Index(p) \/ Unindex(p) \/ Rebuild(p) \/ Drop(p) \/ Reconcile(p)

LEMMA TouchesApart ==
  ASSUME TypeOK, NEW p \in Procs, Touches(p)
  PROVE  hurt \subseteq hurt' /\ Apart(p) /\ ~Closed(p) /\ pc'[p] # "off"
<1>1. CASE Index(p)
  <2>1. pc' \in {[pc EXCEPT ![p] = "open"], [pc EXCEPT ![p] = "rewriting"]} /\ pc[p] = "index"
    BY <1>1 DEF Index, Rewrite
  <2>2. Apart(p)
    BY <1>1 DEF Index, Rewrite, Apart, TypeOK
  <2>3. hurt \subseteq hurt'
    BY <1>1 DEF Index, Indexes
  <2>4. QED
    BY <2>1, <2>2, <2>3 DEF Closed, TypeOK
<1>2. CASE Unindex(p)
  BY <1>2 DEF Unindex, Indexes, Removed, Apart, Closed, TypeOK
<1>3. CASE Rebuild(p)
  BY <1>3 DEF Rebuild, Indexes, Removed, Apart, Closed, TypeOK
<1>4. CASE Drop(p)
  <2>1. pc' = [pc EXCEPT ![p] = "open"] /\ pc[p] = "drop"
    BY <1>4 DEF Drop, Removed
  <2>2. Apart(p)
    BY <1>4 DEF Drop, Removed, Apart, TypeOK
  <2>3. hurt \subseteq hurt'
    BY <1>4 DEF Drop, Indexes
  <2>4. QED
    BY <2>1, <2>2, <2>3 DEF Closed, TypeOK
<1>5. CASE Reconcile(p)
  BY <1>5 DEF Reconcile, Indexes, records, Apart, Closed, TypeOK
<1>6. QED
  BY <1>1, <1>2, <1>3, <1>4, <1>5 DEF Touches

LEMMA TouchesKeepIndexed ==
  ASSUME Core, Indexed, NEW p \in Procs, Touches(p)
  PROVE  Indexed'
<1>1. TypeOK /\ Local(p) /\ hurt \subseteq hurt' /\ Apart(p) /\ ~Closed(p) /\ pc'[p] # "off"
  BY TouchesApart DEF Core
<1>2. SUFFICES ASSUME Healthy'
               PROVE  gone' \cap index' = {} /\ (~indexed'[p] => index' = {})
  BY <1>1, IndexTouched
<1>3. Healthy /\ "failure" \notin hurt'
  BY <1>1, <1>2 DEF Healthy
<1>4. /\ gone \cap index = {} /\ (~indexed[p] => index = {})
      /\ gone \cap Ids(mem[p]) = {} /\ job[p].out \cap Ids(mem[p]) = {}
  BY <1>1, <1>3, HealthyIndex DEF Local
<1>5. CASE Index(p)
  <2>1. Indexes(p, index \cup {made}, {index}) /\ UNCHANGED <<indexed, gone>> /\ made \notin gone
    BY <1>1, <1>5 DEF Index, Local
  <2>2. \/ ~indexed[p] /\ index' = index
        \/ indexed[p] /\ index' = index \cup {made}
    BY <1>3, <2>1 DEF Indexes
  <2>3. QED
    BY <1>4, <2>1, <2>2
<1>6. CASE Unindex(p)
  <2>1. /\ Indexes(p, index \ job[p].out, {index}) /\ UNCHANGED indexed
        /\ gone' = gone \cup job[p].out
    BY <1>6 DEF Unindex, Removed
  <2>2. \/ ~indexed[p] /\ index' = index
        \/ indexed[p] /\ index' = index \ job[p].out
    BY <1>3, <2>1 DEF Indexes
  <2>3. QED
    BY <1>4, <2>1, <2>2
<1>7. CASE Rebuild(p)
  <2>1. /\ Indexes(p, Ids(mem[p]), {index, {}}) /\ UNCHANGED indexed
        /\ gone' = gone \cup job[p].out
    BY <1>7 DEF Rebuild, Removed
  <2>2. \/ ~indexed[p] /\ index' = index
        \/ indexed[p] /\ index' = Ids(mem[p])
    BY <1>3, <2>1 DEF Indexes
  <2>3. QED
    BY <1>4, <2>1, <2>2
<1>8. CASE Drop(p)
  <2>1. Indexes(p, {}, {})
    BY <1>3, <1>8 DEF Drop
  <2>2. index' = {}
    BY <1>4, <2>1 DEF Indexes
  <2>3. QED
    BY <2>2
<1>9. CASE Reconcile(p)
  <2>1. indexed[p] /\ UNCHANGED <<indexed, gone>>
    BY <1>9 DEF Reconcile, records
  <2>2. index' = Ids(mem[p])
    BY <1>3, <1>9, <2>1 DEF Reconcile, Indexes
  <2>3. QED
    BY <1>4, <2>1, <2>2
<1>10. QED
  BY <1>5, <1>6, <1>7, <1>8, <1>9 DEF Touches

LEMMA StepKeepsIndexed ==
  ASSUME IInv, Next
  PROVE  Indexed'
<1>1. PICK p \in Procs : Step(p)
  BY DEF Next
<1>2. TypeOK /\ Core /\ Indexed
  BY DEF IInv, Core
<1>3. CASE LoadEpisodes(p) \/ MendStarts(p) \/ MendEnds(p)
  <2>1. UNCHANGED <<index, gone, indexed, job, since>> /\ hurt \subseteq hurt'
    BY <1>3 DEF LoadEpisodes, MendStarts, MendEnds, records
  <2>2. \E w \in {"malformed", "mending", "waiting"} : pc' = [pc EXCEPT ![p] = w]
    BY <1>3 DEF LoadEpisodes, MendStarts, MendEnds
  <2>3. mem' = mem \/ \E rows : mem' = [mem EXCEPT ![p] = rows]
    BY <1>3 DEF LoadEpisodes, MendStarts, MendEnds
  <2>4. Apart(p) /\ Closed(p)'
    BY <1>2, <2>1, <2>2, <2>3 DEF Apart, Closed, TypeOK
  <2>5. QED
    BY <1>2, <2>1, <2>4, IndexUntouched
<1>4. CASE AcquireTimesOut(p) \/ Close(p) \/ Die(p)
  <2>1. UNCHANGED <<index, gone, since>> /\ Forgets(p)
    BY <1>4, WaysToLeave
  <2>2. Apart(p) /\ Closed(p)'
    BY <1>2, <2>1 DEF Forgets, Apart, Closed, TypeOK
  <2>3. hurt \subseteq hurt'
    BY <1>4, WaysToLeave DEF LeavesQuietly, CutWrite, CutAppend, CutNewline
  <2>4. QED
    BY <1>2, <2>1, <2>2, <2>3, IndexUntouched
<1>5. CASE Acquire(p)
  <2>1. PICK opened \in BOOLEAN :
          /\ indexed' = [indexed EXCEPT ![p] = opened]
          /\ hurt' = IF opened THEN hurt ELSE hurt \cup {"failure"}
    BY <1>5 DEF Acquire
  <2>2. UNCHANGED <<index, gone>> /\ ~Locked
    BY <1>5 DEF Acquire
  <2>3. SUFFICES ASSUME Healthy'
                 PROVE  /\ gone' \cap index' = {}
                        /\ \A q \in Procs : ~Closed(q)' /\ ~indexed'[q] => index' = {}
    BY DEF Indexed, Healthy
  <2>4. Healthy /\ indexed' = [indexed EXCEPT ![p] = TRUE]
    BY <2>1, <2>3 DEF Healthy
  <2>5. \A q \in Procs : ~Closed(q)' => q = p
    BY <1>2, <1>5, <2>2 DEF Acquire, Locked, Closed, TypeOK
  <2>6. indexed'[p]
    BY <1>2, <2>4, Zenon DEF TypeOK
  <2>7. QED
    BY <1>2, <2>2, <2>4, <2>5, <2>6 DEF Indexed, Healthy
<1>6. CASE Writes(p)
  BY <1>2, <1>6, WritesApart, IndexUntouched
<1>7. CASE Touches(p)
  BY <1>2, <1>7, TouchesKeepIndexed
<1>8. CASE LoadFails(p)
  BY <1>8, StutterKeeps DEF LoadFails, IInv
<1>9. QED
  BY <1>1, <1>3, <1>4, <1>5, <1>6, <1>7, <1>8 DEF Step, Writes, Touches

-----------------------------------------------------------------------------
(* The theorems.                                                           *)

LEMMA InitIInv ==
  ASSUME Init
  PROVE  IInv
<1>1. TypeOK
  <2>1. /\ 0 \in 0..MaxEpisodes
        /\ Idle \in [next : Places, topic : Topics \cup {NoTopic}, out : SUBSET Ages]
    BY BoundsAssumption DEF Places, Idle
  <2>2. disk \in Jsonl
    BY DEF Init, Jsonl, File
  <2>3. QED
    BY <2>1, <2>2 DEF Init, TypeOK, Places
<1>2. Shared /\ Mixing
  <2>1. disk.rows = {} /\ disk.last = {} /\ ~disk.torn
    BY DEF Init, File
  <2>2. Writers = {} /\ (\A p \in Procs : Closed(p)) /\ Mixing
    BY DEF Init, Writers, Closed, Mixing
  <2>3. QED
    BY <2>1, <2>2 DEF Init, Shared, Sound, Ends, Ids, OneActive
<1>3. ASSUME NEW p \in Procs
      PROVE  Local(p) /\ Fresh(p)
  <2>1. pc[p] = "off" /\ mem[p] = {} /\ job[p] = Idle /\ Closed(p)
    BY DEF Init, Closed
  <2>2. Local(p)
    BY <2>1 DEF Local, Sound, Idle, Appending
  <2>3. Fresh(p)
    BY <2>1 DEF Fresh
  <2>4. QED
    BY <2>2, <2>3
<1>4. Indexed
  BY DEF Init, Indexed, Closed
<1>5. QED
  BY <1>1, <1>2, <1>3, <1>4 DEF IInv, Core

LEMMA StepKeepsIInv ==
  ASSUME IInv, [Next]_vars
  PROVE  IInv'
BY StepKeepsCore, StepKeepsIndexed, StutterKeeps DEF IInv

LEMMA IInvAlways == Spec => []IInv
<1>1. QED
  BY InitIInv, StepKeepsIInv, PTL DEF Spec

\* Every variable keeps its type.
THEOREM TypeCorrect == Spec => []TypeOK
<1>1. IInv => TypeOK
  BY DEF IInv, Core
<1>2. QED
  BY <1>1, IInvAlways, PTL

\* The writer lock protects what its holder has stored, however often other
\* processes read the file before they wait for it, and through files that
\* kills have cut, as long as no other process mends the file beside the holder.
THEOREM WriterKeepsItsOwn == Spec => []WriterKeepsOwn
<1>1. IInv => WriterKeepsOwn
  <2>1. SUFFICES ASSUME IInv, Undisturbed, NEW p \in Procs, ~Closed(p), pc[p] # "rewriting"
                 PROVE  {i \in acked \ spoiled : i > since[p]} \subseteq Ids(disk.rows)
    BY DEF WriterKeepsOwn, OwnIsStored, Undisturbed
  <2>2. Own(p) \ spoiled \subseteq Ids(disk.rows)
    BY <2>1 DEF IInv, Core, Fresh
  <2>3. QED
    BY <2>2 DEF Own
<1>2. QED
  BY <1>1, IInvAlways, PTL

\* Without overlapping openings nothing that was removed comes back.
THEOREM RemovedNeverReturns == Spec => []RemovedStaysRemoved
<1>1. IInv => RemovedStaysRemoved
  <2>1. SUFFICES ASSUME IInv, Alone
                 PROVE  /\ gone \cap Ids(disk.rows) = {}
                        /\ \A p \in Procs : gone \cap Ids(mem[p]) = {}
    BY DEF RemovedStaysRemoved, Alone
  <2>2. ASSUME NEW p \in Procs
        PROVE  gone \cap Ids(mem[p]) = {}
    <3>1. pc[p] = "off" => Ids(mem[p]) = {}
      BY <2>1 DEF IInv, Core, Local, Ids
    <3>2. pc[p] # "off" => gone \cap Ids(mem[p]) = {}
      BY <2>1 DEF IInv, Core, Fresh
    <3>3. QED
      BY <3>1, <3>2
  <2>3. QED
    BY <2>1, <2>2 DEF IInv, Core, Shared
<1>2. QED
  BY <1>1, IInvAlways, PTL

\* Without overlapping openings and kills during a rewrite no stored episode
\* is lost but those a kill during an append has spoiled.
THEOREM StoredIsSafe == Spec => []StoredIsKept
<1>1. IInv => StoredIsKept
  BY DEF IInv, Core, Shared, StoredIsKept, Alone, Undamaged
<1>2. QED
  BY <1>1, IInvAlways, PTL

\* Without overlapping openings a topic never has two active values.
THEOREM OneValue == Spec => []OneActiveValue
<1>1. IInv => OneActiveValue
  <2>1. SUFFICES ASSUME IInv, Alone
                 PROVE  OneActive(disk.rows) /\ \A p \in Procs : OneActive(mem[p])
    BY DEF OneActiveValue, Alone
  <2>2. ASSUME NEW p \in Procs
        PROVE  OneActive(mem[p])
    <3>1. pc[p] = "off" => OneActive(mem[p])
      BY <2>1 DEF IInv, Core, Local, OneActive
    <3>2. pc[p] # "off" => OneActive(mem[p])
      BY <2>1 DEF IInv, Core, Fresh
    <3>3. QED
      BY <3>1, <3>2
  <2>3. QED
    BY <2>1, <2>2 DEF IInv, Core, Shared
<1>2. QED
  BY <1>1, IInvAlways, PTL

\* Without overlapping openings and failures of the index nothing that was
\* removed can be found by vector search.
THEOREM RemovedIsNotFound == Spec => []RemovedIsUnindexed
<1>1. IInv => RemovedIsUnindexed
  BY DEF IInv, Indexed, RemovedIsUnindexed
<1>2. QED
  BY <1>1, IInvAlways, PTL
-----------------------------------------------------------------------------
(* The project is an EpisodeStore.                                         *)

\* While openings do not overlap, a process' memory is what is in the file,
\* but for the episode that was appended behind the unfinished end of the file
\* and the one it shares its line with.
Kept(p) ==
  Alone /\ pc[p] \notin {"off", "rewriting", "mending"} =>
    \/ mem[p] = disk.rows
    \/ /\ ~Intact /\ ~Closed(p) /\ ~disk.torn
       /\ \E r, s \in mem[p] : disk.rows = mem[p] \ {r, s}

StoreInv == Core /\ \A p \in Procs : Kept(p)

\* A process that stays out of the way while p makes a step.
LEMMA OthersStayKept ==
  ASSUME StoreInv, NEW p \in Procs, Apart(p), hurt \subseteq hurt',
         pc[p] # "off" \/ ~Alone' \/ (\A q \in Procs : pc[q] = "off"),
         NEW q \in Procs, q # p
  PROVE  Kept(q)'
<1>1. SUFFICES ASSUME Alone', pc'[q] # "off"
               PROVE  FALSE
  BY DEF Kept
<1>2. Alone /\ pc[q] # "off"
  BY <1>1 DEF Alone, Apart
<1>3. QED
  BY <1>1, <1>2 DEF StoreInv, Core, Shared

\* Operations that end with a file that was just written, or is being written.
LEMMA KeptByWriting ==
  ASSUME StoreInv, NEW p \in Procs, Apart(p), hurt \subseteq hurt', pc[p] # "off",
         pc'[p] \in {"off", "rewriting", "mending"} \/ mem'[p] = disk'.rows
  PROVE  \A q \in Procs : Kept(q)'
<1>1. Kept(p)'
  BY DEF Kept
<1>2. QED
  BY <1>1, OthersStayKept

\* Operations that change neither file nor memory.
LEMMA KeptByWaiting ==
  ASSUME StoreInv, NEW p \in Procs, Apart(p), hurt \subseteq hurt', 
         pc[p] \notin {"off", "rewriting", "mending"},
         mem'[p] = mem[p], UNCHANGED disk, Closed(p)' => Closed(p)
  PROVE  \A q \in Procs : Kept(q)'
<1>1. Kept(p)'
  BY DEF StoreInv, Kept, Alone, Intact
<1>2. QED
  BY <1>1, OthersStayKept

LEMMA AppendKeepsKept ==
  ASSUME StoreInv, NEW p \in Procs, AppendRow(p)
  PROVE  \A q \in Procs : Kept(q)'
<1> DEFINE r == NewRow(p)
<1>1. Core /\ TypeOK /\ pc[p] = "append" /\ Kept(p) /\ disk \in Jsonl /\ Ends(disk)
  BY DEF StoreInv, Core, AppendRow, Shared, TypeOK
<1>2. /\ mem' = [mem EXCEPT ![p] = mem[p] \cup {r}]
      /\ IF disk.torn
           THEN disk' = [disk EXCEPT !.rows = disk.rows \ disk.last, !.torn = FALSE, !.last = {}]
           ELSE disk' = [disk EXCEPT !.rows = disk.rows \cup {r}]
      /\ pc' = [pc EXCEPT ![p] = "index"]
      /\ UNCHANGED <<indexed, job, since, hurt>>
  BY <1>1 DEF AppendRow, Changes, TypeOK
<1>3. \A s \in mem[p] : s.id <= made /\ s.id \in Nat
  <2>1. Sound(mem[p]) /\ mem[p] \in SUBSET Episode
    BY <1>1 DEF Core, Local, TypeOK
  <2>2. QED
    BY <2>1 DEF Sound, Episode, Ages
<1>4. made \in Nat /\ r.id = made + 1
  BY <1>1, BoundsAssumption DEF TypeOK, NewRow
<1>5. r \notin mem[p]
  BY <1>3, <1>4
<1> HIDE DEF r
<1>6. /\ pc'[p] = "index" /\ mem'[p] = mem[p] \cup {r} /\ Apart(p)
      /\ disk'.rows = IF disk.torn THEN disk.rows \ disk.last ELSE disk.rows \cup {r}
      /\ ~disk'.torn
  BY <1>1, <1>2 DEF TypeOK, Apart, Jsonl
<1>7. Kept(p)'
  <2>1. SUFFICES ASSUME Alone'
                 PROVE  \/ mem'[p] = disk'.rows
                        \/ /\ ~Intact' /\ ~Closed(p)' /\ ~disk'.torn
                           /\ \E s, u \in mem'[p] : disk'.rows = mem'[p] \ {s, u}
    BY DEF Kept
  <2>2. Alone /\ (Intact' <=> Intact) /\ ~Closed(p)'
    BY <1>2, <1>6, <2>1 DEF Alone, Intact, Closed
  <2>3. CASE disk.torn
    <3>1. mem[p] = disk.rows /\ ~Intact
      BY <1>1, <2>2, <2>3 DEF Kept, Core, Shared
    <3>2. \E s \in mem'[p] : disk.last \subseteq {s} /\ {s} \subseteq disk.last \cup {r}
      <4>1. CASE disk.last = {}
        BY <1>6, <4>1
      <4>2. CASE disk.last # {}
        BY <1>1, <1>6, <3>1, <4>2 DEF Ends
      <4>3. QED
        BY <4>1, <4>2
    <3>3. PICK s \in mem'[p] : disk.last \subseteq {s} /\ {s} \subseteq disk.last \cup {r}
      BY <3>2
    <3>4. disk'.rows = mem'[p] \ {s, r} /\ r \in mem'[p]
      BY <1>5, <1>6, <2>3, <3>1, <3>3
    <3>5. QED
      BY <1>6, <2>2, <3>1, <3>4
  <2>4. CASE ~disk.torn /\ mem[p] = disk.rows
    BY <1>6, <2>4
  <2>5. CASE ~disk.torn /\ mem[p] # disk.rows
    <3>1. ~Intact
      BY <1>1, <2>2, <2>5 DEF Kept
    <3>2. PICK s, u \in mem[p] : disk.rows = mem[p] \ {s, u}
      BY <1>1, <2>2, <2>5 DEF Kept
    <3>3. disk'.rows = mem'[p] \ {s, u} /\ s \in mem'[p] /\ u \in mem'[p]
      BY <1>5, <1>6, <2>5, <3>2
    <3>4. QED
      BY <1>6, <2>2, <3>1, <3>3
  <2>6. QED
    BY <2>3, <2>4, <2>5
<1>8. QED
  BY <1>1, <1>2, <1>6, <1>7, OthersStayKept

\* What Rewrite leaves: the process is rewriting.
LEMMA RewriteStarts ==
  ASSUME TypeOK, NEW p \in Procs, NEW rows, NEW next, NEW topic, NEW out,
         Rewrite(p, rows, next, topic, out)
  PROVE  pc'[p] = "rewriting" /\ mem'[p] = rows
BY DEF Rewrite, TypeOK

\* A store either appends at once or rewrites first; an update too.
LEMMA StoringStarts ==
  ASSUME TypeOK, NEW p \in Procs, Store(p) \/ StoreTemporal(p)
  PROVE  pc'[p] = "rewriting" \/ (pc'[p] = "append" /\ UNCHANGED <<disk, mem>>)
<1>1. \/ pc' = [pc EXCEPT ![p] = "append"] /\ UNCHANGED <<disk, mem>>
      \/ pc' = [pc EXCEPT ![p] = "rewriting"]
  BY DEF Store, StoreTemporal, Rewrite, file
<1>2. QED
  BY <1>1 DEF TypeOK

LEMMA StepKeepsKept ==
  ASSUME StoreInv, Next
  PROVE  \A q \in Procs : Kept(q)'
<1>1. PICK p \in Procs : Step(p)
  BY DEF Next
<1>2. TypeOK /\ Core
  BY DEF StoreInv, Core
<1>3. CASE LoadEpisodes(p)
  <2>1. PICK rows \in Visible : mem' = [mem EXCEPT ![p] = rows]
    BY <1>3 DEF LoadEpisodes
  <2>2. mem'[p] = rows /\ UNCHANGED disk /\ Apart(p) /\ hurt \subseteq hurt'
    BY <1>2, <1>3, <2>1 DEF LoadEpisodes, records, file, Apart, TypeOK
  <2>3. (\A q \in Procs : pc[q] = "off") \/ ~Alone'
    BY <1>3 DEF LoadEpisodes, Alone
  <2>4. Alone' => Writers = {} /\ rows = disk.rows
    BY <1>2, <2>3, VisibleRows DEF Writers
  <2>5. Kept(p)'
    BY <2>2, <2>4 DEF Kept, Alone
  <2>6. QED
    BY <2>2, <2>3, <2>5, OthersStayKept
<1>4. CASE Acquire(p)
  <2>1. pc[p] = "waiting" /\ mem'[p] = mem[p] /\ UNCHANGED disk /\ Apart(p) /\ hurt \subseteq hurt'
    BY <1>2, <1>4 DEF Acquire, Apart, TypeOK, file
  <2>2. ~Closed(p)'
    BY <1>2, <1>4 DEF Acquire, Closed, TypeOK
  <2>3. QED
    BY <2>1, <2>2, KeptByWaiting
<1>5. CASE AcquireTimesOut(p) \/ Close(p) \/ Die(p)
  <2>1. Forgets(p) /\ UNCHANGED since /\ pc[p] # "off"
    BY <1>5, WaysToLeave
  <2>2. pc'[p] = "off" /\ Apart(p)
    BY <1>2, <2>1 DEF Forgets, Apart, TypeOK
  <2>3. hurt \subseteq hurt'
    BY <1>5, WaysToLeave DEF LeavesQuietly, CutWrite, CutAppend, CutNewline
  <2>4. QED
    BY <2>1, <2>2, <2>3, KeptByWriting
<1>6. CASE Writes(p)
  <2>1. UNCHANGED hurt /\ Apart(p) /\ ~Closed(p) /\ pc[p] # "off"
    BY <1>2, <1>6, WritesApart DEF Closed
  <2>2. CASE RewriteEnds(p)
    <3>1. PICK f \in Complete(p) : disk' = f
      BY <2>2 DEF RewriteEnds, Changes
    <3>2. mem'[p] = mem[p]
      BY <2>2 DEF RewriteEnds
    <3>3. CASE p \in mixed
      <4>1. ~Alone'
        BY <1>2, <2>1, <3>3 DEF Core, Mixing, Alone
      <4>2. Kept(p)'
        BY <4>1 DEF Kept
      <4>3. QED
        BY <2>1, <4>2, OthersStayKept
    <3>4. CASE p \notin mixed
      BY <1>2, <2>1, <3>1, <3>2, <3>4, CompleteFiles, KeptByWriting
    <3>5. QED
      BY <3>3, <3>4
  <2>3. CASE Store(p) \/ StoreTemporal(p)
    <3>1. CASE pc'[p] = "rewriting"
      BY <2>1, <3>1, KeptByWriting
    <3>2. CASE pc'[p] = "append" /\ UNCHANGED <<disk, mem>>
      <4>1. pc[p] = "open" /\ ~Closed(p)'
        BY <2>3, <3>2 DEF Store, StoreTemporal, Closed
      <4>2. QED
        BY <2>1, <3>2, <4>1, KeptByWaiting
    <3>3. QED
      BY <1>2, <2>3, <3>1, <3>2, StoringStarts
  <2>4. CASE AppendRow(p)
    BY <2>4, AppendKeepsKept
  <2>5. CASE Review(p) \/ DeleteEpisode(p) \/ ForgetSession(p)
    <3>1. pc'[p] = "rewriting"
      BY <1>2, <2>5, RewriteStarts DEF Review, DeleteEpisode, ForgetSession
    <3>2. QED
      BY <2>1, <3>1, KeptByWriting
  <2>6. CASE ForgetUserData(p)
    <3>1. mem'[p] = disk'.rows
      BY <1>2, <2>6, WholeFile DEF ForgetUserData, Changes, TypeOK
    <3>2. QED
      BY <2>1, <3>1, KeptByWriting
  <2>7. QED
    BY <1>6, <2>2, <2>3, <2>4, <2>5, <2>6 DEF Writes
<1>7. CASE Touches(p)
  <2>1. hurt \subseteq hurt' /\ Apart(p) /\ ~Closed(p) /\ pc'[p] # "off"
    BY <1>2, <1>7, TouchesApart
  <2>2. CASE pc'[p] = "rewriting"
    BY <2>1, <2>2, KeptByWriting DEF Closed
  <2>3. CASE pc'[p] # "rewriting"
    <3>1. pc[p] \notin {"off", "rewriting", "mending"} /\ UNCHANGED <<disk, mem>>
      BY <1>2, <1>7, <2>3, RewriteStarts DEF Touches, Index, Unindex, Rebuild, Drop, Reconcile, file, Writers
    <3>2. pc' = pc \/ pc' = [pc EXCEPT ![p] = "open"]
      BY <1>2, <1>7, <2>3, RewriteStarts
         DEF Touches, Index, Unindex, Rebuild, Drop, Reconcile, Removed
    <3>3. ~Closed(p)'
      BY <1>2, <2>1, <3>2 DEF Closed, TypeOK
    <3>4. QED
      BY <2>1, <3>1, <3>3, KeptByWaiting
  <2>4. QED
    BY <2>2, <2>3
<1>8. CASE MendStarts(p) \/ MendEnds(p)
  <2>1. pc[p] \in {"malformed", "mending"} /\ UNCHANGED <<mem, indexed, job, since>>
    BY <1>8 DEF MendStarts, MendEnds, records
  <2>2. PICK w \in {"mending", "waiting"} : pc' = [pc EXCEPT ![p] = w]
    BY <1>8 DEF MendStarts, MendEnds
  <2>3. pc'[p] = w /\ Apart(p) /\ hurt \subseteq hurt'
    BY <1>2, <1>8, <2>1, <2>2 DEF MendStarts, MendEnds, Apart, TypeOK
  <2>4. Alone' /\ w = "waiting" => mem'[p] = disk'.rows
    <3>1. SUFFICES ASSUME Alone', w = "waiting"
                   PROVE  mem'[p] = disk'.rows
      OBVIOUS
    <3>2. MendEnds(p)
      BY <1>2, <1>8, <2>3, <3>1 DEF MendStarts, TypeOK
    <3>3. PICK f \in Complete(p) : disk' = f
      BY <3>2 DEF MendEnds, Changes
    <3>4. p \notin mixed
      BY <1>2, <2>3, <3>1 DEF Core, Mixing, Alone
    <3>5. QED
      BY <1>2, <2>1, <3>3, <3>4, CompleteFiles
  <2>5. Kept(p)'
    BY <2>3, <2>4 DEF Kept
  <2>6. QED
    BY <2>1, <2>3, <2>5, OthersStayKept
<1>9. CASE LoadFails(p)
  BY <1>9 DEF LoadFails, vars, file, StoreInv, Kept, Alone, Intact, Closed
<1>10. QED
  BY <1>1, <1>3, <1>4, <1>5, <1>6, <1>7, <1>8, <1>9 DEF Step, Writes, Touches

LEMMA StoreInvAlways == Spec => []StoreInv
<1>1. Init => StoreInv
  <2>1. Init => \A p \in Procs : Kept(p)
    BY DEF Init, Kept
  <2>2. QED
    BY <2>1, InitIInv DEF StoreInv, IInv
<1>2. IInv /\ StoreInv /\ [Next]_vars => StoreInv'
  <2>1. CASE UNCHANGED vars
    <3>1. UNCHANGED <<disk, pc, mem, hurt>>
      BY <2>1 DEF vars, file
    <3>2. StoreInv => \A p \in Procs : Kept(p)'
      BY <3>1 DEF StoreInv, Kept, Alone, Intact, Closed
    <3>3. QED
      BY <2>1, <3>2, StepKeepsIInv DEF StoreInv, IInv
  <2>2. QED
    BY <2>1, StepKeepsKept, StepKeepsIInv DEF StoreInv, IInv
<1>3. QED
  BY <1>1, <1>2, IInvAlways, PTL DEF Spec

\* While p has the project open, its memory is the contents.
LEMMA UserContents ==
  ASSUME Core, NEW p \in Procs, ~Closed(p)
  PROVE  Contents = mem[p] /\ {q \in Procs : ~Closed(q)} = {p}
<1>1. {q \in Procs : ~Closed(q)} = {p}
  BY DEF Core, Shared
<1>2. QED
  BY <1>1 DEF Contents, Locked

LEMMA UserContentsAfter ==
  ASSUME Core', NEW p \in Procs, ~Closed(p)'
  PROVE  Contents' = mem'[p] /\ {q \in Procs : ~Closed(q)}' = {p}
<1>1. {q \in Procs : ~Closed(q)}' = {p}
  BY DEF Core, Shared
<1>2. QED
  BY <1>1 DEF Contents, Locked

\* Otherwise it is what the file holds, unless the only process mends it.
LEMMA ContentsAtRest ==
  ASSUME ~Locked
  PROVE  /\ {q \in Procs : ~Closed(q)} = {}
         /\ Contents = IF Writers # {} /\ Alone THEN UNION {mem[q] : q \in Writers} ELSE disk.rows
BY DEF Contents, Locked, Alone

LEMMA ContentsAtRestAfter ==
  ASSUME ~Locked'
  PROVE  /\ {q \in Procs : ~Closed(q)}' = {}
         /\ Writers' = {} \/ ~Alone' => Contents' = disk'.rows
         /\ Writers' # {} /\ Alone' => Contents' = UNION {mem'[q] : q \in Writers'}
<1>1. {q \in Procs : ~Closed(q)}' = {}
  BY DEF Locked
<1>2. Writers' = {} \/ ~Alone' => Contents' = disk'.rows
  BY DEF Contents, Alone
<1>3. Writers' # {} /\ Alone' => Contents' = UNION {mem'[q] : q \in Writers'}
  BY DEF Contents, Alone
<1>4. QED
  BY <1>1, <1>2, <1>3

\* What a process has in memory, and what is in the file, was once stored.
LEMMA EarlierRows ==
  ASSUME Core', NEW p \in Procs
  PROVE  Abstract!Earlier(disk'.rows) /\ Abstract!Earlier(mem'[p])
<1>1. /\ disk'.rows \in SUBSET Episode /\ Sound(disk.rows)'
      /\ mem'[p] \in SUBSET Episode /\ Sound(mem[p])'
  BY DEF Core, TypeOK, Jsonl, Shared, Local
<1>2. QED
  BY <1>1 DEF Abstract!Earlier, Abstract!Episode, Episode, Ages, Sound

Damaged == hurt \cap {"damage", "torn"} # {}
Overlapped == "overlap" \in hurt

\* Who has the project open goes on working on what it has read, whatever
\* other processes do about the file once openings overlap.
LEMMA OverlapStep ==
  ASSUME Core, Core', NEW p \in Procs, Apart(p), Closed(p), Closed(p)', ~Alone',
         made' = made, hurt \subseteq hurt'
  PROVE  Abstract!Next
<1>1. {q \in Procs : ~Closed(q)}' = {q \in Procs : ~Closed(q)}
  BY DEF Apart, Closed
<1>2. Contents' = Contents \/ ({q \in Procs : ~Closed(q)} = {} /\ Abstract!Earlier(Contents'))
  <2>1. CASE Locked
    <3>1. PICK u \in Procs : ~Closed(u)
      BY <2>1 DEF Locked
    <3>2. ~Closed(u)' /\ mem'[u] = mem[u]
      BY <3>1 DEF Apart, Closed
    <3>3. QED
      BY <3>1, <3>2, UserContents, UserContentsAfter
  <2>2. CASE ~Locked
    <3>1. ~Locked'
      BY <1>1, <2>2 DEF Locked
    <3>2. Contents' = disk'.rows
      BY <3>1, ContentsAtRestAfter
    <3>3. QED
      BY <2>2, <3>2, ContentsAtRest, EarlierRows
  <2>3. QED
    BY <2>1, <2>2
<1>3. /\ (hurt \cap {"damage", "torn"} # {})' \in {hurt \cap {"damage", "torn"} # {}, TRUE}
      /\ ("overlap" \in hurt)' = TRUE
  BY DEF Alone
<1>4. Abstract!Overlap
  BY <1>1, <1>2, <1>3 DEF Abstract!Overlap
<1>5. QED
  BY <1>4 DEF Abstract!Next

\* What a step of the user does to the contents is what it does to its memory.
LEMMA UserStep ==
  ASSUME Core, Core', NEW p \in Procs, ~Closed(p), ~Closed(p)',
         Damaged' <=> Damaged, Overlapped' <=> Overlapped
  PROVE  /\ Contents = mem[p] /\ Contents' = mem'[p]
         /\ {q \in Procs : ~Closed(q)} = {p} /\ {q \in Procs : ~Closed(q)}' = {p}
         /\ (hurt \cap {"damage", "torn"} # {})' = (hurt \cap {"damage", "torn"} # {})
         /\ ("overlap" \in hurt)' = ("overlap" \in hurt)
<1>1. /\ (hurt \cap {"damage", "torn"} # {})' = (hurt \cap {"damage", "torn"} # {})
      /\ ("overlap" \in hurt)' = ("overlap" \in hurt)
  BY DEF Damaged, Overlapped
<1>2. QED
  BY <1>1, UserContents, UserContentsAfter

LEMMA UserStutters ==
  ASSUME Core, Core', NEW p \in Procs, ~Closed(p), ~Closed(p)',
         Damaged' <=> Damaged, Overlapped' <=> Overlapped,
         mem'[p] = mem[p], made' = made
  PROVE  UNCHANGED Abstract!vars
BY UserStep DEF Abstract!vars

LEMMA UserDrops ==
  ASSUME Core, Core', NEW p \in Procs, ~Closed(p), ~Closed(p)', UNCHANGED <<hurt, made>>,
         NEW S \in SUBSET mem[p], mem'[p] = mem[p] \ S
  PROVE  Abstract!Next
<1>1. (Damaged' <=> Damaged) /\ (Overlapped' <=> Overlapped)
  BY DEF Damaged, Overlapped
<1>2. Abstract!Drop(S) /\ S \in SUBSET Contents
  BY <1>1, UserStep DEF Abstract!Drop
<1>3. QED
  BY <1>2 DEF Abstract!Next

LEMMA WritesRefine ==
  ASSUME Core, Core', NEW p \in Procs, Writes(p)
  PROVE  [Abstract!Next]_Abstract!vars
<1>1. /\ TypeOK /\ TypeOK' /\ UNCHANGED hurt /\ ~Closed(p) /\ Local(p)
      /\ (Damaged' <=> Damaged) /\ (Overlapped' <=> Overlapped)
  BY WritesApart DEF Core, Damaged, Overlapped
<1>2. CASE RewriteEnds(p)
  <2>1. UNCHANGED <<mem, made>> /\ pc'[p] = job[p].next /\ pc[p] = "rewriting"
    BY <1>1, <1>2 DEF RewriteEnds, TypeOK
  <2>2. ~Closed(p)'
    BY <1>1, <2>1 DEF Local, Closed
  <2>3. QED
    BY <1>1, <2>1, <2>2, UserStutters
<1>3. CASE Store(p)
  <2>1. made' = made /\ ~Closed(p)'
    BY <1>1, <1>3, StoringStarts DEF Store, Closed
  <2>2. PICK t \in Topics \cup {NoTopic} :
          \/ OfTopic(p, t) = {} /\ UNCHANGED mem
          \/ \E next \in {"append", "open"} :
               Rewrite(p, mem[p] \ OfTopic(p, t), next, t, Ids(OfTopic(p, t)))
    BY <1>3 DEF Store
  <2>3. mem'[p] = mem[p] \ OfTopic(p, t) /\ OfTopic(p, t) \in SUBSET mem[p]
    BY <1>1, <2>2, RewriteStarts DEF OfTopic
  <2>4. QED
    BY <1>1, <2>1, <2>3, UserDrops
<1>4. CASE StoreTemporal(p)
  <2>1. made' = made /\ ~Closed(p)'
    BY <1>1, <1>4, StoringStarts DEF StoreTemporal, Closed
  <2>2. PICK t \in Topics :
          \/ UNCHANGED mem
          \/ Rewrite(p, Superseding(p, t), "append", t, {})
    BY <1>4 DEF StoreTemporal
  <2>3. CASE UNCHANGED mem
    BY <1>1, <2>1, <2>3, UserStutters
  <2>4. CASE Rewrite(p, Superseding(p, t), "append", t, {})
    <3>1. mem'[p] = Superseding(p, t)
      BY <1>1, <2>4, RewriteStarts
    <3>2. Superseding(p, t) =
            {r \in mem[p] : r.topic # t} \cup
              {[r EXCEPT !.active = FALSE] : r \in {s \in mem[p] : s.topic = t}}
      BY TopicsAssumption DEF Superseding, OfTopic
    <3>3. Abstract!Retire(t)
      BY <1>1, <2>1, <3>1, <3>2, UserStep DEF Abstract!Retire
    <3>4. QED
      BY <3>3 DEF Abstract!Next
  <2>5. QED
    BY <2>2, <2>3, <2>4
<1>5. CASE AppendRow(p)
  <2> DEFINE t == job[p].topic
  <2>1. /\ pc'[p] = "index" /\ made' = made + 1
        /\ mem'[p] = mem[p] \cup {[id |-> made + 1, topic |-> t, active |-> TRUE]}
    BY <1>1, <1>5 DEF AppendRow, TypeOK, NewRow
  <2>2. /\ made < MaxEpisodes
        /\ \A r \in mem[p] : r.topic = t /\ r.topic # NoTopic => ~r.active
    BY <1>1, <1>5 DEF AppendRow, Local, Appending
  <2>3. t \in Topics \cup {NoTopic} /\ ~Closed(p)'
    BY <1>1, <2>1 DEF TypeOK, Closed
  <2> HIDE DEF t
  <2>4. Abstract!Put(t)
    BY <1>1, <2>1, <2>2, <2>3, UserStep DEF Abstract!Put
  <2>5. QED
    BY <2>3, <2>4 DEF Abstract!Next
<1>6. CASE Review(p)
  <2>1. mem'[p] = mem[p] /\ made' = made /\ ~Closed(p)'
    BY <1>1, <1>6, RewriteStarts DEF Review, Closed
  <2>2. QED
    BY <1>1, <2>1, UserStutters
<1>7. CASE DeleteEpisode(p) \/ ForgetSession(p)
  <2>1. made' = made /\ ~Closed(p)' /\ \E S \in SUBSET mem[p] : mem'[p] = mem[p] \ S
    <3>1. CASE DeleteEpisode(p)
      <4>1. PICK r \in mem[p] : Rewrite(p, mem[p] \ {r}, "unindex", NoTopic, {r.id})
        BY <3>1 DEF DeleteEpisode
      <4>2. pc'[p] = "rewriting" /\ mem'[p] = mem[p] \ {r}
        BY <1>1, <4>1, RewriteStarts
      <4>3. {r} \in SUBSET mem[p] /\ made' = made
        BY <3>1 DEF DeleteEpisode
      <4>4. QED
        BY <4>2, <4>3 DEF Closed
    <3>2. CASE ForgetSession(p)
      <4>1. PICK S \in SUBSET mem[p] : Rewrite(p, mem[p] \ S, "rebuild", NoTopic, Ids(S))
        BY <3>2 DEF ForgetSession
      <4>2. pc'[p] = "rewriting" /\ mem'[p] = mem[p] \ S
        BY <1>1, <4>1, RewriteStarts
      <4>3. QED
        BY <3>2, <4>2 DEF ForgetSession, Closed
    <3>3. QED
      BY <1>7, <3>1, <3>2
  <2>2. QED
    BY <1>1, <2>1, UserDrops
<1>8. CASE ForgetUserData(p)
  <2>1. mem'[p] = {} /\ pc'[p] = "drop" /\ made' = made
    BY <1>1, <1>8 DEF ForgetUserData, TypeOK
  <2>2. mem'[p] = mem[p] \ mem[p] /\ ~Closed(p)'
    BY <2>1 DEF Closed
  <2>3. QED
    BY <1>1, <2>1, <2>2, UserDrops
<1>9. QED
  BY <1>2, <1>3, <1>4, <1>5, <1>6, <1>7, <1>8 DEF Writes

LEMMA TouchesRefine ==
  ASSUME Core, Core', NEW p \in Procs, Touches(p)
  PROVE  UNCHANGED Abstract!vars
<1>1. TypeOK /\ ~Closed(p)
  BY TouchesApart DEF Core
<1>2. made' = made /\ hurt' \in {hurt, hurt \cup {"failure"}}
  <2>1. CASE Index(p) \/ Unindex(p) \/ Rebuild(p) \/ Drop(p)
    BY <2>1 DEF Index, Unindex, Rebuild, Drop, Indexes
  <2>2. CASE Reconcile(p)
    BY <2>2 DEF Reconcile, Indexes
  <2>3. QED
    BY <2>1, <2>2 DEF Touches
<1>3. mem'[p] = mem[p] /\ ~Closed(p)'
  <2>1. CASE Index(p)
    <3>1. \/ pc' = [pc EXCEPT ![p] = "open"] /\ UNCHANGED mem
          \/ Rewrite(p, mem[p], "open", NoTopic, {})
      BY <2>1 DEF Index
    <3>2. QED
      BY <1>1, <3>1, RewriteStarts DEF Closed, TypeOK
  <2>2. CASE Unindex(p) \/ Rebuild(p) \/ Drop(p)
    <3>1. pc' = [pc EXCEPT ![p] = "open"] /\ UNCHANGED mem
      BY <2>2 DEF Unindex, Rebuild, Drop, Removed
    <3>2. QED
      BY <1>1, <3>1 DEF Closed, TypeOK
  <2>3. CASE Reconcile(p)
    BY <1>1, <2>3 DEF Reconcile, Closed
  <2>4. QED
    BY <2>1, <2>2, <2>3 DEF Touches
<1>4. QED
  BY <1>1, <1>2, <1>3, UserStutters DEF Damaged, Overlapped

\* A process that reads, mends or waits, while openings do not overlap.
LEMMA LoneOutsider ==
  ASSUME Core, Alone, NEW p \in Procs, pc[p] # "off", Closed(p)
  PROVE  /\ ~Locked /\ {q \in Procs : ~Closed(q)} = {}
         /\ Contents = IF p \in Writers THEN mem[p] ELSE disk.rows
<1>1. \A q \in Procs : q # p => pc[q] = "off"
  BY DEF Core, Shared
<1>2. ~Locked /\ (Writers = IF p \in Writers THEN {p} ELSE {})
  BY <1>1 DEF Locked, Closed, Writers
<1>3. QED
  BY <1>2, ContentsAtRest

LEMMA LoneOutsiderAfter ==
  ASSUME Core', Alone', NEW p \in Procs, \A q \in Procs : q # p => pc'[q] = "off", Closed(p)'
  PROVE  /\ {q \in Procs : ~Closed(q)}' = {}
         /\ pc'[p] \in {"rewriting", "mending"} => Contents' = mem'[p]
         /\ pc'[p] \notin {"rewriting", "mending"} => Contents' = disk'.rows
<1>1. ~Locked'
  BY DEF Locked, Closed
<1>2. /\ pc'[p] \in {"rewriting", "mending"} => Writers' = {p}
      /\ pc'[p] \notin {"rewriting", "mending"} => Writers' = {}
  BY DEF Writers
<1>3. QED
  BY <1>1, <1>2, ContentsAtRestAfter

LEMMA LoadRefines ==
  ASSUME Core, Core', NEW p \in Procs, LoadEpisodes(p)
  PROVE  [Abstract!Next]_Abstract!vars
<1>1. TypeOK /\ pc[p] = "off"
  BY DEF Core, LoadEpisodes
<1>2. PICK rows \in Visible : mem' = [mem EXCEPT ![p] = rows]
  BY DEF LoadEpisodes
<1>3. PICK w \in {"malformed", "waiting"} : pc' = [pc EXCEPT ![p] = w]
  BY DEF LoadEpisodes
<1>4. /\ Apart(p) /\ pc'[p] = w /\ UNCHANGED <<disk, made>>
      /\ Closed(p) /\ Closed(p)' /\ hurt \subseteq hurt'
  BY <1>1, <1>2, <1>3 DEF LoadEpisodes, records, file, Apart, TypeOK, Closed
<1>5. CASE ~Alone'
  BY <1>4, <1>5, OverlapStep
<1>6. CASE Alone'
  <2>1. hurt' = hurt /\ \A q \in Procs : pc[q] = "off"
    BY <1>6 DEF LoadEpisodes, Alone
  <2>2. ~Locked /\ Writers = {} /\ \A q \in Procs : q # p => pc'[q] = "off"
    BY <1>4, <2>1 DEF Locked, Closed, Writers, Apart
  <2>3. Contents = disk.rows /\ {q \in Procs : ~Closed(q)} = {}
    BY <2>2, ContentsAtRest
  <2>4. Contents' = disk.rows /\ {q \in Procs : ~Closed(q)}' = {}
    BY <1>4, <1>6, <2>2, LoneOutsiderAfter
  <2>5. QED
    BY <1>4, <2>1, <2>3, <2>4 DEF Abstract!vars
<1>7. QED
  BY <1>5, <1>6

\* Mending the file changes nothing for a process that is alone.
LEMMA MendRefines ==
  ASSUME StoreInv, Core', NEW p \in Procs, MendStarts(p) \/ MendEnds(p)
  PROVE  [Abstract!Next]_Abstract!vars
<1>1. Core /\ TypeOK /\ Kept(p) /\ pc[p] # "off" /\ Closed(p)
  BY DEF StoreInv, Core, MendStarts, MendEnds, Closed
<1>2. UNCHANGED <<mem, indexed, job, made, since>>
  BY DEF MendStarts, MendEnds, records
<1>3. hurt' = hurt \cup Intruding(p)
  BY DEF MendStarts, MendEnds
<1>4. \/ pc[p] = "malformed" /\ pc' = [pc EXCEPT ![p] = "mending"]
      \/ MendEnds(p) /\ pc[p] = "mending" /\ pc' = [pc EXCEPT ![p] = "waiting"]
  BY DEF MendStarts, MendEnds
<1>5. Apart(p) /\ Closed(p)' /\ pc'[p] \in {"mending", "waiting"}
  BY <1>1, <1>2, <1>4 DEF Apart, Closed, TypeOK
<1>6. /\ (Alone' <=> Alone) /\ hurt \subseteq hurt'
      /\ hurt' \cap {"damage", "torn"} = hurt \cap {"damage", "torn"}
      /\ ("overlap" \in hurt)' = ("overlap" \in hurt)
  BY <1>3 DEF Alone, Intruding
<1>7. CASE ~Alone
  BY <1>1, <1>2, <1>5, <1>6, <1>7, OverlapStep
<1>8. CASE Alone
  <2>1. Contents = mem[p] /\ {q \in Procs : ~Closed(q)} = {}
    <3>1. CASE pc[p] = "malformed"
      BY <1>1, <1>8, <3>1, LoneOutsider DEF Kept, Closed, Writers
    <3>2. CASE pc[p] = "mending"
      BY <1>1, <1>8, <3>2, LoneOutsider DEF Writers
    <3>3. QED
      BY <1>4, <3>1, <3>2
  <2>2. \A q \in Procs : q # p => pc'[q] = "off"
    BY <1>1, <1>5, <1>8 DEF Core, Shared, Apart
  <2>3. Contents' = mem[p] /\ {q \in Procs : ~Closed(q)}' = {}
    <3>1. CASE pc'[p] = "mending"
      BY <1>2, <1>5, <1>6, <1>8, <2>2, <3>1, LoneOutsiderAfter
    <3>2. CASE pc'[p] # "mending"
      <4>1. MendEnds(p)
        BY <1>1, <1>4, <3>2 DEF TypeOK
      <4>2. PICK f \in Complete(p) : disk' = f
        BY <4>1 DEF MendEnds, Changes
      <4>3. p \notin mixed
        BY <1>1, <1>8 DEF Core, Mixing
      <4>4. disk'.rows = mem[p]
        BY <1>1, <4>2, <4>3, CompleteFiles
      <4>5. QED
        BY <1>5, <1>6, <1>8, <2>2, <3>2, <4>4, LoneOutsiderAfter
    <3>3. QED
      BY <3>1, <3>2
  <2>4. (hurt \cap {"damage", "torn"} # {})' = (hurt \cap {"damage", "torn"} # {})
    BY <1>6
  <2>5. QED
    BY <1>2, <1>6, <2>1, <2>3, <2>4 DEF Abstract!vars
<1>9. QED
  BY <1>7, <1>8

LEMMA AcquireRefines ==
  ASSUME StoreInv, Core', NEW p \in Procs, Acquire(p)
  PROVE  Abstract!Next
<1>1. Core /\ TypeOK /\ pc[p] = "waiting" /\ ~Locked /\ Kept(p) /\ Closed(p)
  BY DEF StoreInv, Core, Acquire, Closed
<1>2. /\ pc'[p] = "open" /\ mem'[p] = mem[p] /\ made' = made
      /\ (hurt \cap {"damage", "torn"} # {})' = (hurt \cap {"damage", "torn"} # {})
      /\ ("overlap" \in hurt)' = ("overlap" \in hurt)
  BY <1>1 DEF Acquire, TypeOK
<1>3. {q \in Procs : ~Closed(q)} = {}
  BY <1>1, ContentsAtRest
<1>4. Contents' = mem[p] /\ {q \in Procs : ~Closed(q)}' = {p}
  BY <1>2, UserContentsAfter DEF Closed
<1>5. Contents = mem[p] \/ "overlap" \in hurt
  BY <1>1, LoneOutsider DEF Kept, Alone, Closed, Writers
<1>6. Abstract!Earlier(mem[p])
  BY <1>2, EarlierRows
<1>7. Abstract!Open(p)
  <2>1. Contents' = Contents \/ ("overlap" \in hurt /\ Abstract!Earlier(Contents'))
    BY <1>4, <1>5, <1>6
  <2>2. QED
    BY <1>2, <1>3, <1>4, <2>1 DEF Abstract!Open
<1>8. QED
  BY <1>7 DEF Abstract!Next

\* When the one who has the project open leaves, the contents are what is in
\* the file.
LEMMA UserLeaves ==
  ASSUME Core, Core', NEW p \in Procs, ~Closed(p), Apart(p), pc'[p] = "off", Alone' => Alone
  PROVE  /\ Contents = mem[p] /\ {q \in Procs : ~Closed(q)} = {p}
         /\ Contents' = disk'.rows /\ {q \in Procs : ~Closed(q)}' = {}
         /\ Abstract!Earlier(Contents')
<1>1. Contents = mem[p] /\ {q \in Procs : ~Closed(q)} = {p}
  BY UserContents
<1>2. ~Locked'
  BY <1>1 DEF Locked, Apart, Closed
<1>3. Writers' = {} \/ ~Alone'
  BY DEF Core, Shared, Apart, Writers, Closed
<1>4. Contents' = disk'.rows /\ {q \in Procs : ~Closed(q)}' = {}
  BY <1>2, <1>3, ContentsAtRestAfter
<1>5. QED
  BY <1>1, <1>4, EarlierRows

\* Whoever leaves in the middle of a rewrite leaves the oldest rows.
LEMMA CutRows ==
  ASSUME Core, Alone, NEW p \in Procs, CutWrite(p)
  PROVE  \E age \in 0..MaxEpisodes : disk'.rows = {r \in mem[p] : r.id <= age}
<1>1. PICK f \in Partial(p) : disk' = f
  BY DEF CutWrite, Changes
<1>2. p \notin mixed
  BY DEF Core, Mixing
<1>3. PICK age \in Ages \cup {0} : f.rows = {r \in mem[p] : r.id <= age}
  BY <1>2, PartialFiles
<1>4. age \in 0..MaxEpisodes
  BY <1>3, BoundsAssumption DEF Ages
<1>5. QED
  BY <1>1, <1>3, <1>4

LEMMA LeavingRefines ==
  ASSUME StoreInv, Core', NEW p \in Procs, AcquireTimesOut(p) \/ Close(p) \/ Die(p)
  PROVE  [Abstract!Next]_Abstract!vars
<1>1. Core /\ TypeOK /\ Shared /\ Local(p) /\ Kept(p) /\ Forgets(p) /\ UNCHANGED since /\ pc[p] # "off"
  BY WaysToLeave DEF StoreInv, Core
<1>2. pc'[p] = "off" /\ Closed(p)' /\ Apart(p)
  BY <1>1 DEF Forgets, Apart, TypeOK, Closed
<1>3. LeavesQuietly(p) \/ CutWrite(p) \/ CutAppend(p) \/ CutNewline(p)
  BY WaysToLeave
<1>4. /\ (Alone' <=> Alone) /\ hurt \subseteq hurt'
      /\ ("overlap" \in hurt)' = ("overlap" \in hurt)
  <2>1. Intruding(p) \subseteq {"intrusion"}
    BY DEF Intruding
  <2>2. hurt' = hurt \/ hurt' = hurt \cup {"damage"} \cup Intruding(p) \/ hurt' = hurt \cup {"torn"}
    BY <1>3 DEF LeavesQuietly, CutWrite, CutAppend, CutNewline
  <2>3. ("overlap" \in hurt' <=> "overlap" \in hurt) /\ hurt \subseteq hurt'
    BY <2>1, <2>2
  <2>4. QED
    BY <2>3 DEF Alone
<1>5. CASE CutWrite(p)
  <2>1. made' = made /\ (hurt \cap {"damage", "torn"} # {})' = TRUE
    BY <1>5 DEF CutWrite
  <2>2. CASE ~Closed(p)
    <3>1. /\ Contents = mem[p] /\ {q \in Procs : ~Closed(q)} = {p}
          /\ Contents' = disk'.rows /\ {q \in Procs : ~Closed(q)}' = {}
          /\ Abstract!Earlier(Contents')
      BY <1>1, <1>2, <1>4, <2>2, UserLeaves
    <3>2. \/ \E age \in 0..MaxEpisodes : Contents' = {r \in Contents : r.id <= age}
          \/ "overlap" \in hurt /\ Abstract!Earlier(Contents')
      BY <1>1, <1>5, <3>1, CutRows DEF Alone
    <3>3. Abstract!CrashRewriting(p)
      BY <1>4, <2>1, <3>1, <3>2 DEF Abstract!CrashRewriting
    <3>4. QED
      BY <3>3 DEF Abstract!Next
  <2>3. CASE Closed(p) /\ ~Alone
    BY <1>1, <1>2, <1>4, <2>1, <2>3, OverlapStep
  <2>4. CASE Closed(p) /\ Alone
    <3>1. Contents = mem[p] /\ {q \in Procs : ~Closed(q)} = {}
      BY <1>1, <1>5, <2>4, LoneOutsider DEF CutWrite
    <3>2. \A q \in Procs : q # p => pc'[q] = "off"
      BY <1>1, <1>2, <2>4 DEF Shared, Apart
    <3>3. Contents' = disk'.rows /\ {q \in Procs : ~Closed(q)}' = {}
      BY <1>2, <1>4, <2>4, <3>2, LoneOutsiderAfter
    <3>4. \E age \in 0..MaxEpisodes : Contents' = {r \in Contents : r.id <= age}
      BY <1>1, <1>5, <2>4, <3>1, <3>3, CutRows
    <3>5. Abstract!CrashRewriting(p)
      BY <1>4, <2>1, <3>1, <3>3, <3>4 DEF Abstract!CrashRewriting
    <3>6. QED
      BY <3>5 DEF Abstract!Next
  <2>5. QED
    BY <2>2, <2>3, <2>4
<1>6. CASE CutAppend(p) \/ CutNewline(p)
  <2> DEFINE t == job[p].topic
             new == [id |-> made + 1, topic |-> t, active |-> TRUE]
  <2>1. /\ pc[p] = "append" /\ ~Closed(p) /\ disk \in Jsonl /\ Ends(disk)
        /\ (hurt \cap {"damage", "torn"} # {})' = TRUE
    BY <1>1, <1>6 DEF CutAppend, CutNewline, Closed, TypeOK, Shared
  <2>2. /\ Contents = mem[p] /\ {q \in Procs : ~Closed(q)} = {p}
        /\ Contents' = disk'.rows /\ {q \in Procs : ~Closed(q)}' = {}
        /\ Abstract!Earlier(Contents')
    BY <1>1, <1>2, <1>4, <2>1, UserLeaves
  <2>3. t \in Topics \cup {NoTopic}
    BY <1>1 DEF TypeOK
  <2>4. \/ made' = made /\ disk'.rows = disk.rows \ disk.last
        \/ made' = made + 1 /\ ~disk.torn /\ disk'.rows = disk.rows \cup {new}
    BY <1>6, <2>1 DEF CutAppend, CutNewline, Changes, NewRow, Jsonl
  <2>5. \/ ~Alone
        \/ disk.rows \ disk.last = mem[p] /\ (~disk.torn => disk.rows = mem[p])
        \/ /\ hurt \cap {"damage", "torn"} # {}
           /\ \E r, s \in mem[p] :
                 /\ disk.rows \ disk.last = mem[p] \ {r, s}
                 /\ ~disk.torn => disk.rows = mem[p] \ {r, s}
    <3>1. SUFFICES ASSUME Alone
                   PROVE  \/ disk.rows \ disk.last = mem[p] /\ (~disk.torn => disk.rows = mem[p])
                          \/ /\ hurt \cap {"damage", "torn"} # {}
                             /\ \E r, s \in mem[p] :
                                   /\ disk.rows \ disk.last = mem[p] \ {r, s}
                                   /\ ~disk.torn => disk.rows = mem[p] \ {r, s}
      OBVIOUS
    <3>2. CASE disk.last = {}
      BY <1>1, <2>1, <3>1, <3>2 DEF Kept, Intact
    <3>3. CASE disk.last # {}
      <4>1. disk.torn /\ mem[p] = disk.rows
        BY <1>1, <2>1, <3>1, <3>3 DEF Kept, Ends
      <4>2. PICK r \in disk.last : disk.last = {r} /\ r \in mem[p]
        BY <2>1, <3>3, <4>1 DEF Ends
      <4>3. disk.rows \ disk.last = mem[p] \ {r, r}
        BY <4>1, <4>2
      <4>4. hurt \cap {"damage", "torn"} # {}
        BY <1>1, <3>1, <4>1 DEF Shared, Intact
      <4>5. QED
        BY <4>1, <4>2, <4>3, <4>4
    <3>4. QED
      BY <3>2, <3>3
  <2> HIDE DEF t, new
  <2>6. PICK extra \in {{}, {new}} :
          /\ made' = IF extra = {} THEN made ELSE made + 1
          /\ \/ ~Alone
             \/ disk'.rows = mem[p] \cup extra
             \/ /\ hurt \cap {"damage", "torn"} # {}
                /\ \E r, s \in mem[p] : disk'.rows = (mem[p] \ {r, s}) \cup extra
    <3>1. CASE made' = made /\ disk'.rows = disk.rows \ disk.last
      <4>1. \/ ~Alone
            \/ disk'.rows = mem[p] \cup {}
            \/ /\ hurt \cap {"damage", "torn"} # {}
               /\ \E r, s \in mem[p] : disk'.rows = (mem[p] \ {r, s}) \cup {}
        BY <2>5, <3>1
      <4>2. QED
        BY <3>1, <4>1
    <3>2. CASE made' = made + 1 /\ ~disk.torn /\ disk'.rows = disk.rows \cup {new}
      <4>1. \/ ~Alone
            \/ disk'.rows = mem[p] \cup {new}
            \/ /\ hurt \cap {"damage", "torn"} # {}
               /\ \E r, s \in mem[p] : disk'.rows = (mem[p] \ {r, s}) \cup {new}
        BY <2>5, <3>2
      <4>2. QED
        BY <3>2, <4>1
    <3>3. QED
      BY <2>4, <3>1, <3>2
  <2>7. Abstract!CrashAppending(p, t)
    <3>1. \/ Contents' = Contents \cup extra
          \/ /\ hurt \cap {"damage", "torn"} # {}
             /\ \E r, s \in Contents : Contents' = (Contents \ {r, s}) \cup extra
          \/ "overlap" \in hurt /\ Abstract!Earlier(Contents')
      BY <2>2, <2>6 DEF Alone
    <3>2. extra \in {{}, {[id |-> made + 1, topic |-> t, active |-> TRUE]}}
      BY DEF new
    <3>3. QED
      BY <1>4, <2>1, <2>2, <2>6, <3>1, <3>2 DEF Abstract!CrashAppending
  <2>8. QED
    BY <2>3, <2>7 DEF Abstract!Next
<1>7. CASE LeavesQuietly(p)
  <2>1. UNCHANGED <<disk, made, hurt>> /\ p \notin Writers
    BY <1>7 DEF LeavesQuietly, file
  <2>2. (hurt \cap {"damage", "torn"} # {})' = (hurt \cap {"damage", "torn"} # {})
    BY <2>1
  <2>3. CASE ~Closed(p)
    <3>1. /\ Contents = mem[p] /\ {q \in Procs : ~Closed(q)} = {p}
          /\ Contents' = disk'.rows /\ {q \in Procs : ~Closed(q)}' = {}
          /\ Abstract!Earlier(Contents')
      BY <1>1, <1>2, <1>4, <2>3, UserLeaves
    <3>2. \/ Contents' = Contents
          \/ /\ hurt \cap {"damage", "torn"} # {}
             /\ \E r, s \in Contents : Contents' = Contents \ {r, s}
          \/ "overlap" \in hurt
      BY <1>1, <2>1, <2>3, <3>1 DEF Kept, Alone, Intact, Closed, Writers
    <3>3. Abstract!Leave(p)
      BY <1>4, <2>1, <2>2, <3>1, <3>2 DEF Abstract!Leave
    <3>4. QED
      BY <3>3 DEF Abstract!Next
  <2>4. CASE Closed(p) /\ ~Alone
    BY <1>1, <1>2, <1>4, <2>1, <2>4, OverlapStep
  <2>5. CASE Closed(p) /\ Alone
    <3>1. Contents = disk.rows /\ {q \in Procs : ~Closed(q)} = {}
      BY <1>1, <2>1, <2>5, LoneOutsider
    <3>2. \A q \in Procs : q # p => pc'[q] = "off"
      BY <1>1, <1>2, <2>5 DEF Shared, Apart
    <3>3. Contents' = disk'.rows /\ {q \in Procs : ~Closed(q)}' = {}
      BY <1>2, <1>4, <2>5, <3>2, LoneOutsiderAfter
    <3>4. QED
      BY <1>4, <2>1, <2>2, <3>1, <3>3 DEF Abstract!vars
  <2>6. QED
    BY <2>3, <2>4, <2>5
<1>8. QED
  BY <1>3, <1>5, <1>6, <1>7

LEMMA NextRefines ==
  ASSUME StoreInv, Core', [Next]_vars
  PROVE  [Abstract!Next]_Abstract!vars
<1>1. Core
  BY DEF StoreInv
<1>2. CASE UNCHANGED vars
  <2>1. UNCHANGED <<disk, pc, mem, made, hurt>>
    BY <1>2 DEF vars, file
  <2>2. QED
    BY <2>1 DEF Abstract!vars, Contents, Locked, Closed, Writers
<1>3. ASSUME NEW p \in Procs, Step(p)
      PROVE  [Abstract!Next]_Abstract!vars
  <2>1. CASE LoadEpisodes(p)
    BY <1>1, <2>1, LoadRefines
  <2>2. CASE Acquire(p)
    BY <2>2, AcquireRefines
  <2>3. CASE AcquireTimesOut(p) \/ Close(p) \/ Die(p)
    BY <2>3, LeavingRefines
  <2>4. CASE Writes(p)
    BY <1>1, <2>4, WritesRefine
  <2>5. CASE Touches(p)
    BY <1>1, <2>5, TouchesRefine
  <2>6. CASE MendStarts(p) \/ MendEnds(p)
    BY <2>6, MendRefines
  <2>7. CASE LoadFails(p)
    BY <1>2, <2>7 DEF LoadFails
  <2>8. QED
    BY <1>3, <2>1, <2>2, <2>3, <2>4, <2>5, <2>6, <2>7 DEF Step, Writes, Touches
<1>4. QED
  BY <1>2, <1>3 DEF Next

LEMMA InitRefines ==
  ASSUME Init
  PROVE  Abstract!Init
<1>1. \A p \in Procs : Closed(p)
  BY DEF Init, Closed
<1>2. ~Locked /\ Writers = {} /\ disk.rows = {} /\ hurt = {} /\ made = 0
  BY <1>1 DEF Init, Locked, File, Writers
<1>3. Contents = {} /\ {p \in Procs : ~Closed(p)} = {}
  BY <1>2, ContentsAtRest
<1>4. (hurt \cap {"damage", "torn"} # {}) = FALSE /\ ("overlap" \in hurt) = FALSE
  BY <1>2
<1>5. QED
  BY <1>2, <1>3, <1>4 DEF Abstract!Init

\* The project behaves like a set of episodes with one user at a time.
THEOREM MemoryIsEpisodeStore == Spec => ImplementsEpisodeStore
<1>1. StoreInv /\ StoreInv' /\ [Next]_vars => [Abstract!Next]_Abstract!vars
  BY NextRefines DEF StoreInv
<1>2. QED
  BY <1>1, InitRefines, StoreInvAlways, PTL DEF Spec, ImplementsEpisodeStore, Abstract!Spec

\* As long as openings do not overlap, an episode that has left the contents,
\* or was left out of them, is never among them again: only new ones enter.
NothingReturns == [][Alone' => {i \in Ids(Contents)' : i <= made} \subseteq Ids(Contents)]_vars

LEMMA StoreStepReturnsNothing ==
  ASSUME TypeOK, Abstract!Next, Alone'
  PROVE  {i \in Ids(Contents)' : i <= made} \subseteq Ids(Contents)
<1>1. SUFFICES ASSUME NEW s \in Contents', s.id <= made
               PROVE  \E r \in Contents : r.id = s.id
  BY DEF Ids
<1>2. "overlap" \notin hurt /\ ~("overlap" \in hurt)'
  BY DEF Alone, Abstract!Next, Abstract!Open, Abstract!Leave, Abstract!CrashRewriting,
         Abstract!CrashAppending, Abstract!Overlap, Abstract!Put, Abstract!Retire, Abstract!Drop
<1>3. CASE Contents' \subseteq Contents
  BY <1>3
<1>4. ASSUME NEW u \in Procs, Abstract!Open(u) \/ Abstract!Leave(u) \/ Abstract!CrashRewriting(u)
      PROVE  Contents' \subseteq Contents
  BY <1>2, <1>4 DEF Abstract!Open, Abstract!Leave, Abstract!CrashRewriting
<1>5. ASSUME NEW t \in Topics \cup {NoTopic}, Abstract!Put(t)
      PROVE  s \in Contents
  <2>1. Contents' = Contents \cup {[id |-> made + 1, topic |-> t, active |-> TRUE]}
    BY <1>5 DEF Abstract!Put
  <2>2. made \in Int
    BY BoundsAssumption DEF TypeOK
  <2>3. s # [id |-> made + 1, topic |-> t, active |-> TRUE]
    BY <1>1, <2>2
  <2>4. QED
    BY <2>1, <2>3
<1>6. ASSUME NEW t \in Topics, Abstract!Retire(t)
      PROVE  \E r \in Contents : r.id = s.id
  <2>1. s \in Contents \/ \E r \in Contents : s = [r EXCEPT !.active = FALSE]
    BY <1>6 DEF Abstract!Retire
  <2>2. mem \in [Procs -> SUBSET Episode] /\ disk.rows \in SUBSET Episode
    BY DEF TypeOK, Jsonl
  <2>3. Contents \subseteq Episode
    BY <2>2 DEF Contents, Writers
  <2>4. \A r \in Contents : [r EXCEPT !.active = FALSE].id = r.id
    BY <2>3 DEF Episode
  <2>5. QED
    BY <2>1, <2>4
<1>7. ASSUME NEW S \in SUBSET Contents, Abstract!Drop(S)
      PROVE  Contents' \subseteq Contents
  BY <1>7 DEF Abstract!Drop
<1>8. ~Abstract!Overlap
  BY <1>2 DEF Abstract!Overlap
<1>9. ASSUME NEW u \in Procs, NEW t \in Topics \cup {NoTopic}, Abstract!CrashAppending(u, t)
      PROVE  s \in Contents
  <2>1. Contents' \subseteq Contents \cup {[id |-> made + 1, topic |-> t, active |-> TRUE]}
    BY <1>2, <1>9 DEF Abstract!CrashAppending
  <2>2. made \in Int
    BY BoundsAssumption DEF TypeOK
  <2>3. s # [id |-> made + 1, topic |-> t, active |-> TRUE]
    BY <1>1, <2>2
  <2>4. QED
    BY <2>1, <2>3
<1>10. QED
  BY <1>3, <1>4, <1>5, <1>6, <1>7, <1>8, <1>9 DEF Abstract!Next

\* Only new episodes enter the contents.
THEOREM ContentsNeverReturn == Spec => NothingReturns
<1>1. TypeOK /\ [Abstract!Next]_Abstract!vars =>
        [Alone' => {i \in Ids(Contents)' : i <= made} \subseteq Ids(Contents)]_vars
  <2>1. CASE UNCHANGED Abstract!vars
    BY <2>1 DEF Abstract!vars, Ids
  <2>2. CASE TypeOK /\ Abstract!Next
    BY <2>2, StoreStepReturnsNothing
  <2>3. QED
    BY <2>1, <2>2
<1>2. QED
  BY <1>1, MemoryIsEpisodeStore, TypeCorrect, PTL
     DEF NothingReturns, ImplementsEpisodeStore, Abstract!Spec
=============================================================================
