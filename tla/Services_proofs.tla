-------------------------- MODULE Services_proofs ---------------------------
(***************************************************************************)
(* The proofs about the lexical index, the workspaces of agents and the    *)
(* sessions of the language tutor.  The parts share no variable.           *)
(***************************************************************************)
EXTENDS LexicalCache, Workspaces, TutorSessions, FiniteSetTheorems, WellFoundedInduction,
  TLAPS

-----------------------------------------------------------------------------
(* Lexical index: an index that looks current has what the store has.      *)

Ingests(p, d) ==
  work[p].at \in {"removing", "removeMarked", "adding", "addMarked"} /\ work[p].chunk[1] = d

\* An index that looks current was built from what the store has, and the
\* marker of no mutation has been set since.
CacheOK(c) ==
  c # NoCache /\ c.current /\ ~c.blurred =>
    c.ids = store /\ \A p \in Pipelines : ~Marked(p)

FreshOK ==
  /\ CacheOK(saved) /\ \A p \in Pipelines : CacheOK(cache[p])
  /\ \A p \in Pipelines : work[p].at = "stamping" /\ ~work[p].blurred => work[p].ids = store

\* Of a document there is at most one chunk, the pipeline that ingests it
\* knows it, and removes it before it adds another.
IngestOK ==
  /\ \A p \in Pipelines :
       work[p].at \in {"removing", "removeMarked", "adding", "addMarked"} =>
         work[p].chunk \in Chunks
  /\ \A d \in Documents \ doubled :
       /\ \A c, e \in store : c[1] = d /\ e[1] = d => c = e
       /\ \A p, q \in Pipelines : Ingests(p, d) /\ Ingests(q, d) => p = q
       /\ \A p \in Pipelines, c \in store : Ingests(p, d) /\ c[1] = d =>
            work[p].at \in {"removing", "removeMarked"} /\ c \in work[p].ids

LexInv == LexTypeOK /\ FreshOK /\ IngestOK

LEMMA LexInitially == LexInit => LexInv
<1> SUFFICES ASSUME LexInit PROVE LexInv
  OBVIOUS
<1>1. NoWork \in Work /\ NoWork.at = "idle"
  BY DEF NoWork, Work
<1>2. \A p \in Pipelines : work[p] \in Work /\ work[p].at = "idle" /\ cache[p] = NoCache
  BY <1>1 DEF LexInit
<1>3. LexTypeOK
  BY <1>1, <1>2 DEF LexInit, LexTypeOK
<1>4. FreshOK /\ IngestOK
  BY <1>2 DEF LexInit, FreshOK, CacheOK, IngestOK, Ingests
<1>5. QED
  BY <1>3, <1>4 DEF LexInv

\* A step that only changes what one pipeline is doing.
LEMMA WorkChanges ==
  ASSUME LexInv, NEW p \in Pipelines, NEW new \in Work,
         work' = [work EXCEPT ![p] = new], store' = store, doubled' = doubled,
         saved' \in Cache \cup {NoCache}, cache' \in [Pipelines -> Cache \cup {NoCache}],
         CacheOK(saved)', \A q \in Pipelines : CacheOK(cache[q])',
         \A q \in Pipelines \ {p} : work[q].at = "saving" => cache'[q] # NoCache,
         new.at = "saving" => cache'[p] # NoCache,
         new.at = "stamping" /\ ~new.blurred => new.ids = store,
         new.at \in {"removing", "removeMarked", "adding", "addMarked"} =>
           /\ work[p].at \in {"removing", "removeMarked", "adding", "addMarked"}
           /\ new.chunk = work[p].chunk /\ new.ids = work[p].ids
           /\ new.at \in {"adding", "addMarked"} <=> work[p].at \in {"adding", "addMarked"}
  PROVE  LexInv'
<1>1. work \in [Pipelines -> Work] /\ work'[p] = new
      /\ \A q \in Pipelines \ {p} : work'[q] = work[q]
  BY DEF LexInv, LexTypeOK
<1>2. LexTypeOK'
  <2>1. work' \in [Pipelines -> Work]
    BY <1>1
  <2>2. \A q \in Pipelines : work'[q].at = "saving" => cache'[q] # NoCache
    BY <1>1 DEF LexInv, LexTypeOK
  <2>3. QED
    BY <2>1, <2>2 DEF LexInv, LexTypeOK
<1>3. FreshOK'
  BY <1>1 DEF LexInv, FreshOK
<1>4. IngestOK'
  <2>1. \A q \in Pipelines :
          work'[q].at \in {"removing", "removeMarked", "adding", "addMarked"} =>
            /\ work[q].at \in {"removing", "removeMarked", "adding", "addMarked"}
            /\ work'[q].chunk = work[q].chunk /\ work'[q].ids = work[q].ids
            /\ work'[q].at \in {"adding", "addMarked"} <=> work[q].at \in {"adding", "addMarked"}
    BY <1>1
  <2>2. QED
    BY <2>1 DEF LexInv, IngestOK, Ingests
<1>5. QED
  BY <1>2, <1>3, <1>4 DEF LexInv

\* A change of the data by a pipeline that has set the marker.
LEMMA MutateKeeps ==
  ASSUME LexInv, NEW p \in Pipelines, Marked(p), NEW place \in {"adding", "reading", "idle"},
         NEW new \in SUBSET Chunks, NEW chunk \in Chunks \cup {"none"},
         Mutate(p, new, place, chunk), UNCHANGED <<saved, cache, doubled>>,
         \/ new \subseteq store /\ place # "adding"
         \/ /\ work[p].at = "removeMarked" /\ new = store \ work[p].ids
            /\ place = "adding" /\ chunk = work[p].chunk
         \/ /\ work[p].at = "addMarked" /\ new = store \cup {work[p].chunk} /\ place = "reading"
  PROVE  LexInv'
<1>1. work \in [Pipelines -> Work]
  BY DEF LexInv, LexTypeOK
<1> DEFINE mine == [NoWork EXCEPT !.at = place, !.chunk = chunk]
<1>2. mine \in Work /\ mine.at = place /\ mine.chunk = chunk
  BY DEF NoWork, Work
<1>3. \A q \in Pipelines : [work[q] EXCEPT !.blurred = TRUE] \in Work
  BY <1>1 DEF Work
<1>4. /\ work' = [q \in Pipelines |->
           IF q = p THEN mine
           ELSE IF work[q].at = "stamping" THEN [work[q] EXCEPT !.blurred = TRUE]
           ELSE work[q]]
      /\ store' = new
  BY DEF Mutate
<1> HIDE DEF mine
<1>5. /\ work'[p] = mine
      /\ \A q \in Pipelines \ {p} :
           /\ work'[q].at = work[q].at /\ work'[q].chunk = work[q].chunk
           /\ work'[q].ids = work[q].ids
           /\ work'[q].at = "stamping" => work'[q].blurred
  BY <1>1, <1>4 DEF Work
<1>6. LexTypeOK'
  <2>1. work' \in [Pipelines -> Work]
    BY <1>1, <1>2, <1>3, <1>4
  <2>2. QED
    BY <1>2, <1>4, <1>5, <2>1 DEF LexInv, LexTypeOK
<1>7. FreshOK'
  BY <1>2, <1>5 DEF LexInv, FreshOK, CacheOK
<1>8. IngestOK'
  <2>1. \A q \in Pipelines :
          work'[q].at \in {"removing", "removeMarked", "adding", "addMarked"} =>
            work'[q].chunk \in Chunks
    BY <1>2, <1>5 DEF LexInv, IngestOK
  <2>2. CASE new \subseteq store /\ place # "adding"
    BY <1>2, <1>4, <1>5, <2>1, <2>2 DEF LexInv, IngestOK, Ingests
  <2>3. CASE /\ work[p].at = "removeMarked" /\ new = store \ work[p].ids
             /\ place = "adding" /\ chunk = work[p].chunk
    <3>1. \A d \in Documents \ doubled :
            /\ \A c, e \in store' : c[1] = d /\ e[1] = d => c = e
            /\ \A q, r \in Pipelines : Ingests(q, d)' /\ Ingests(r, d)' => q = r
      BY <1>2, <1>4, <1>5, <2>3 DEF LexInv, IngestOK, Ingests
    <3>2. ASSUME NEW d \in Documents \ doubled, NEW q \in Pipelines, NEW c \in store',
                 Ingests(q, d)', c[1] = d
          PROVE  work'[q].at \in {"removing", "removeMarked"} /\ c \in work'[q].ids
      <4>1. c \in store /\ c \notin work[p].ids
        BY <1>4, <2>3
      <4>2. Ingests(q, d)
        BY <1>2, <1>5, <2>3, <3>2 DEF Ingests
      <4>3. c \in work[q].ids /\ work[q].at \in {"removing", "removeMarked"}
        BY <3>2, <4>1, <4>2 DEF LexInv, IngestOK
      <4>4. QED
        BY <1>5, <4>1, <4>3
    <3>3. QED
      BY <2>1, <3>1, <3>2 DEF IngestOK
  <2>4. CASE work[p].at = "addMarked" /\ new = store \cup {work[p].chunk} /\ place = "reading"
    <3> DEFINE e == work[p].chunk
    <3>1. e \in Chunks /\ Ingests(p, e[1])
      BY <2>4 DEF LexInv, IngestOK, Ingests
    <3>2. ASSUME NEW d \in Documents \ doubled, NEW q \in Pipelines, Ingests(q, d)'
          PROVE  q # p /\ Ingests(q, d) /\ (d # e[1])
      <4>1. q # p /\ Ingests(q, d)
        BY <1>2, <1>5, <2>4, <3>2 DEF Ingests
      <4>2. QED
        BY <3>1, <4>1 DEF LexInv, IngestOK
    <3>3. ASSUME NEW d \in Documents \ doubled, d = e[1], NEW c \in store
          PROVE  c[1] # d
      BY <2>4, <3>1, <3>3 DEF LexInv, IngestOK
    <3>4. ASSUME NEW d \in Documents \ doubled
          PROVE  /\ \A a, b \in store' : a[1] = d /\ b[1] = d => a = b
                 /\ \A q, r \in Pipelines : Ingests(q, d)' /\ Ingests(r, d)' => q = r
                 /\ \A q \in Pipelines, c \in store' : Ingests(q, d)' /\ c[1] = d =>
                      work'[q].at \in {"removing", "removeMarked"} /\ c \in work'[q].ids
      <4>1. \A a, b \in store' : a[1] = d /\ b[1] = d => a = b
        BY <1>4, <2>4, <3>3 DEF LexInv, IngestOK
      <4>2. \A q, r \in Pipelines : Ingests(q, d)' /\ Ingests(r, d)' => q = r
        BY <3>2 DEF LexInv, IngestOK
      <4>3. ASSUME NEW q \in Pipelines, NEW c \in store', Ingests(q, d)', c[1] = d
            PROVE  work'[q].at \in {"removing", "removeMarked"} /\ c \in work'[q].ids
        <5>1. q # p /\ Ingests(q, d) /\ c \in store
          BY <1>4, <2>4, <3>2, <4>3
        <5>2. QED
          BY <1>5, <4>3, <5>1 DEF LexInv, IngestOK
      <4>4. QED
        BY <4>1, <4>2, <4>3
    <3>5. QED
      BY <2>1, <3>4 DEF IngestOK
  <2>5. QED
    BY <2>2, <2>3, <2>4
<1>9. QED
  BY <1>6, <1>7, <1>8 DEF LexInv

LEMMA IngestKeeps ==
  ASSUME LexInv, NEW p \in Pipelines, NEW d \in Documents, NEW v \in Versions, Ingest(p, d, v)
  PROVE  LexInv'
<1> DEFINE new == [NoWork EXCEPT !.at = IF OfDocument(d) = {} THEN "adding" ELSE "removing",
                                 !.chunk = <<d, v>>, !.ids = OfDocument(d)]
<1>1. work \in [Pipelines -> Work] /\ store \subseteq Chunks /\ doubled \subseteq Documents
  BY DEF LexInv, LexTypeOK
<1>2. /\ new \in Work /\ new.chunk = <<d, v>> /\ new.ids = OfDocument(d) /\ <<d, v>> \in Chunks
      /\ new.at \in {"adding", "removing"} /\ (new.at = "adding" <=> OfDocument(d) = {})
  BY <1>1 DEF NoWork, Work, OfDocument, Chunks
<1>3. /\ work[p].at = "idle" /\ work' = [work EXCEPT ![p] = new]
      /\ doubled' = IF \E q \in Pipelines : Ingesting(q, d) THEN doubled \cup {d} ELSE doubled
      /\ UNCHANGED <<store, saved, cache>>
  BY DEF Ingest
<1> HIDE DEF new
<1>4. work'[p] = new /\ \A q \in Pipelines \ {p} : work'[q] = work[q]
  BY <1>1, <1>3
<1>5. LexTypeOK'
  <2>1. work' \in [Pipelines -> Work] /\ doubled' \subseteq Documents
    BY <1>1, <1>2, <1>3
  <2>2. QED
    BY <1>2, <1>3, <1>4, <2>1 DEF LexInv, LexTypeOK
<1>6. FreshOK'
  BY <1>2, <1>3, <1>4 DEF LexInv, FreshOK, CacheOK, Marked
<1>7. IngestOK'
  <2>1. \A q \in Pipelines :
          work'[q].at \in {"removing", "removeMarked", "adding", "addMarked"} =>
            work'[q].chunk \in Chunks
    BY <1>2, <1>4 DEF LexInv, IngestOK
  <2>2. ASSUME NEW f \in Documents \ doubled', f # d
        PROVE  \A q \in Pipelines : Ingests(q, f)' => Ingests(q, f) /\ q # p
    <3>1. <<d, v>>[1] = d
      OBVIOUS
    <3>2. QED
      BY <1>2, <1>4, <2>2, <3>1 DEF Ingests
  <2>3. ASSUME d \notin doubled', NEW q \in Pipelines \ {p}
        PROVE  ~Ingests(q, d)'
    <3>1. ~Ingesting(q, d)
      BY <1>1, <1>3, <2>3
    <3>2. QED
      BY <1>4, <3>1 DEF LexInv, IngestOK, Ingests, Ingesting
  <2>4. doubled \subseteq doubled' /\ store' = store
    BY <1>3
  <2>5. ASSUME NEW f \in Documents \ doubled'
        PROVE  /\ \A c, e \in store' : c[1] = f /\ e[1] = f => c = e
               /\ \A q, r \in Pipelines : Ingests(q, f)' /\ Ingests(r, f)' => q = r
               /\ \A q \in Pipelines, c \in store' : Ingests(q, f)' /\ c[1] = f =>
                    work'[q].at \in {"removing", "removeMarked"} /\ c \in work'[q].ids
    <3>1. CASE f # d
      BY <1>4, <2>2, <2>4, <3>1 DEF LexInv, IngestOK
    <3>2. CASE f = d
      <4>1. \A c, e \in store' : c[1] = f /\ e[1] = f => c = e
        BY <2>4 DEF LexInv, IngestOK
      <4>2. \A c \in store' : c[1] = d => work'[p].at = "removing" /\ c \in work'[p].ids
        BY <1>2, <1>4, <2>4 DEF OfDocument
      <4>3. QED
        BY <2>3, <3>2, <4>1, <4>2
    <3>3. QED
      BY <3>1, <3>2
  <2>6. QED
    BY <2>1, <2>5 DEF IngestOK
<1>8. QED
  BY <1>5, <1>6, <1>7 DEF LexInv

\* The caches stay, but for those that are dropped or replaced by the file.
LEMMA CachesStay ==
  ASSUME LexInv, store' = store, saved' \in {saved, NoCache} \cup {cache[p] : p \in Pipelines},
         \A q \in Pipelines : cache'[q] \in {cache[q], saved, NoCache},
         \A q \in Pipelines : Marked(q)' => Marked(q)
  PROVE  CacheOK(saved)' /\ \A q \in Pipelines : CacheOK(cache[q])'
BY DEF LexInv, FreshOK, CacheOK

LEMMA MarkKeeps ==
  ASSUME LexInv, NEW p \in Pipelines,
         NEW before \in {"removing", "adding", "pruning"},
         NEW after \in {"removeMarked", "addMarked", "pruneMarked"},
         <<before, after>> \in {<<"removing", "removeMarked">>, <<"adding", "addMarked">>,
                                <<"pruning", "pruneMarked">>},
         Mark(p, before, after)
  PROVE  LexInv'
<1> DEFINE new == [work[p] EXCEPT !.at = after]
<1>1. /\ work \in [Pipelines -> Work] /\ work[p] \in Work /\ saved \in Cache \cup {NoCache}
      /\ cache \in [Pipelines -> Cache \cup {NoCache}]
  BY DEF LexInv, LexTypeOK
<1>2. /\ new \in Work /\ new.at = after /\ new.chunk = work[p].chunk /\ new.ids = work[p].ids
      /\ work[p].at = before
  BY <1>1 DEF Work, Mark
<1>3. /\ work' = [work EXCEPT ![p] = new] /\ store' = store /\ doubled' = doubled
      /\ saved' = Outdated(saved) /\ cache' = [q \in Pipelines |-> Outdated(cache[q])]
  BY <1>1 DEF Mark, MarkUpdating, Goes
<1> HIDE DEF new
<1>4. ASSUME NEW c \in Cache \cup {NoCache}
      PROVE  /\ Outdated(c) \in Cache \cup {NoCache} /\ (c # NoCache => Outdated(c) # NoCache)
             /\ Outdated(c) # NoCache => ~Outdated(c).current
  BY CacheAssumption DEF Outdated, Cache
<1>5. CacheOK(saved)' /\ \A q \in Pipelines : CacheOK(cache[q])'
  BY <1>1, <1>3, <1>4 DEF CacheOK
<1>6. saved' \in Cache \cup {NoCache} /\ cache' \in [Pipelines -> Cache \cup {NoCache}]
  BY <1>1, <1>3, <1>4
<1>7. \A q \in Pipelines : work[q].at = "saving" => cache'[q] # NoCache
  BY <1>1, <1>3, <1>4 DEF LexInv, LexTypeOK
<1>8. new.at \in {"adding", "addMarked"} <=> work[p].at \in {"adding", "addMarked"}
  BY <1>2
<1>9. QED
  BY <1>2, <1>3, <1>5, <1>6, <1>7, <1>8, WorkChanges

LEMMA PipelineKeeps ==
  ASSUME LexInv, NEW p \in Pipelines, PipelineStep(p)
  PROVE  LexInv'
<1>1. /\ work \in [Pipelines -> Work] /\ work[p] \in Work /\ saved \in Cache \cup {NoCache}
      /\ cache \in [Pipelines -> Cache \cup {NoCache}] /\ store \subseteq Chunks
      /\ \A q \in Pipelines : work[q].at = "saving" => cache[q] # NoCache
  BY DEF LexInv, LexTypeOK
<1>2. NoWork \in Work /\ NoWork.at = "idle" /\ NoWork.chunk = "none"
  BY DEF NoWork, Work
<1>3. ASSUME NEW d \in Documents, Prune(p, d)
      PROVE  LexInv'
  <2>1. PICK old \in SUBSET OfDocument(d) :
          work' = [work EXCEPT ![p] = [NoWork EXCEPT !.at = "pruning", !.ids = old]]
    BY <1>3 DEF Prune
  <2> DEFINE new == [NoWork EXCEPT !.at = "pruning", !.ids = old]
  <2>2. new \in Work /\ new.at = "pruning"
    BY <1>1 DEF NoWork, Work, OfDocument
  <2>3. UNCHANGED <<store, saved, cache, doubled>> /\ work' = [work EXCEPT ![p] = new]
    BY <1>3, <2>1 DEF Prune
  <2> HIDE DEF new
  <2>4. \A q \in Pipelines : Marked(q)' => Marked(q)
    BY <1>1, <2>2, <2>3 DEF Marked
  <2>5. CacheOK(saved)' /\ \A q \in Pipelines : CacheOK(cache[q])'
    BY <2>3, <2>4, CachesStay
  <2>6. QED
    BY <1>1, <2>2, <2>3, <2>5, WorkChanges
<1>4. ASSUME NEW d \in Documents, NEW v \in Versions, Ingest(p, d, v)
      PROVE  LexInv'
  BY <1>4, IngestKeeps
<1>5. CASE Mark(p, "removing", "removeMarked") \/ Mark(p, "adding", "addMarked")
           \/ Mark(p, "pruning", "pruneMarked")
  BY <1>5, MarkKeeps
<1>6. CASE RemovePrior(p)
  <2>1. /\ work[p].at = "removeMarked" /\ Mutate(p, store \ work[p].ids, "adding", work[p].chunk)
        /\ UNCHANGED <<saved, cache, doubled>>
    BY <1>6 DEF RemovePrior
  <2>2. Marked(p) /\ work[p].chunk \in Chunks
    BY <2>1 DEF Marked, LexInv, IngestOK
  <2>3. QED
    BY <1>1, <2>1, <2>2, MutateKeeps
<1>7. CASE Add(p)
  <2>1. /\ work[p].at = "addMarked" /\ Mutate(p, store \cup {work[p].chunk}, "reading", "none")
        /\ UNCHANGED <<saved, cache, doubled>>
    BY <1>7 DEF Add
  <2>2. Marked(p) /\ work[p].chunk \in Chunks
    BY <2>1 DEF Marked, LexInv, IngestOK
  <2>3. QED
    BY <1>1, <2>1, <2>2, MutateKeeps
<1>8. CASE RemovePruned(p)
  <2>1. /\ work[p].at = "pruneMarked" /\ Mutate(p, store \ work[p].ids, "idle", "none")
        /\ UNCHANGED <<saved, cache, doubled>>
    BY <1>8 DEF RemovePruned
  <2>2. Marked(p) /\ store \ work[p].ids \subseteq store
    BY <2>1 DEF Marked
  <2>3. QED
    BY <1>1, <2>1, <2>2, MutateKeeps
<1>9. CASE IngestFails(p) \/ ReadAll(p)
  <2>1. PICK new \in Work :
          /\ work' = [work EXCEPT ![p] = new]
          /\ new.at \in {"idle", "reading", "stamping"}
          /\ new.at = "stamping" => new.ids = store
    <3>1. CASE IngestFails(p)
      <4>1. [NoWork EXCEPT !.at = "reading"] \in Work
        BY DEF NoWork, Work
      <4>2. [NoWork EXCEPT !.at = "reading"].at = "reading"
        BY DEF NoWork
      <4>3. QED
        BY <1>2, <3>1, <4>1, <4>2 DEF IngestFails, Stops
    <3>2. CASE ReadAll(p) /\ store = {}
      BY <1>2, <3>2 DEF ReadAll, Stops
    <3>3. CASE ReadAll(p) /\ store # {}
      <4> DEFINE r == [work[p] EXCEPT !.at = "stamping", !.ids = store]
      <4>1. r \in Work /\ r.at = "stamping" /\ r.ids = store
        BY <1>1 DEF Work
      <4>2. work' = [work EXCEPT ![p] = r]
        BY <1>1, <3>3 DEF ReadAll
      <4> HIDE DEF r
      <4>3. QED
        BY <4>1, <4>2
    <3>4. QED
      BY <1>9, <3>1, <3>2, <3>3
  <2>2. UNCHANGED <<store, saved, cache, doubled>>
    BY <1>9 DEF IngestFails, ReadAll
  <2>3. \A q \in Pipelines : Marked(q)' => Marked(q)
    BY <1>1, <2>1 DEF Marked
  <2>4. CacheOK(saved)' /\ \A q \in Pipelines : CacheOK(cache[q])'
    BY <2>2, <2>3, CachesStay
  <2>5. QED
    BY <1>1, <2>1, <2>2, <2>4, WorkChanges
<1>10. CASE Stamp(p)
  <2> DEFINE new == [NoWork EXCEPT !.at = "saving"]
  <2> DEFINE built == [ids |-> work[p].ids, current |-> TRUE,
                       blurred |-> work[p].blurred \/ \E q \in Pipelines : Marked(q)]
  <2>1. new \in Work /\ new.at = "saving"
    BY DEF NoWork, Work
  <2>2. /\ built \in Cache /\ built.ids = work[p].ids
        /\ built.blurred = (work[p].blurred \/ \E q \in Pipelines : Marked(q))
    BY <1>1 DEF Cache, Work
  <2>3. /\ work[p].at = "stamping" /\ work' = [work EXCEPT ![p] = new]
        /\ cache' = [cache EXCEPT ![p] = built] /\ UNCHANGED <<store, saved, doubled>>
    BY <1>10 DEF Stamp
  <2> HIDE DEF new, built
  <2>4. built # NoCache
    BY <2>2, CacheAssumption
  <2>5. \A q \in Pipelines : Marked(q)' => Marked(q)
    BY <1>1, <2>1, <2>3 DEF Marked
  <2>6. ~built.blurred => built.ids = store
    BY <2>2, <2>3 DEF LexInv, FreshOK
  <2>7. CacheOK(saved)'
    BY <2>3, <2>5 DEF LexInv, FreshOK, CacheOK
  <2>8. ASSUME NEW q \in Pipelines
        PROVE  CacheOK(cache[q])'
    <3>1. CASE q = p
      BY <1>1, <2>2, <2>3, <2>5, <2>6, <3>1 DEF CacheOK
    <3>2. CASE q # p
      BY <1>1, <2>3, <2>5, <3>2 DEF LexInv, FreshOK, CacheOK
    <3>3. QED
      BY <3>1, <3>2
  <2>9. /\ cache' \in [Pipelines -> Cache \cup {NoCache}] /\ cache'[p] # NoCache
        /\ \A q \in Pipelines \ {p} : work[q].at = "saving" => cache'[q] # NoCache
    BY <1>1, <2>2, <2>3, <2>4
  <2>10. QED
    BY <1>1, <2>1, <2>3, <2>7, <2>8, <2>9, WorkChanges
<1>11. CASE Save(p) \/ Exit(p)
  <2>1. /\ work' = [work EXCEPT ![p] = NoWork] /\ store' = store /\ doubled' = doubled
        /\ saved' \in {cache[p], saved, NoCache}
        /\ cache' \in {cache, [cache EXCEPT ![p] = NoCache]}
    BY <1>11 DEF Save, Exit, Stops
  <2>2. \A q \in Pipelines : Marked(q)' => Marked(q)
    BY <1>1, <1>2, <2>1 DEF Marked
  <2>3. CacheOK(saved)' /\ \A q \in Pipelines : CacheOK(cache[q])'
    BY <1>1, <2>1, <2>2, CachesStay
  <2>4. /\ saved' \in Cache \cup {NoCache} /\ cache' \in [Pipelines -> Cache \cup {NoCache}]
        /\ \A q \in Pipelines \ {p} : cache'[q] = cache[q]
    BY <1>1, <2>1
  <2>5. QED
    BY <1>1, <1>2, <2>1, <2>3, <2>4, WorkChanges
<1>12. CASE Query(p)
  <2>1. PICK new \in Work :
          /\ work' = [work EXCEPT ![p] = new]
          /\ new.at \in {"idle", "reading"}
    <3>1. CASE LooksFresh(saved)
      <4>1. work' = [work EXCEPT ![p] = work[p]] /\ work[p].at = "idle"
        BY <1>1, <1>12, <3>1 DEF Query
      <4>2. QED
        BY <1>1, <4>1
    <3>2. CASE ~LooksFresh(saved)
      <4> DEFINE r == [work[p] EXCEPT !.at = "reading"]
      <4>1. r \in Work /\ r.at = "reading"
        BY <1>1 DEF Work
      <4>2. work' = [work EXCEPT ![p] = r]
        BY <1>1, <1>12, <3>2 DEF Query, Goes
      <4> HIDE DEF r
      <4>3. QED
        BY <4>1, <4>2
    <3>3. QED
      BY <3>1, <3>2
  <2>2. /\ UNCHANGED <<store, saved, doubled>>
        /\ cache' \in {[cache EXCEPT ![p] = saved], [cache EXCEPT ![p] = NoCache]}
    BY <1>12 DEF Query
  <2>3. \A q \in Pipelines : Marked(q)' => Marked(q)
    BY <1>1, <2>1 DEF Marked
  <2>4. CacheOK(saved)' /\ \A q \in Pipelines : CacheOK(cache[q])'
    BY <1>1, <2>2, <2>3, CachesStay
  <2>5. /\ cache' \in [Pipelines -> Cache \cup {NoCache}]
        /\ \A q \in Pipelines \ {p} : cache'[q] = cache[q]
    BY <1>1, <2>2
  <2>6. QED
    BY <1>1, <2>1, <2>2, <2>4, <2>5, WorkChanges
<1>13. QED
  BY <1>3, <1>4, <1>5, <1>6, <1>7, <1>8, <1>9, <1>10, <1>11, <1>12 DEF PipelineStep

LEMMA LexStep == LexInv /\ [LexNext]_lexVars => LexInv'
<1> SUFFICES ASSUME LexInv, [LexNext]_lexVars PROVE LexInv'
  OBVIOUS
<1>1. CASE UNCHANGED lexVars
  BY <1>1 DEF lexVars, LexInv, LexTypeOK, FreshOK, CacheOK, IngestOK, Ingests, Marked
<1>2. CASE LexNext
  BY <1>2, PipelineKeeps DEF LexNext
<1>3. QED
  BY <1>1, <1>2

LEMMA LexInvariant == LexSpec => []LexInv
BY LexInitially, LexStep, PTL DEF LexSpec

\* The store, the cache file and the indexes of the pipelines keep their types.
THEOREM LexTypeCorrect == LexSpec => []LexTypeOK
BY LexInvariant, PTL DEF LexInv

\* A lexical index that _bm25_cache_is_stale takes for fresh has the chunks of
\* the store, at any point at which a pipeline fails or is killed.
THEOREM FreshIndexIsExact == LexSpec => []FreshIsExact
<1>1. LexInv => FreshIsExact
  BY DEF LexInv, FreshOK, CacheOK, FreshIsExact, Caches, LooksFresh
<1>2. QED
  BY <1>1, LexInvariant, PTL

\* An ingestion replaces what the store has of a document; it never holds two
\* versions unless two pipelines ingest the document at once.
THEOREM DocumentsHaveOneVersion == LexSpec => []OneVersion
<1>1. ASSUME LexInv, NEW d \in Documents \ doubled
      PROVE  Cardinality(OfDocument(d)) <= 1
  <2>1. CASE OfDocument(d) = {}
    BY <2>1, FS_EmptySet
  <2>2. CASE OfDocument(d) # {}
    <3>1. PICK c \in OfDocument(d) : TRUE
      BY <2>2
    <3>2. OfDocument(d) = {c}
      BY <1>1, <3>1 DEF LexInv, IngestOK, OfDocument
    <3>3. Cardinality(OfDocument(d)) = 1
      BY <3>2, FS_Singleton, Zenon
    <3>4. QED
      BY <3>3
  <2>3. QED
    BY <2>1, <2>2
<1>2. LexInv => OneVersion
  BY <1>1 DEF OneVersion
<1>3. QED
  BY <1>2, LexInvariant, PTL

-----------------------------------------------------------------------------
(* Workspaces: a directory has one maker.                                  *)

\* The directory of an owner is made by one process at a time, and is partly
\* made as long as it is, unless it was disturbed.
MakersAlone ==
  \A p \in Preparers : prep[p].at \in {"linking", "making"} /\ Owner(p) \notin disturbed =>
    /\ tree[Owner(p)] = "partial"
    /\ \A q \in Preparers \ {p} :
         prep[q].at \in {"linking", "making"} => Owner(q) # Owner(p)

\* What a process has read of the allocations file is true of the workspaces.
ReadTrue ==
  \A p \in Preparers, o \in Owners :
    prep[p].at = "saving" /\ prep[p].data[o] \in {"git_worktree", "copy"} => Complete(o)

\* Nobody is about to save an old table, unless one has been lost already.
ReadCurrent ==
  overwritten \/ (/\ allocations = recorded
                  /\ \A p \in Preparers : prep[p].at = "saving" => prep[p].data = allocations)

WsInv == WsTypeOK /\ MakersAlone /\ WorkspaceComplete /\ ReadTrue /\ ReadCurrent

USE DEF NotPreparing, Preparing, Tables, NoTable, Sources

LEMMA WsInitially == WsInit => WsInv
<1> SUFFICES ASSUME WsInit PROVE WsInv
  OBVIOUS
<1>1. NotPreparing \in Preparing /\ NotPreparing.at = "idle"
  OBVIOUS
<1>2. prep \in [Preparers -> Preparing] /\ \A p \in Preparers : prep[p].at = "idle"
  BY <1>1 DEF WsInit
<1>3. WsTypeOK
  BY <1>2 DEF WsInit, WsTypeOK
<1>4. MakersAlone /\ WorkspaceComplete /\ ReadTrue /\ ReadCurrent
  BY <1>2 DEF WsInit, MakersAlone, WorkspaceComplete, ReadTrue, ReadCurrent
<1>5. QED
  BY <1>3, <1>4 DEF WsInv

\* Steps that change one process and its owner's directory.
LEMMA PrepStepKeeps ==
  ASSUME WsInv, NEW p \in Preparers, NEW new \in Preparing,
         prep' = [prep EXCEPT ![p] = new],
         new.at # "idle" => new.owner \in Owners,
         new.at \in {"loading", "saving"} => new.source \in Sources,
         tree' \in [Owners -> {"absent", "partial", "copy", "worktree"}],
         repo' = repo, allocations' = allocations, recorded' = recorded,
         overwritten' = overwritten, disturbed \subseteq disturbed', disturbed' \subseteq Owners,
         \A o \in Owners : Complete(o) => Complete(o)',
         new.at \in {"loading", "saving"} /\ new.source # "in_place" =>
            \A o \in Owners : o = new.owner => Complete(o)',
         new.at = "saving" => new.data = allocations,
         new.at \in {"linking", "making"} /\ new.owner \notin disturbed' =>
            tree'[new.owner] = "partial",
         \A q \in Preparers \ {p} :
            prep[q].at \in {"linking", "making"} /\ Owner(q) \notin disturbed' =>
              /\ tree'[Owner(q)] = tree[Owner(q)]
              /\ new.at \in {"linking", "making"} => Owner(q) # new.owner
  PROVE  WsInv'
<1>1. prep \in [Preparers -> Preparing] /\ allocations \in Tables
  BY DEF WsInv, WsTypeOK
<1>2. prep'[p] = new /\ \A q \in Preparers \ {p} : prep'[q] = prep[q]
  BY <1>1
<1>3. WsTypeOK'
  <2>1. prep' \in [Preparers -> Preparing]
    BY <1>1
  <2>2. ASSUME NEW q \in Preparers
        PROVE  /\ prep'[q].at # "idle" => prep'[q].owner \in Owners
               /\ prep'[q].at \in {"loading", "saving"} => prep'[q].source \in Sources
    BY <1>2 DEF WsInv, WsTypeOK
  <2>3. QED
    BY <2>1, <2>2 DEF WsInv, WsTypeOK
<1>4. MakersAlone'
  BY <1>2 DEF WsInv, MakersAlone, Owner
<1>5. WorkspaceComplete'
  <2>1. \A o \in Owners : allocations'[o] \in {"git_worktree", "copy"} => Complete(o)'
    BY DEF WsInv, WorkspaceComplete
  <2>2. ASSUME NEW q \in Preparers, prep'[q].at \in {"loading", "saving"},
               prep'[q].source # "in_place",
               NEW o \in Owners, o = prep'[q].owner
        PROVE  Complete(o)'
    <3>1. CASE q = p
      BY <1>2, <2>2, <3>1
    <3>2. CASE q # p
      <4>1. prep'[q] = prep[q] /\ Complete(o)
        BY <1>2, <2>2, <3>2 DEF WsInv, WorkspaceComplete, Owner
      <4>2. QED
        BY <4>1
    <3>3. QED
      BY <3>1, <3>2
  <2>3. ASSUME NEW q \in Preparers, prep'[q].at \in {"loading", "saving"},
               prep'[q].source # "in_place"
        PROVE  Complete(Owner(q))'
    <3>1. prep'[q].owner \in Owners
      BY <1>3, <2>3 DEF WsTypeOK
    <3>2. QED
      BY <2>2, <2>3, <3>1 DEF Owner, Complete
  <2>4. QED
    BY <2>1, <2>3 DEF WorkspaceComplete
<1>6. ReadTrue'
  <2>1. ASSUME NEW q \in Preparers, NEW o \in Owners,
               prep'[q].at = "saving", prep'[q].data[o] \in {"git_worktree", "copy"}
        PROVE  Complete(o)
    BY <1>2, <2>1 DEF WsInv, ReadTrue, WorkspaceComplete
  <2>2. QED
    BY <2>1 DEF ReadTrue
<1>7. ReadCurrent'
  BY <1>2 DEF WsInv, ReadCurrent
<1>8. QED
  BY <1>3, <1>4, <1>5, <1>6, <1>7 DEF WsInv

LEMMA SaveKeeps ==
  ASSUME WsInv, NEW p \in Preparers, SaveAllocations(p)
  PROVE  WsInv'
<1>1. /\ prep \in [Preparers -> Preparing] /\ allocations \in Tables /\ recorded \in Tables
      /\ Owner(p) \in Owners /\ prep[p].source \in Sources /\ prep[p].data \in Tables
      /\ overwritten \in BOOLEAN
  BY DEF WsInv, WsTypeOK, SaveAllocations, Owner
<1>2. /\ prep[p].at = "saving" /\ prep' = [prep EXCEPT ![p] = NotPreparing]
      /\ allocations' = [prep[p].data EXCEPT ![Owner(p)] = prep[p].source]
      /\ recorded' = [recorded EXCEPT ![Owner(p)] = prep[p].source]
      /\ overwritten' = (overwritten \/ \E q \in Preparers \ {p} : prep[q].at = "saving")
      /\ UNCHANGED <<repo, tree, disturbed>>
  BY DEF SaveAllocations, TableWith
<1>3. prep'[p] = NotPreparing /\ \A q \in Preparers \ {p} : prep'[q] = prep[q]
  BY <1>1, <1>2
<1>4. NotPreparing \in Preparing
  OBVIOUS
<1>5. WsTypeOK'
  <2>1. prep' \in [Preparers -> Preparing]
    BY <1>1, <1>2, <1>4
  <2>2. allocations' \in Tables /\ recorded' \in Tables
    BY <1>1, <1>2
  <2>3. overwritten' \in BOOLEAN
    BY <1>2
  <2>4. QED
    BY <1>2, <1>3, <2>1, <2>2, <2>3 DEF WsInv, WsTypeOK
<1>6. MakersAlone'
  BY <1>2, <1>3 DEF WsInv, MakersAlone, Owner
<1>7. \A o \in Owners : Complete(o) <=> Complete(o)'
  BY <1>2 DEF Complete
<1>8. WorkspaceComplete'
  <2>1. ASSUME NEW o \in Owners, allocations'[o] \in {"git_worktree", "copy"}
        PROVE  Complete(o)
    <3>1. CASE o = Owner(p)
      BY <1>1, <1>2, <2>1, <3>1 DEF WsInv, WorkspaceComplete
    <3>2. CASE o # Owner(p)
      BY <1>1, <1>2, <2>1, <3>2 DEF WsInv, ReadTrue
    <3>3. QED
      BY <3>1, <3>2
  <2>2. ASSUME NEW q \in Preparers, prep'[q].at \in {"loading", "saving"},
               prep'[q].source # "in_place"
        PROVE  Complete(Owner(q))'
    BY <1>2, <1>3, <2>2 DEF WsInv, WorkspaceComplete, Owner, Complete
  <2>3. QED
    BY <1>7, <2>1, <2>2 DEF WorkspaceComplete
<1>9. ReadTrue'
  BY <1>3, <1>7 DEF WsInv, ReadTrue
<1>10. ReadCurrent'
  BY <1>1, <1>2, <1>3 DEF WsInv, ReadCurrent
<1>11. QED
  BY <1>5, <1>6, <1>8, <1>9, <1>10 DEF WsInv

LEMMA PreparerKeeps ==
  ASSUME WsInv, NEW p \in Preparers, PreparerStep(p)
  PROVE  WsInv'
<1>1. /\ prep \in [Preparers -> Preparing] /\ prep[p] \in Preparing /\ allocations \in Tables
      /\ tree \in [Owners -> {"absent", "partial", "copy", "worktree"}] /\ disturbed \subseteq Owners
      /\ prep[p].at # "idle" => Owner(p) \in Owners
  BY DEF WsInv, WsTypeOK, Owner
<1>2. ASSUME NEW o \in Owners, NEW mode \in Modes[o], Prepare(p, o, mode)
      PROVE  WsInv'
  <2> DEFINE new ==
        IF mode = "in_place"
          THEN [NotPreparing EXCEPT !.at = "loading", !.owner = o, !.source = "in_place"]
          ELSE [NotPreparing EXCEPT !.at = IF repo THEN "adding" ELSE "copying", !.owner = o]
  <2>1. /\ new \in Preparing /\ new.owner = o /\ new.at \in {"loading", "adding", "copying"}
        /\ new.at = "loading" => new.source = "in_place"
    OBVIOUS
  <2>2. prep' = [prep EXCEPT ![p] = new]
        /\ UNCHANGED <<repo, tree, allocations, recorded, overwritten, disturbed>>
    BY <1>2 DEF Prepare
  <2> HIDE DEF new
  <2>3. \A x \in Owners : Complete(x) => Complete(x)'
    BY <2>2 DEF Complete
  <2> HIDE DEF NotPreparing, Preparing, Tables, NoTable
  <2>4. QED
    BY <1>1, <2>1, <2>2, <2>3, PrepStepKeeps
<1>3. ASSUME NEW place \in {"adding", "copying"}, NEW source \in {"git_worktree", "copy"},
             Take(p, place, source)
      PROVE  WsInv'
  <2> DEFINE new == [prep[p] EXCEPT !.at = "loading", !.source = source]
  <2>1. /\ new \in Preparing /\ new.owner = Owner(p) /\ new.at = "loading"
        /\ new.source = source /\ Owner(p) \in Owners
    BY <1>1, <1>3 DEF Owner, Take
  <2>2. /\ prep' = [prep EXCEPT ![p] = new] /\ tree[Owner(p)] # "absent"
        /\ disturbed' = IF tree[Owner(p)] = "partial" THEN disturbed \cup {Owner(p)}
                                                      ELSE disturbed
        /\ UNCHANGED <<repo, tree, allocations, recorded, overwritten>>
    BY <1>1, <1>3 DEF Take, PrepGoes
  <2> HIDE DEF new
  <2>3. disturbed \subseteq disturbed' /\ disturbed' \subseteq Owners
    BY <1>1, <2>1, <2>2
  <2>4. \A x \in Owners : Complete(x) => Complete(x)'
    BY <2>2 DEF Complete
  <2>5. \A x \in Owners : x = Owner(p) => Complete(x)'
    BY <1>1, <2>1, <2>2 DEF Complete
  <2> HIDE DEF NotPreparing, Preparing, Tables, NoTable
  <2>6. QED
    BY <1>1, <2>1, <2>2, <2>3, <2>4, <2>5, PrepStepKeeps
<1>4. ASSUME NEW before \in {"adding", "copying"}, NEW after \in {"linking", "making"},
             BeginTree(p, before, after)
      PROVE  WsInv'
  <2> DEFINE new == [prep[p] EXCEPT !.at = after, !.source = "none"]
  <2>1. /\ new \in Preparing /\ new.owner = Owner(p) /\ new.at \in {"linking", "making"}
        /\ new.at \notin {"loading", "saving"} /\ new.owner \in Owners
    BY <1>1, <1>4 DEF Owner, BeginTree
  <2>2. /\ prep' = [prep EXCEPT ![p] = new] /\ tree[Owner(p)] = "absent"
        /\ tree' = [tree EXCEPT ![Owner(p)] = "partial"]
        /\ UNCHANGED <<repo, allocations, recorded, overwritten, disturbed>>
    BY <1>1, <1>4 DEF BeginTree, PrepGoes, Place
  <2> HIDE DEF new
  <2>3. \A x \in Owners : Complete(x) => Complete(x)'
    BY <1>1, <2>1, <2>2 DEF Complete
  <2>4. ASSUME NEW q \in Preparers \ {p}, prep[q].at \in {"linking", "making"},
               Owner(q) \notin disturbed
        PROVE  Owner(q) # new.owner /\ tree'[Owner(q)] = tree[Owner(q)]
    BY <1>1, <2>1, <2>2, <2>4 DEF WsInv, MakersAlone
  <2>5. /\ tree' \in [Owners -> {"absent", "partial", "copy", "worktree"}]
        /\ tree'[new.owner] = "partial" /\ disturbed \subseteq disturbed'
    BY <1>1, <2>1, <2>2
  <2>6. \A q \in Preparers \ {p} :
           prep[q].at \in {"linking", "making"} /\ Owner(q) \notin disturbed' =>
             Owner(q) # new.owner /\ tree'[Owner(q)] = tree[Owner(q)]
    BY <2>2, <2>4
  <2>7. /\ prep' = [prep EXCEPT ![p] = new] /\ disturbed' \subseteq Owners
        /\ repo' = repo /\ allocations' = allocations /\ recorded' = recorded
        /\ overwritten' = overwritten
    BY <1>1, <2>2
  <2> HIDE DEF NotPreparing, Preparing, Tables, NoTable, Sources
  <2>8. /\ new.at # "idle" => new.owner \in Owners
        /\ new.at \in {"loading", "saving"} => new.source \in Sources
        /\ new.at \in {"loading", "saving"} /\ new.source # "in_place" =>
             \A o \in Owners : o = new.owner => Complete(o)'
        /\ new.at = "saving" => new.data = allocations
        /\ new.at \in {"linking", "making"} /\ new.owner \notin disturbed' =>
             tree'[new.owner] = "partial"
    BY <2>1, <2>5
  <2>9. \A q \in Preparers \ {p} :
          prep[q].at \in {"linking", "making"} /\ Owner(q) \notin disturbed' =>
            /\ tree'[Owner(q)] = tree[Owner(q)]
            /\ new.at \in {"linking", "making"} => Owner(q) # new.owner
    BY <2>6
  <2>10. new \in Preparing
    BY <2>1
  <2>11. QED
    BY <2>3, <2>5, <2>7, <2>8, <2>9, <2>10, PrepStepKeeps
<1>5. ASSUME NEW before \in {"linking", "making"}, NEW made \in {"worktree", "copy"},
             NEW source \in {"git_worktree", "copy"}, EndTree(p, before, made, source)
      PROVE  WsInv'
  <2> DEFINE new == [prep[p] EXCEPT !.at = "loading", !.source = source]
  <2>1. /\ new \in Preparing /\ new.owner = Owner(p) /\ new.at = "loading"
        /\ new.source = source /\ Owner(p) \in Owners
    BY <1>1, <1>5 DEF Owner, EndTree
  <2>2. /\ prep' = [prep EXCEPT ![p] = new] /\ prep[p].at = before
        /\ tree' = [tree EXCEPT ![Owner(p)] = made]
        /\ UNCHANGED <<repo, allocations, recorded, overwritten, disturbed>>
    BY <1>1, <1>5 DEF EndTree, PrepGoes, Place
  <2> HIDE DEF new
  <2>3. \A x \in Owners : Complete(x) \/ x = Owner(p) => Complete(x)'
    BY <1>1, <2>1, <2>2 DEF Complete
  <2>4. ASSUME NEW q \in Preparers \ {p}, prep[q].at \in {"linking", "making"},
               Owner(q) \notin disturbed
        PROVE  tree'[Owner(q)] = tree[Owner(q)]
    BY <1>1, <2>1, <2>2, <2>4 DEF WsInv, MakersAlone
  <2> HIDE DEF NotPreparing, Preparing, Tables, NoTable
  <2>5. QED
    BY <1>1, <2>1, <2>2, <2>3, <2>4, PrepStepKeeps
<1>6. CASE GitFails(p)
  <2> DEFINE new == [prep[p] EXCEPT !.at = "copying", !.source = "none"]
  <2>1. /\ new \in Preparing /\ new.owner = Owner(p) /\ new.at = "copying"
        /\ Owner(p) \in Owners
    BY <1>1, <1>6 DEF Owner, GitFails
  <2>2. /\ prep' = [prep EXCEPT ![p] = new]
        /\ tree' = IF prep[p].at = "linking" THEN [tree EXCEPT ![Owner(p)] = "absent"] ELSE tree
        /\ UNCHANGED <<repo, allocations, recorded, overwritten, disturbed>>
    BY <1>1, <1>6 DEF GitFails, PrepGoes
  <2> HIDE DEF new
  <2>3. \A x \in Owners : Complete(x) => Complete(x)'
    BY <1>1, <2>1, <2>2 DEF Complete, WsInv, MakersAlone
  <2>4. ASSUME NEW q \in Preparers \ {p}, prep[q].at \in {"linking", "making"},
               Owner(q) \notin disturbed
        PROVE  tree'[Owner(q)] = tree[Owner(q)]
    BY <1>1, <2>1, <2>2, <2>4 DEF WsInv, MakersAlone
  <2>5. /\ tree' \in [Owners -> {"absent", "partial", "copy", "worktree"}]
        /\ disturbed' = disturbed
    BY <1>1, <2>2
  <2>6. \A q \in Preparers \ {p} :
           prep[q].at \in {"linking", "making"} /\ Owner(q) \notin disturbed' =>
             tree'[Owner(q)] = tree[Owner(q)]
    BY <2>4, <2>5
  <2>7. /\ prep' = [prep EXCEPT ![p] = new] /\ disturbed' \subseteq Owners
        /\ UNCHANGED <<repo, allocations, recorded, overwritten>>
    BY <1>1, <2>2
  <2> HIDE DEF NotPreparing, Preparing, Tables, NoTable
  <2>8. QED
    BY <2>1, <2>3, <2>5, <2>6, <2>7, PrepStepKeeps
<1>7. CASE CopyRaises(p) \/ SaveRaises(p) \/ PreparerDies(p)
  <2>1. /\ prep' = [prep EXCEPT ![p] = NotPreparing] /\ prep[p].at # "idle"
        /\ disturbed' \in {disturbed, disturbed \cup {Owner(p)}}
        /\ UNCHANGED <<repo, tree, allocations, recorded, overwritten>>
    BY <1>7 DEF CopyRaises, SaveRaises, PreparerDies
  <2>2. disturbed \subseteq disturbed' /\ disturbed' \subseteq Owners
    BY <1>1, <2>1
  <2>3. \A x \in Owners : Complete(x) => Complete(x)'
    BY <2>1, <2>2 DEF Complete
  <2>4. NotPreparing \in Preparing /\ NotPreparing.at = "idle"
    OBVIOUS
  <2> HIDE DEF NotPreparing, Preparing, Tables, NoTable
  <2>5. QED
    BY <1>1, <2>1, <2>2, <2>3, <2>4, PrepStepKeeps
<1>8. CASE LoadAllocations(p)
  <2> DEFINE new == [prep[p] EXCEPT !.at = "saving", !.data = allocations]
  <2>1. /\ new \in Preparing /\ new.owner = Owner(p) /\ new.at = "saving"
        /\ new.data = allocations /\ Owner(p) \in Owners /\ new.source = prep[p].source
    BY <1>1, <1>8 DEF Owner, LoadAllocations
  <2>2. /\ prep' = [prep EXCEPT ![p] = new] /\ prep[p].at = "loading"
        /\ UNCHANGED <<repo, tree, allocations, recorded, overwritten, disturbed>>
    BY <1>1, <1>8 DEF LoadAllocations
  <2> HIDE DEF new
  <2>3. \A x \in Owners : Complete(x) => Complete(x)'
    BY <2>2 DEF Complete
  <2>4. new.source \in Sources /\ (new.source # "in_place" => Complete(Owner(p)))
    BY <2>1, <2>2 DEF WsInv, WsTypeOK, WorkspaceComplete
  <2>5. new.source # "in_place" => \A x \in Owners : x = Owner(p) => Complete(x)'
    BY <2>3, <2>4
  <2>6. tree' \in [Owners -> {"absent", "partial", "copy", "worktree"}] /\ disturbed' \subseteq Owners
    BY <1>1, <2>2
  <2> HIDE DEF NotPreparing, Preparing, Tables, NoTable
  <2>7. QED
    BY <1>1, <2>1, <2>2, <2>3, <2>4, <2>5, <2>6, PrepStepKeeps
<1>9. CASE SaveAllocations(p)
  BY <1>9, SaveKeeps
<1>10. QED
  BY <1>2, <1>3, <1>4, <1>5, <1>6, <1>7, <1>8, <1>9 DEF PreparerStep

LEMMA WsStep == WsInv /\ [WsNext]_wsVars => WsInv'
<1> SUFFICES ASSUME WsInv, [WsNext]_wsVars PROVE WsInv'
  OBVIOUS
<1>1. CASE UNCHANGED wsVars
  BY <1>1 DEF wsVars, WsInv, WsTypeOK, MakersAlone, WorkspaceComplete, ReadTrue, ReadCurrent,
     Complete, Owner
<1>2. CASE WsNext
  BY <1>2, PreparerKeeps DEF WsNext
<1>3. QED
  BY <1>1, <1>2

LEMMA WsInvariant == WsSpec => []WsInv
BY WsInitially, WsStep, PTL DEF WsSpec

\* The directories, the allocations file and the processes preparing workspaces
\* keep their types.
THEOREM WsTypeCorrect == WsSpec => []WsTypeOK
BY WsInvariant, PTL DEF WsInv

\* A workspace that is recorded is there and complete, and the allocations file
\* has what was saved last for every owner, but for the interleavings of
\* prepare_workspace that the histories name.
THEOREM RecordsAreTrue == WsSpec => []RecordsTrue
<1>1. WsInv => RecordsTrue
  BY DEF WsInv, RecordsTrue, ReadCurrent, AllocationsKept
<1>2. QED
  BY <1>1, WsInvariant, PTL

-----------------------------------------------------------------------------
(* Tutor: who can still end a session, and what its end has left.          *)

Busy(c) == client[c].at \notin {"away", "waiting"}

\* Nobody has a session that is being closed without its being known.
ReapedKnown == \A s \in reaping : Held(s) => s \in reapedInUse

\* One handler at a time is between two awaits, and whoever can still end a
\* session ends one whose end is not logged or was only half logged.
EndsOpen ==
  /\ \A c, d \in Clients : Busy(c) /\ Busy(d) => c = d
  /\ \A c \in Clients : client[c].session <= started
  /\ logged \subseteq 1..started
  /\ \A s \in (registered \cap logged) \ halfEnded :
       \E c \in Clients : client[c].at = "popping" /\ client[c].session = s
  /\ \A c \in Clients :
       client[c].at \in {"resolved", "ending"} /\ client[c].session \in logged =>
         client[c].session \in halfEnded

TutorInv == TutorTypeOK /\ ReapedKnown /\ EndsOpen /\ UsableHoldsLock /\ EndLoggedOnce

LEMMA LastExists ==
  ASSUME NEW n \in Nat, NEW S \in SUBSET (1..n), S # {}
  PROVE  Last(S) \in S /\ \A r \in S : r <= Last(S)
<1> DEFINE T == {n - s : s \in S}
<1>1. T \subseteq Nat /\ T # {}
  <2>1. \A s \in S : n - s \in Nat
    OBVIOUS
  <2>2. QED
    BY <2>1
<1>2. PICK t \in T : \A u \in T : ~ (<<u, t>> \in OpToRel(<, Nat))
  BY <1>1, NatLessThanWellFounded, WFMin
<1>3. PICK s \in S : t = n - s
  BY <1>2
<1>4. ASSUME NEW r \in S
      PROVE  r <= s
  <2>1. n - r \in T /\ n - r \in Nat /\ n - s \in Nat
    BY <1>3
  <2>2. ~ (n - r < n - s)
    <3>1. <<n - r, n - s>> \notin OpToRel(<, Nat)
      BY <1>2, <1>3, <2>1
    <3>2. QED
      BY <2>1, <3>1, Zenon DEF OpToRel
  <2>3. QED
    BY <2>2
<1>5. QED
  BY <1>4, Zenon DEF Last

LEMMA LastScannedType ==
  ASSUME TutorTypeOK, registered # {}
  PROVE  LastScanned \in 1..started
<1>1. started \in Nat
  BY SessionsAssumption DEF TutorTypeOK
<1>2. Idle \in SUBSET (1..started) /\ registered \in SUBSET (1..started)
  BY DEF TutorTypeOK, Idle
<1>3. QED
  BY <1>1, <1>2, LastExists DEF LastScanned

LEMMA TutorInitially == TutorInit => TutorInv
<1> SUFFICES ASSUME TutorInit PROVE TutorInv
  OBVIOUS
<1>1. (CHOOSE l \in Languages : TRUE) \in Languages
  BY SessionsAssumption
<1>2. TutorTypeOK
  <2>1. {logged, again, halfEnded, reapedInUse, stuck} \subseteq SUBSET Sessions
    BY DEF TutorInit
  <2>2. client \in [Clients -> Client] /\ \A c \in Clients : client[c].at = "away" <=> client[c].session = 0
    BY DEF TutorInit, Client, Away
  <2>3. started \in 0..MaxSessions /\ remembered \in 0..started /\ lock \in [Languages -> 0..started]
    BY SessionsAssumption DEF TutorInit
  <2>4. QED
    BY <1>1, <2>1, <2>2, <2>3 DEF TutorInit, TutorTypeOK
<1>3. \A s \in Sessions : ~Reachable(s)
  BY DEF TutorInit, Reachable, Held, Away, Sessions
<1>4. EndsOpen
  BY DEF TutorInit, EndsOpen, Busy, Away
<1>5. QED
  BY <1>2, <1>3, <1>4 DEF TutorInit, TutorInv, ReapedKnown, UsableHoldsLock, EndLoggedOnce

LEMMA ClientMoves ==
  ASSUME TutorInv, NEW c \in Clients, NEW new \in Client, client' = [client EXCEPT ![c] = new]
  PROVE  /\ client' \in [Clients -> Client] /\ client'[c] = new
         /\ \A d \in Clients : d # c => client'[d] = client[d]
BY DEF TutorInv, TutorTypeOK

LEMMA OpensKeeps ==
  ASSUME TutorInv, NEW l \in Languages, Opens(l),
         registered' \subseteq registered \cup {started + 1},
         fresh' \subseteq fresh \cup {started + 1}
  PROVE  TutorInv'
<1>1. /\ started \in Nat /\ MaxSessions \in Nat /\ started < MaxSessions
      /\ started' = started + 1 /\ started + 1 \in Sessions
      /\ language' = [language EXCEPT ![started + 1] = l]
      /\ lock[l] = 0 /\ lock' = [lock EXCEPT ![l] = started + 1]
      /\ UNCHANGED <<client, reaping, remembered, logged, again, halfEnded, reapedInUse, stuck>>
  BY SessionsAssumption DEF Opens, TutorInv, TutorTypeOK, Sessions
<1>2. TutorTypeOK'
  BY <1>1, SessionsAssumption DEF TutorInv, TutorTypeOK, Sessions, Client
<1>3. ReapedKnown'
  BY <1>1 DEF TutorInv, ReapedKnown, Held
<1>4. EndsOpen'
  BY <1>1 DEF TutorInv, TutorTypeOK, EndsOpen, Busy, Client, Sessions
<1>5. UsableHoldsLock'
  <2> SUFFICES ASSUME NEW s \in Sessions, s \notin reapedInUse, Reachable(s)'
               PROVE  Locks(s)'
    BY <1>1 DEF UsableHoldsLock, Sessions
  <2>1. /\ language \in [Sessions -> Languages] /\ lock \in [Languages -> 0..started]
        /\ s \in Nat /\ s # 0
    BY <1>1 DEF TutorInv, TutorTypeOK, Sessions
  <2>2. CASE s = started + 1
    BY <1>1, <2>1, <2>2 DEF Locks
  <2>3. CASE s # started + 1
    <3>1. Reachable(s)
      BY <1>1, <2>3 DEF Reachable, Held
    <3>2. s \in 1..started /\ lock[language[s]] = s
      BY <3>1 DEF TutorInv, UsableHoldsLock, Locks
    <3>3. language[s] # l /\ language'[s] = language[s]
      BY <1>1, <2>1, <2>3, <3>2
    <3>4. QED
      BY <1>1, <2>1, <3>2, <3>3 DEF Locks
  <2>4. QED
    BY <2>2, <2>3
<1>6. QED
  BY <1>1, <1>2, <1>3, <1>4, <1>5 DEF TutorInv, EndLoggedOnce

LEMMA ResolveKeeps ==
  ASSUME TutorInv, NEW c \in Clients, NEW s \in Sessions, Resolve(c, s)
  PROVE  TutorInv'
<1> DEFINE new == [at |-> "resolved", session |-> s]
<1>1. new \in Client /\ new.at = "resolved" /\ new.session = s
  BY DEF Client
<1>2. /\ client' = [client EXCEPT ![c] = new]
      /\ s \in registered /\ \A d \in Clients : ~Busy(d)
      /\ UNCHANGED <<started, language, registered, fresh, lock, reaping, remembered,
                     logged, again, halfEnded, reapedInUse, stuck>>
  BY DEF Resolve, Idling, Busy
<1> HIDE DEF new
<1>3. /\ client' \in [Clients -> Client] /\ client'[c] = new
      /\ \A d \in Clients : d # c => client'[d] = client[d]
  BY <1>1, <1>2, ClientMoves
<1>4. s # 0 /\ s \in 1..started /\ s \notin reaping
  BY <1>2 DEF TutorInv, TutorTypeOK, Sessions
<1>5. TutorTypeOK'
  BY <1>1, <1>2, <1>3, <1>4 DEF TutorInv, TutorTypeOK
<1>6. \A r \in Sessions : Held(r)' => Held(r) \/ r = s
  BY <1>1, <1>3 DEF Held
<1>7. ReapedKnown'
  BY <1>1, <1>2, <1>3, <1>4 DEF TutorInv, ReapedKnown, Held
<1>8. UsableHoldsLock'
  BY <1>2, <1>6 DEF TutorInv, UsableHoldsLock, Reachable, Locks
<1>9. EndsOpen'
  <2>1. s \in logged => s \in halfEnded
    BY <1>2 DEF TutorInv, EndsOpen, Busy
  <2>2. \A d, e \in Clients : Busy(d)' /\ Busy(e)' => d = e
    BY <1>2, <1>3 DEF Busy
  <2>3. \A r \in (registered \cap logged) \ halfEnded :
          \E d \in Clients : client'[d].at = "popping" /\ client'[d].session = r
    BY <1>2 DEF TutorInv, EndsOpen, Busy
  <2>4. \A d \in Clients :
          client'[d].at \in {"resolved", "ending"} /\ client'[d].session \in logged =>
            client'[d].session \in halfEnded
    BY <1>1, <1>3, <2>1 DEF TutorInv, EndsOpen
  <2>5. \A d \in Clients : client'[d].session <= started
    BY <1>1, <1>3, <1>4 DEF TutorInv, EndsOpen
  <2>6. QED
    BY <1>2, <2>2, <2>3, <2>4, <2>5 DEF TutorInv, EndsOpen
<1>10. QED
  BY <1>2, <1>5, <1>7, <1>8, <1>9 DEF TutorInv, EndLoggedOnce

\* A handler goes on with its session, or leaves it, without ending it.
LEMMA HandlerGoesOn ==
  ASSUME TutorInv, NEW c \in Clients, client[c].at # "away",
         NEW new \in Client, client' = [client EXCEPT ![c] = new],
         \/ new = Away
         \/ /\ new.session = client[c].session /\ new.at # "away"
            /\ new.at # "resolved"
            /\ new.at = "ending" => client[c].at = "resolved",
         new.at \notin {"away", "waiting"} => \A d \in Clients \ {c} : ~Busy(d),
         fresh' \subseteq fresh \cup {client[c].session},
         registered' \subseteq registered,
         client[c].at = "popping" => new = Away /\ registered' = registered \ {client[c].session},
         UNCHANGED <<started, language, lock, reaping, remembered, logged, again,
                     halfEnded, reapedInUse, stuck>>
  PROVE  TutorInv'
<1>1. /\ client' \in [Clients -> Client] /\ client'[c] = new
      /\ \A d \in Clients : d # c => client'[d] = client[d]
  BY ClientMoves
<1>2. /\ Away.at = "away" /\ Away.session = 0
      /\ client[c].session \in 1..started /\ started \in Nat
      /\ new.at = "away" <=> new.session = 0
      /\ new.session \in {0, client[c].session}
  BY SessionsAssumption DEF Away, TutorInv, TutorTypeOK, EndsOpen, Client, Sessions
<1>3. TutorTypeOK'
  BY <1>1, <1>2 DEF TutorInv, TutorTypeOK
<1>4. \A r \in 1..started : Held(r)' => Held(r)
  BY <1>1, <1>2 DEF Held
<1>5. ReapedKnown'
  BY <1>4 DEF TutorInv, TutorTypeOK, ReapedKnown
<1>6. UsableHoldsLock'
  <2> SUFFICES ASSUME NEW s \in Sessions, s \notin reapedInUse, Reachable(s)'
               PROVE  Locks(s)'
    BY DEF UsableHoldsLock, Sessions
  <2>1. s # 0
    BY DEF Sessions
  <2>2. Reachable(s)
    BY <1>1, <1>2, <2>1 DEF Reachable, Held
  <2>3. QED
    BY <2>2 DEF TutorInv, UsableHoldsLock, Locks
<1>7. EndsOpen'
  <2>1. \A d, e \in Clients : Busy(d)' /\ Busy(e)' => d = e
    BY <1>1 DEF TutorInv, EndsOpen, Busy
  <2>2. \A r \in (registered' \cap logged) \ halfEnded :
          \E d \in Clients : client'[d].at = "popping" /\ client'[d].session = r
    <3> SUFFICES ASSUME NEW r \in (registered' \cap logged) \ halfEnded
                 PROVE  \E d \in Clients : client'[d].at = "popping" /\ client'[d].session = r
      OBVIOUS
    <3>1. PICK d \in Clients : client[d].at = "popping" /\ client[d].session = r
      BY DEF TutorInv, EndsOpen
    <3>2. d # c
      BY <3>1
    <3>3. QED
      BY <1>1, <3>1, <3>2
  <2>3. \A d \in Clients :
          client'[d].at \in {"resolved", "ending"} /\ client'[d].session \in logged =>
            client'[d].session \in halfEnded
    BY <1>1, <1>2 DEF TutorInv, EndsOpen
  <2>4. QED
    BY <1>1, <1>2, <2>1, <2>2, <2>3 DEF TutorInv, EndsOpen
<1>8. QED
  BY <1>3, <1>5, <1>6, <1>7 DEF TutorInv, EndLoggedOnce

LEMMA LogEndKeeps ==
  ASSUME TutorInv, NEW c \in Clients, NEW completes \in BOOLEAN, LogEnd(c, completes)
  PROVE  TutorInv'
<1> DEFINE s == client[c].session
           new == IF completes THEN [client[c] EXCEPT !.at = "popping"] ELSE Away
<1>1. /\ client[c] \in Client /\ client[c].at = "ending" /\ s \in 1..started /\ s \in Sessions
      /\ started \in Nat /\ client \in [Clients -> Client]
  BY SessionsAssumption DEF LogEnd, TutorInv, TutorTypeOK, EndsOpen, Client, Sessions
<1>2. /\ new \in Client
      /\ new.at = (IF completes THEN "popping" ELSE "away")
      /\ new.session = (IF completes THEN s ELSE 0)
  BY <1>1 DEF Client, Away
<1>3. client' = [client EXCEPT ![c] = new]
  BY <1>1 DEF LogEnd, MovesTo, Leaves
<1>4. /\ logged' = logged \cup {s}
      /\ again' = (IF s \in logged THEN again \cup {s} ELSE again)
      /\ halfEnded' = (IF completes THEN halfEnded ELSE halfEnded \cup {s})
      /\ UNCHANGED <<started, language, registered, fresh, lock, reaping, reapedInUse,
                     stuck, remembered>>
  BY DEF LogEnd
<1> HIDE DEF new
<1>5. /\ client' \in [Clients -> Client] /\ client'[c] = new
      /\ \A d \in Clients : d # c => client'[d] = client[d]
  BY <1>2, <1>3, ClientMoves
<1> HIDE DEF s
<1>6. TutorTypeOK'
  BY <1>1, <1>2, <1>4, <1>5 DEF TutorInv, TutorTypeOK
<1>7. \A r \in 1..started : Held(r)' => Held(r)
  BY <1>1, <1>2, <1>5 DEF Held, s
<1>8. ReapedKnown'
  BY <1>4, <1>7 DEF TutorInv, TutorTypeOK, ReapedKnown
<1>9. UsableHoldsLock'
  <2> SUFFICES ASSUME NEW r \in Sessions, r \notin reapedInUse, Reachable(r)'
               PROVE  Locks(r)'
    BY <1>4 DEF UsableHoldsLock, Sessions
  <2>1. r # 0
    BY DEF Sessions
  <2>2. Reachable(r)
    BY <1>1, <1>2, <1>4, <1>5, <2>1 DEF Reachable, Held, s
  <2>3. QED
    BY <1>4, <2>2 DEF TutorInv, UsableHoldsLock, Locks
<1>10. /\ s \in logged => s \in halfEnded
       /\ \A d \in Clients : d # c => ~Busy(d)
  BY <1>1 DEF TutorInv, EndsOpen, Busy, s
<1>11. EndsOpen'
  <2>1. \A d, e \in Clients : Busy(d)' /\ Busy(e)' => d = e
    BY <1>5, <1>10 DEF Busy
  <2>2. \A r \in (registered' \cap logged') \ halfEnded' :
          \E d \in Clients : client'[d].at = "popping" /\ client'[d].session = r
    <3> SUFFICES ASSUME NEW r \in (registered' \cap logged') \ halfEnded'
                 PROVE  \E d \in Clients : client'[d].at = "popping" /\ client'[d].session = r
      OBVIOUS
    <3>1. CASE r = s
      BY <1>2, <1>4, <1>5, <3>1
    <3>2. CASE r # s
      <4>1. r \in (registered \cap logged) \ halfEnded
        BY <1>4, <3>2
      <4>2. PICK d \in Clients : client[d].at = "popping" /\ client[d].session = r
        BY <4>1 DEF TutorInv, EndsOpen
      <4>3. QED
        BY <1>5, <3>2, <4>2 DEF s
    <3>3. QED
      BY <3>1, <3>2
  <2>3. \A d \in Clients : client'[d].at \notin {"resolved", "ending"}
    BY <1>2, <1>5, <1>10 DEF Busy
  <2>4. QED
    BY <1>1, <1>2, <1>4, <1>5, <2>1, <2>2, <2>3 DEF TutorInv, EndsOpen
<1>12. EndLoggedOnce'
  BY <1>4, <1>10 DEF TutorInv, EndLoggedOnce
<1>13. QED
  BY <1>6, <1>8, <1>9, <1>11, <1>12 DEF TutorInv

LEMMA ClientStepKeeps ==
  ASSUME TutorInv, NEW c \in Clients, ClientStep(c)
  PROVE  TutorInv'
<1>1. /\ client \in [Clients -> Client] /\ client[c] \in Client /\ Away \in Client
      /\ \A d \in Clients : Busy(d) /\ Busy(c) => d = c
  BY DEF TutorInv, TutorTypeOK, EndsOpen, Away, Client
<1>2. ASSUME NEW place \in {"working", "waiting", "ending"}
      PROVE  [client[c] EXCEPT !.at = place] \in Client
  BY <1>1 DEF Client
<1>3. ASSUME NEW use \in {"working", "waiting", "ending"}, Touch(c, use)
      PROVE  TutorInv'
  <2> DEFINE new == [client[c] EXCEPT !.at = use]
  <2>1. new \in Client /\ new.at = use /\ new.session = client[c].session
    BY <1>1, <1>2 DEF Client
  <2>2. client' = [client EXCEPT ![c] = new] /\ client[c].at = "resolved"
    BY <1>1, <1>3 DEF Touch, MovesTo
  <2>3. \A d \in Clients \ {c} : ~Busy(d)
    BY <1>1, <2>2 DEF Busy
  <2> HIDE DEF new
  <2>4. QED
    BY <1>3, <2>1, <2>2, <2>3, HandlerGoesOn DEF Touch
<1>4. CASE Receive(c)
  <2> DEFINE new == [client[c] EXCEPT !.at = "working"]
  <2>1. new \in Client /\ new.at = "working" /\ new.session = client[c].session
    BY <1>1, <1>2 DEF Client
  <2>2. client' = [client EXCEPT ![c] = new] /\ client[c].at = "waiting"
    BY <1>1, <1>4 DEF Receive, MovesTo
  <2>3. \A d \in Clients \ {c} : ~Busy(d)
    BY <1>4 DEF Receive, OthersWait, Busy
  <2> HIDE DEF new
  <2>4. QED
    BY <1>4, <2>1, <2>2, <2>3, HandlerGoesOn DEF Receive
<1>5. CASE Finish(c)
  <2> DEFINE new == [client[c] EXCEPT !.at = "waiting"]
  <2>1. /\ new \in Client /\ new.at = "waiting" /\ new.session = client[c].session
        /\ Away.at = "away"
    BY <1>1, <1>2 DEF Client, Away
  <2>2. /\ client[c].at \in {"working", "waiting"}
        /\ client' = [client EXCEPT ![c] = Away] \/ client' = [client EXCEPT ![c] = new]
        /\ UNCHANGED <<started, language, registered, fresh, lock, reaping, remembered,
                       logged, again, halfEnded, reapedInUse, stuck>>
    BY <1>1, <1>5 DEF Finish, MovesTo, Leaves
  <2> HIDE DEF new
  <2>3. CASE client' = [client EXCEPT ![c] = Away]
    BY <1>1, <2>1, <2>2, <2>3, HandlerGoesOn
  <2>4. CASE client' = [client EXCEPT ![c] = new]
    BY <1>1, <2>1, <2>2, <2>4, HandlerGoesOn
  <2>5. QED
    BY <2>2, <2>3, <2>4
<1>6. CASE EndFails(c)
  <2>1. Away.at = "away"
    BY DEF Away
  <2>2. QED
    BY <1>1, <1>6, <2>1, HandlerGoesOn DEF EndFails, Leaves
<1>7. CASE Pop(c)
  <2>1. Away.at = "away"
    BY DEF Away
  <2>2. QED
    BY <1>1, <1>7, <2>1, HandlerGoesOn DEF Pop, Leaves
<1>8. QED
  BY <1>3, <1>4, <1>5, <1>6, <1>7, ResolveKeeps, LogEndKeeps DEF ClientStep

LEMMA ScanKeeps == TutorInv /\ Scan => TutorInv'
<1> SUFFICES ASSUME TutorInv, Scan PROVE TutorInv'
  OBVIOUS
<1>1. /\ reaping' = Idle /\ registered' = registered \ Idle
      /\ remembered' = LastScanned
      /\ reapedInUse' = reapedInUse \cup {s \in Idle : Held(s)}
      /\ UNCHANGED <<started, language, fresh, lock, client, logged, again, halfEnded, stuck>>
      /\ Idle \subseteq registered /\ registered \subseteq 1..started
      /\ started \in 0..MaxSessions
  BY DEF Scan, Idle, TutorInv, TutorTypeOK
<1>2. remembered' \in 0..started'
  BY <1>1, LastScannedType DEF Scan, TutorInv
<1>3. TutorTypeOK'
  <2>1. reapedInUse' \subseteq Sessions
    <3>1. reapedInUse \subseteq Sessions
      BY Zenon DEF TutorInv, TutorTypeOK
    <3>2. Idle \subseteq Sessions
      BY <1>1, SessionsAssumption DEF Sessions
    <3>3. QED
      BY <1>1, <3>1, <3>2, Zenon
  <2>2. {logged, again, halfEnded, reapedInUse', stuck} \subseteq SUBSET Sessions
    BY <2>1 DEF TutorInv, TutorTypeOK
  <2>3. /\ registered' \subseteq 1..started /\ reaping' \subseteq 1..started
        /\ reaping' \cap registered' = {}
    BY <1>1
  <2>4. QED
    BY <1>1, <1>2, <2>2, <2>3 DEF TutorInv, TutorTypeOK
<1>4. ReapedKnown'
  BY <1>1 DEF ReapedKnown, Held
<1>5. UsableHoldsLock'
  BY <1>1 DEF TutorInv, UsableHoldsLock, Reachable, Held, Locks
<1>6. EndsOpen'
  BY <1>1 DEF TutorInv, EndsOpen, Busy
<1>7. QED
  BY <1>1, <1>3, <1>4, <1>5, <1>6 DEF TutorInv, EndLoggedOnce

\* Giving back the writer lock of a session that is gone or known as reaped.
LEMMA ReleaseKeeps ==
  ASSUME TutorInv, NEW s \in Sessions, lock' = Released(s),
         Reachable(s) => s \in reapedInUse,
         reaping' \subseteq reaping,
         UNCHANGED <<started, language, registered, fresh, client, remembered, logged,
                     again, halfEnded, reapedInUse, stuck>>
  PROVE  TutorInv'
<1>1. lock \in [Languages -> 0..started] /\ started \in Nat /\ language \in [Sessions -> Languages]
  BY SessionsAssumption DEF TutorInv, TutorTypeOK
<1>2. lock' \in [Languages -> 0..started]
  BY <1>1 DEF Released
<1>3. TutorTypeOK'
  BY <1>2 DEF TutorInv, TutorTypeOK
<1>4. ReapedKnown' /\ EndsOpen' /\ EndLoggedOnce'
  BY DEF TutorInv, ReapedKnown, Held, EndsOpen, Busy, EndLoggedOnce
<1>5. UsableHoldsLock'
  <2> SUFFICES ASSUME NEW r \in Sessions, r \notin reapedInUse, Reachable(r)'
               PROVE  Locks(r)'
    BY DEF UsableHoldsLock, Sessions
  <2>1. Reachable(r) /\ r # s
    BY DEF Reachable, Held
  <2>2. r \in 1..started /\ lock[language[r]] = r
    BY <2>1 DEF TutorInv, UsableHoldsLock, Locks
  <2>3. QED
    BY <1>1, <2>1, <2>2 DEF Released, Locks
<1>6. QED
  BY <1>3, <1>4, <1>5 DEF TutorInv

LEMMA ReaperStepKeeps == TutorInv /\ ReaperStep => TutorInv'
<1> SUFFICES ASSUME TutorInv, ReaperStep PROVE TutorInv'
  OBVIOUS
<1>1. ASSUME NEW s \in Sessions, CloseReaped(s)
      PROVE  TutorInv'
  <2>1. s \in reaping /\ (Reachable(s) => s \in reapedInUse)
    BY <1>1 DEF CloseReaped, TutorInv, TutorTypeOK, ReapedKnown, Reachable
  <2>2. QED
    BY <1>1, <2>1, ReleaseKeeps DEF CloseReaped
<1>2. ASSUME NEW s \in Sessions, CloseFails(s)
      PROVE  TutorInv'
  <2>1. TutorTypeOK'
    BY <1>2 DEF CloseFails, TutorInv, TutorTypeOK
  <2>2. QED
    BY <1>2, <2>1 DEF CloseFails, TutorInv, ReapedKnown, Held, EndsOpen, Busy, UsableHoldsLock,
       Reachable, Locks, EndLoggedOnce
<1>3. QED
  BY <1>1, <1>2, ScanKeeps DEF ReaperStep

LEMMA TutorStep == TutorInv /\ [TutorNext]_tutorVars => TutorInv'
<1> SUFFICES ASSUME TutorInv, [TutorNext]_tutorVars PROVE TutorInv'
  OBVIOUS
<1>1. ASSUME NEW l \in Languages, StartFails(l)
      PROVE  TutorInv'
  BY <1>1, OpensKeeps DEF StartFails
<1>2. ASSUME NEW l \in Languages, NEW sameSecond \in BOOLEAN, StartSession(l, sameSecond)
      PROVE  TutorInv'
  <2>1. /\ registered' \subseteq registered \cup {started + 1}
        /\ fresh' \subseteq fresh \cup {started + 1} /\ Opens(l)
    BY <1>2 DEF StartSession
  <2>2. QED
    BY <2>1, OpensKeeps
<1>3. ASSUME NEW s \in Sessions, GrowsIdle(s)
      PROVE  TutorInv'
  <2>1. TutorTypeOK'
    BY <1>3 DEF GrowsIdle, TutorInv, TutorTypeOK
  <2>2. QED
    BY <1>3, <2>1 DEF GrowsIdle, TutorInv, ReapedKnown, Held, EndsOpen, Busy, UsableHoldsLock,
       Reachable, Locks, EndLoggedOnce
<1>4. ASSUME NEW s \in Sessions, Delete(s)
      PROVE  TutorInv'
  BY <1>4, ReleaseKeeps DEF Delete
<1>5. CASE UNCHANGED tutorVars
  BY <1>5 DEF tutorVars, TutorInv, TutorTypeOK, ReapedKnown, Held, EndsOpen, Busy,
     UsableHoldsLock, Reachable, Locks, EndLoggedOnce
<1>6. QED
  BY <1>1, <1>2, <1>3, <1>4, <1>5, ClientStepKeeps, ReaperStepKeeps DEF TutorNext

LEMMA TutorInvariant == TutorSpec => []TutorInv
BY TutorInitially, TutorStep, PTL DEF TutorSpec

\* Sessions, clients, locks and the reaper of the language tutor keep their
\* types.
THEOREM TutorTypeCorrect == TutorSpec => []TutorTypeOK
BY TutorInvariant, PTL DEF TutorInv

\* A session of the tutor that a client can use holds the writer lock of its
\* language, unless the reaper closed it while it was used.
THEOREM UsersHoldLocks == TutorSpec => []UsableHoldsLock
BY TutorInvariant, PTL DEF TutorInv

\* The end of a session is logged once, by whichever of the handlers and the
\* reaper ends it.
THEOREM EndsLoggedOnce == TutorSpec => []EndLoggedOnce
BY TutorInvariant, PTL DEF TutorInv
-----------------------------------------------------------------------------
(* Tutor: what a session gives up it never gets back.                       *)

\* Nothing refers to the session any more, so that it is deleted.
Abandoned(s) == ~Reachable(s) /\ s \notin reaping /\ s # remembered

\* What a session has given up it never gets back, and the reaper lets go of
\* it only when its lock is free or its closing has failed.
SessionsOnlyLeave ==
  [][\A s \in 1..started :
       /\ s \notin registered => s \notin registered'
       /\ ~Reachable(s) => ~Reachable(s)'
       /\ ~Locks(s) => ~Locks(s)'
       /\ Abandoned(s) => Abandoned(s)'
       /\ s \in reaping \ reaping' => ~Locks(s)' \/ s \in stuck']_tutorVars

\* A session of the tutor that has left the registry, that nobody refers to
\* or that has released its lock stays so, whatever handlers, websockets and
\* the reaper do: what frees its language can be late, but is not undone.
THEOREM SessionsLeaveForGood == TutorSpec => SessionsOnlyLeave
<1> DEFINE OnlyLeaves(s) ==
      /\ s \notin registered => s \notin registered'
      /\ ~Reachable(s) => ~Reachable(s)'
      /\ ~Locks(s) => ~Locks(s)'
      /\ Abandoned(s) => Abandoned(s)'
      /\ s \in reaping \ reaping' => ~Locks(s)' \/ s \in stuck'
<1>1. ASSUME TutorInv, TutorNext, NEW s \in 1..started
      PROVE  OnlyLeaves(s)
  <2>1. /\ started \in Nat /\ MaxSessions \in Nat /\ language \in [Sessions -> Languages]
        /\ lock \in [Languages -> 0..started] /\ client \in [Clients -> Client]
        /\ registered \subseteq 1..started /\ reaping \subseteq 1..started
        /\ s \in Sessions /\ s # started + 1 /\ s # 0 /\ language[s] \in Languages
    BY <1>1, SessionsAssumption DEF TutorInv, TutorTypeOK, Sessions
  <2>2. ASSUME registered' \subseteq registered \cup {started + 1}, reaping' = reaping,
               \A c \in Clients : client'[c].session # s \/ client[c].session = s \/ s \in registered,
               remembered' = remembered, started' \in {started, started + 1},
               language'[s] = language[s],
               lock'[language[s]] \in {lock[language[s]], 0, started + 1}
        PROVE  OnlyLeaves(s)
    <3>1. s \in registered' => s \in registered
      BY <2>1, <2>2
    <3>2. Reachable(s)' => Reachable(s)
      BY <2>2, <3>1 DEF Reachable, Held
    <3>3. Locks(s)' => Locks(s)
      BY <2>1, <2>2 DEF Locks
    <3>4. QED
      BY <2>2, <3>1, <3>2, <3>3 DEF Abandoned
  <2>3. ASSUME NEW l \in Languages, Opens(l),
               registered' \subseteq registered \cup {started + 1}
        PROVE  OnlyLeaves(s)
    BY <2>1, <2>2, <2>3 DEF Opens
  <2>4. ASSUME NEW c \in Clients, ClientStep(c)
        PROVE  OnlyLeaves(s)
    <3>1. /\ UNCHANGED <<reaping, remembered, started, language, lock>>
          /\ registered' \subseteq registered
      BY <2>4 DEF ClientStep, Resolve, Touch, Receive, Finish, EndFails, Pop, LogEnd
    <3>2. \A d \in Clients : d # c => client'[d] = client[d]
      BY <2>1, <2>4 DEF ClientStep, Resolve, Touch, Receive, Finish, EndFails, Pop, LogEnd,
         MovesTo, Leaves
    <3>3. client'[c].session = s => client[c].session = s \/ s \in registered
      <4>1. CASE \E r \in Sessions : Resolve(c, r)
        BY <2>1, <4>1 DEF Resolve
      <4>2. CASE client' = [client EXCEPT ![c] = Away]
        BY <2>1, <4>2 DEF Away
      <4>3. ASSUME NEW place, MovesTo(c, place)
            PROVE  client'[c].session = client[c].session
        BY <2>1, <4>3 DEF MovesTo, Client
      <4>4. QED
        BY <2>4, <4>1, <4>2, <4>3 DEF ClientStep, Touch, Receive, Finish, EndFails, Pop, LogEnd, Leaves
    <3>4. QED
      BY <2>2, <3>1, <3>2, <3>3
  <2>5. CASE Scan
    <3>1. /\ reaping = {} /\ reaping' \subseteq registered /\ registered' \subseteq registered
          /\ remembered' \in registered
          /\ UNCHANGED <<started, language, lock, client>>
      <4>1. Idle \in SUBSET (1..started) /\ registered \in SUBSET (1..started) /\ Idle \subseteq registered
        BY <2>1 DEF Idle
      <4>2. LastScanned \in registered
        BY <2>1, <2>5, <4>1, LastExists DEF LastScanned, Scan
      <4>3. QED
        BY <2>5, <4>1, <4>2 DEF Scan
    <3>2. QED
      BY <3>1 DEF Reachable, Held, Locks, Abandoned
  <2>6. ASSUME NEW r \in Sessions, CloseReaped(r) \/ CloseFails(r)
        PROVE  OnlyLeaves(s)
    <3>1. /\ reaping' = reaping \ {r} /\ (lock' = Released(r) \/ (lock' = lock /\ r \in stuck'))
          /\ UNCHANGED <<started, language, registered, client, remembered>>
      BY <2>6 DEF CloseReaped, CloseFails
    <3>2. Reachable(s)' = Reachable(s) /\ (Locks(s)' => Locks(s))
      BY <2>1, <3>1 DEF Reachable, Held, Locks, Released
    <3>3. s = r => ~Locks(s)' \/ s \in stuck'
      BY <2>1, <3>1 DEF Locks, Released
    <3>4. s \notin reaping => s \notin reaping'
      BY <3>1
    <3>5. QED
      BY <3>1, <3>2, <3>3, <3>4 DEF Abandoned
  <2>7. ASSUME NEW r \in Sessions, GrowsIdle(r) \/ Delete(r)
        PROVE  OnlyLeaves(s)
    <3>1. /\ UNCHANGED <<started, language, registered, client, reaping, remembered>>
          /\ lock' = Released(r) \/ lock' = lock
      BY <2>7 DEF GrowsIdle, Delete
    <3>2. lock'[language[s]] \in {lock[language[s]], 0}
      BY <2>1, <3>1 DEF Released
    <3>3. QED
      BY <2>2, <3>1, <3>2
  <2>8. QED
    BY <1>1, <2>3, <2>4, <2>5, <2>6, <2>7 DEF TutorNext, StartFails, StartSession, ReaperStep
<1>2. TutorInv /\ [TutorNext]_tutorVars => [\A s \in 1..started : OnlyLeaves(s)]_tutorVars
  BY <1>1
<1>3. QED
  BY <1>2, TutorInvariant, PTL DEF TutorSpec, SessionsOnlyLeave
=============================================================================
