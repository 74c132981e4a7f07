----------------------------- MODULE LexicalCache -----------------------------
(***************************************************************************)
(* Ingestion into the retrieval library's vector store and the lexical     *)
(* (BM25) index that is cached beside it: RAGPipeline.ingest               *)
(* (pipeline.py), the mutations of ChromaStorage with their marker         *)
(* (storage/chroma.py) and the cache of HybridRetriever                    *)
(* (retrieval/retriever.py).                                               *)
(*                                                                         *)
(* Several pipelines, each in a process of its own, use one collection on  *)
(* disk; the lock of ChromaStorage is a thread lock and orders none of     *)
(* them.  A cache is taken for fresh when it has as many chunks as the     *)
(* store and was built after the marker's last change.                     *)
(*                                                                         *)
(* Abstractions: a version of a document is one chunk, named by document   *)
(* and content hash; instead of the times, a cache knows whether the       *)
(* marker has changed since it was stamped (clocks are those of one        *)
(* machine); counting and fetching all chunks is one read.  Deleting whole *)
(* collections and ranking are left out.                                   *)
(***************************************************************************)
EXTENDS Naturals, FiniteSets

CONSTANTS Documents, Versions, Pipelines, KeepVersions, NoCache

ASSUME KeepAssumption == KeepVersions \in Nat \ {0}

VARIABLES
  store,    \* the chunks in the vector store
  saved,    \* the cache file, if it can be read
  cache,    \* the index in memory of each pipeline
  work,     \* what each pipeline is in the middle of
  doubled   \* history: documents of which two ingestions have overlapped

lexVars == <<store, saved, cache, work, doubled>>

-----------------------------------------------------------------------------
Chunks == Documents \X Versions

\* current: the marker has not changed since the index was stamped;
\* blurred (history): a mutation overlapped the building of the index.
Cache == [ids : SUBSET Chunks, current : BOOLEAN, blurred : BOOLEAN]

ASSUME CacheAssumption == NoCache \notin Cache

NoWork == [at |-> "idle", chunk |-> "none", ids |-> {}, blurred |-> FALSE]
Work ==
  [at : {"idle", "removing", "removeMarked", "adding", "addMarked", "pruning",
         "pruneMarked", "reading", "stamping", "saving"},
   chunk : Chunks \cup {"none"}, ids : SUBSET Chunks, blurred : BOOLEAN]

Marked(p) == work[p].at \in {"removeMarked", "addMarked", "pruneMarked"}
Goes(p, place) == [work EXCEPT ![p].at = place]
Stops(p) == [work EXCEPT ![p] = NoWork]

OfDocument(d) == {c \in store : c[1] = d}

Ingesting(p, d) == work[p].chunk \in Chunks /\ work[p].chunk[1] = d

-----------------------------------------------------------------------------
(* Mutations of the store: the marker first, then the data.                *)

Outdated(c) == IF c = NoCache THEN c ELSE [c EXCEPT !.current = FALSE]

\* _mark_collection_updating: every cache is now older than the collection.
MarkUpdating ==
  /\ saved' = Outdated(saved)
  /\ cache' = [p \in Pipelines |-> Outdated(cache[p])]

\* The data changes; whoever is about to stamp an index has read old data.
Mutate(p, new, place, chunk) ==
  /\ store' = new
  /\ work' = [q \in Pipelines |->
       IF q = p THEN [NoWork EXCEPT !.at = place, !.chunk = chunk]
       ELSE IF work[q].at = "stamping" THEN [work[q] EXCEPT !.blurred = TRUE]
       ELSE work[q]]

\* ingest: the chunks of the document's earlier version are looked up.
Ingest(p, d, v) ==
  /\ work[p].at = "idle"
  /\ work' = [work EXCEPT ![p] =
       [NoWork EXCEPT !.at = IF OfDocument(d) = {} THEN "adding" ELSE "removing",
                      !.chunk = <<d, v>>, !.ids = OfDocument(d)]]
  /\ doubled' = IF \E q \in Pipelines : Ingesting(q, d) THEN doubled \cup {d} ELSE doubled
  /\ UNCHANGED <<store, saved, cache>>

\* Mutant: the marker is left as it was.
MarkNothing(p, before, after) ==
  /\ work[p].at = before
  /\ work' = Goes(p, after)
  /\ UNCHANGED <<store, saved, cache, doubled>>

Mark(p, before, after) ==
  /\ work[p].at = before
  /\ MarkUpdating
  /\ work' = Goes(p, after)
  /\ UNCHANGED <<store, doubled>>

\* Mutant: nothing is removed.
RemoveNone(p) ==
  /\ work[p].at = "removeMarked"
  /\ Mutate(p, store, "adding", work[p].chunk)
  /\ UNCHANGED <<saved, cache, doubled>>

RemovePrior(p) ==
  /\ work[p].at = "removeMarked"
  /\ Mutate(p, store \ work[p].ids, "adding", work[p].chunk)
  /\ UNCHANGED <<saved, cache, doubled>>

Add(p) ==
  /\ work[p].at = "addMarked"
  /\ Mutate(p, store \cup {work[p].chunk}, "reading", "none")
  /\ UNCHANGED <<saved, cache, doubled>>

\* prune: the versions of a document beyond those to keep are removed.
Prune(p, d) ==
  /\ work[p].at = "idle"
  /\ \E old \in SUBSET OfDocument(d) :
       /\ Cardinality(OfDocument(d) \ old) = KeepVersions /\ old # {}
       /\ work' = [work EXCEPT ![p] = [NoWork EXCEPT !.at = "pruning", !.ids = old]]
  /\ UNCHANGED <<store, saved, cache, doubled>>

RemovePruned(p) ==
  /\ work[p].at = "pruneMarked"
  /\ Mutate(p, store \ work[p].ids, "idle", "none")
  /\ UNCHANGED <<saved, cache, doubled>>

\* Chunking, embedding or the store fails: the ingestion ends, or goes on to
\* the index without its chunks, unless it is strict.
IngestFails(p) ==
  /\ work[p].at \in {"removing", "removeMarked", "adding", "addMarked", "pruning",
                     "pruneMarked"}
  /\ \/ work' = Stops(p)
     \/ /\ work[p].at \in {"adding", "addMarked"}
        /\ work' = [work EXCEPT ![p] = [NoWork EXCEPT !.at = "reading"]]
  /\ UNCHANGED <<store, saved, cache, doubled>>

-----------------------------------------------------------------------------
(* The index.                                                              *)

\* All chunks are read; an empty collection has no index.
ReadAll(p) ==
  /\ work[p].at = "reading"
  /\ work' = IF store = {} THEN Stops(p)
             ELSE [work EXCEPT ![p].at = "stamping", ![p].ids = store]
  /\ UNCHANGED <<store, saved, cache, doubled>>

\* build_bm25_index: the index is kept in memory and stamped with the time.
Stamp(p) ==
  /\ work[p].at = "stamping"
  /\ cache' = [cache EXCEPT ![p] =
       [ids |-> work[p].ids, current |-> TRUE,
        blurred |-> work[p].blurred \/ \E q \in Pipelines : Marked(q)]]
  /\ work' = [work EXCEPT ![p] = [NoWork EXCEPT !.at = "saving"]]
  /\ UNCHANGED <<store, saved, doubled>>

\* The index with its stamp replaces the cache file, or cannot be written; two
\* pipelines that write it at once share its temporary file and may leave one
\* that cannot be read, which is as good as none.
Save(p) ==
  /\ work[p].at = "saving"
  /\ saved' \in {cache[p], saved, NoCache}
  /\ work' = Stops(p)
  /\ UNCHANGED <<store, cache, doubled>>

\* The negation of _bm25_cache_is_stale.
LooksFresh(c) == c # NoCache /\ Cardinality(c.ids) = Cardinality(store) /\ c.current

\* A query takes the index in memory if it looks fresh, or the file if that
\* does, and otherwise builds the index anew.
Query(p) ==
  /\ work[p].at = "idle" /\ ~LooksFresh(cache[p])
  /\ IF LooksFresh(saved)
       THEN cache' = [cache EXCEPT ![p] = saved] /\ work' = work
       ELSE cache' = [cache EXCEPT ![p] = NoCache] /\ work' = Goes(p, "reading")
  /\ UNCHANGED <<store, saved, doubled>>

\* The process ends or is killed.
Exit(p) ==
  /\ cache' = [cache EXCEPT ![p] = NoCache]
  /\ work' = Stops(p)
  /\ UNCHANGED <<store, saved, doubled>>

LexInit ==
  /\ store = {} /\ saved = NoCache
  /\ cache = [p \in Pipelines |-> NoCache]
  /\ work = [p \in Pipelines |-> NoWork]
  /\ doubled = {}

PipelineStep(p) ==
  \/ \E d \in Documents : Prune(p, d) \/ \E v \in Versions : Ingest(p, d, v)
  \/ Mark(p, "removing", "removeMarked") \/ Mark(p, "adding", "addMarked")
  \/ Mark(p, "pruning", "pruneMarked")
  \/ RemovePrior(p) \/ Add(p) \/ RemovePruned(p) \/ IngestFails(p)
  \/ ReadAll(p) \/ Stamp(p) \/ Save(p) \/ Query(p) \/ Exit(p)

LexNext == \E p \in Pipelines : PipelineStep(p)

LexSpec == LexInit /\ [][LexNext]_lexVars

-----------------------------------------------------------------------------
(* Properties.                                                             *)

LexTypeOK ==
  /\ store \subseteq Chunks
  /\ saved \in Cache \cup {NoCache}
  /\ cache \in [Pipelines -> Cache \cup {NoCache}]
  /\ work \in [Pipelines -> Work]
  /\ \A p \in Pipelines : work[p].at = "saving" => cache[p] # NoCache
  /\ doubled \subseteq Documents

Caches == ({saved} \cup {cache[p] : p \in Pipelines}) \ {NoCache}

\* An index that looks fresh, in memory or in the file, is that of the chunks
\* in the store, whatever fails and whoever is killed between the marker and
\* the data, unless a mutation is under way or overlapped its building.
FreshIsExact ==
  \A c \in Caches : LooksFresh(c) /\ ~c.blurred =>
    c.ids = store \/ \E p \in Pipelines : Marked(p)

\* No document is in the store in two versions, unless two pipelines have
\* ingested it at the same time.
OneVersion == \A d \in Documents \ doubled : Cardinality(OfDocument(d)) <= 1
=============================================================================
