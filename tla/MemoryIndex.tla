----------------------------- MODULE MemoryIndex -----------------------------
(***************************************************************************)
(* The memory index: the files of a directory are cut into chunks, the     *)
(* chunks are given embeddings and stored in SQLite (sync.rs, chunking.rs, *)
(* embedding.rs, store.rs). Every statement commits by itself; an error,   *)
(* or the end of the process, leaves a sync where it is, and the next one  *)
(* starts from the beginning. Files change at any time.                    *)
(*                                                                         *)
(* A file is a sequence of lines, "" the blank one; a chunk's text is the  *)
(* lines it is made of, and an embedding is the text it was computed from, *)
(* <<>> where there is none.                                               *)
(* Scores are left out: a search is known by the rows it has to load.      *)
(***************************************************************************)
EXTENDS Naturals, Sequences, SequencesExt, FiniteSets, FiniteSetsExt

CONSTANTS
  MxFiles,       \* paths under the memory directory, in order
  MxContents,    \* what a file may hold
  MxTarget,      \* chunk_size
  MxBatch,       \* texts in one request for embeddings (100)
  MxMaxChanges   \* bound: changes of files, and syncs begun

ASSUME MemoryConstants ==
  /\ MxFiles \in Seq(STRING) /\ MxContents \subseteq Seq(STRING)
  /\ MxTarget \in Nat /\ MxBatch \in Nat \ {0} /\ MxMaxChanges \in Nat

VARIABLES
  mxDisk,     \* per file: its lines, or Gone
  mxChunks,   \* memory_chunks: [source, index, from, to, text]
  mxEmb,      \* memory_embeddings: [source, index, of]
  mxHashes,   \* memory_source_hashes
  mxCache,    \* the embedding cache, by text
  mxShort,    \* a request other than the last of its file was answered short, in this sync or an earlier one
  mxPc, mxTodo, mxSeen, mxKnown, mxRead, mxPending,
              \* the sync: step, files left, files found, sources known, lines read per file, chunks to store
  mxChanges, mxSyncs

mxRows == <<mxChunks, mxEmb, mxHashes>>
mxSync == <<mxPc, mxTodo, mxSeen, mxKnown, mxRead, mxPending>>
mxVars == <<mxDisk, mxRows, mxCache, mxShort, mxSync, mxChanges, mxSyncs>>

Gone == <<"gone">>
Unset == <<"unset">>
Sources == ToSet(MxFiles)

\* What is left of a sequence without some values, in its order.
Others(s, values) ==
  FoldLeft(LAMBDA kept, x : IF x \in values THEN kept ELSE Append(kept, x), <<>>, s)

MxInit ==
  /\ mxDisk = [f \in Sources |-> Gone] /\ mxChunks = {} /\ mxEmb = {}
  /\ mxHashes = [f \in Sources |-> Unset] /\ mxCache = [t \in {} |-> t] /\ mxShort = FALSE
  /\ mxPc = "idle" /\ mxTodo = <<>> /\ mxSeen = {} /\ mxKnown = {}
  /\ mxRead = [f \in Sources |-> Gone] /\ mxPending = <<>>
  /\ mxChanges = 0 /\ mxSyncs = 0

----------------------------------------------------------------------------
(* Chunks: cut at a blank line once the text is long enough                 *)

Blank(line) == line = ""
Trimmed(lines, from, to) ==
  LET kept == {i \in from..to : ~Blank(lines[i])}
  IN SubSeq(lines, Min(kept), Max(kept))

\* The length of the text collected: one character a line and one between lines.
Size(from, to, lines) == (to - from) + Cardinality({i \in from..to : ~Blank(lines[i])})

\* chunk_text goes through the lines: from is the first line of the chunk being collected, 0
\* while there is none.
Chunk(lines, acc, to) ==
  [index |-> Len(acc.chunks), from |-> acc.from, to |-> to, text |-> Trimmed(lines, acc.from, to)]
Cut(lines, acc, n) == acc.from > 0 /\ Blank(lines[n]) /\ Size(acc.from, n - 1, lines) >= MxTarget
Line(lines, acc, n) ==
  IF Cut(lines, acc, n) THEN [from |-> 0, chunks |-> Append(acc.chunks, Chunk(lines, acc, n - 1))]
  ELSE IF acc.from = 0 /\ ~Blank(lines[n]) THEN [acc EXCEPT !.from = n] ELSE acc
chunk_text(lines) ==
  LET end == FoldLeft(LAMBDA acc, n : Line(lines, acc, n), [from |-> 0, chunks |-> <<>>],
                      [n \in 1..Len(lines) |-> n])
  IN IF end.from = 0 THEN end.chunks ELSE Append(end.chunks, Chunk(lines, end, Len(lines)))

----------------------------------------------------------------------------
(* Embeddings                                                               *)

\* The places of the texts that are answered. The providers are asked for MxBatch texts at a
\* time and answer them in order; any of these answers may stop short of its request. Ollama is
\* asked for one text at a time, and an answer without an embedding is an error.
Answers(asked) ==
  {places \in SUBSET (1..Len(asked)) :
     \A i \in (1..Len(asked)) \ places : i = Len(asked) \/ i % MxBatch = 0}
openai_batch(asked) == Answers(asked)
gemini_batch(asked) == Answers(asked)
voyage_batch(asked) == Answers(asked)
ollama_batch(asked) == {1..Len(asked)}

\* all_results: the answers of the requests, one after the other.
Concatenated(asked, places) ==
  [j \in 1..Cardinality(places) |-> asked[CHOOSE i \in places : Cardinality({k \in places : k <= i}) = j]]

\* Seeded bug: fresh embeddings fill the answer from its first place.
embed_batch_packed(texts, fresh, uncached) ==
  [i \in 1..Len(texts) |->
     IF i <= Len(fresh) THEN fresh[i] ELSE IF texts[i] \in DOMAIN mxCache THEN mxCache[texts[i]] ELSE <<>>]

\* CachedEmbeddingProvider::embed_batch: cached ones stay in place, the places of the others
\* are filled in order; a place without an answer is empty.
embed_batch(texts, fresh, uncached) ==
  LET j(i) == Cardinality({k \in uncached : k <= i})
  IN [i \in 1..Len(texts) |->
        IF i \notin uncached THEN mxCache[texts[i]] ELSE IF j(i) <= Len(fresh) THEN fresh[j(i)] ELSE <<>>]

\* put_cached: each is kept for the text whose place it took, the last one of a text that is
\* asked for twice.
put_cached(asked, fresh) ==
  LET last(t) == Max({j \in 1..Len(fresh) : asked[j] = t})
  IN [t \in DOMAIN mxCache \cup {asked[j] : j \in 1..Len(fresh)} |->
        IF t \in DOMAIN mxCache THEN mxCache[t] ELSE fresh[last(t)]]

----------------------------------------------------------------------------
(* A sync                                                                   *)

Current == Head(mxTodo)
NextFile == mxTodo' = Tail(mxTodo) /\ mxPc' = IF Len(mxTodo) > 1 THEN "file" ELSE "remove"

\* The sources that have chunks.
list_sources == {c.source : c \in mxChunks}

\* scan_files: a directory that is not there ends the sync.
scan_files ==
  /\ mxPc = "idle" /\ mxSyncs < MxMaxChanges /\ mxSyncs' = mxSyncs + 1
  /\ mxTodo' = Others(MxFiles, {f \in Sources : mxDisk[f] = Gone})
  /\ mxSeen' = {f \in Sources : mxDisk[f] # Gone}
  /\ mxKnown' = list_sources
  /\ mxRead' = [f \in Sources |-> Gone]
  /\ mxPc' = IF mxTodo' = <<>> THEN "remove" ELSE "file"
  /\ UNCHANGED <<mxDisk, mxRows, mxCache, mxShort, mxPending, mxChanges>>

\* The stored hash of a source that has chunks is the hash of what was read.
Unchanged(f) == f \in mxKnown /\ mxHashes[f] = mxDisk[f]

\* A file is read, or cannot be and is left; an unchanged one is left too.
sync_file ==
  /\ mxPc = "file"
  /\ IF mxDisk[Current] = Gone \/ Unchanged(Current) THEN NextFile /\ UNCHANGED mxRead
     ELSE /\ mxRead' = [mxRead EXCEPT ![Current] = mxDisk[Current]]
          /\ mxPc' = "delete embeddings" /\ UNCHANGED mxTodo
  /\ UNCHANGED <<mxDisk, mxRows, mxCache, mxShort, mxSeen, mxKnown, mxPending, mxChanges, mxSyncs>>

Without(rows, f) == {r \in rows : r.source # f}

\* delete_by_source: embeddings, chunks, hash.
delete_by_source(f, next) ==
  \/ mxPc = "delete embeddings" /\ mxEmb' = Without(mxEmb, f) /\ mxPc' = "delete chunks" /\ UNCHANGED <<mxChunks, mxHashes>>
  \/ /\ mxPc = "delete chunks" /\ mxChunks' = Without(mxChunks, f) /\ mxPc' = "delete hash"
     /\ UNCHANGED <<mxEmb, mxHashes>>
  \/ mxPc = "delete hash" /\ mxHashes' = [mxHashes EXCEPT ![f] = Unset] /\ mxPc' = next /\ UNCHANGED <<mxChunks, mxEmb>>

Deletes ==
  /\ mxTodo # <<>> /\ delete_by_source(Current, IF Current \in mxSeen THEN "embed" ELSE "remove")
  /\ UNCHANGED <<mxDisk, mxCache, mxShort, mxTodo, mxSeen, mxKnown, mxRead, mxPending, mxChanges, mxSyncs>>

\* The texts of the chunks go to the provider; a file without text is done.
embed ==
  /\ mxPc = "embed"
  /\ LET chunks == chunk_text(mxRead[Current])
         texts == [i \in 1..Len(chunks) |-> chunks[i].text]
         uncached == {i \in 1..Len(texts) : texts[i] \notin DOMAIN mxCache}
         asked == Others(texts, DOMAIN mxCache)
     IN \/ /\ chunks = <<>> /\ NextFile
           /\ UNCHANGED <<mxCache, mxShort, mxPending>>
        \/ /\ chunks # <<>>
           /\ \E places \in openai_batch(asked) \cup gemini_batch(asked) \cup voyage_batch(asked) \cup ollama_batch(asked) :
                LET fresh == Concatenated(asked, places)
                    answer == embed_batch(texts, fresh, uncached)
                IN /\ mxPending' = [i \in 1..Len(chunks) |-> [chunk |-> chunks[i], of |-> answer[i]]]
                   /\ mxCache' = put_cached(asked, fresh)
                   /\ mxShort' = (mxShort \/ ~(1..(Len(asked) - 1) \subseteq places))
           /\ mxPc' = "store chunk" /\ UNCHANGED mxTodo
  /\ UNCHANGED <<mxDisk, mxRows, mxSeen, mxKnown, mxRead, mxChanges, mxSyncs>>

\* store_chunk: the row of the chunk, then the row of its embedding.
store_chunk ==
  /\ LET p == Head(mxPending)
     IN \/ /\ mxPc = "store chunk"
           /\ mxChunks' = mxChunks \cup {[source |-> Current, index |-> p.chunk.index, from |-> p.chunk.from, to |-> p.chunk.to, text |-> p.chunk.text]}
           /\ mxPc' = "store embedding" /\ UNCHANGED <<mxEmb, mxPending, mxTodo>>
        \/ /\ mxPc = "store embedding"
           /\ mxEmb' = mxEmb \cup {[source |-> Current, index |-> p.chunk.index, of |-> p.of]}
           /\ mxPending' = Tail(mxPending) /\ UNCHANGED mxChunks
           /\ IF Len(mxPending) > 1 THEN mxPc' = "store chunk" /\ UNCHANGED mxTodo
              ELSE NextFile
  /\ UNCHANGED <<mxDisk, mxHashes, mxCache, mxShort, mxSeen, mxKnown, mxRead, mxChanges, mxSyncs>>

\* Sources known at the start whose files were not found are removed, one after the other.
remove_gone ==
  /\ mxPc = "remove"
  /\ IF mxKnown \subseteq mxSeen THEN mxPc' = "done" /\ UNCHANGED <<mxTodo, mxKnown>>
     ELSE \E f \in mxKnown \ mxSeen :
            mxTodo' = <<f>> /\ mxKnown' = mxKnown \ {f} /\ mxPc' = "delete embeddings"
  /\ UNCHANGED <<mxDisk, mxRows, mxCache, mxShort, mxSeen, mxRead, mxPending, mxChanges, mxSyncs>>

\* The report is returned; the next sync may begin. An error at any await, and the end of the
\* process, also leave everything stored as it is.
Returned ==
  /\ mxPc # "idle" /\ mxPc' = "idle"
  /\ mxTodo' = <<>> /\ mxSeen' = {} /\ mxKnown' = {} /\ mxPending' = <<>>
  /\ UNCHANGED <<mxDisk, mxRows, mxCache, mxShort, mxRead, mxChanges, mxSyncs>>

\* The rows a search may load: of chunks whose text matches and of embeddings close enough.
search_hybrid ==
  {<<c.source, c.index>> : c \in mxChunks} \cup {<<e.source, e.index>> : e \in mxEmb}

Edited_file ==
  /\ mxChanges < MxMaxChanges /\ mxChanges' = mxChanges + 1
  /\ \E f \in Sources, c \in MxContents \cup {Gone} : mxDisk' = [mxDisk EXCEPT ![f] = c]
  /\ UNCHANGED <<mxRows, mxCache, mxShort, mxSync, mxSyncs>>

MxNext ==
  \/ scan_files \/ sync_file \/ Deletes \/ embed \/ store_chunk \/ remove_gone \/ Returned
  \/ Edited_file

MxSpec == MxInit /\ [][MxNext]_mxVars

----------------------------------------------------------------------------
(* Properties                                                               *)

Holding(f, n) == {c \in mxChunks : c.source = f /\ c.from <= n /\ n <= c.to}

\* A sync that comes to its end makes good whatever an earlier one left half done (old chunks
\* deleted and no embeddings to be had, some chunks stored and some not): every line that it
\* read and that is not blank lies in exactly one chunk, which holds the text of its lines, and
\* nothing else is stored of that file. The chunk has the embedding of its own text or none,
\* unless a request other than the last of its file was once answered short: then embeddings go
\* to texts before theirs, and stay with them in the cache.
SyncRepairs ==
  mxPc = "done" =>
    \A f \in mxSeen : mxRead[f] # Gone =>
      /\ \A n \in 1..Len(mxRead[f]) : ~Blank(mxRead[f][n]) => Cardinality(Holding(f, n)) = 1
      /\ \A c \in mxChunks : c.source = f =>
           /\ c.text = Trimmed(mxRead[f], c.from, c.to)
           /\ \E e \in mxEmb : e.source = f /\ e.index = c.index /\ (e.of \in {<<>>, c.text} \/ mxShort)

\* A search never comes upon an embedding whose chunk is gone (search_hybrid fails as a whole
\* when it cannot load one), at whatever statement a sync was cut off.
SearchLoads == search_hybrid \subseteq {<<c.source, c.index>> : c \in mxChunks}

\* The index is whole after every sync that ends, and searchable in between.
IndexSound == SyncRepairs /\ SearchLoads
=============================================================================
