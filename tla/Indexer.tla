------------------------------- MODULE Indexer -------------------------------
(***************************************************************************)
(* One repository between its work tree, the SQLite index (files, chunks,  *)
(* pending_vector_deletions) and the vector store: the passes of           *)
(* RepositoryIndexer.index (src/repomesh/indexing.py) with every write to  *)
(* a store as a step of its own, over the operations of                    *)
(* src/repomesh/db.py and QdrantVectorStore (src/repomesh/providers.py).   *)
(*                                                                         *)
(* Worker shows that one pass at a time writes to a repository; a pass may *)
(* end anywhere, by a crash, a lost lease, a cancellation or a failing     *)
(* progress report, and the next one starts from what the stores hold.     *)
(* The tree is edited at any time.  A content stands for the file's bytes, *)
(* for their SHA-256, and for the chunks and vectors made of them.         *)
(***************************************************************************)
EXTENDS Naturals

CONSTANTS Paths, Contents, None

ASSUME NoneIsNoContent == None \notin Contents
ASSUME NoneIsNoPath == None \notin Paths

VARIABLES
  tree,      \* what discover_files and a read of each path would find
  rows,      \* the files row of a path and its chunks, always written together
  pending,   \* pending_vector_deletions
  vectors,   \* whose chunks the vector store holds for each path
  pc,        \* where the pass is; "idle" between two passes
  mode,      \* full or incremental
  manifest,  \* the files rows as read when the pass began
  deleted,   \* the local of that name
  gone,      \* those of deleted still to be handled
  todo,      \* those of relative_map still to be handled
  cur,       \* the path in hand
  digest,    \* its file_sha256
  content,   \* what read_text returned for it
  synced,    \* the local vector_synced
  errors,    \* stats.error_count > 0
  deferred,  \* history: some vector operation of this pass was put off
  edited     \* history: the tree changed since this pass began

stores == <<rows, pending, vectors>>
locals == <<mode, manifest, deleted, gone, todo, cur, digest, content, synced, errors, deferred>>
vars == <<tree, stores, pc, locals, edited>>

Row == [sha : Contents, text : Contents, synced : BOOLEAN]

ASSUME NoneIsNoRow == None \notin Row

Idle == "idle"
Deleting == {"sweeping", "settling"}
Writing == {"clearing", "upserting", "replacing"}

IndexerTypeOK ==
  /\ tree \in [Paths -> Contents \cup {None}]
  /\ rows \in [Paths -> Row \cup {None}]
  /\ pending \in SUBSET Paths
  /\ vectors \in [Paths -> Contents \cup {None}]
  /\ pc \in {Idle, "next", "reading", "dirtying", "closing"} \cup Deleting \cup Writing
  /\ mode \in {"full", "incremental"}
  /\ manifest \in [Paths -> Row \cup {None}]
  /\ deleted \in SUBSET Paths /\ gone \in SUBSET deleted /\ todo \in SUBSET Paths
  /\ cur \in Paths \cup {None} /\ (pc \in {Idle, "next"} <=> cur = None)
  /\ digest \in Contents \cup {None} /\ content \in Contents \cup {None}
  /\ synced \in BOOLEAN /\ errors \in BOOLEAN
  /\ deferred \in BOOLEAN /\ edited \in BOOLEAN

\* A registered repository that was never indexed.
Init ==
  /\ tree \in [Paths -> Contents \cup {None}]
  /\ rows = [p \in Paths |-> None]
  /\ pending = {}
  /\ vectors = [p \in Paths |-> None]
  /\ pc = Idle
  /\ mode = "full" /\ manifest = [p \in Paths |-> None]
  /\ deleted = {} /\ gone = {} /\ todo = {}
  /\ cur = None /\ digest = None /\ content = None
  /\ synced = TRUE /\ errors = FALSE /\ deferred = FALSE /\ edited = FALSE

Go(to) == pc' = to

\* The locals of the current file die with it; the loops go on to the next path.
NextPath ==
  /\ Go("next")
  /\ gone' = gone \ {cur} /\ todo' = IF pc \in Deleting THEN todo ELSE todo \ {cur}
  /\ cur' = None /\ digest' = None /\ content' = None /\ synced' = TRUE
  /\ UNCHANGED <<mode, manifest, deleted>>

\* No local of index survives it.
EndPass ==
  /\ Go(Idle)
  /\ mode' = "full" /\ manifest' = [p \in Paths |-> None]
  /\ deleted' = {} /\ gone' = {} /\ todo' = {}
  /\ cur' = None /\ digest' = None /\ content' = None
  /\ synced' = TRUE /\ errors' = FALSE /\ deferred' = FALSE /\ edited' = FALSE

-----------------------------------------------------------------------------
(* Starting a pass, and the loop over deleted paths                        *)

Present == {p \in Paths : tree[p] # None}
Indexed == {p \in Paths : rows[p] # None}

\* Mutant: deletions put off earlier are not taken up again.
DoomedUnremembered == Indexed \ Present

Doomed == (Indexed \ Present) \cup pending

StartPass ==
  /\ pc = Idle
  /\ mode' \in {"full", "incremental"}
  /\ manifest' = rows
  /\ deleted' = Doomed
  /\ gone' = deleted'
  /\ todo' = Present
  /\ Go("next")
  /\ UNCHANGED <<tree, stores, cur, digest, content, synced, errors, deferred, edited>>

\* Mutant: the rows go without a tombstone.
DeleteRowsUnmarked(p) ==
  /\ pc = "next" /\ p \in gone
  /\ rows' = [rows EXCEPT ![p] = None]
  /\ cur' = p
  /\ Go("sweeping")
  /\ UNCHANGED <<tree, pending, vectors, mode, manifest, deleted, gone, todo, digest, content,
                 synced, errors, deferred, edited>>

\* Database.delete_file: the tombstone and the deletion are one transaction.
DeleteRows(p) ==
  /\ pc = "next" /\ p \in gone
  /\ pending' = pending \cup {p}
  /\ rows' = [rows EXCEPT ![p] = None]
  /\ cur' = p
  /\ Go("sweeping")
  /\ UNCHANGED <<tree, vectors, mode, manifest, deleted, gone, todo, digest, content, synced,
                 errors, deferred, edited>>

SweepVectors ==
  /\ pc = "sweeping"
  /\ vectors' = [vectors EXCEPT ![cur] = None]
  /\ Go("settling")
  /\ UNCHANGED <<tree, rows, pending, locals, edited>>

\* Qdrant does not answer, having done the deletion or not; the tombstone stays.
SweepUnavailable ==
  /\ pc = "sweeping"
  /\ \/ vectors' = [vectors EXCEPT ![cur] = None]
     \/ UNCHANGED vectors
  /\ deferred' = TRUE
  /\ NextPath
  /\ UNCHANGED <<tree, rows, pending, errors, edited>>

FinishDeletion ==
  /\ pc = "settling"
  /\ pending' = pending \ {cur}
  /\ NextPath
  /\ UNCHANGED <<tree, rows, vectors, errors, deferred, edited>>

\* SQLite refuses one of the two transactions of the deletion (locked, full).
DeletionFails ==
  /\ \/ /\ pc = "next" /\ \E p \in gone : gone' = gone \ {p}
        /\ UNCHANGED <<pc, mode, manifest, deleted, todo, cur, digest, content, synced>>
     \/ pc = "settling" /\ NextPath
  /\ errors' = TRUE
  /\ UNCHANGED <<tree, stores, deferred, edited>>

-----------------------------------------------------------------------------
(* The loop over the files discovered                                      *)

FileInTurn(p) == pc = "next" /\ gone = {} /\ p \in todo

\* Mutant: a path whose rows this very pass has deleted is looked up all the same.
SkippableDeleted(p, sha) ==
  /\ mode = "incremental" /\ manifest[p] # None
  /\ manifest[p].sha = sha /\ manifest[p].synced

\* Mutant: the flag is not consulted.
SkippableUnsynced(p, sha) ==
  /\ mode = "incremental" /\ manifest[p] # None
  /\ manifest[p].sha = sha /\ p \notin deleted

\* Mutant: a full pass skips as well.
SkippableInAnyMode(p, sha) ==
  /\ manifest[p] # None /\ manifest[p].sha = sha
  /\ manifest[p].synced /\ p \notin deleted

\* previous is looked up in the manifest read when the pass began.
Skippable(p, sha) ==
  /\ mode = "incremental"
  /\ manifest[p] # None
  /\ manifest[p].sha = sha
  /\ manifest[p].synced
  /\ p \notin deleted

\* Only the commit recorded with the file moves on.
Skip(p) ==
  /\ FileInTurn(p) /\ tree[p] # None
  /\ Skippable(p, tree[p])
  /\ todo' = todo \ {p}
  /\ UNCHANGED <<tree, stores, pc, mode, manifest, deleted, gone, cur, digest, content, synced,
                 errors, deferred, edited>>

Hash(p) ==
  /\ FileInTurn(p) /\ tree[p] # None
  /\ ~Skippable(p, tree[p])
  /\ cur' = p
  /\ digest' = tree[p]
  /\ Go("reading")
  /\ UNCHANGED <<tree, stores, mode, manifest, deleted, gone, todo, content, synced, errors,
                 deferred, edited>>

\* Mutant: the second read takes a file that is gone for an empty one.
ReadVanished ==
  /\ pc = "reading"
  /\ content' = tree[cur]
  /\ Go("dirtying")
  /\ UNCHANGED <<tree, stores, mode, manifest, deleted, gone, todo, cur, digest, synced, errors,
                 deferred, edited>>

\* The file is opened a second time; chunking and embedding follow.
Read ==
  /\ pc = "reading"
  /\ tree[cur] # None
  /\ content' = tree[cur]
  /\ Go("dirtying")
  /\ UNCHANGED <<tree, stores, mode, manifest, deleted, gone, todo, cur, digest, synced, errors,
                 deferred, edited>>

\* Mutant: the row is not marked.
DirtiedNot(p) == rows[p]

\* Mutant: the row is deleted until it can be written anew.
DirtiedAway(p) == None

\* An UPDATE: a path without a row is left without one.
Dirtied(p) == IF rows[p] = None THEN None ELSE [rows[p] EXCEPT !.synced = FALSE]

MarkDirty ==
  /\ pc = "dirtying"
  /\ rows' = [rows EXCEPT ![cur] = Dirtied(cur)]
  /\ Go("clearing")
  /\ UNCHANGED <<tree, pending, vectors, locals, edited>>

ClearVectors ==
  /\ pc = "clearing"
  /\ vectors' = [vectors EXCEPT ![cur] = None]
  /\ Go("upserting")
  /\ UNCHANGED <<tree, rows, pending, locals, edited>>

Upsert ==
  /\ pc = "upserting"
  /\ vectors' = [vectors EXCEPT ![cur] = content]
  /\ Go("replacing")
  /\ UNCHANGED <<tree, rows, pending, locals, edited>>

\* ProviderUnavailable from either call, which took effect or did not.
VectorsUnavailable ==
  /\ pc \in {"clearing", "upserting"}
  /\ \/ vectors' = [vectors EXCEPT ![cur] = IF pc = "clearing" THEN None ELSE content]
     \/ UNCHANGED vectors
  /\ synced' = FALSE
  /\ deferred' = TRUE
  /\ Go("replacing")
  /\ UNCHANGED <<tree, rows, pending, mode, manifest, deleted, gone, todo, cur, digest, content,
                 errors, edited>>

\* replace_file_chunks, the end of the file's work when its vectors are put off.
Replace ==
  /\ pc = "replacing"
  /\ rows' = [rows EXCEPT ![cur] = [sha |-> digest, text |-> content, synced |-> synced]]
  /\ IF synced THEN Go("closing") /\ UNCHANGED <<mode, manifest, deleted, gone, todo, cur,
                                                 digest, content, synced>>
               ELSE NextPath
  /\ UNCHANGED <<tree, pending, vectors, errors, deferred, edited>>

Settle ==
  /\ pc = "closing"
  /\ pending' = pending \ {cur}
  /\ NextPath
  /\ UNCHANGED <<tree, rows, vectors, errors, deferred, edited>>

\* Reading, decoding, chunking or embedding fails, or SQLite refuses a transaction.
FileFails ==
  /\ \/ /\ \E p \in todo : FileInTurn(p) /\ todo' = todo \ {p}
        /\ UNCHANGED <<pc, mode, manifest, deleted, gone, cur, digest, content, synced>>
     \/ pc \in {"reading", "dirtying", "replacing", "closing"} /\ NextPath
  /\ errors' = TRUE
  /\ UNCHANGED <<tree, stores, deferred, edited>>

-----------------------------------------------------------------------------
(* The end of a pass                                                       *)

Finish ==
  /\ pc = "next" /\ gone = {} /\ todo = {}
  /\ EndPass
  /\ UNCHANGED <<tree, stores>>

\* LeaseLost and IndexCancelled leave index at once, as does the end of the process.
Interrupt ==
  /\ pc # Idle
  /\ EndPass
  /\ UNCHANGED <<tree, stores>>

\* Somebody creates, changes, reverts or deletes a file of the work tree.
Edit(p) ==
  /\ tree' \in {[tree EXCEPT ![p] = c] : c \in (Contents \cup {None}) \ {tree[p]}}
  /\ edited' = (pc # Idle)
  /\ UNCHANGED <<stores, pc, locals>>

DeletionLoop == (\E p \in Paths : DeleteRows(p)) \/ SweepVectors \/ FinishDeletion
FileLoop ==
  \/ \E p \in Paths : Skip(p) \/ Hash(p)
  \/ Read \/ MarkDirty \/ ClearVectors \/ Upsert \/ Replace \/ Settle
Failure == SweepUnavailable \/ DeletionFails \/ VectorsUnavailable \/ FileFails \/ Interrupt

Next ==
  \/ StartPass \/ DeletionLoop \/ FileLoop \/ Finish
  \/ Failure
  \/ \E p \in Paths : Edit(p)

Spec == Init /\ [][Next]_vars

\* A pass that is not broken off goes on, and somebody asks for another one:
\* the watcher, a retry or the user.
FairSpec == Spec /\ WF_vars(DeletionLoop \/ FileLoop \/ Finish) /\ WF_vars(StartPass)

-----------------------------------------------------------------------------
(* Properties                                                              *)

\* A files row that claims vector_synced has its own chunks in the vector store,
\* wherever a pass was broken off (mark_vector_dirty before the first vector call,
\* the verdict written with the chunks): an incremental pass may trust the flag.
SyncedMeansSynced ==
  \A p \in Indexed : rows[p].synced => vectors[p] = rows[p].text

\* Vectors that neither a files row nor a tombstone leads to: no pass looks for them.
Stray(p) == vectors[p] # None /\ p \notin Indexed \cup pending

\* Vectors of a deleted path are never lost sight of: tombstones outlive outages and
\* interruptions until the sweep succeeded.  The one way to stray vectors is the
\* first indexing of a path, whose upsert precedes its files row.
NothingForgotten ==
  [][\A p \in Paths : Stray(p)' => Stray(p) \/ (pc = "upserting" /\ cur = p)]_vars

\* The manifest lists exactly the files of the tree, with their hashes.
ManifestExact ==
  /\ Indexed = Present
  /\ \A p \in Present : rows[p].sha = tree[p]

\* The chunks of every file of the tree are made from what the file holds.
ChunksExact ==
  /\ Indexed = Present
  /\ \A p \in Present : rows[p].text = tree[p]

\* The vector store agrees with SQLite on every file, and no deletion is outstanding.
VectorsExact ==
  /\ pending = {}
  /\ \A p \in Indexed : vectors[p] = rows[p].text

\* A pass of index without file errors over a tree nobody edits leaves an exact
\* manifest, in either mode and whatever earlier passes left behind; the skip test
\* may only pass over files that need no work.
QuietPassIndexes ==
  [][Finish /\ ~errors /\ ~edited => ManifestExact]_vars

\* A pass without errors whose vector calls all succeeded leaves both stores in
\* agreement: everything put off before has been made good.
QuietPassSyncs ==
  [][Finish /\ ~errors /\ ~deferred => VectorsExact]_vars

\* A full pass also makes good what an edit between file_sha256 and read_text left:
\* chunks of one content under the hash of another.
FullPassRepairs ==
  [][Finish /\ mode = "full" /\ ~errors /\ ~edited => ChunksExact]_vars

\* While a pass works on a tree that nobody edits, a manifest that describes it goes on
\* describing it at every step, whatever fails, unless a file of the tree still has a deletion
\* to make good: the watcher reads the manifest at any moment and submits a job if it differs.
SteadyIndex ==
  [][ManifestExact /\ ~edited /\ tree' = tree /\ pending \cap Present = {} => ManifestExact']_vars

\* docs/WATCH_OPERATIONS.md:53-55 of an edit that is reverted before the next scan:
\* "This repairs an edit that a worker read", by an incremental pass.
QuietPassRepairs ==
  [][Finish /\ ~errors /\ ~edited => ChunksExact]_vars

\* README.md:62, "Remove deleted-file chunks from both stores."
QuietPassSweeps ==
  [][Finish /\ ~errors /\ ~edited /\ ~deferred => \A p \in Paths \ Present : vectors[p] = None]_vars

Undisturbed == StartPass \/ DeletionLoop \/ FileLoop \/ Finish

\* Once edits, failures and interruptions cease, repeated passes bring manifest and
\* vectors in line with the tree for good ("make retries convergent",
\* docs/DISTRIBUTED_DESIGN.md:117-118).
Converges ==
  <>[][Undisturbed]_vars => <>[](pc = Idle => ManifestExact /\ VectorsExact)

=============================================================================
