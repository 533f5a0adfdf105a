---------------------------- MODULE IndexerProofs ----------------------------
(***************************************************************************)
(* Theorems of Indexer, for every set of paths and contents.  IInv is the  *)
(* inductive invariant: where the pass is (Position), what its manifest    *)
(* still tells (Snapshot), how far the two stores may lag each other       *)
(* inside one file (StoreOrder), and what the part of the pass already     *)
(* done guarantees while no error, delay or edit has spoilt it             *)
(* (SyncProgress, IndexProgress).                                          *)
(***************************************************************************)
EXTENDS Indexer, TLAPS

FileWork == {"reading", "dirtying", "closing"} \cup Writing
AfterRead == FileWork \ {"reading"}

Position ==
  /\ pc \in Deleting => cur \in gone /\ rows[cur] = None
  /\ pc \in FileWork => cur \in todo /\ gone = {} /\ digest # None
  /\ pc \in AfterRead => content # None
  /\ ~synced => deferred

Snapshot ==
  pc # Idle => \A p \in todo \ deleted : p # cur => manifest[p] = rows[p]

StoreOrder ==
  /\ pc = "sweeping" => cur \in pending
  /\ pc = "settling" => vectors[cur] = None
  /\ pc \in Writing /\ rows[cur] # None => ~rows[cur].synced
  /\ pc = "replacing" /\ synced => vectors[cur] = content
  /\ pc = "closing" => rows[cur] = [sha |-> digest, text |-> content, synced |-> TRUE]

SyncProgress ==
  pc # Idle /\ ~errors /\ ~deferred =>
    /\ pending \subseteq gone
    /\ \A p \in Indexed \ (gone \cup todo) : rows[p].synced

IndexProgress ==
  pc # Idle /\ ~errors /\ ~edited =>
    /\ todo \subseteq Present
    /\ gone # {} => Present \subseteq todo
    /\ Indexed \subseteq Present \cup gone
    /\ \A p \in Present \ todo :
         rows[p] # None /\ rows[p].sha = tree[p] /\ (mode = "full" => rows[p].text = tree[p])
    /\ pc \in FileWork => digest = tree[cur]
    /\ pc \in AfterRead => content = tree[cur]

IInv ==
  /\ IndexerTypeOK /\ SyncedMeansSynced
  /\ Position /\ Snapshot /\ StoreOrder /\ SyncProgress /\ IndexProgress

-----------------------------------------------------------------------------
(* A row that is written is a row.                                         *)

LEMMA RowIsSome ==
  ASSUME NEW a \in Contents, NEW b \in Contents, NEW s \in BOOLEAN
  PROVE  [sha |-> a, text |-> b, synced |-> s] # None
<1>1. [sha |-> a, text |-> b, synced |-> s] \in Row
  BY DEF Row
<1> QED
  BY <1>1, NoneIsNoRow

-----------------------------------------------------------------------------
(* Starting a pass and the deletion loop                                   *)

LEMMA StartPassStep == ASSUME IInv, StartPass PROVE IInv'
<1>1. IndexerTypeOK'
  BY DEF IInv, IndexerTypeOK, Doomed, StartPass, Go, Indexed, Present, stores
<1>2. SyncedMeansSynced'
  BY DEF IInv, SyncedMeansSynced, Indexed, StartPass, stores
<1>3. Position'
  BY DEF IInv, Position, StartPass, Go, Deleting, Writing, FileWork, AfterRead
<1>4. Snapshot'
  BY DEF IInv, Snapshot, StartPass, stores
<1>5. StoreOrder'
  BY DEF IInv, StoreOrder, StartPass, Go, Writing
<1>6. SyncProgress'
  BY DEF IInv, SyncProgress, Indexed, StartPass, Doomed, stores
<1>7. IndexProgress'
  BY DEF IInv, IndexProgress, Indexed, Present, StartPass, Go, Doomed, stores, Writing,
         FileWork, AfterRead
<1> QED
  BY <1>1, <1>2, <1>3, <1>4, <1>5, <1>6, <1>7 DEF IInv

LEMMA DeleteRowsStep == ASSUME IInv, NEW p \in Paths, DeleteRows(p) PROVE IInv'
<1>1. IndexerTypeOK'
  BY NoneIsNoPath DEF IInv, IndexerTypeOK, DeleteRows, Go, Idle, Deleting
<1>2. SyncedMeansSynced'
  BY DEF IInv, SyncedMeansSynced, Indexed, DeleteRows
<1>3. Position'
  BY DEF IInv, Position, DeleteRows, Go, IndexerTypeOK, Writing, FileWork, AfterRead
<1>4. Snapshot'
  BY NoneIsNoPath DEF IInv, Snapshot, DeleteRows, IndexerTypeOK, Idle
<1>5. StoreOrder'
  BY DEF IInv, StoreOrder, DeleteRows, Go, IndexerTypeOK
<1>6. SyncProgress'
  BY DEF IInv, SyncProgress, Indexed, DeleteRows, Idle
<1>7. IndexProgress'
  BY DEF IInv, IndexProgress, Indexed, Present, DeleteRows, Go, Idle, Writing, FileWork,
         AfterRead
<1> QED
  BY <1>1, <1>2, <1>3, <1>4, <1>5, <1>6, <1>7 DEF IInv

LEMMA SweepVectorsStep == ASSUME IInv, SweepVectors PROVE IInv'
<1>1. IndexerTypeOK'
  BY DEF IInv, IndexerTypeOK, SweepVectors, Go, locals, Idle, Deleting
<1>2. SyncedMeansSynced'
  BY DEF IInv, SyncedMeansSynced, Position, StoreOrder, Indexed, SweepVectors, IndexerTypeOK,
         Idle
<1>3. Position'
  BY DEF IInv, Position, SweepVectors, Go, IndexerTypeOK, locals, Idle, Writing, FileWork,
         AfterRead
<1>4. Snapshot'
  BY DEF IInv, Snapshot, SweepVectors, locals, Idle
<1>5. StoreOrder'
  BY DEF IInv, StoreOrder, Position, SweepVectors, Go, IndexerTypeOK, locals, Idle
<1>6. SyncProgress'
  BY DEF IInv, SyncProgress, Indexed, SweepVectors, locals, Idle
<1>7. IndexProgress'
  BY DEF IInv, IndexProgress, Indexed, Present, SweepVectors, Go, locals, Idle, Writing,
         FileWork, AfterRead
<1> QED
  BY <1>1, <1>2, <1>3, <1>4, <1>5, <1>6, <1>7 DEF IInv

LEMMA SweepUnavailableStep == ASSUME IInv, SweepUnavailable PROVE IInv'
<1>1. IndexerTypeOK'
  BY DEF IInv, IndexerTypeOK, SweepUnavailable, Go, NextPath
<1>2. SyncedMeansSynced'
  BY DEF IInv, SyncedMeansSynced, Position, StoreOrder, Indexed, SweepUnavailable,
         IndexerTypeOK, Idle
<1>3. Position'
  BY DEF IInv, Position, SweepUnavailable, Go, NextPath, Deleting, Writing, FileWork, AfterRead
<1>4. Snapshot'
  BY DEF IInv, Snapshot, Position, SweepUnavailable, NextPath, IndexerTypeOK, Idle
<1>5. StoreOrder'
  BY DEF IInv, StoreOrder, SweepUnavailable, Go, NextPath, Writing
<1>6. SyncProgress'
  BY DEF IInv, SyncProgress, SweepUnavailable
<1>7. IndexProgress'
  BY DEF IInv, IndexProgress, Position, Indexed, Present, SweepUnavailable, Go, NextPath,
         IndexerTypeOK, Idle, Writing, FileWork, AfterRead
<1> QED
  BY <1>1, <1>2, <1>3, <1>4, <1>5, <1>6, <1>7 DEF IInv

LEMMA FinishDeletionStep == ASSUME IInv, FinishDeletion PROVE IInv'
<1>1. IndexerTypeOK'
  BY DEF IInv, IndexerTypeOK, FinishDeletion, Go, NextPath
<1>2. SyncedMeansSynced'
  BY DEF IInv, SyncedMeansSynced, Indexed, FinishDeletion
<1>3. Position'
  BY DEF IInv, Position, FinishDeletion, Go, NextPath, Deleting, Writing, FileWork, AfterRead
<1>4. Snapshot'
  BY DEF IInv, Snapshot, Position, FinishDeletion, NextPath, IndexerTypeOK, Idle
<1>5. StoreOrder'
  BY DEF IInv, StoreOrder, FinishDeletion, Go, NextPath, Writing
<1>6. SyncProgress'
  BY DEF IInv, SyncProgress, Position, Indexed, FinishDeletion, NextPath, Idle, Deleting
<1>7. IndexProgress'
  BY DEF IInv, IndexProgress, Position, Indexed, Present, FinishDeletion, Go, NextPath,
         IndexerTypeOK, Idle, Writing, FileWork, AfterRead
<1> QED
  BY <1>1, <1>2, <1>3, <1>4, <1>5, <1>6, <1>7 DEF IInv

LEMMA DeletionFailsStep == ASSUME IInv, DeletionFails PROVE IInv'
<1>1. IndexerTypeOK'
  BY DEF IInv, IndexerTypeOK, DeletionFails, Go, NextPath, stores
<1>2. SyncedMeansSynced'
  BY DEF IInv, SyncedMeansSynced, Indexed, DeletionFails, stores
<1>3. Position'
  BY DEF IInv, Position, DeletionFails, Go, NextPath, Deleting, Writing, FileWork, AfterRead
<1>4. Snapshot'
  BY DEF IInv, Snapshot, Position, DeletionFails, NextPath, IndexerTypeOK, stores, Idle
<1>5. StoreOrder'
  BY DEF IInv, StoreOrder, DeletionFails, Go, NextPath, Writing
<1>6. SyncProgress'
  BY DEF IInv, SyncProgress, DeletionFails
<1>7. IndexProgress'
  BY DEF IInv, IndexProgress, DeletionFails
<1> QED
  BY <1>1, <1>2, <1>3, <1>4, <1>5, <1>6, <1>7 DEF IInv

-----------------------------------------------------------------------------
(* The file loop                                                           *)

LEMMA SkipStep == ASSUME IInv, NEW p \in Paths, Skip(p) PROVE IInv'
<1>1. IndexerTypeOK'
  BY DEF IInv, IndexerTypeOK, Skip, stores
<1>2. SyncedMeansSynced'
  BY DEF IInv, SyncedMeansSynced, Indexed, Skip, stores
<1>3. Position'
  BY DEF IInv, Position, Skip, FileInTurn, Writing, FileWork
<1>4. Snapshot'
  BY DEF IInv, Snapshot, Skip, stores
<1>5. StoreOrder'
  BY DEF IInv, StoreOrder, Skip, stores
<1>6. SyncProgress'
  BY NoneIsNoPath
  DEF IInv, SyncProgress, Snapshot, Indexed, Skip, FileInTurn, Skippable, IndexerTypeOK, stores
<1>7. IndexProgress'
  BY NoneIsNoPath
  DEF IInv, IndexProgress, Snapshot, Indexed, Present, Skip, FileInTurn, Skippable,
      IndexerTypeOK, stores
<1> QED
  BY <1>1, <1>2, <1>3, <1>4, <1>5, <1>6, <1>7 DEF IInv

LEMMA HashStep == ASSUME IInv, NEW p \in Paths, Hash(p) PROVE IInv'
<1>1. IndexerTypeOK'
  BY NoneIsNoPath DEF IInv, IndexerTypeOK, Hash, Go, stores, Idle
<1>2. SyncedMeansSynced'
  BY DEF IInv, SyncedMeansSynced, Indexed, Hash, stores
<1>3. Position'
  BY DEF IInv, Position, Hash, Go, FileInTurn, Deleting, AfterRead
<1>4. Snapshot'
  BY NoneIsNoPath DEF IInv, Snapshot, Hash, FileInTurn, IndexerTypeOK, stores, Idle
<1>5. StoreOrder'
  BY DEF IInv, StoreOrder, Hash, Go, Writing
<1>6. SyncProgress'
  BY DEF IInv, SyncProgress, Indexed, Hash, FileInTurn, stores, Idle
<1>7. IndexProgress'
  BY DEF IInv, IndexProgress, Indexed, Present, Hash, Go, FileInTurn, stores, Idle, AfterRead
<1> QED
  BY <1>1, <1>2, <1>3, <1>4, <1>5, <1>6, <1>7 DEF IInv

LEMMA ReadStep == ASSUME IInv, Read PROVE IInv'
<1>1. IndexerTypeOK'
  BY DEF IInv, IndexerTypeOK, Read, Go, stores, Idle
<1>2. SyncedMeansSynced'
  BY DEF IInv, SyncedMeansSynced, Indexed, Read, stores
<1>3. Position'
  BY DEF IInv, Position, Read, Go, Deleting, FileWork
<1>4. Snapshot'
  BY DEF IInv, Snapshot, Read, stores, Idle
<1>5. StoreOrder'
  BY DEF IInv, StoreOrder, Read, Go, Writing
<1>6. SyncProgress'
  BY DEF IInv, SyncProgress, Indexed, Read, stores, Idle
<1>7. IndexProgress'
  BY DEF IInv, IndexProgress, Indexed, Present, Read, stores, Idle, FileWork
<1> QED
  BY <1>1, <1>2, <1>3, <1>4, <1>5, <1>6, <1>7 DEF IInv

LEMMA MarkDirtyStep == ASSUME IInv, MarkDirty PROVE IInv'
<1>1. IndexerTypeOK'
  <2>1. cur \in Paths /\ rows \in [Paths -> Row \cup {None}]
    BY DEF IInv, IndexerTypeOK, MarkDirty, Idle
  <2>2. Dirtied(cur) \in Row \cup {None}
    BY <2>1 DEF Dirtied, Row
  <2>3. rows' \in [Paths -> Row \cup {None}]
    BY <2>1, <2>2 DEF MarkDirty
  <2> QED
    BY <2>3 DEF IInv, IndexerTypeOK, MarkDirty, Go, locals, Idle, Deleting, Writing
<1>2. SyncedMeansSynced'
  BY DEF IInv, SyncedMeansSynced, Indexed, MarkDirty, Dirtied
<1>3. Position'
  BY DEF IInv, Position, MarkDirty, Go, locals, Deleting, FileWork, AfterRead
<1>4. Snapshot'
  BY DEF IInv, Snapshot, MarkDirty, locals, Idle
<1>5. StoreOrder'
  BY DEF IInv, StoreOrder, MarkDirty, Go, Dirtied, IndexerTypeOK, locals, Idle
<1>6. SyncProgress'
  BY DEF IInv, SyncProgress, Position, Indexed, MarkDirty, locals, Idle, FileWork
<1>7. IndexProgress'
  BY DEF IInv, IndexProgress, Position, Indexed, Present, MarkDirty, locals, Idle, FileWork,
         AfterRead
<1> QED
  BY <1>1, <1>2, <1>3, <1>4, <1>5, <1>6, <1>7 DEF IInv

LEMMA ClearVectorsStep == ASSUME IInv, ClearVectors PROVE IInv'
<1>1. IndexerTypeOK'
  BY DEF IInv, IndexerTypeOK, ClearVectors, Go, locals, Idle, Writing
<1>2. SyncedMeansSynced'
  BY DEF IInv, SyncedMeansSynced, Position, StoreOrder, Indexed, ClearVectors, IndexerTypeOK,
         Idle
<1>3. Position'
  BY DEF IInv, Position, ClearVectors, Go, IndexerTypeOK, locals, Idle, Deleting, FileWork,
         AfterRead
<1>4. Snapshot'
  BY DEF IInv, Snapshot, ClearVectors, locals, Idle
<1>5. StoreOrder'
  BY DEF IInv, StoreOrder, Position, ClearVectors, Go, IndexerTypeOK, locals, Idle
<1>6. SyncProgress'
  BY DEF IInv, SyncProgress, Indexed, ClearVectors, locals, Idle
<1>7. IndexProgress'
  BY DEF IInv, IndexProgress, Indexed, Present, ClearVectors, IndexerTypeOK, locals, Idle,
         Deleting, FileWork, AfterRead
<1> QED
  BY <1>1, <1>2, <1>3, <1>4, <1>5, <1>6, <1>7 DEF IInv

LEMMA UpsertStep == ASSUME IInv, Upsert PROVE IInv'
<1>1. IndexerTypeOK'
  BY DEF IInv, IndexerTypeOK, Upsert, Go, locals, Idle, Writing
<1>2. SyncedMeansSynced'
  BY DEF IInv, SyncedMeansSynced, Position, StoreOrder, Indexed, Upsert, IndexerTypeOK, Idle
<1>3. Position'
  BY DEF IInv, Position, Upsert, Go, IndexerTypeOK, locals, Idle, Deleting, FileWork, AfterRead
<1>4. Snapshot'
  BY DEF IInv, Snapshot, Upsert, locals, Idle
<1>5. StoreOrder'
  BY DEF IInv, StoreOrder, Position, Upsert, Go, IndexerTypeOK, locals, Idle
<1>6. SyncProgress'
  BY DEF IInv, SyncProgress, Indexed, Upsert, locals, Idle
<1>7. IndexProgress'
  BY DEF IInv, IndexProgress, Indexed, Present, Upsert, IndexerTypeOK, locals, Idle, Deleting,
         FileWork, AfterRead
<1> QED
  BY <1>1, <1>2, <1>3, <1>4, <1>5, <1>6, <1>7 DEF IInv

LEMMA VectorsUnavailableStep == ASSUME IInv, VectorsUnavailable PROVE IInv'
<1>1. IndexerTypeOK'
  <2>1. vectors' \in [Paths -> Contents \cup {None}]
    BY DEF IInv, IndexerTypeOK, VectorsUnavailable
  <2>2. pc \notin {Idle, "next"} /\ pc' \notin {Idle, "next"} /\ pc' \in Writing
    BY DEF VectorsUnavailable, Go, Idle, Writing
  <2> QED
    BY <2>1, <2>2 DEF IInv, IndexerTypeOK, VectorsUnavailable
<1>2. SyncedMeansSynced'
  BY DEF IInv, SyncedMeansSynced, Position, StoreOrder, Indexed, VectorsUnavailable,
         IndexerTypeOK, Idle
<1>3. Position'
  BY DEF IInv, Position, VectorsUnavailable, Go, IndexerTypeOK, Idle, Deleting, FileWork,
         AfterRead
<1>4. Snapshot'
  BY DEF IInv, Snapshot, VectorsUnavailable, Idle
<1>5. StoreOrder'
  BY DEF IInv, StoreOrder, Position, VectorsUnavailable, Go, IndexerTypeOK, Idle
<1>6. SyncProgress'
  BY DEF IInv, SyncProgress, VectorsUnavailable
<1>7. IndexProgress'
  BY DEF IInv, IndexProgress, Indexed, Present, VectorsUnavailable, IndexerTypeOK, Idle,
         Deleting, FileWork, AfterRead
<1> QED
  BY <1>1, <1>2, <1>3, <1>4, <1>5, <1>6, <1>7 DEF IInv

LEMMA ReplaceStep == ASSUME IInv, Replace PROVE IInv'
<1>1. IndexerTypeOK'
  BY NoneIsNoPath
  DEF IInv, IndexerTypeOK, Row, Position, Replace, Go, NextPath, Idle, Deleting, FileWork,
      AfterRead
<1>2. SyncedMeansSynced'
  BY DEF IInv, SyncedMeansSynced, StoreOrder, Indexed, Replace
<1>3. Position'
  BY DEF IInv, Position, Replace, Go, NextPath, Deleting, Writing, FileWork, AfterRead
<1>4. Snapshot'
  BY DEF IInv, Snapshot, Position, Replace, NextPath, IndexerTypeOK, Idle
<1>5. StoreOrder'
  BY <1>1 DEF IInv, StoreOrder, Replace, Go, NextPath, IndexerTypeOK, Writing
<1>6. SyncProgress'
  BY DEF IInv, SyncProgress, Position, Indexed, Replace, Idle
<1>7. IndexProgress'
  <2>1. cur \in Paths /\ rows \in [Paths -> Row \cup {None}]
    BY DEF IInv, IndexerTypeOK, Replace, Idle
  <2>2. rows'[cur] # None /\ rows'[cur].sha = digest /\ rows'[cur].text = content
    <3>1. digest \in Contents /\ content \in Contents /\ synced \in BOOLEAN
      BY DEF Replace, IInv, IndexerTypeOK, Position, FileWork, AfterRead, Writing
    <3>2. rows'[cur] = [sha |-> digest, text |-> content, synced |-> synced]
      BY <2>1 DEF Replace
    <3> QED
      BY <3>1, <3>2, RowIsSome
  <2>3. \A p \in Paths : p # cur => rows'[p] = rows[p]
    BY <2>1 DEF Replace
  <2>4. cur \in todo /\ gone = {}
    BY DEF IInv, Position, Replace, FileWork, Writing
  <2>5. tree' = tree /\ errors' = errors /\ edited' = edited /\ mode' = mode
        /\ Present' = Present
    BY DEF Replace, NextPath, Present
  <2>6. Indexed' = Indexed \cup {cur}
    BY <2>1, <2>2, <2>3 DEF Indexed
  <2>7. pc # Idle /\ pc \in FileWork /\ pc \in AfterRead
    BY DEF Replace, Idle, AfterRead, FileWork, Writing
  <2>8. CASE synced
    BY <2>1, <2>2, <2>3, <2>4, <2>5, <2>6, <2>7, <2>8 DEF IInv, IndexProgress, Replace
  <2>9. CASE ~synced
    <3>1. todo' = todo \ {cur} /\ gone' = {} /\ pc' = "next"
      BY <2>4, <2>9 DEF Replace, NextPath, Go, Deleting
    <3>2. pc' \notin FileWork /\ pc' \notin AfterRead
      BY <3>1 DEF FileWork, AfterRead, Writing
    <3>3. ASSUME ~errors, ~edited
          PROVE  /\ todo \subseteq Present /\ Indexed \subseteq Present
                 /\ digest = tree[cur] /\ content = tree[cur]
                 /\ \A p \in Present \ todo :
                      rows[p] # None /\ rows[p].sha = tree[p]
                      /\ (mode = "full" => rows[p].text = tree[p])
      BY <2>4, <2>7, <3>3 DEF IInv, IndexProgress
    <3>4. ASSUME ~errors, ~edited
          PROVE  \A p \in Present' \ todo' :
                   rows'[p] # None /\ rows'[p].sha = tree'[p]
                   /\ (mode' = "full" => rows'[p].text = tree'[p])
      BY <2>2, <2>3, <2>5, <3>1, <3>3, <3>4 DEF Present
    <3> QED
      BY <2>4, <2>5, <2>6, <3>1, <3>2, <3>3, <3>4 DEF IndexProgress
  <2> QED
    BY <2>8, <2>9
<1> QED
  BY <1>1, <1>2, <1>3, <1>4, <1>5, <1>6, <1>7 DEF IInv

LEMMA SettleStep == ASSUME IInv, Settle PROVE IInv'
<1>1. IndexerTypeOK'
  BY DEF IInv, IndexerTypeOK, Settle, Go, NextPath
<1>2. SyncedMeansSynced'
  BY DEF IInv, SyncedMeansSynced, Indexed, Settle
<1>3. Position'
  BY DEF IInv, Position, Settle, Go, NextPath, Deleting, Writing, FileWork, AfterRead
<1>4. Snapshot'
  BY DEF IInv, Snapshot, Position, Settle, NextPath, IndexerTypeOK, Idle
<1>5. StoreOrder'
  BY DEF IInv, StoreOrder, Settle, Go, NextPath, Writing
<1>6. SyncProgress'
  BY DEF IInv, SyncProgress, StoreOrder, Indexed, Settle, NextPath, Idle
<1>7. IndexProgress'
  <2>1. cur \in Paths /\ cur \in todo /\ gone = {} /\ pc \in AfterRead
    BY DEF IInv, IndexerTypeOK, Position, Settle, FileWork, AfterRead, Idle
  <2>2. rows[cur] = [sha |-> digest, text |-> content, synced |-> TRUE]
    BY DEF IInv, StoreOrder, Settle
  <2>3. rows[cur] # None
    <3>1. digest \in Contents /\ content \in Contents
      BY <2>1 DEF IInv, IndexerTypeOK, Position, AfterRead
    <3> QED
      BY <2>2, <3>1, RowIsSome
  <2>4. todo' = todo \ {cur} /\ gone' = {} /\ pc' = "next" /\ mode' = mode
    BY <2>1 DEF Settle, NextPath, Go, Deleting
  <2>5. Present' = Present /\ Indexed' = Indexed
    BY DEF Settle, Present, Indexed
  <2> QED
    BY <2>1, <2>2, <2>3, <2>4, <2>5
    DEF IInv, IndexProgress, Settle, Idle, FileWork, AfterRead, Writing
<1> QED
  BY <1>1, <1>2, <1>3, <1>4, <1>5, <1>6, <1>7 DEF IInv

LEMMA FileFailsStep == ASSUME IInv, FileFails PROVE IInv'
<1>1. IndexerTypeOK'
  BY DEF IInv, IndexerTypeOK, FileFails, Go, NextPath, stores
<1>2. SyncedMeansSynced'
  BY DEF IInv, SyncedMeansSynced, Indexed, FileFails, stores
<1>3. Position'
  BY DEF IInv, Position, FileFails, Go, NextPath, FileInTurn, Deleting, Writing, FileWork,
         AfterRead
<1>4. Snapshot'
  BY DEF IInv, Snapshot, Position, FileFails, NextPath, IndexerTypeOK, stores, Idle
<1>5. StoreOrder'
  BY DEF IInv, StoreOrder, FileFails, Go, NextPath, FileInTurn, Writing
<1>6. SyncProgress'
  BY DEF IInv, SyncProgress, FileFails
<1>7. IndexProgress'
  BY DEF IInv, IndexProgress, FileFails
<1> QED
  BY <1>1, <1>2, <1>3, <1>4, <1>5, <1>6, <1>7 DEF IInv

-----------------------------------------------------------------------------
(* The end of a pass, and edits                                            *)

LEMMA FinishStep == ASSUME IInv, Finish PROVE IInv'
<1>1. IndexerTypeOK'
  BY DEF IInv, IndexerTypeOK, Finish, Go, EndPass, stores
<1>2. SyncedMeansSynced'
  BY DEF IInv, SyncedMeansSynced, Indexed, Finish, stores
<1>3. Position'
  BY DEF IInv, Position, Finish, Go, EndPass, Idle, Deleting, Writing, FileWork, AfterRead
<1>4. Snapshot'
  BY DEF IInv, Snapshot, Finish, EndPass
<1>5. StoreOrder'
  BY DEF IInv, StoreOrder, Finish, Go, EndPass, Idle, Writing
<1>6. SyncProgress'
  BY DEF IInv, SyncProgress, Finish, Go, EndPass
<1>7. IndexProgress'
  BY DEF IInv, IndexProgress, Finish, Go, EndPass
<1> QED
  BY <1>1, <1>2, <1>3, <1>4, <1>5, <1>6, <1>7 DEF IInv

LEMMA InterruptStep == ASSUME IInv, Interrupt PROVE IInv'
<1>1. IndexerTypeOK'
  BY DEF IInv, IndexerTypeOK, Interrupt, Go, EndPass, stores
<1>2. SyncedMeansSynced'
  BY DEF IInv, SyncedMeansSynced, Indexed, Interrupt, stores
<1>3. Position'
  BY DEF IInv, Position, Interrupt, Go, EndPass, Idle, Deleting, Writing, FileWork, AfterRead
<1>4. Snapshot'
  BY DEF IInv, Snapshot, Interrupt, EndPass
<1>5. StoreOrder'
  BY DEF IInv, StoreOrder, Interrupt, Go, EndPass, Idle, Writing
<1>6. SyncProgress'
  BY DEF IInv, SyncProgress, Interrupt, Go, EndPass
<1>7. IndexProgress'
  BY DEF IInv, IndexProgress, Interrupt, Go, EndPass
<1> QED
  BY <1>1, <1>2, <1>3, <1>4, <1>5, <1>6, <1>7 DEF IInv

LEMMA EditStep == ASSUME IInv, NEW p \in Paths, Edit(p) PROVE IInv'
<1>1. IndexerTypeOK'
  BY DEF IInv, IndexerTypeOK, Edit, stores, locals
<1>2. SyncedMeansSynced'
  BY DEF IInv, SyncedMeansSynced, Indexed, Edit, stores
<1>3. Position'
  BY DEF IInv, Position, Edit, stores, locals
<1>4. Snapshot'
  BY DEF IInv, Snapshot, Edit, stores, locals
<1>5. StoreOrder'
  BY DEF IInv, StoreOrder, Edit, stores, locals
<1>6. SyncProgress'
  BY DEF IInv, SyncProgress, Indexed, Edit, stores, locals
<1>7. IndexProgress'
  BY DEF IInv, IndexProgress, Edit
<1> QED
  BY <1>1, <1>2, <1>3, <1>4, <1>5, <1>6, <1>7 DEF IInv

-----------------------------------------------------------------------------
(* The invariant and what follows from it                                  *)

LEMMA InvInit == Init => IInv
<1> SUFFICES ASSUME Init PROVE IInv
  OBVIOUS
<1>1. IndexerTypeOK
  BY NoneIsNoPath DEF Init, IndexerTypeOK, Idle, Deleting, Writing
<1>2. SyncedMeansSynced
  BY DEF Init, SyncedMeansSynced, Indexed
<1>3. Position /\ StoreOrder
  BY DEF Init, Idle, Position, StoreOrder, Deleting, Writing, FileWork, AfterRead
<1>4. Snapshot /\ SyncProgress /\ IndexProgress
  BY DEF Init, Snapshot, SyncProgress, IndexProgress
<1> QED
  BY <1>1, <1>2, <1>3, <1>4 DEF IInv

LEMMA InvStep == IInv /\ [Next]_vars => IInv'
<1> SUFFICES ASSUME IInv, [Next]_vars PROVE IInv'
  OBVIOUS
<1>1. CASE StartPass
  BY <1>1, StartPassStep
<1>2. CASE DeletionLoop
  BY <1>2, DeleteRowsStep, SweepVectorsStep, FinishDeletionStep DEF DeletionLoop
<1>3. CASE FileLoop
  BY <1>3, SkipStep, HashStep, ReadStep, MarkDirtyStep, ClearVectorsStep, UpsertStep,
     ReplaceStep, SettleStep
  DEF FileLoop
<1>4. CASE Finish
  BY <1>4, FinishStep
<1>5. CASE Failure
  BY <1>5, SweepUnavailableStep, DeletionFailsStep, VectorsUnavailableStep, FileFailsStep,
     InterruptStep
  DEF Failure
<1>6. CASE \E p \in Paths : Edit(p)
  BY <1>6, EditStep
<1>7. CASE UNCHANGED vars
  BY <1>7
  DEF IInv, IndexerTypeOK, SyncedMeansSynced, Position, Snapshot, StoreOrder, SyncProgress,
      IndexProgress, Indexed, Present, vars, stores, locals
<1> QED
  BY <1>1, <1>2, <1>3, <1>4, <1>5, <1>6, <1>7 DEF Next

\* The invariant of every reachable state.
THEOREM Indexing == Spec => []IInv
<1> QED
  BY InvInit, InvStep, PTL DEF Spec

\* Tables, stores and locals always hold values of their types.
THEOREM IndexerTypeCorrect == Spec => []IndexerTypeOK
<1>1. IInv => IndexerTypeOK
  BY DEF IInv
<1> QED
  BY <1>1, Indexing, PTL

\* Wherever passes are broken off, a row that claims its vectors are in place is right.
THEOREM FlagIsHonest == Spec => []SyncedMeansSynced
<1>1. IInv => SyncedMeansSynced
  BY DEF IInv
<1> QED
  BY <1>1, Indexing, PTL

\* Stray vectors come from an upsert for a path without a row, and from nothing else.
LEMMA StrayStep ==
  ASSUME IInv, [Next]_vars, NEW p \in Paths, Stray(p)'
  PROVE  Stray(p) \/ (pc = "upserting" /\ cur = p)
<1>1. CASE UNCHANGED <<rows, pending, vectors>>
  BY <1>1 DEF Stray, Indexed
<1>2. ASSUME NEW q \in Paths, DeleteRows(q) PROVE Stray(p)
  BY <1>2 DEF DeleteRows, Stray, Indexed, IInv, IndexerTypeOK
<1>3. CASE SweepVectors \/ SweepUnavailable
  BY <1>3 DEF SweepVectors, SweepUnavailable, Stray, Indexed, IInv, IndexerTypeOK
<1>4. CASE FinishDeletion
  BY <1>4 DEF FinishDeletion, Stray, Indexed, IInv, StoreOrder
<1>5. CASE MarkDirty
  <2>1. cur \in Paths /\ rows \in [Paths -> Row \cup {None}]
    BY <1>5 DEF MarkDirty, IInv, IndexerTypeOK, Idle
  <2>2. Dirtied(cur) = None <=> rows[cur] = None
    BY <2>1, NoneIsNoRow DEF Dirtied, Row
  <2>3. Indexed' = Indexed
    BY <1>5, <2>1, <2>2 DEF MarkDirty, Indexed
  <2> QED
    BY <1>5, <2>3 DEF MarkDirty, Stray
<1>6. CASE ClearVectors \/ Upsert \/ VectorsUnavailable
  BY <1>6 DEF ClearVectors, Upsert, VectorsUnavailable, Stray, Indexed, IInv, IndexerTypeOK
<1>7. CASE Replace
  <2>1. rows' = [rows EXCEPT ![cur] = [sha |-> digest, text |-> content, synced |-> synced]]
        /\ pending' = pending /\ vectors' = vectors
    BY <1>7 DEF Replace
  <2>2. [sha |-> digest, text |-> content, synced |-> synced] # None
    BY <1>7, RowIsSome
    DEF Replace, IInv, IndexerTypeOK, Position, FileWork, AfterRead, Writing
  <2>3. Indexed \subseteq Indexed'
    BY <2>1, <2>2 DEF Indexed, IInv, IndexerTypeOK
  <2> QED
    BY <2>1, <2>3 DEF Stray
<1>8. CASE Settle
  <2>1. digest \in Contents /\ content \in Contents
    BY <1>8 DEF Settle, IInv, IndexerTypeOK, Position, FileWork, AfterRead
  <2>2. rows[cur] # None
    BY <1>8, <2>1, RowIsSome DEF Settle, IInv, StoreOrder
  <2> QED
    BY <1>8, <2>2 DEF Settle, Stray, Indexed
<1>9. \/ UNCHANGED <<rows, pending, vectors>>
      \/ \E q \in Paths : DeleteRows(q)
      \/ SweepVectors \/ SweepUnavailable \/ FinishDeletion \/ MarkDirty
      \/ ClearVectors \/ Upsert \/ VectorsUnavailable \/ Replace \/ Settle
  BY DEF Next, DeletionLoop, FileLoop, Failure, StartPass, DeletionFails, Skip, Hash, Read,
         FileFails, Finish, Interrupt, Edit, vars, stores
<1> QED
  BY <1>1, <1>2, <1>3, <1>4, <1>5, <1>6, <1>7, <1>8, <1>9

\* Deletions are never lost sight of: a row or a tombstone leads to every vector that was
\* not left by a broken-off first indexing.
THEOREM NothingForgottenHolds == Spec => NothingForgotten
<1>1. IInv /\ [Next]_vars =>
        [\A p \in Paths : Stray(p)' => Stray(p) \/ (pc = "upserting" /\ cur = p)]_vars
  BY StrayStep
<1> QED
  BY <1>1, Indexing, PTL DEF Spec, NothingForgotten

\* A pass that ends without errors has removed or recorded every path it began with.
LEMMA AtTheEnd ==
  ASSUME IInv, Finish, ~errors
  PROVE  /\ ~deferred => VectorsExact
         /\ ~edited => ManifestExact
         /\ ~edited /\ mode = "full" => ChunksExact
<1>1. pc # Idle /\ gone = {} /\ todo = {}
  BY DEF Finish, Idle
<1>2. ASSUME ~deferred PROVE VectorsExact
  BY <1>1, <1>2 DEF IInv, SyncProgress, SyncedMeansSynced, VectorsExact
<1>3. ASSUME ~edited
      PROVE  /\ Indexed = Present
             /\ \A p \in Present : rows[p].sha = tree[p]
             /\ mode = "full" => \A p \in Present : rows[p].text = tree[p]
  BY <1>1, <1>3 DEF IInv, IndexProgress, Indexed, Present
<1> QED
  BY <1>2, <1>3 DEF ManifestExact, ChunksExact

\* A pass without errors over a tree nobody edits leaves an exact manifest.
THEOREM QuietPassIndexesHolds == Spec => QuietPassIndexes
<1>1. IInv /\ [Next]_vars => [Finish /\ ~errors /\ ~edited => ManifestExact]_vars
  BY AtTheEnd
<1> QED
  BY <1>1, Indexing, PTL DEF Spec, QuietPassIndexes

\* A pass without errors or delays leaves SQLite and the vector store in agreement.
THEOREM QuietPassSyncsHolds == Spec => QuietPassSyncs
<1>1. IInv /\ [Next]_vars => [Finish /\ ~errors /\ ~deferred => VectorsExact]_vars
  BY AtTheEnd
<1> QED
  BY <1>1, Indexing, PTL DEF Spec, QuietPassSyncs

\* A full pass without errors over a tree nobody edits leaves chunks of what the files hold.
THEOREM FullPassRepairsHolds == Spec => FullPassRepairs
<1>1. IInv /\ [Next]_vars => [Finish /\ mode = "full" /\ ~errors /\ ~edited => ChunksExact]_vars
  BY AtTheEnd
<1> QED
  BY <1>1, Indexing, PTL DEF Spec, FullPassRepairs

-----------------------------------------------------------------------------
(* The manifest at every moment of a pass                                  *)

\* Of a tree nobody edits, the paths still to be deleted exist only if a deletion of theirs is
\* outstanding, and the digest in hand is the file's; errors change neither.
Steady ==
  pc # Idle /\ ~edited =>
    /\ gone \cap Present \subseteq pending
    /\ pc \in FileWork => digest = tree[cur]

LEMMA SteadyInit == Init => Steady
  BY DEF Init, Steady

LEMMA SteadyStep == ASSUME IInv, Steady, [Next]_vars PROVE Steady'
<1> USE DEF Steady
<1>1. CASE StartPass
  BY <1>1 DEF StartPass, Doomed, Present, Go, stores, FileWork, Writing
<1>2. ASSUME NEW p \in Paths, DeleteRows(p) PROVE Steady'
  BY <1>2 DEF DeleteRows, Present, Go, Idle, FileWork, Writing
<1>3. CASE SweepVectors
  BY <1>3 DEF SweepVectors, Present, Go, locals, Idle, FileWork, Writing
<1>4. CASE FinishDeletion \/ SweepUnavailable \/ DeletionFails
  BY <1>4 DEF FinishDeletion, SweepUnavailable, DeletionFails, NextPath, Present, Go, stores,
    Idle, FileWork, Writing
<1>5. ASSUME NEW p \in Paths, Skip(p) PROVE Steady'
  BY <1>5 DEF Skip, FileInTurn, Present, stores, Idle
<1>6. ASSUME NEW p \in Paths, Hash(p) PROVE Steady'
  BY <1>6 DEF Hash, FileInTurn, Present, Go, stores, Idle
<1>7. CASE Read \/ MarkDirty \/ ClearVectors \/ Upsert \/ VectorsUnavailable
  BY <1>7 DEF Read, MarkDirty, ClearVectors, Upsert, VectorsUnavailable, Present, Go, stores,
    locals, Idle, FileWork, Writing
<1>8. CASE Replace \/ Settle
  <2>1. gone = {}
    BY <1>8 DEF Replace, Settle, IInv, Position, FileWork, Writing
  <2> QED
    BY <1>8, <2>1 DEF Replace, Settle, NextPath, Present, Go, Idle, FileWork, Writing
<1>9. CASE FileFails
  BY <1>9 DEF FileFails, FileInTurn, NextPath, Present, Go, stores, Idle, FileWork, Writing
<1>10. CASE Finish \/ Interrupt
  BY <1>10 DEF Finish, Interrupt, EndPass, Go
<1>11. ASSUME NEW p \in Paths, Edit(p) PROVE Steady'
  BY <1>11 DEF Edit
<1>12. CASE UNCHANGED vars
  BY <1>12 DEF vars, stores, locals, Present
<1> QED
  BY <1>1, <1>2, <1>3, <1>4, <1>5, <1>6, <1>7, <1>8, <1>9, <1>10, <1>11, <1>12
  DEF Next, DeletionLoop, FileLoop, Failure

\* Only three steps write to the manifest, and none of them spoils it.
LEMMA ManifestKept ==
  ASSUME IInv, Steady, [Next]_vars,
         ManifestExact, ~edited, tree' = tree, pending \cap Present = {}
  PROVE  ManifestExact'
<1> DEFINE Agrees == Indexed' = Indexed /\ \A p \in Indexed : rows'[p].sha = rows[p].sha
<1>1. Agrees => ManifestExact'
  BY DEF ManifestExact, Present
<1>2. CASE rows' = rows
  BY <1>1, <1>2 DEF Indexed
<1>3. ASSUME NEW p \in Paths, DeleteRows(p) PROVE ManifestExact'
  <2>1. p \notin Present
    BY <1>3 DEF DeleteRows, Steady, Idle
  <2>2. rows[p] = None
    BY <2>1 DEF ManifestExact, Indexed
  <2>3. rows' = rows
    BY <1>3, <2>2 DEF DeleteRows, IInv, IndexerTypeOK
  <2> QED
    BY <1>2, <2>3
<1>4. CASE MarkDirty
  <2>1. cur \in Paths /\ rows \in [Paths -> Row \cup {None}]
    BY <1>4 DEF MarkDirty, IInv, IndexerTypeOK, Idle
  <2>2. /\ Dirtied(cur) = None <=> rows[cur] = None
        /\ rows[cur] # None => Dirtied(cur).sha = rows[cur].sha
    BY <2>1, NoneIsNoRow DEF Dirtied, Row
  <2>3. Agrees
    BY <1>4, <2>1, <2>2 DEF MarkDirty, Indexed
  <2> QED
    BY <1>1, <2>3
<1>5. CASE Replace
  <2>1. /\ cur \in Paths /\ digest \in Contents /\ content \in Contents /\ synced \in BOOLEAN
        /\ rows \in [Paths -> Row \cup {None}]
    BY <1>5 DEF Replace, IInv, IndexerTypeOK, Position, Idle, FileWork, AfterRead, Writing
  <2>2. digest = tree[cur]
    BY <1>5 DEF Replace, Steady, Idle, FileWork, Writing
  <2>3. cur \in Indexed /\ rows[cur].sha = digest
    BY <2>1, <2>2, NoneIsNoContent DEF ManifestExact, Present
  <2>4. rows'[cur] # None /\ rows'[cur].sha = digest
    BY <1>5, <2>1, RowIsSome DEF Replace
  <2>5. \A p \in Paths : p # cur => rows'[p] = rows[p]
    BY <1>5, <2>1 DEF Replace
  <2>6. Agrees
    BY <2>3, <2>4, <2>5 DEF Indexed
  <2> QED
    BY <1>1, <2>6
<1>6. rows' = rows \/ (\E p \in Paths : DeleteRows(p)) \/ MarkDirty \/ Replace
  BY DEF Next, DeletionLoop, FileLoop, Failure, StartPass, SweepVectors, SweepUnavailable,
    FinishDeletion, DeletionFails, Skip, Hash, Read, ClearVectors, Upsert, VectorsUnavailable,
    Settle, FileFails, Finish, Interrupt, Edit, vars, stores
<1> QED
  BY <1>2, <1>3, <1>4, <1>5, <1>6

\* A scan that reads the manifest in the middle of a pass does not take an index that describes
\* the tree for one that does not: full passes, retries and failing files leave it exact at
\* every step, as long as no file of the tree has a deletion to make good.
THEOREM SteadyIndexHolds == Spec => SteadyIndex
<1>1. IInv /\ Steady /\ [Next]_vars => Steady'
  BY SteadyStep
<1>2. IInv /\ Steady /\ [Next]_vars =>
        [ManifestExact /\ ~edited /\ tree' = tree /\ pending \cap Present = {}
           => ManifestExact']_vars
  BY ManifestKept
<1>3. Init => Steady
  BY SteadyInit
<1> QED
  BY <1>1, <1>2, <1>3, Indexing, PTL DEF Spec, SteadyIndex

=============================================================================
