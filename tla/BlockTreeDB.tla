----------------------------- MODULE BlockTreeDB -----------------------------
(***************************************************************************)
(* The block index store CBlockTreeDB (src/src/txdb.cpp): the running node *)
(* keeps its block index in memory, a map from block hash to CBlockIndex   *)
(* objects that point at their predecessor, and flushes the blocks and     *)
(* block files changed since the last flush with WriteBatchSync, one       *)
(* synced leveldb batch. At start-up LoadBlockIndexGuts rebuilds the map   *)
(* from the 'b' records in key order, which is hash order and not height  *)
(* order, wiring each pprev through the caller's insertBlockIndex, which   *)
(* creates an empty object for a hash it has not seen. The process can    *)
(* crash at any point, inside the load included (a shutdown request at    *)
(* the loop's interruption_point ends the process the same way).          *)
(*                                                                         *)
(* Block hashes are 1..NBlocks in key order, 0 is uint256(). An object of  *)
(* the in-memory map is an entry of the sequence arena, and a pointer is   *)
(* its position there (0 for nullptr), so that two objects for one hash    *)
(* can be told apart. The caller (validation.cpp, outside the repository) *)
(* is the environment: it accepts blocks onto known ones and flushes.      *)
(***************************************************************************)
EXTENDS Naturals, Sequences, SequencesExt, FiniteSets

CONSTANTS
    NBlocks,     \* block hashes 1..NBlocks, in key order
    MaxFile,     \* block files 0..MaxFile
    Absent,      \* a key not present in the database
    MaxCrashes   \* bound on process crashes

ASSUME NBlocks \in Nat /\ MaxFile \in Nat /\ MaxCrashes \in Nat

Hashes == 1..NBlocks
Files == 0..MaxFile
\* A CDiskBlockIndex as stored under ('b', hash): hashPrev and the fields kept.
DiskIndex == [prev : Hashes \cup {0}, nHeight : Nat, nFile : Files]
Node == [hash : Hashes, pprev : Nat, nHeight : Nat, nFile : Files]

VARIABLES
    index,       \* ('b', hash) records: Hashes -> DiskIndex or Absent
    fileInfo,    \* ('f', n) records, CBlockFileInfo as its block count: Files -> Nat or Absent
    lastFile,    \* the DB_LAST_BLOCK record, or Absent
    arena,       \* the CBlockIndex objects of the process, by address
    mapBI,       \* mapBlockIndex: Hashes -> address in arena, or 0
    dirty,       \* setDirtyBlockIndex, as hashes
    memFiles,    \* vinfoBlockFile: Files -> block count
    dirtyFiles,  \* setDirtyFileInfo
    memLast,     \* nLastBlockFile
    cursor,      \* the 'b' keys the load iterator has still to visit
    pc,          \* "down" | "loading" | "running"
    crashes

vars == <<index, fileInfo, lastFile, arena, mapBI, dirty, memFiles, dirtyFiles,
          memLast, cursor, pc, crashes>>

NoBlocks == [h \in Hashes |-> 0]
NoFiles == [f \in Files |-> 0]

(***************************************************************************)
(* The caller's insertBlockIndex: the null hash gives nullptr; a hash in   *)
(* mapBlockIndex gives its object; any other hash gets a new, empty one.   *)
(* m is [arena, map]; the result adds the address it returns as .ptr.     *)
(***************************************************************************)
InsertBlockIndex(m, h) ==
    IF h = 0 THEN [arena |-> m.arena, map |-> m.map, ptr |-> 0]
    ELSE IF m.map[h] # 0 THEN [arena |-> m.arena, map |-> m.map, ptr |-> m.map[h]]
    ELSE LET p == Len(m.arena) + 1
         IN [arena |-> Append(m.arena, [hash |-> h, pprev |-> 0, nHeight |-> 0, nFile |-> 0]),
             map |-> [m.map EXCEPT ![h] = p], ptr |-> p]

\* CDiskBlockIndex(pindex): hashPrev is the hash of the object pprev points at.
DiskRecord(n) ==
    [prev |-> IF n.pprev = 0 THEN 0 ELSE arena[n.pprev].hash,
     nHeight |-> n.nHeight, nFile |-> n.nFile]

(***************************************************************************)
(* WriteBatchSync(fileInfo, nLastFile, blockinfo): one synced batch with   *)
(* the given file infos, DB_LAST_BLOCK, and a record of every given block. *)
(* files and blocks are the vectors, as sequences of files and addresses. *)
(***************************************************************************)
WriteBatchSyncSkipLastBlock(files, nLastFile, blocks) ==
    /\ fileInfo' = [f \in Files |-> IF f \in ToSet(files) THEN memFiles[f] ELSE fileInfo[f]]
    /\ lastFile' = nLastFile
    /\ index' = [h \in Hashes |->
                    IF \E j \in 1..Len(blocks) - 1 : arena[blocks[j]].hash = h
                    THEN DiskRecord(arena[mapBI[h]]) ELSE index[h]]

WriteBatchSyncSkipFirstFile(files, nLastFile, blocks) ==
    /\ fileInfo' = [f \in Files |-> IF files # <<>> /\ f \in ToSet(Tail(files)) THEN memFiles[f] ELSE fileInfo[f]]
    /\ lastFile' = nLastFile
    /\ index' = [h \in Hashes |->
                    IF \E j \in DOMAIN blocks : arena[blocks[j]].hash = h
                    THEN DiskRecord(arena[mapBI[h]]) ELSE index[h]]

WriteBatchSync(files, nLastFile, blocks) ==
    /\ fileInfo' = [f \in Files |-> IF f \in ToSet(files) THEN memFiles[f] ELSE fileInfo[f]]
    /\ lastFile' = nLastFile
    /\ index' = [h \in Hashes |->
                    IF \E j \in DOMAIN blocks : arena[blocks[j]].hash = h
                    THEN DiskRecord(arena[mapBI[h]]) ELSE index[h]]

\* The caller's FlushStateToDisk: every dirty file and block, then the sets are cleared.
Flush ==
    /\ pc = "running"
    /\ WriteBatchSync(SetToSortSeq(dirtyFiles, <), memLast,
                      [j \in 1..Cardinality(dirty) |-> mapBI[SetToSortSeq(dirty, <)[j]]])
    /\ dirty' = {}
    /\ dirtyFiles' = {}
    /\ UNCHANGED <<arena, mapBI, memFiles, memLast, cursor, pc, crashes>>

(***************************************************************************)
(* The caller accepts block h on top of the known block p (or as genesis   *)
(* into an empty index), storing it in the current block file or the next *)
(* one; the block and the file become dirty.                               *)
(***************************************************************************)
AcceptBlock(h, p, f) ==
    /\ pc = "running"
    /\ mapBI[h] = 0
    /\ IF p = 0 THEN arena = <<>> ELSE mapBI[p] # 0
    /\ f \in {memLast, memLast + 1}
    /\ LET n == [hash |-> h, pprev |-> IF p = 0 THEN 0 ELSE mapBI[p],
                 nHeight |-> IF p = 0 THEN 0 ELSE arena[mapBI[p]].nHeight + 1, nFile |-> f]
       IN /\ arena' = Append(arena, n)
          /\ mapBI' = [mapBI EXCEPT ![h] = Len(arena) + 1]
    /\ dirty' = dirty \cup {h}
    /\ memFiles' = [memFiles EXCEPT ![f] = @ + 1]
    /\ dirtyFiles' = dirtyFiles \cup {f}
    /\ memLast' = f
    /\ UNCHANGED <<index, fileInfo, lastFile, cursor, pc, crashes>>

-----------------------------------------------------------------------------
(***************************************************************************)
(* LoadBlockIndexGuts: Seek(('b', uint256())) positions the iterator on   *)
(* the first block record; the loop ends at the first key of another      *)
(* prefix ('f' sorts after 'b'), so it visits exactly the 'b' keys.       *)
(***************************************************************************)
StartLoad ==
    /\ pc = "down"
    /\ cursor' = SetToSortSeq({h \in Hashes : index[h] # Absent}, <)
    /\ pc' = "loading"
    /\ UNCHANGED <<index, fileInfo, lastFile, arena, mapBI, dirty, memFiles,
                   dirtyFiles, memLast, crashes>>

LoadRecordNoNext ==
    /\ pc = "loading"
    /\ cursor # <<>>
    /\ LET h == Head(cursor)
           d == index[h]
           self == InsertBlockIndex([arena |-> arena, map |-> mapBI], h)
           prev == InsertBlockIndex(self, d.prev)
       IN /\ arena' = [prev.arena EXCEPT ![self.ptr] =
                          [hash |-> h, pprev |-> prev.ptr, nHeight |-> d.nHeight, nFile |-> d.nFile]]
          /\ mapBI' = prev.map
    /\ UNCHANGED <<index, fileInfo, lastFile, dirty, memFiles, dirtyFiles, memLast,
                   cursor, pc, crashes>>

(***************************************************************************)
(* One turn of the loop: the object for the record's hash and the one for *)
(* its hashPrev are obtained from insertBlockIndex, in that order; the     *)
(* record's fields are copied and the iterator moves on.                   *)
(***************************************************************************)
LoadRecord ==
    /\ pc = "loading"
    /\ cursor # <<>>
    /\ LET h == Head(cursor)
           d == index[h]
           self == InsertBlockIndex([arena |-> arena, map |-> mapBI], h)
           prev == InsertBlockIndex(self, d.prev)
       IN /\ arena' = [prev.arena EXCEPT ![self.ptr] =
                          [hash |-> h, pprev |-> prev.ptr, nHeight |-> d.nHeight, nFile |-> d.nFile]]
          /\ mapBI' = prev.map
    /\ cursor' = Tail(cursor)
    /\ UNCHANGED <<index, fileInfo, lastFile, dirty, memFiles, dirtyFiles, memLast, pc, crashes>>

\* ReadLastBlockFile and ReadBlockFileInfo: a point read that fails on a missing key.
ReadLastBlockFile == [ok |-> lastFile # Absent, nFile |-> lastFile]
ReadBlockFileInfo(f) == [ok |-> fileInfo[f] # Absent, info |-> fileInfo[f]]

(***************************************************************************)
(* The loop is past the last block record: LoadBlockIndexGuts returns      *)
(* true, and the caller reads DB_LAST_BLOCK with ReadLastBlockFile         *)
(* (nLastBlockFile stays 0 when it is missing) and each file's info with   *)
(* ReadBlockFileInfo.                                                      *)
(***************************************************************************)
FinishLoad ==
    /\ pc = "loading"
    /\ cursor = <<>>
    /\ memLast' = IF ReadLastBlockFile.ok THEN ReadLastBlockFile.nFile ELSE 0
    /\ memFiles' = [f \in Files |-> IF ReadBlockFileInfo(f).ok THEN ReadBlockFileInfo(f).info ELSE 0]
    /\ pc' = "running"
    /\ UNCHANGED <<index, fileInfo, lastFile, arena, mapBI, dirty, dirtyFiles, cursor, crashes>>

\* The process dies, or is shut down: everything in memory is lost.
Crash ==
    /\ pc \in {"loading", "running"}
    /\ crashes < MaxCrashes
    /\ arena' = <<>>
    /\ mapBI' = NoBlocks
    /\ dirty' = {}
    /\ memFiles' = NoFiles
    /\ dirtyFiles' = {}
    /\ memLast' = 0
    /\ cursor' = <<>>
    /\ pc' = "down"
    /\ crashes' = crashes + 1
    /\ UNCHANGED <<index, fileInfo, lastFile>>

Init ==
    /\ index = [h \in Hashes |-> Absent]
    /\ fileInfo = [f \in Files |-> Absent]
    /\ lastFile = Absent
    /\ arena = <<>>
    /\ mapBI = NoBlocks
    /\ dirty = {}
    /\ memFiles = NoFiles
    /\ dirtyFiles = {}
    /\ memLast = 0
    /\ cursor = <<>>
    /\ pc = "down"
    /\ crashes = 0

Next ==
    \/ \E h \in Hashes, p \in Hashes \cup {0}, f \in Files : AcceptBlock(h, p, f)
    \/ Flush
    \/ StartLoad
    \/ LoadRecord
    \/ FinishLoad
    \/ Crash

\* The node is started again after every crash, and the load runs its loop.
Fairness ==
    /\ WF_vars(StartLoad)
    /\ WF_vars(LoadRecord)
    /\ WF_vars(FinishLoad)

Spec == Init /\ [][Next]_vars /\ Fairness

-----------------------------------------------------------------------------
\* The blocks recorded on disk in block file f.
DiskCount(f) == Cardinality({h \in Hashes : index[h] # Absent /\ index[h].nFile = f})

(***************************************************************************)
(* The running node's block index agrees with the disk: after any number   *)
(* of flushes, crashes and reloads in hash order, every block that is not  *)
(* dirty has exactly one object, reached from mapBlockIndex, whose         *)
(* predecessor, height and file are those of its 'b' record, and a block   *)
(* with no record has no object (no empty object left by insertBlockIndex *)
(* for a predecessor that was never written).                              *)
(***************************************************************************)
IndexAgreesWithDisk ==
    pc = "running" =>
        /\ \A i \in DOMAIN arena : mapBI[arena[i].hash] = i
        /\ \A h \in Hashes \ dirty :
               index[h] = IF mapBI[h] = 0 THEN Absent ELSE DiskRecord(arena[mapBI[h]])

(***************************************************************************)
(* The block file records agree with the block records, whenever the      *)
(* process may die: the info of every file counts the blocks recorded in   *)
(* it, and DB_LAST_BLOCK is at least every file a block is recorded in.    *)
(***************************************************************************)
FileInfoMatchesIndex ==
    /\ \A f \in Files : (IF fileInfo[f] = Absent THEN 0 ELSE fileInfo[f]) = DiskCount(f)
    /\ \A h \in Hashes : index[h] # Absent => lastFile # Absent /\ index[h].nFile <= lastFile

(***************************************************************************)
(* Start-up completes: once the node is started, LoadBlockIndexGuts gets   *)
(* through every record and returns, however often it was interrupted.    *)
(***************************************************************************)
LoadCompletes == pc = "loading" ~> pc = "running"

=============================================================================
