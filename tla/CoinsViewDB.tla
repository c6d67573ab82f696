----------------------------- MODULE CoinsViewDB -----------------------------
(***************************************************************************)
(* The chainstate coin database CCoinsViewDB (src/src/txdb.cpp): the       *)
(* reorg-safe batched commit BatchWrite, with the process crashing at any  *)
(* point and the caller replaying the interrupted commit on restart, and   *)
(* the two-tier lookup GetCoin / HaveCoin that falls back to the           *)
(* loaded-coin overlay (loadedcoindb) when the primary table misses.       *)
(*                                                                         *)
(* A database is a total function from keys to values in which Absent      *)
(* stands for a key that is not stored; an Erase in a batch writes Absent. *)
(* A CDBBatch is the sequence of its operations; leveldb applies a written *)
(* batch atomically and in order, so a crash loses exactly the batch being *)
(* assembled in memory and never part of one that WriteBatch returned for. *)
(***************************************************************************)
EXTENDS Naturals, Sequences, SequencesExt

CONSTANTS
    Outpoints,       \* COutPoint values (model values)
    Coins,           \* contents of unspent coins (model values)
    Blocks,          \* non-null block hashes the caller commits to
    NullHash,        \* uint256(), the null hash
    Absent,          \* a key not present in a database
    Spent,           \* the coin of a changeset entry that IsSpent()
    BatchSizeLimit,  \* -dbbatchsize, with one unit per batch operation
    MaxCommits,      \* bound on the commits the caller starts afresh
    MaxCrashes       \* bound on process crashes

ASSUME NullHash \notin Blocks /\ BatchSizeLimit \in Nat
ASSUME MaxCommits \in Nat /\ MaxCrashes \in Nat

DB_BEST_BLOCK  == "B"
DB_HEAD_BLOCKS == "H"
DbKeys == Outpoints \cup {DB_BEST_BLOCK, DB_HEAD_BLOCKS}

\* A CCoinsCacheEntry of the changeset: its coin and its DIRTY and fLoaded flags.
Entry == [coin : Coins \cup {Spent}, dirty : BOOLEAN, fLoaded : BOOLEAN]
\* A LoadedCoin record of the overlay, keyed by the outpoint (its hash).
LoadedCoin == [coin : Coins, fSpent : BOOLEAN]

VARIABLES
    db,         \* the chainstate leveldb: DbKeys -> value or Absent
    loadeddb,   \* the loadedcoins leveldb: Outpoints -> LoadedCoin or Absent
    mapCoins,   \* the CCoinsMap handed to BatchWrite, drained as it is written
    unvisited,  \* the entries of mapCoins the iterator has not reached yet
    batch,      \* the CDBBatch being assembled in memory
    hashBlock,  \* the hashBlock argument of the BatchWrite in progress
    pc,         \* "idle" | "writing" (inside BatchWrite) | "down" (crashed)
    \* Observability: what the caller asked for, and the bounds.
    target,     \* [tip, cs, fromTip, fromCoins] of the last commit started afresh
    commits,
    crashes

vars == <<db, loadeddb, mapCoins, unvisited, batch, hashBlock, pc,
          target, commits, crashes>>

CoinsOf(d) == [o \in Outpoints |-> d[o]]

(***************************************************************************)
(* Leveldb applies the operations of a batch in order.                     *)
(***************************************************************************)
ApplyBatch(d, b) == FoldLeft(LAMBDA acc, op : [acc EXCEPT ![op[1]] = op[2]], d, b)

(***************************************************************************)
(* GetBestBlock and GetHeadBlocks: a missing key reads as the null hash    *)
(* and as the empty vector.                                                *)
(***************************************************************************)
GetBestBlock == IF db[DB_BEST_BLOCK] = Absent THEN NullHash ELSE db[DB_BEST_BLOCK]
GetHeadBlocks == IF db[DB_HEAD_BLOCKS] = Absent THEN <<>> ELSE db[DB_HEAD_BLOCKS]

(***************************************************************************)
(* BatchWrite's old_tip: the best block, or, when that is missing and a    *)
(* [new, old] marker is present, the old tip of the interrupted commit.    *)
(***************************************************************************)
OldTipHeadsFirst ==
    IF GetBestBlock = NullHash /\ Len(GetHeadBlocks) = 2
    THEN GetHeadBlocks[1] ELSE GetBestBlock
OldTip ==
    IF GetBestBlock = NullHash /\ Len(GetHeadBlocks) = 2
    THEN GetHeadBlocks[2] ELSE GetBestBlock

\* The database is in the middle of a commit: the marker replaced the tip.
Transitional == db[DB_BEST_BLOCK] = Absent /\ db[DB_HEAD_BLOCKS] # Absent

(***************************************************************************)
(* The changesets a caller hands over. An entry is fLoaded only for a coin *)
(* GetCoin took from the overlay, so only for an outpoint the overlay has. *)
(***************************************************************************)
Changesets ==
    UNION { {cs \in [S -> Entry] : \A o \in S : cs[o].fLoaded => loadeddb[o] # Absent}
            : S \in SUBSET Outpoints }

(***************************************************************************)
(* BatchWrite, lines up to the loop: read old_tip, then start the first    *)
(* batch with Erase(DB_BEST_BLOCK) and Write(DB_HEAD_BLOCKS, [new, old]).  *)
(* The caller is CCoinsViewCache::Flush, or on restart ReplayBlocks, which *)
(* finds the marker and commits the same block and changes again, as the  *)
(* assert(old_heads[0] == hashBlock) demands.                              *)
(***************************************************************************)
StartBatchTipFirst(hb, cs) ==
    /\ hashBlock' = hb
    /\ mapCoins' = cs
    /\ unvisited' = DOMAIN cs
    /\ batch' = << <<DB_BEST_BLOCK, hb>>, <<DB_HEAD_BLOCKS, <<hb, OldTip>> >> >>
    /\ pc' = "writing"

StartBatchNoMarker(hb, cs) ==
    /\ hashBlock' = hb
    /\ mapCoins' = cs
    /\ unvisited' = DOMAIN cs
    /\ batch' = <<>>
    /\ pc' = "writing"

StartBatch(hb, cs) ==
    /\ hashBlock' = hb
    /\ mapCoins' = cs
    /\ unvisited' = DOMAIN cs
    /\ batch' = << <<DB_BEST_BLOCK, Absent>>, <<DB_HEAD_BLOCKS, <<hb, OldTip>> >> >>
    /\ pc' = "writing"

\* The abstract tip and table (those of AbstractStore below): the old ones
\* while a commit is interrupted.
FromTip == IF Transitional THEN target.fromTip ELSE GetBestBlock
FromCoins == IF Transitional THEN target.fromCoins ELSE CoinsOf(db)

HeadsAssertDropped(hb) == TRUE

\* assert(old_heads[0] == hashBlock) at line 121, reached when the best
\* block is missing and a [new, old] marker is on disk.
HeadsAssert(hb) ==
    (GetBestBlock = NullHash /\ Len(GetHeadBlocks) = 2) => GetHeadBlocks[1] = hb

(***************************************************************************)
(* BatchWrite(cs, hb) up to the loop, for a caller whose request is tgt:   *)
(* a failed assert aborts the process before anything is written.          *)
(***************************************************************************)
CommitAt(hb, cs, tgt) ==
    IF HeadsAssert(hb)
    THEN /\ StartBatch(hb, cs)
         /\ target' = tgt
         /\ UNCHANGED crashes
    ELSE /\ pc' = "down"
         /\ crashes' = crashes + 1
         /\ UNCHANGED <<mapCoins, unvisited, batch, hashBlock, target>>

CallerRequest(hb, cs) == [tip |-> hb, cs |-> cs, fromTip |-> FromTip, fromCoins |-> FromCoins]

BeginCommit ==
    /\ pc = "idle"
    /\ ~Transitional
    /\ commits < MaxCommits
    /\ \E hb \in Blocks, cs \in Changesets : CommitAt(hb, cs, CallerRequest(hb, cs))
    /\ UNCHANGED <<db, loadeddb, commits>>

ReplayCommit ==
    /\ pc = "idle"
    /\ Transitional
    /\ Len(GetHeadBlocks) = 2
    /\ CommitAt(GetHeadBlocks[1], target.cs, target)
    /\ UNCHANGED <<db, loadeddb, commits>>

(***************************************************************************)
(* A caller that flushes a cache for another block while an interrupted    *)
(* commit is on disk (one that did not run ReplayBlocks first). The abort  *)
(* counts as one of the crashes.                                           *)
(***************************************************************************)
ForeignCommit ==
    /\ pc = "idle"
    /\ Transitional
    /\ Len(GetHeadBlocks) = 2
    /\ crashes < MaxCrashes
    /\ \E hb \in Blocks \ {GetHeadBlocks[1]}, cs \in Changesets :
          CommitAt(hb, cs, CallerRequest(hb, cs))
    /\ UNCHANGED <<db, loadeddb, commits>>

(***************************************************************************)
(* One turn of the loop over mapCoins whose entry is flagged fLoaded: it   *)
(* is skipped, and left in mapCoins.                                       *)
(***************************************************************************)
SkipLoadedNoAdvance ==
    /\ pc = "writing"
    /\ \E o \in unvisited : mapCoins[o].fLoaded
    /\ UNCHANGED vars

SkipLoaded ==
    /\ pc = "writing"
    /\ \E o \in unvisited :
          /\ mapCoins[o].fLoaded
          /\ unvisited' = unvisited \ {o}
    /\ UNCHANGED <<db, loadeddb, mapCoins, batch, hashBlock, pc,
                   target, commits, crashes>>

(***************************************************************************)
(* One turn of the loop for any other entry: a dirty one is written, or    *)
(* erased when spent; the entry leaves mapCoins; and when the batch has    *)
(* grown past -dbbatchsize it is written and a new one started.            *)
(***************************************************************************)
EntryOpsNoErase(e, o) ==
    IF e.dirty THEN << <<o, e.coin>> >> ELSE <<>>

EntryOps(e, o) ==
    IF e.dirty THEN << <<o, IF e.coin = Spent THEN Absent ELSE e.coin>> >> ELSE <<>>

WriteEntryNoErase ==
    /\ pc = "writing"
    /\ \E o \in unvisited :
          LET b == batch \o EntryOps(mapCoins[o], o)
          IN /\ ~mapCoins[o].fLoaded
             /\ unvisited' = unvisited \ {o}
             /\ mapCoins' = mapCoins
             /\ IF Len(b) > BatchSizeLimit
                   THEN db' = ApplyBatch(db, b) /\ batch' = <<>>
                   ELSE db' = db /\ batch' = b
    /\ UNCHANGED <<loadeddb, hashBlock, pc, target, commits, crashes>>

WriteEntry ==
    /\ pc = "writing"
    /\ \E o \in unvisited :
          LET b == batch \o EntryOps(mapCoins[o], o)
          IN /\ ~mapCoins[o].fLoaded
             /\ unvisited' = unvisited \ {o}
             /\ mapCoins' = [p \in DOMAIN mapCoins \ {o} |-> mapCoins[p]]
             /\ IF Len(b) > BatchSizeLimit
                   THEN db' = ApplyBatch(db, b) /\ batch' = <<>>
                   ELSE db' = db /\ batch' = b
    /\ UNCHANGED <<loadeddb, hashBlock, pc, target, commits, crashes>>

(***************************************************************************)
(* After the loop: the last batch erases the marker, writes the new tip,   *)
(* and is written; BatchWrite returns.                                     *)
(***************************************************************************)
WriteFinalBatch ==
    /\ pc = "writing"
    /\ unvisited = {}
    /\ db' = ApplyBatch(db, batch \o << <<DB_HEAD_BLOCKS, Absent>>,
                                        <<DB_BEST_BLOCK, hashBlock>> >>)
    /\ batch' = <<>>
    /\ pc' = "idle"
    /\ commits' = commits + 1
    /\ UNCHANGED <<loadeddb, mapCoins, unvisited, hashBlock, target, crashes>>

(***************************************************************************)
(* The process dies inside BatchWrite (the -dbcrashratio _Exit after a     *)
(* partial batch, a power loss, or a failed WriteBatch, whose exception    *)
(* aborts the node): everything in memory is lost, the databases stay.     *)
(***************************************************************************)
Crash ==
    /\ pc = "writing"
    /\ crashes < MaxCrashes
    /\ pc' = "down"
    /\ mapCoins' = << >>
    /\ unvisited' = {}
    /\ batch' = <<>>
    /\ crashes' = crashes + 1
    /\ UNCHANGED <<db, loadeddb, hashBlock, target, commits>>

Restart ==
    /\ pc = "down"
    /\ pc' = "idle"
    /\ UNCHANGED <<db, loadeddb, mapCoins, unvisited, batch, hashBlock,
                   target, commits, crashes>>

\* The caller has made all its commits and none is left interrupted.
Done ==
    /\ pc = "idle"
    /\ ~Transitional
    /\ commits = MaxCommits
    /\ UNCHANGED vars

(***************************************************************************)
(* Initially the chainstate is either empty or settled at some tip, and    *)
(* the overlay holds whatever ReadLoadedCoins imported.                    *)
(***************************************************************************)
Init ==
    /\ \E tip \in Blocks \cup {Absent}, coins \in [Outpoints -> Coins \cup {Absent}] :
          /\ tip = Absent => coins = [o \in Outpoints |-> Absent]
          /\ db = [k \in DbKeys |-> CASE k = DB_BEST_BLOCK -> tip
                                      [] k = DB_HEAD_BLOCKS -> Absent
                                      [] OTHER -> coins[k]]
          /\ target = [tip |-> IF tip = Absent THEN NullHash ELSE tip,
                       cs |-> << >>,
                       fromTip |-> IF tip = Absent THEN NullHash ELSE tip,
                       fromCoins |-> coins]
    /\ loadeddb \in [Outpoints -> LoadedCoin \cup {Absent}]
    /\ mapCoins = << >>
    /\ unvisited = {}
    /\ batch = <<>>
    /\ hashBlock = NullHash
    /\ pc = "idle"
    /\ commits = 0
    /\ crashes = 0

Next ==
    \/ BeginCommit
    \/ ReplayCommit
    \/ ForeignCommit
    \/ SkipLoaded
    \/ WriteEntry
    \/ WriteFinalBatch
    \/ Crash
    \/ Restart
    \/ Done

(***************************************************************************)
(* The writer runs BatchWrite's loop to its end, and a crashed node is     *)
(* restarted and replays; a crash is never forced.                         *)
(***************************************************************************)
Fairness ==
    /\ WF_vars(ReplayCommit)
    /\ WF_vars(SkipLoaded)
    /\ WF_vars(WriteEntry)
    /\ WF_vars(WriteFinalBatch)
    /\ WF_vars(Restart)

Spec == Init /\ [][Next]_vars /\ Fairness


(***************************************************************************)
(* The two-tier lookup. GetCoin reads the primary table and on a miss the  *)
(* overlay, whose coin it returns marked fLoaded unless that is fSpent.    *)
(* HaveCoin answers from the same two tables.                              *)
(***************************************************************************)
GetLoadedCoin(o) == loadeddb[o]

GetCoin(o) ==
    IF db[o] # Absent
    THEN [found |-> TRUE, coin |-> db[o], fLoaded |-> FALSE]
    ELSE IF GetLoadedCoin(o) # Absent
         THEN [found |-> ~GetLoadedCoin(o).fSpent, coin |-> GetLoadedCoin(o).coin,
               fLoaded |-> TRUE]
         ELSE [found |-> FALSE, coin |-> Absent, fLoaded |-> FALSE]

HaveCoin(o) == db[o] # Absent \/ GetLoadedCoin(o) # Absent

-----------------------------------------------------------------------------
(***************************************************************************)
(* Properties.                                                             *)
(***************************************************************************)
TypeOK ==
    /\ \A o \in Outpoints : db[o] \in Coins \cup {Absent}
    /\ db[DB_BEST_BLOCK] \in Blocks \cup {Absent}
    /\ db[DB_HEAD_BLOCKS] \in [1..2 -> Blocks \cup {NullHash}] \cup {Absent}
    /\ loadeddb \in [Outpoints -> LoadedCoin \cup {Absent}]
    /\ \E S \in SUBSET Outpoints : mapCoins \in [S -> Entry]
    /\ unvisited \subseteq DOMAIN mapCoins
    /\ batch \in Seq(DbKeys \X (Coins \cup Blocks \cup {Absent}
                               \cup [1..2 -> Blocks \cup {NullHash}]))
    /\ pc \in {"idle", "writing", "down"}
    /\ commits \in 0..MaxCommits /\ crashes \in 0..MaxCrashes

(***************************************************************************)
(* What a commit of changeset cs promises the coin table, in the words of  *)
(* the design: dirty entries are written, or erased when spent, and        *)
(* entries flagged fLoaded never reach the primary table.                  *)
(***************************************************************************)
Committed(coins, cs) ==
    [o \in Outpoints |->
        IF o \in DOMAIN cs /\ cs[o].dirty /\ ~cs[o].fLoaded
        THEN IF cs[o].coin = Spent THEN Absent ELSE cs[o].coin
        ELSE coins[o]]

Expected == Committed(target.fromCoins, target.cs)

(***************************************************************************)
(* Atomic commit (BatchWrite and its crash recovery): whenever the best    *)
(* block key is readable, the database is exactly at the old tip with the  *)
(* old coins or exactly at the new tip with all of the changeset applied;  *)
(* crashes after partial batches and replays never expose a mixture        *)
(* through GetBestBlock.                                                   *)
(***************************************************************************)
CommitAtomic ==
    ~Transitional =>
        \/ GetBestBlock = target.fromTip /\ CoinsOf(db) = target.fromCoins
        \/ GetBestBlock = target.tip /\ CoinsOf(db) = Expected

(***************************************************************************)
(* Recoverable marker: while a commit is interrupted, DB_HEAD_BLOCKS names *)
(* exactly [new tip, old tip] of the commit the caller started, however    *)
(* many crashes and replays happened since, and every coin holds either   *)
(* its old value or its committed one.                                     *)
(***************************************************************************)
RecoverableMarker ==
    Transitional =>
        /\ GetHeadBlocks = <<target.tip, target.fromTip>>
        /\ \A o \in Outpoints : db[o] \in {target.fromCoins[o], Expected[o]}

(***************************************************************************)
(* An interrupted commit is eventually completed: once the marker is on    *)
(* disk, restart and ReplayBlocks bring the best block to the new tip.     *)
(***************************************************************************)
InterruptedCommitCompletes ==
    Transitional ~> (GetBestBlock = target.tip /\ ~Transitional)

(***************************************************************************)
(* What BatchWrite leaves in the caller's map (the erase at line 150 and   *)
(* the skip at line 137): while it runs, mapCoins holds the entries the    *)
(* loop has not reached and the fLoaded entries of the changeset, and when *)
(* the loop ends only the fLoaded ones, which the caller must clear.       *)
(***************************************************************************)
LeftInMapCoins ==
    pc = "writing" =>
        DOMAIN mapCoins = unvisited \cup {o \in DOMAIN target.cs : target.cs[o].fLoaded}

(***************************************************************************)
(* Spend removes visibility (design, testable properties): after a commit  *)
(* whose changeset marks O spent, HaveCoin(O) is false unless O is present *)
(* and unspent in the overlay.                                             *)
(***************************************************************************)
SpendRemovesVisibility ==
    (pc = "idle" /\ ~Transitional /\ GetBestBlock = target.tip) =>
        \A o \in DOMAIN target.cs :
            (target.cs[o].dirty /\ target.cs[o].coin = Spent) =>
                (HaveCoin(o) => GetLoadedCoin(o) # Absent /\ ~GetLoadedCoin(o).fSpent)

(***************************************************************************)
(* Refinement of the abstract store CoinStore. While the marker is on      *)
(* disk the store is still at the old tip with the old table (recovery     *)
(* will either finish the commit or nothing of it is visible); otherwise   *)
(* it is at GetBestBlock with the table as stored. A commit is pending     *)
(* from BeginCommit until WriteFinalBatch, and also across crashes once    *)
(* the marker is durable; a crash before that abandons it.                 *)
(***************************************************************************)
AbstractStore == INSTANCE CoinStore WITH
    tip <- IF Transitional THEN target.fromTip ELSE GetBestBlock,
    coins <- IF Transitional THEN target.fromCoins ELSE CoinsOf(db),
    pending <- IF pc = "writing" \/ Transitional
               THEN [tip |-> target.tip, cs |-> target.cs] ELSE Absent,
    None <- Absent

(***************************************************************************)
(* BatchWrite with its crashes and ReplayBlocks implements the atomic      *)
(* commit of CoinStore: every step is a request, the whole commit at once, *)
(* the abandonment of a commit nothing of which is durable, or no change.  *)
(***************************************************************************)
CoinStoreRefined == AbstractStore!Spec

=============================================================================
