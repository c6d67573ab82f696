# TLA+ models of the UTXO storage layer (`src/src/txdb.cpp` and neighbours)

This directory holds TLA+ models of the node's persistent coin storage. Each
module is translated from the C++ under `src/`. The TLC configurations check the
models, and `PROJECT.json` records which definition models which source lines,
what each run checks, and which hazards the properties cover.

## 1. Inventory

### Components, their state and operations

| Component | Source | State | Operations |
|---|---|---|---|
| Coin View Store `CCoinsViewDB` | txdb.cpp 68–178, 364–423 | the `chainstate` leveldb: coin keys `'C'+outpoint`, best-block key `'B'`, head-blocks key `'H'` | `GetCoin`, `HaveCoin`, `GetBestBlock`, `GetHeadBlocks`, `BatchWrite` (commit), `EstimateSize`, `Cursor` and its `Next/Valid/GetKey/GetValue` |
| Loaded-Coin Overlay | txdb.cpp 180–339, 382–443 | the `loadedcoins` leveldb: `'p'+hash(outpoint)` → `LoadedCoin{out, coin, fSpent}`; the files `loaded_coins.dat` and `my_loaded_coins.dat` | `WriteLoadedCoinIndex`, `GetLoadedCoin`, `HaveLoadedCoin`, `ReadLoadedCoins` (bulk import in batches of 4,000,000), `ReadMyLoadedCoins`, `WriteMyLoadedCoins` (export), `LoadedCursor` |
| Migration Engine | txdb.cpp 685–806 | the legacy `'c'+txid` records (`CCoins`: coinbase flag, height, vout with spentness bitmask) in the chainstate db | `Upgrade`: a cursor loop that rewrites records as per-output coins, in batches, stopping on shutdown |
| Key Codec | txdb.cpp 27–66 | none | the `DB_*` discriminators and `CoinEntry` (key byte, hash, VARINT index) |
| Block Index Store `CBlockTreeDB` | txdb.cpp 341–362, 445–526 | the `blocks/index` leveldb: `'f'` file info, `'l'` last file, `'t'` tx index, `'F'` flags, `'R'` reindex flag, `'b'` block index | read/write of each, `WriteBatchSync`, `LoadBlockIndexGuts` with a get-or-insert resolver |
| Secondary indices | txdb.cpp 528–683 | `blocks/sidechain` and `blocks/opreturn` leveldbs | `WriteSidechainIndex`, `WriteSidechainBlockData`, `GetBlockData`, `WriteBlockData`, `GetNewsTypes`, `WriteNewsType`, `EraseNewsType`, `NewsType::GetShareURL` / `SetURL` |
| Transaction primitives | primitives/transaction.cpp | none (values) | hashes, `GetValueOut`, `GetBlindHash`, `IsBMMRequest` |
| Mempool table model | unnamed/part_000 | `model`: a list of at most 50 rows, newest first | `updateModel`, `memPoolSizeChanged`, `setUSDBTC`, cell formatting |
| Sidechain withdrawal table | qt/sidechainwithdrawaltablemodel.h | declarations only | none |

### How they interact

Validation code (outside `src/`) owns a `CCoinsViewCache`. When it flushes, it
hands its `CCoinsMap` and the new tip to `CCoinsViewDB::BatchWrite`. `BatchWrite`
builds leveldb batches from the Key Codec's keys. A miss in the primary table
falls back to the overlay: `GetCoin` and `HaveCoin` call `GetLoadedCoin`, a seek
in `loadedcoindb`. A coin found there carries `fLoaded`, and `BatchWrite` skips
such entries so that they never reach the primary table. At startup,
`ReplayBlocks` finds an interrupted commit by its `'H'` marker and commits the
same block again. `Upgrade` runs at every start until it returns true. The
overlay is filled from `loaded_coins.dat` before normal operation. All of this
runs on one writer thread. The concurrent influences are the process dying, a
shutdown request that arrives asynchronously, and a cursor scan (an RPC
thread) that iterates the coin table while later commits run.

### What is hard

* **Crash at any point of a commit.** `BatchWrite` writes partial batches once
  one passes `-dbbatchsize`. `-dbcrashratio` may `_Exit` after any of them. A
  restart must be able to tell from disk which tip is authoritative, and the
  replay itself may crash again.
* **Flags that change the path through the loop.** An `fLoaded` entry takes an
  early `continue` that skips the erase from `mapCoins`. A dirty entry is either
  erased or written depending on `IsSpent`.
* **Two-tier reads.** `GetCoin` and `HaveCoin` must agree with each other and
  with what commits did.
* **Interruptible migration.** `Upgrade` meets shutdown requests, unparsable
  records, batch boundaries and crashes, and is re-run at the next start.
* **Bulk import and export.** Partial batches stay durable after a failure,
  signed counts come from a file, an empty export writes nothing, and a
  truncated file is read back silently.
* **Ordering without topological order.** `LoadBlockIndexGuts` reads blocks in
  hash order.
* **A hand-written URL parser.** `NewsType::SetURL` finds the first `{` and
  the first `}`, runs `std::stoi` on what precedes, takes exactly eight
  characters as hex and the rest as title. It accepts URLs that `GetShareURL`
  never writes, and assigns fields before the checks that reject a URL.
* **GUI list maintenance.** `updateModel` de-duplicates, prepends (which
  reverses order) and trims to 50 rows.

### What makes each component correct

* Coin View Store: *atomic commit*: the best block is always the old or the new
  tip, with the coins of that tip. *Recoverable marker*: while a commit is
  interrupted, `'H'` holds exactly [new, old]. *Progress*: an interrupted commit
  is completed. *Two-tier lookup*: `HaveCoin` agrees with `GetCoin`. A spend
  removes visibility.
* Overlay: the import yields exactly the file's records, whatever the batch
  size. A failed import is reported. Export followed by re-read is the
  identity.
* Migration: no output is lost or duplicated across interruptions. True is
  returned only when migration is complete. Repeated starts finish it.
* Block index: after loading, every node's `pprev` is the node of its
  `hashPrev`, and there is one node per hash.
* Mempool table: no transaction is shown twice, the newest is shown, and there
  are at most 50 rows.

## 2. Plan

Modules in order of importance. Items 1–3 and 5–10 are written and checked.

1. **`CoinsViewDB`** (done). Models `BatchWrite` with crashes after any partial
   batch, the caller's replay on restart, and `GetCoin`/`HaveCoin` over a
   read-only overlay. `MCCoinsViewDB` instantiates it.
2. **`Upgrade`** (done). Models the migration loop with shutdown, parse errors,
   crashes and repeated starts. `MCUpgrade` instantiates it.
3. **`LoadedCoinIndex`** and **`MyLoadedCoins`** (done). The first models
   `ReadLoadedCoins` with its batches (length a constant), its exceptions and
   its version check. The second models `WriteMyLoadedCoins` and
   `ReadMyLoadedCoins`, with a failed `fopen`, a swallowed write exception
   and a crash during the write. The import is checked for completeness and
   whole-batch failure, and the export for the round trip of non-empty
   vectors whose write went through. The silent failure of the export
   (txdb.cpp:323 and 337, then the partial read at txdb.cpp:307) is a
   violation run. The empty-export early return at
   txdb.cpp:315 (an export of `<<>>` leaves the previous file, so the read
   returns the previous export) is shown by TLC in two steps and is
   documented in section 5 rather than kept as a run.
4. **`CoinsOverlay`**: composes `LoadedCoinIndex` and `CoinsViewDB`. The overlay is
   filled by the import, and commits and lookups follow. Checks the two-tier
   lookup against the abstract spec below.
5. **`CoinStore`** (done): the abstract store, with its refinement. Its state
   is a tip, a coin table and a pending request. `Request` hands over a
   changeset. `Commit` applies it and moves the tip in one step. `Abandon`
   forgets it. `CoinsViewDB` refines it through `AbstractStore`, and
   `CoinStoreRefined` is a PROPERTY of `commit_crash`.
6. **`BlockTreeDB`** (done): `LoadBlockIndexGuts` with `insertBlockIndex` as a
   get-or-insert map over records in hash order, `WriteBatchSync`, and the
   start-up reads of the file records, with crashes anywhere.
7. **`LegacyCoins`** (done): `CCoins::Unserialize` as a RECURSIVE operator. It
   is checked against the legacy writer over every record of up to twelve
   outputs.
8. **`MemPoolTableModel`** (done): `updateModel` and the three handlers that
   call it. `InfoRecent`'s order is a constant, and the mempool is the
   environment. With newest-first order, the newest transaction is shown and
   the row cap holds. Rows are duplicated, against the comment at line 168.
9. **`CoinsCursor`** (done): `Cursor()` and `CCoinsViewDBCursor` over a
   snapshot, scanned while commits and crashes go on, checked against the
   coin table of the best block the cursor reports.
10. **`NewsType`** (done): the share-URL codec and the news-type table of
    `OPReturnDB`. `GetValueOut`'s range check is not modelled (see section 5).

## 3. Modules and how they correspond to the code

### `CoinsViewDB.tla`

A database is a function from keys to values, with `Absent` for a missing
key. `ApplyBatch` folds a batch's operations in order, which is leveldb's
atomic `WriteBatch`.

* Variables. `db` is the chainstate leveldb. `loadeddb` is the overlay,
  read-only here. `mapCoins` is the `CCoinsMap` being drained. `unvisited` is
  the iterator's remaining entries. `batch` is the `CDBBatch` in memory.
  `hashBlock` is the argument. `pc` is idle, writing or down. The ghost
  `target` records the tip and changeset the caller asked for, with the tip and
  coins they started from.
* `BeginCommit` covers lines 108–131. It reads `old_tip` through `OldTip` and
  starts the first batch with `Erase('B')` and `Write('H', [new, old])`.
  `ReplayCommit` is the same code when called by `ReplayBlocks` after a
  restart: it recommits the marked block with the same changes, as the assert
  at line 121 demands. Both go through `CommitAt`, which evaluates that
  assert (`HeadsAssert`). A failed assert aborts the process before anything
  is written.
* `ForeignCommit` is a caller that flushes a cache for another block while
  an interrupted commit is on disk. The assert turns this into an abort,
  which counts against `MaxCrashes`. The ghost `target` of such a request
  starts from the abstract tip and table (`FromTip`, `FromCoins`). Without
  the assert, the request would apply its changes on top of the half-written
  table, and `CommitAtomic` fails.
* `SkipLoaded` (lines 135–138) and `WriteEntry` (lines 140–162) are one turn of
  the loop each. `WriteEntry` does the write or erase, removes the entry from
  `mapCoins`, and writes the batch once it has passed `BatchSizeLimit`.
  `WriteFinalBatch` is lines 165–172.
* `Crash` is the `_Exit` of `-dbcrashratio`, a power loss, or a failing
  `WriteBatch`, whose exception aborts the node. It loses everything in memory.
  `Restart` brings the node back.
* `GetCoin`, `HaveCoin` and `GetLoadedCoin` are operators over the state.

### `CoinsCursor.tla`

EXTENDS `CoinsViewDB` and adds a cursor to it. The chainstate keys are ordered
as leveldb orders their bytes: `'B'`, the `'C'` coin keys in `CoinOrder`, then
`'H'` (`KeyOrder`).

* `Cursor` covers lines 364–380. The iterator is a copy of `db` together
  with its key list (`IterKeys`, the `NewIterator` at line 366), and
  `GetBestBlock()` is read on the same state. `SeekCoin` is the
  `Seek(DB_COIN)` at line 370. The key of the first record is then cached.
  `GetKey`'s result is ignored, and `keyTmp.first` is whatever
  `CoinEntry::Unserialize` read as the first byte (`KeyByte`). This is `'H'`
  on the marker and `NUL` past the end. A cursor is made only while no
  `BatchWrite` runs. `NewIterator()` and `GetBestBlock()` are two separate
  reads of the live database, so this is an assumption about the caller
  (`rpc/blockchain.cpp`, not in the repository), which creates the cursor
  while holding `cs_main`, the lock commits run under. The scan itself runs
  without that lock, and the model lets commits and crashes happen between
  its steps.
* `Valid` covers lines 389–412, and `GetValue` covers lines 399–402.
* `CursorAdvance` is `Next` (lines 414–423): `pcursor->Next()`, then the
  cache is set again (`NextKeyTmp`). A key that does not decode clears the
  cache.
* `ScanStep` is one turn of the caller's `while (Valid())` loop. The loop is
  in `rpc/blockchain.cpp`, which is not in the repository.
* `StoreStep` is a step of `CoinsViewDB`. The final batch of a commit
  records the table it leaves in the ghost `tableAt`, and a crash ends the
  scan. The ghost `expected` is the entry of `tableAt` for the cursor's best
  block when the cursor was made.

`LoadedCursor` (lines 382–387, 425–443) wraps an iterator over a database
that holds only `'p'` keys, and its `Valid` is `pcursor->Valid()`. It is not
modelled (see section 5).

### `CoinStore.tla` and the refinement

`CoinStore` is what the design promises a caller: a commit is atomic.
`AbstractStore` in `CoinsViewDB` maps the detailed state onto it as follows:

* `tip`, `coins`: while `Transitional` (the marker is on disk and the tip key
  is erased), the old tip and the old table, taken from the history variable
  `target`. Otherwise, `GetBestBlock` and the stored table.
* `pending`: the caller's `[tip, cs]` while `BatchWrite` runs or the marker is
  on disk. Otherwise, none.

Under this mapping:

* `BeginCommit` is `Request`.
* The `WriteFinalBatch` that erases the marker is `Commit`.
* A `Crash` before the first batch reached disk is `Abandon`.
* Every other step, partial batches, replays and crashes after the marker
  included, changes nothing abstract.

### `LegacyCoins.tla`

A legacy record is a coinbase flag, a height and an availability vector whose
last entry is true. A stream is the sequence of values read from it:

* the version;
* the header code;
* the bitmask bytes;
* the value `Out` once for each compressed txout;
* the height.

The operators map onto the code as follows:

* `MaskCode` is lines 710–715, including the implicit 1 when outputs 0 and 1
  are both spent.
* `ByteBits` is lines 719–723.
* `ReadMask` is the `while` loop at lines 716–726. It recurses once per byte,
  and only a non-zero byte counts down.
* `Unserialize` is the whole of lines 703–735. Running out of input is an
  exception, as `::Unserialize` throws one.

`Serialize` is the reference: the writer of this format in the releases that
wrote it (`CCoins::Serialize` with `CalcMaskSize`, not in this repository).
`Decode` is Upgrade's `GetValue` at line 777, applied to a record's
serialization.

### `MemPoolTableModel.tla`

Transactions are numbered in arrival order. The mempool is a sequence of them,
and `AcceptTx`, `RemoveTx` and `LeaveIBD` are the environment (txmempool.cpp
and validation.cpp are not in the repository). The table `model` is a
sequence, with index 1 as `model.front()`.

* `UpdateModel(cm)` covers lines 157–210:
  * the early returns for no client model and for IBD;
  * `CutAtFront` (lines 165–181), which cuts vInfo before the entry equal to
    the first row;
  * the early return on an empty vInfo;
  * `Prepended` (lines 186–199): prepending one entry at a time is the
    reverse of vInfo followed by the old rows;
  * `Trim` (lines 201–209): popping from the back down to `Cap`.
* `MemPoolSizeChanged` covers lines 214–221. It updates only when the
  (nTx, nBytes) pair differs from the stored one. nBytes is represented by
  the set of entries, as if distinct sets had distinct sizes.
* `SetUSDBTC` covers lines 223–227.
* `SetClientModel` covers lines 146–155 and ends with `setUSDBTC`.

Cell formatting (`data`, `headerData`) is left out. It only reads.

### `Upgrade.tla`

Legacy records are sequences of outputs (`NullOut`, `Unspendable` or a value),
keyed by txid `1..NTx` in key order. The cursor reads a snapshot of the legacy
records taken at `Seek`, as a leveldb iterator does.

* `Seek` covers lines 744–749: with nothing to migrate, Upgrade returns true.
* `ConvertRecord` covers lines 765–799. It adds the writes for the spendable
  outputs and the erase of the record (`ConvertOps`), writes the batch once it
  is past `BatchLimit`, and moves the cursor on.
* `ParseError` is line 778. It returns false and drops the batch.
* `LeaveLoop` and `Finish` cover lines 760–764 and 801–805. On shutdown or at
  the end of the cursor, the batch is written and `!ShutdownRequested()` is
  returned.
* `RequestShutdown`, `Crash` and `Restart` are the environment. A start after a
  crash, or after `Upgrade` returned false, calls `Upgrade` again.

### `BlockTreeDB.tla`

The running node's `mapBlockIndex` is two variables: `arena`, the sequence of
`CBlockIndex` objects (a pointer is a position in it, 0 is `nullptr`), and
`mapBI`, from hash to position. Two objects for one hash can therefore be told
apart, which is what the resolver's contract is about. Block hashes are
`1..NBlocks` in key order, independent of height, so a child can be read
before its parent. On disk, `index` holds the `'b'` records (`hashPrev`,
height, file), `fileInfo` the `'f'` records (a block count stands for
`CBlockFileInfo`), and `lastFile` the `'l'` record.

* `WriteBatchSync` covers lines 445–455: one synced batch with the given file
  infos, `DB_LAST_BLOCK`, and a `CDiskBlockIndex` of each given block, whose
  `hashPrev` is the hash of the object `pprev` points at (`DiskRecord`).
* `StartLoad` covers lines 480–485. The iterator is a snapshot of the `'b'`
  keys in order. The loop's `break` at the first key of another prefix
  (line 521) is the end of that sequence.
* `LoadRecord` covers lines 486–515. It resolves the record's own hash, then
  its `hashPrev`, through `InsertBlockIndex`, copies the fields, and moves
  the iterator on. `InsertBlockIndex` is the caller's resolver, modelled from
  the design: `nullptr` for the null hash, the existing object for a known
  hash, a new empty object otherwise.
* `FinishLoad` covers lines 519–525 and the caller's reads that follow:
  `ReadLastBlockFile` (lines 360–362, 0 when missing) and `ReadBlockFileInfo`
  (lines 344–346).
* `Crash` is the process dying, or the shutdown exception thrown by the
  interruption point at line 488. All memory is lost.
* `AcceptBlock` and `Flush` are the caller (`validation.cpp`). A block is
  accepted on a known block into the current or the next file. A flush
  writes every dirty block and file and clears the dirty sets.

`WriteReindexing`, `WriteTxIndex`, `WriteFlag` and their reads are single
writes and reads of keys that no other operation reads. They are not
modelled.

### `NewsType.tla`

Models `NewsType::GetShareURL` and `SetURL` (lines 629–683) and the news-type
table of `OPReturnDB` (lines 574–627). A URL is a sequence of one-character
strings.

* The conversions are operators, each modelled by what it does:
  * `Find` is `std::string::find`, giving `NPos` when the character is absent.
  * `Substr` is `substr`.
  * `Stoi` is `std::stoi`: white space, a sign, then the longest run of
    digits. Having no digits throws, and so does a value outside `int`.
  * `IntToString` is `std::to_string`.
  * `HexStr` writes lower-case hex.
  * `IsHexNumber` and `ParseHex` come from `utilstrencodings`, which is not in
    the repository. They allow a `0x` prefix and upper-case digits.
* `SetURL(obj, u)` returns the result and the object, in the code's order:
  * the length check and the four brace checks come first;
  * then `nDays` is assigned and checked against 0;
  * then `header` is assigned and its size checked;
  * then `title` is assigned and checked for emptiness.
  `HeaderField` and `TitleField` are the two `substr` calls, at lines 667 and 678.
* `db` is the `blocks/opreturn` leveldb: a set of `[prefix, key, value]`
  records, with `'X'` records keyed by the type (which stands for its hash)
  and `'x'` records of block data.
  * `WriteNewsType`, `EraseNewsType` and `WriteBlockData` are one write or
    erase each.
  * `GetNewsTypes` scans the whole database and keeps the `'X'` values. The
    caller passes an empty vector.
* `Import` and `Share` stand for the GUI, which is not in the repository.
  * `Import(u)` runs `SetURL` on a fresh `NewsType` and stores the type only
    when the result is true. It can paste any URL of `URLs`, or the last share.
  * `Share(t)` puts `GetShareURL(t)` on `clip`.

### `LoadedCoinIndex.tla`

`loaded_coins.dat` is a record: whether it exists, `nVersionRequired`, the
count as read, and the records after the header. A record may be `Bad`, which
means it throws when decoded. Reading past the last record also throws. `Init`
enumerates every such file up to `MaxRecords`, including negative and
overlong counts and repeated outpoints. `loadedcoindb` may start empty or hold
one earlier record.

* `WriteLoadedCoinIndex` covers lines 180–190: one batch, keyed by the
  outpoint, so a later record for the same outpoint wins.
* `Open` covers lines 223–244: the missing-file and version early returns.
* `ReadRecord` is one turn of the loop at lines 248–260. At `i % ImportBatch
  = 0` it writes and clears the pending vector. Then it decodes record `i`. On
  an exception it returns false, keeping what was flushed and dropping the
  rest.
* `Finish` covers lines 261–273: the final batch, then return true.

### `MyLoadedCoins.tla`

`my_loaded_coins.dat` is `Absent`, or the sequence of values written to it:
`210000`, `CLIENT_VERSION`, the count, then the records.

* `WriteMyLoadedCoins` covers lines 313–339. An empty vector leaves the file
  alone. Otherwise the call ends in one of three ways, all of which return
  normally from the void function: every value is written and the file
  becomes `FileImage(v)`; `fopen("w")` fails and the file is untouched
  (lines 322–324); or a write throws after the truncation, and the `catch`
  (lines 335–338) returns with any proper prefix of the image on disk
  (`TornImages`). The ghost `lastExport` records the vector and which of
  these ends (`Outcomes`) the call took; the caller cannot see it.
* `CrashInWrite` is the process dying inside that call, after `fopen("w")`
  has truncated the file. The file is left holding any proper prefix of the
  image.
* `ReadMyLoadedCoins` covers lines 275–311 and is an operator. It returns
  `<<>>` when the header is missing, short or too new, and otherwise returns
  at most `count` of the records present. The `catch` returns what was read.

The callers of these two functions are not in the repository. The model's
environment therefore calls the writer with any vector, and evaluates the
reader on whatever the file holds.

## 4. Runs

| Run | Config | Expect | What it shows |
|---|---|---|---|
| `commit_crash` | `MCCoinsViewDB.cfg` | pass | `LeftInMapCoins`: while `BatchWrite` runs, `mapCoins` holds exactly the entries the loop has not reached and the `fLoaded` entries, so only the `fLoaded` ones are left when it returns. `CoinStoreRefined` (the detailed commit implements `CoinStore`), `CommitAtomic`, `RecoverableMarker`, `InterruptedCommitCompletes` and `TypeOK` hold over two commits with up to two crashes anywhere inside `BatchWrite`, replays included. |
| `have_coin_spent_overlay` | `MCCoinsViewDB_SpendRemovesVisibility.cfg` | violation | `HaveCoin` is true for an outpoint whose only record is an overlay record marked `fSpent`, while `GetCoin` says not found. This contradicts the design's "spend removes visibility". |
| `upgrade_interrupted` | `MCUpgrade.cfg` | pass | Any legacy record may be `Unparsable`. Across shutdowns and crashes, `NoLossNoDuplication` holds (every transaction is wholly legacy or wholly converted, the dropped batch of a parse error included), `TrueMeansMigrated` holds (so Upgrade never returns true while an unparsable record is left), and `EventuallyMigrated` holds over repeated starts when every record parses. |
| `block_index` | `MCBlockTreeDB.cfg` | pass | `IndexAgreesWithDisk`: after any mix of accepted blocks, flushes, crashes and reloads in hash order, every block that is not dirty has exactly one object, wired to its predecessor as its record says, and no empty object is left for a predecessor. `FileInfoMatchesIndex`: the file records always count the block records. `LoadCompletes`: the load always finishes. |
| `loaded_import` | `MCLoadedCoinIndex.cfg` | pass | `ImportComplete`: when the import returns true, the overlay is the old table overwritten by the declared records in order. `FailedImportWholeBatches`: when it returns false, the overlay holds only whole batches from the start of the file. |
| `my_loaded_round_trip` | `MCMyLoadedCoins.cfg` | pass | `WrittenRoundTrip`: an export of a non-empty vector whose `fopen` and writes all succeeded reads back exactly, even after earlier failed opens, swallowed write exceptions and crashes. |
| `legacy_decode` | `MCLegacyCoins.cfg` | pass | `UnserializeInvertsSerialize`: every record decodes to its coinbase flag, height and unspent outputs, apart from the spent padding of the last bitmask byte. |
| `mempool_table` | `MCMemPoolTableModel.cfg` | pass | With `InfoRecent` newest first, `NewestShown` holds: after any update that passes its guards, the newest mempool transaction is a row. `TypeOK` bounds the table at `Cap`. |
| `news_share_round_trip` | `MCNewsType.cfg` | pass | `ShareRoundTrip`: every stored type survives `GetShareURL` then `SetURL` unchanged. This holds although the pasted URLs include every shape `SetURL` accepts or rejects, and accepted URLs that `GetShareURL` never writes. `TypeOK`: `GetNewsTypes` lists only `'X'` values, although it scans the `'x'` block records as well. |
| `cursor_scan` | `MCCoinsCursor.cfg` | pass | `CursorMatchesStore`: no scan fails a read. Whenever a cursor reports a non-null best block, what it has yielded is, in key order, a prefix of the coin table that the last commit to that block left (the whole table once the scan is done), even while later commits and crashes happen. A cursor made between a crash and the replay reports the null block. `ScanCompletes`: every scan the process survives ends. |
| `mempool_duplicate_rows` | `MCMemPoolTableModel_Duplicates.cfg` | violation | `NoDuplicateRows`: `setClientModel` shows `[1, 2]` (oldest first, because of the prepend loop), and the next size signal cuts `[2, 1]` at 1 and prepends 2 again, giving `[2, 1, 2]`. With `NewestFirst = FALSE`, `NewestShown` fails as well; this was checked once and is not a run. |
| `my_loaded_torn_file` | `MCMyLoadedCoins_TornFile.cfg` | violation | `ExportAllOrNothing`: a write of two records throws after the header and one record; the `catch` returns normally and the file reads back as one record, with no error. A failed `fopen` (the old export reads back) and a crash break it the same way. |

Each property of a passing run has a mutant in `PROJECT.json`: a plausible bug
in a mapped definition under which TLC finds that property violated. The
mutants are:

* writing a spent coin instead of erasing it;
* writing the new tip in the first batch instead of the marker;
* `BatchWrite` without `assert(old_heads[0] == hashBlock)`;
* a first batch without the marker;
* taking the old tip from `old_heads[0]`;
* a `continue` without `it++`;
* a loop turn that writes an entry without `mapCoins.erase`;
* keeping null outputs during migration;
* writing the batch between a record's coins and its erase;
* returning true regardless of the shutdown flag;
* a missing `pcursor->Next()`;
* a batch key computed once, outside the loop;
* a missing final `WriteLoadedCoinIndex`;
* decoding record `i` before the batch flush at `i % N == 0`;
* opening `my_loaded_coins.dat` with `"a"` instead of `"w"`;
* reading `count - 1` records;
* `if` instead of `while` around `pop_back`;
* dropping the implicit 1 of `nMaskCode`;
* cutting vInfo after the known row instead of before it;
* a `WriteBatchSync` loop that skips the last block, and one that skips the
  first file;
* a missing `pcursor->Next()` in `LoadBlockIndexGuts`;
* `GetNewsTypes` without the `key.first == DB_OP_RETURN_TYPES` test;
* a title taken from `substr(nSecond)`, which keeps the `}`;
* a cursor that caches `DB_COIN` as the first byte whatever key it stands on,
  so the `'H'` marker looks like a coin;
* a cursor `Next()` that does not call `pcursor->Next()`.

### Bounds and why they suffice

* `MCCoinsViewDB`:
  * Two outpoints, so a batch boundary can fall between two coin writes.
  * One coin content: writes that only replace a coin with an equal one show
    nothing, so creation and erasure are what the properties need.
  * Two blocks, so old and new tip differ.
  * `BatchSizeLimit = 1`: the first batch (2 marker operations plus a coin) is
    written at the first entry, and later batches after two entries. Both a
    crash right after the marker and a crash between coins occur.
  * Up to two crashes, so a replay can itself be interrupted; two fresh commits.
  * The run reaches 443,143 distinct states in about 2 minutes, with the
    refinement included.
* `MCUpgrade`:
  * Three records of one or two outputs each, over every mix of spent,
    unspendable and spendable outputs.
  * `BatchLimit = 2`, so a batch is written in the middle of the table.
  * Up to two crashes or shutdowns.
  * Every record may instead be unparsable, so a parse error can come
    before, inside or after a written batch.
  * 308,421 states.
* `MCBlockTreeDB`:
  * Four block hashes, so that a chain of three and a fork both occur, and a
    child, a grandchild or a sibling can sort before the block it builds on.
  * Two block files, so a flush can carry two file records.
  * Up to two crashes, so a load can itself be interrupted and a flush can
    come after a reload.
  * 26,920 states.
* `MCNewsType`:
  * The pasted URLs combine seven days parts, five header parts and three
    titles. They also include five URLs with a `}` before the `{`, and five
    without braces (115 URLs in all):
    * days parts: `1`, `-12`, ` +2`, `2x`, `0`, `x`, and none;
    * header parts: `deadbeef`, `DEADBEEF`, `0xdeadbe`, `deadbeef01`,
      `deadbee`;
    * titles: `t`, `}`, and the empty title.
  * Together these reach every early return of `SetURL` that can be taken, and nine
    distinct accepted types. The checks `nFirst >= size`, `nSecond >= size`
    and `nFirst == nSecond` cannot fail after `find`.
  * Up to `MaxTypes = 2` stored types, one block hash and two block-data values.
  * 63,480 states in about 45 s.
* `MCLoadedCoinIndex`:
  * Two outpoints, one coin content, and both `fSpent` values.
  * `ImportBatch = 2` and up to three records. A file then spans a full batch
    and a partial one, and a failure can fall in either.
  * Counts from −1 to 4, and both versions.
  * 46,680 states.
* `MCMyLoadedCoins`:
  * Vectors of up to two of the four records.
  * Three exports, each of which may fail to open or throw partway, and up to
    two crashes, so that a complete export follows a failed or torn one. The
    violation run allows one crash.
  * 3,445 states. Deadlock is not checked: the environment may stop calling.
* `MCCoinsCursor`:
  * The same two outpoints, one coin and two blocks as `MCCoinsViewDB`,
    with `BatchSizeLimit = 1`, two commits and one crash. A cursor can
    therefore be made on a committed tip, or after a crash that left the
    `'H'` marker behind a half-written table.
  * Up to two cursors, so a second scan follows a commit made during the
    first.
  * The overlay is empty (`LoadedCoin <- MCLoadedCoin`), because the cursor
    never reads it.
  * 821,543 states in about 42 s.
* `MCLegacyCoins`:
  * Every record of 1 to 12 outputs, with either coinbase flag and two
    heights: 16,380 records.
  * Twelve outputs give two bitmask bytes, so a zero first byte before a
    non-zero second one is included.
* `MCMemPoolTableModel`:
  * Five transactions.
  * `Recent = 2` for 10 and `Cap = 4` for 50, so that one update can bring two
    new entries and a full table can overflow by two.
  * 47,798 states.

### Fairness

The mempool table model assumes no fairness: its runs check invariants only.

The writer thread runs `BatchWrite`'s and `Upgrade`'s loops without blocking,
so their steps are weakly fair. A node that crashed is restarted and replays at
startup: `ReplayBlocks` is unconditional in init. That is an operator
assumption, stated as weak fairness of `Restart`. Crashes and shutdown requests
are never fair and are bounded (`MaxCrashes`, `MaxRestarts`). The same holds
for the block index: a node is started again after a crash and its load loop
runs without waiting, so `StartLoad`, `LoadRecord` and `FinishLoad` are weakly
fair. Accepting and flushing blocks are the caller's choice and are not.
The caller's loop over a coin cursor does not wait on anything either, so
`ScanStep` is weakly fair. Creating cursors and committing are the caller's
choice, and are not fair. Without that
bound, a node that crashes forever never finishes, and the liveness properties
assume it stops crashing.

## 5. Not modelled, and why

* **leveldb / `CDBWrapper`.** External. The models assume its contract: atomic
  in-order batches and snapshot iterators.
* **`EstimateSize`, `CompactRange`, progress reporting, logging.** Heuristics
  and output with no effect on state.
* **Byte encodings (VARINT, hashes).** The models use distinct model values; a
  hash of an outpoint is taken as collision-free.
* **Cell formatting in the Qt table models, and `ToString` methods.**
  Presentation only.
* **The caller `CCoinsViewCache` and `ReplayBlocks`.** Not in the repository.
  The model's caller hands over any changeset, with `fLoaded` only for
  outpoints the overlay holds, and replays the marked block after a restart.
* **`CBlockTreeDB`'s flags, reindex flag and txindex.** Single writes and
  reads of keys nothing else in the model reads.
* **A block record that fails to decode** (line 517). Records the model
  writes always decode. Corruption below leveldb is not modelled.
* **`GetValueOut`** (transaction.cpp:126–135). The addition comes before the
  range check, but only an output outside `MoneyRange` can take a sum of
  in-range outputs past 64 bits, and that output makes the same check throw.
  Nothing here can return a wrong total, so no run is spent on it.
  The rest of `transaction.cpp` is hashing and `ToString`.
* **`OPReturnDB::GetBlockData` / `HaveBlockData` and `CSidechainTreeDB`.**
  These are point reads and single batched writes, which the design gives no
  algorithmic content.
* **Clearing the leftover `fLoaded` entries in `mapCoins`.** `BatchWrite`
  skips their erase (line 137), and `LeftInMapCoins` shows that exactly
  those entries are left. The caller that clears the map is not in the
  repository. The model builds a fresh changeset for each commit.
* **A power loss that drops batches of an earlier, completed commit.**
  `BatchWrite` writes without sync (lines 153 and 170). Losing batches of
  the last commit is a crash between them, which the model covers. Losing
  the final batch of a completed commit together with the batches of the
  next commit is not modelled.
* **`LoadedCursor`** (lines 382–387, 425–443). This is a plain wrapper
  whose `Valid` is the iterator's own, over a database that holds only one
  kind of key. Nothing in it can disagree with leveldb.
* **The empty export** (txdb.cpp:315). `WriteMyLoadedCoins(<<>>)` returns
  before it opens the file. A later `ReadMyLoadedCoins` therefore returns the
  previous export. TLC shows this in two steps, so no run is kept for it.
* **The table after IBD** (part_000:216). `memPoolSizeChanged` stores the
  new size and bytes before `updateModel` returns early during initial block
  download, and leaving IBD does not call `updateModel`. The table therefore
  stays stale after IBD until the mempool's size changes again or the rate is
  set. `MemPoolTableModel` has this behaviour (`LeaveIBD` changes only `ibd`);
  no run states the opposite.
* **`CoinsOverlay`**, plan item 4, is the composition of the import with the
  store. It is left for later.
