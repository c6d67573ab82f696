----------------------------- MODULE CoinsCursor -----------------------------
(***************************************************************************)
(* CCoinsViewDB::Cursor and CCoinsViewDBCursor (txdb.cpp 364-423), run    *)
(* beside the commit protocol of CoinsViewDB.  A cursor is a leveldb      *)
(* iterator over a snapshot of the chainstate taken when it is created,   *)
(* with the best block read at the same moment; it caches the decoded     *)
(* key of the record it stands on and is valid while that key is a coin  *)
(* ('C') key.  The caller that scans it (gettxoutsetinfo and the like) is *)
(* not in the repository: it loops while Valid(), reading GetKey and      *)
(* GetValue, and gives up when either fails.  The design lets reads       *)
(* interleave with commits only while no commit is in progress, so a      *)
(* cursor is created only when no BatchWrite runs; commits may go on      *)
(* while it is scanned, and a crash kills the scan with the process.      *)
(***************************************************************************)
EXTENDS CoinsViewDB, FiniteSets

CONSTANTS
    CoinOrder,    \* Outpoints in the byte order of their CoinEntry keys
    NoCursor,     \* no cursor has been created
    NoTable,      \* no commit has made this block the tip yet
    MaxCursors    \* bound on the cursors the caller creates

DB_COIN == "C"
NUL == "\\0"   \* the char 0 the cursor stores to invalidate its cache

\* The chainstate keys in leveldb order: 'B' < 'C'... < 'H'.
KeyOrder == <<DB_BEST_BLOCK>> \o CoinOrder \o <<DB_HEAD_BLOCKS>>

\* The keys an iterator over snapshot d visits, in order.
IterKeys(d) == SelectSeq(KeyOrder, LAMBDA k : d[k] # Absent)

\* pcursor->Seek(DB_COIN): the first key at or after 'C'.
SeekCoin(keys) ==
    LET i == SelectInSeq(keys, LAMBDA k : k # DB_BEST_BLOCK)
    IN IF i = 0 THEN Len(keys) + 1 ELSE i

\* The first byte of a key: what Unserialize puts into CoinEntry::key
\* before reading the hash, even when the rest of the key fails to decode.
KeyByte(k) == IF k \in Outpoints THEN DB_COIN ELSE k

VARIABLES
    cur,      \* [snap, keys, pos, hashBlock, keyTmp] of the live cursor
    yielded,  \* the <<outpoint, coin>> pairs the caller has read so far
    scan,     \* "none" | "scanning" | "done" | "error"
    cursors,  \* cursors created so far
    tableAt,  \* ghost: the coin table the last commit to each block left
    expected  \* ghost: tableAt of the cursor's best block when it was made

cvars == <<cur, yielded, scan, cursors, tableAt, expected>>
allvars == <<vars, cvars>>

MaxYield == Cardinality(Outpoints) + 1

CursorKeyFromConstructor ==
    /\ pc = "idle"
    /\ cursors < MaxCursors
    /\ scan # "scanning"
    /\ LET keys == IterKeys(db)
           pos  == SeekCoin(keys)
       IN cur' = [snap |-> db, keys |-> keys, pos |-> pos,
                  hashBlock |-> GetBestBlock,
                  keyTmp |-> [first |-> IF pos <= Len(keys)
                                        THEN DB_COIN ELSE NUL,
                              second |-> IF pos <= Len(keys) /\ keys[pos] \in Outpoints
                                         THEN keys[pos] ELSE NoCursor]]
    /\ scan' = "scanning"
    /\ yielded' = <<>>
    /\ expected' = IF GetBestBlock = NullHash THEN NoTable
                   ELSE tableAt[GetBestBlock]
    /\ cursors' = cursors + 1
    /\ UNCHANGED <<vars, tableAt>>

(***************************************************************************)
(* Cursor(): a new iterator and GetBestBlock() on the same state, Seek to  *)
(* DB_COIN, and the key of the first record cached with GetKey's result    *)
(* ignored: keyTmp.first is the first byte of that key in any case.        *)
(***************************************************************************)
Cursor ==
    /\ pc = "idle"
    /\ cursors < MaxCursors
    /\ scan # "scanning"
    /\ LET keys == IterKeys(db)
           pos  == SeekCoin(keys)
       IN cur' = [snap |-> db, keys |-> keys, pos |-> pos,
                  hashBlock |-> GetBestBlock,
                  keyTmp |-> [first |-> IF pos <= Len(keys)
                                        THEN KeyByte(keys[pos]) ELSE NUL,
                              second |-> IF pos <= Len(keys) /\ keys[pos] \in Outpoints
                                         THEN keys[pos] ELSE NoCursor]]
    /\ scan' = "scanning"
    /\ yielded' = <<>>
    /\ expected' = IF GetBestBlock = NullHash THEN NoTable
                   ELSE tableAt[GetBestBlock]
    /\ cursors' = cursors + 1
    /\ UNCHANGED <<vars, tableAt>>

\* CCoinsViewDBCursor::Valid and GetKey: the cached key is a coin key.
Valid == cur.keyTmp.first = DB_COIN

\* GetValue: the value under the iterator decodes as a Coin.
GetValue == IF cur.pos <= Len(cur.keys) /\ cur.keys[cur.pos] \in Outpoints
            THEN [ok |-> TRUE, coin |-> cur.snap[cur.keys[cur.pos]]]
            ELSE [ok |-> FALSE, coin |-> Absent]

(***************************************************************************)
(* CCoinsViewDBCursor::Next after pcursor->Next() moved to pos: a key that *)
(* is past the end or fails to decode as a CoinEntry clears the cache.     *)
(***************************************************************************)
NextKeyTmp(keys, pos, keyTmp) ==
    IF pos <= Len(keys) /\ keys[pos] \in Outpoints
    THEN [first |-> KeyByte(keys[pos]), second |-> keys[pos]]
    ELSE [first |-> NUL, second |-> keyTmp.second]

CursorAdvanceNoNext(c) ==
    [c EXCEPT !.keyTmp = NextKeyTmp(c.keys, c.pos, @)]

\* CCoinsViewDBCursor::Next: pcursor->Next(), then re-cache the key.
CursorAdvance(c) ==
    [c EXCEPT !.pos = @ + 1, !.keyTmp = NextKeyTmp(c.keys, c.pos + 1, @)]

(***************************************************************************)
(* One turn of the caller's loop: while Valid(), GetKey and GetValue, then *)
(* Next(); a failed read ends the scan with an error.                      *)
(***************************************************************************)
ScanStep ==
    /\ scan = "scanning"
    /\ IF ~Valid
       THEN /\ scan' = "done"
            /\ UNCHANGED <<cur, yielded>>
       ELSE IF ~GetValue.ok
       THEN /\ scan' = "error"
            /\ UNCHANGED <<cur, yielded>>
       ELSE /\ Len(yielded) < MaxYield
            /\ yielded' = Append(yielded, <<cur.keyTmp.second, GetValue.coin>>)
            /\ cur' = CursorAdvance(cur)
            /\ UNCHANGED scan
    /\ UNCHANGED <<vars, cursors, tableAt, expected>>

(***************************************************************************)
(* A step of the store.  The last batch of a commit records the table it   *)
(* leaves under its block; a crash ends the process, and the scan with it. *)
(***************************************************************************)
StoreStep ==
    /\ Next
    /\ tableAt' = IF pc = "writing" /\ pc' = "idle"
                  THEN [tableAt EXCEPT ![hashBlock] = CoinsOf(db')]
                  ELSE tableAt
    /\ IF pc' = "down" /\ pc # "down"
       THEN scan' = "none" /\ yielded' = <<>>
       ELSE UNCHANGED <<scan, yielded>>
    /\ UNCHANGED <<cur, cursors, expected>>

CursorInit ==
    /\ Init
    /\ cur = NoCursor
    /\ yielded = <<>>
    /\ scan = "none"
    /\ cursors = 0
    /\ expected = NoTable
    /\ tableAt = [b \in Blocks |-> IF GetBestBlock = b THEN CoinsOf(db) ELSE NoTable]

CursorNext == StoreStep \/ Cursor \/ ScanStep

\* The caller's scan loop runs without waiting.
CursorSpec == CursorInit /\ [][CursorNext]_allvars /\ WF_allvars(ScanStep)

-----------------------------------------------------------------------------
\* The coins of table t, as <<outpoint, coin>> pairs in key order.
InKeyOrder(t) ==
    LET ks == SelectSeq(CoinOrder, LAMBDA o : t[o] # Absent)
    IN [i \in 1..Len(ks) |-> <<ks[i], t[ks[i]]>>]

(***************************************************************************)
(* Cursor and the commit protocol together: a scan never fails to read a   *)
(* record, and when the cursor reports a best block, what it has yielded   *)
(* is, in ascending key order, a prefix of the coin table the last commit  *)
(* to that block had left when the cursor was made (all of it once the     *)
(* scan is done), whatever commits happened since.  A cursor taken between *)
(* a crash and the replay sees a half-written table; only the null best    *)
(* block that BatchWrite's first batch leaves tells the caller so.         *)
(***************************************************************************)
CursorMatchesStore ==
    /\ scan # "error"
    /\ (scan \in {"scanning", "done"} /\ cur.hashBlock # NullHash) =>
          /\ expected # NoTable
          /\ IsPrefix(yielded, InKeyOrder(expected))
          /\ scan = "done" => yielded = InKeyOrder(expected)

(***************************************************************************)
(* A scan the process survives ends: Next() always moves the iterator on   *)
(* and invalidates the cache past the last coin key.                       *)
(***************************************************************************)
ScanCompletes == scan = "scanning" ~> scan # "scanning"

=============================================================================
