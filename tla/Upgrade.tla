------------------------------- MODULE Upgrade -------------------------------
(***************************************************************************)
(* CCoinsViewDB::Upgrade (src/src/txdb.cpp): the migration of the legacy   *)
(* per-transaction coin records (key 'c' + txid) into per-output coins     *)
(* (key 'C' + txid + n), by one forward cursor, in batches that are        *)
(* written whenever they grow past a size, with a shutdown request that    *)
(* stops the loop, a record that fails to parse, and a crash at any point. *)
(* Every start of the node calls Upgrade again until it returns true.      *)
(*                                                                         *)
(* Transaction ids are 1..NTx in key order. A legacy record is its vout:   *)
(* a sequence of outputs, each NullOut (spent), Unspendable, or a value.   *)
(* The new coin of output i carries that value (and the record's height    *)
(* and coinbase flag, which this model leaves out).                        *)
(***************************************************************************)
EXTENDS Naturals, Sequences, SequencesExt, FiniteSets

CONSTANTS
    NTx,          \* number of legacy records
    MaxOuts,      \* most outputs of one legacy record
    Values,       \* output contents (model values)
    NullOut,      \* an output that IsNull(): spent
    Unspendable,  \* an output whose scriptPubKey IsUnspendable()
    Unparsable,   \* a legacy record that does not parse as CCoins
    Absent,       \* a key not present in the database
    BatchLimit,   \* batch_size (1 << 24 in the code), one unit per operation
    MaxRestarts   \* bound on crashes and shutdowns

ASSUME NTx \in Nat /\ MaxOuts \in Nat \ {0}
ASSUME BatchLimit \in Nat /\ MaxRestarts \in Nat

TxIds == 1..NTx
Outs == Values \cup {NullOut, Unspendable}
LegacyKey(t) == <<"c", t>>
CoinKey(t, n) == <<"C", t, n>>
LegacyKeys == {LegacyKey(t) : t \in TxIds}
CoinKeys == {CoinKey(t, n) : t \in TxIds, n \in 0..(MaxOuts - 1)}
Records == UNION {[1..k -> Outs] : k \in 1..MaxOuts}

VARIABLES
    db,        \* the chainstate leveldb over LegacyKeys \cup CoinKeys
    snapshot,  \* the <<txid, record>> pairs the cursor sees, in key order, fixed at Seek
    pos,       \* the cursor's position in snapshot
    batch,     \* the CDBBatch being assembled
    pc,        \* "start" | "loop" | "returned" | "down"
    result,    \* what the last call of Upgrade returned, or "none"
    shutdown,  \* ShutdownRequested()
    orig,      \* observability: the legacy table before the first call
    restarts

vars == <<db, snapshot, pos, batch, pc, result, shutdown, orig, restarts>>

ApplyBatch(d, b) == FoldLeft(LAMBDA acc, op : [acc EXCEPT ![op[1]] = op[2]], d, b)

ConvertOpsKeepNull(t, rec) ==
    LET keep == SelectSeq([i \in DOMAIN rec |-> i], LAMBDA i : rec[i] # Unspendable)
    IN  [j \in DOMAIN keep |-> <<CoinKey(t, keep[j] - 1), rec[keep[j]]>>]
        \o << <<LegacyKey(t), Absent>> >>

\* The operations the loop adds for legacy record rec of txid t: a Write of
\* every output that is neither null nor unspendable, then the Erase.
ConvertOps(t, rec) ==
    LET keep == SelectSeq([i \in DOMAIN rec |-> i],
                          LAMBDA i : rec[i] \notin {NullOut, Unspendable})
    IN  [j \in DOMAIN keep |-> <<CoinKey(t, keep[j] - 1), rec[keep[j]]>>]
        \o << <<LegacyKey(t), Absent>> >>

\* The legacy records present, in ascending key order: what the iterator reads.
LegacyInOrder ==
    LET present == SelectSeq([i \in TxIds |-> i], LAMBDA t : db[LegacyKey(t)] # Absent)
    IN  [j \in DOMAIN present |-> <<present[j], db[LegacyKey(present[j])]>>]

(***************************************************************************)
(* Seek(DB_COINS): with no legacy key, Upgrade returns true at once.       *)
(***************************************************************************)
Seek ==
    /\ pc = "start"
    /\ snapshot' = LegacyInOrder
    /\ pos' = 1
    /\ batch' = <<>>
    /\ IF LegacyInOrder = <<>>
          THEN pc' = "returned" /\ result' = "true"
          ELSE pc' = "loop" /\ result' = result
    /\ UNCHANGED <<db, shutdown, orig, restarts>>

(***************************************************************************)
(* The loop's exit, lines after it: the batch in progress is written and   *)
(* Upgrade returns !ShutdownRequested().                                   *)
(***************************************************************************)
FinishReturnsTrue ==
    /\ db' = ApplyBatch(db, batch)
    /\ batch' = <<>>
    /\ pc' = "returned"
    /\ result' = "true"

Finish ==
    /\ db' = ApplyBatch(db, batch)
    /\ batch' = <<>>
    /\ pc' = "returned"
    /\ result' = IF shutdown THEN "false" ELSE "true"

\* The cursor is past the last legacy key, or ShutdownRequested() broke the loop.
LeaveLoop ==
    /\ pc = "loop"
    /\ shutdown \/ pos > Len(snapshot)
    /\ Finish
    /\ UNCHANGED <<snapshot, pos, shutdown, orig, restarts>>

(***************************************************************************)
(* One turn of the loop on a record that parses: its coins and its Erase   *)
(* join the batch, which is written once it has grown past batch_size;     *)
(* then the cursor moves on.                                               *)
(***************************************************************************)
ConvertRecordFlushEarly ==
    /\ pc = "loop"
    /\ ~shutdown
    /\ pos <= Len(snapshot)
    /\ LET t == snapshot[pos][1]
           ops == ConvertOps(t, snapshot[pos][2])
           b == batch \o SubSeq(ops, 1, Len(ops) - 1)
       IN /\ snapshot[pos][2] # Unparsable
          /\ IF Len(b) > BatchLimit
                THEN db' = ApplyBatch(db, b) /\ batch' = <<ops[Len(ops)]>>
                ELSE db' = db /\ batch' = b \o <<ops[Len(ops)]>>
    /\ pos' = pos + 1
    /\ UNCHANGED <<snapshot, pc, result, shutdown, orig, restarts>>

ConvertRecordNoNext ==
    /\ pc = "loop"
    /\ ~shutdown
    /\ pos <= Len(snapshot)
    /\ LET t == snapshot[pos][1]
           b == batch \o ConvertOps(t, snapshot[pos][2])
       IN /\ snapshot[pos][2] # Unparsable
          /\ IF Len(b) > BatchLimit
                THEN db' = ApplyBatch(db, b) /\ batch' = <<>>
                ELSE db' = db /\ batch' = b
    /\ UNCHANGED <<snapshot, pos, pc, result, shutdown, orig, restarts>>

ConvertRecord ==
    /\ pc = "loop"
    /\ ~shutdown
    /\ pos <= Len(snapshot)
    /\ LET t == snapshot[pos][1]
           b == batch \o ConvertOps(t, snapshot[pos][2])
       IN /\ snapshot[pos][2] # Unparsable
          /\ IF Len(b) > BatchLimit
                THEN db' = ApplyBatch(db, b) /\ batch' = <<>>
                ELSE db' = db /\ batch' = b
    /\ pos' = pos + 1
    /\ UNCHANGED <<snapshot, pc, result, shutdown, orig, restarts>>

\* GetValue fails on a record: Upgrade returns false and the batch is dropped.
ParseError ==
    /\ pc = "loop"
    /\ ~shutdown
    /\ pos <= Len(snapshot)
    /\ snapshot[pos][2] = Unparsable
    /\ pc' = "returned"
    /\ result' = "false"
    /\ batch' = <<>>
    /\ UNCHANGED <<db, snapshot, pos, shutdown, orig, restarts>>

\* A shutdown is requested (a signal, or the GUI) while Upgrade runs.
RequestShutdown ==
    /\ pc \in {"start", "loop"}
    /\ ~shutdown
    /\ restarts < MaxRestarts
    /\ shutdown' = TRUE
    /\ UNCHANGED <<db, snapshot, pos, batch, pc, result, orig, restarts>>

\* The process dies: the batch in memory is lost.
Crash ==
    /\ pc \in {"start", "loop"}
    /\ restarts < MaxRestarts
    /\ pc' = "down"
    /\ batch' = <<>>
    /\ restarts' = restarts + 1
    /\ UNCHANGED <<db, snapshot, pos, result, shutdown, orig>>

(***************************************************************************)
(* The node starts again after a crash, or after Upgrade returned false    *)
(* (init fails and the node exits), and calls Upgrade once more.           *)
(***************************************************************************)
Restart ==
    /\ \/ pc = "down"
       \/ pc = "returned" /\ result = "false" /\ restarts < MaxRestarts
    /\ pc' = "start"
    /\ shutdown' = FALSE
    /\ restarts' = IF pc = "down" THEN restarts ELSE restarts + 1
    /\ UNCHANGED <<db, snapshot, pos, batch, result, orig>>

\* Upgrade returned true, or the node gave up restarting.
Done ==
    /\ pc = "returned"
    /\ result = "true" \/ restarts = MaxRestarts
    /\ UNCHANGED vars

Init ==
    /\ orig \in [TxIds -> Records \cup {Unparsable}]
    /\ db = [k \in LegacyKeys \cup CoinKeys |->
                IF k \in LegacyKeys THEN orig[k[2]] ELSE Absent]
    /\ snapshot = <<>>
    /\ pos = 1
    /\ batch = <<>>
    /\ pc = "start"
    /\ result = "none"
    /\ shutdown = FALSE
    /\ restarts = 0

Next ==
    \/ Seek
    \/ LeaveLoop
    \/ ConvertRecord
    \/ ParseError
    \/ RequestShutdown
    \/ Crash
    \/ Restart
    \/ Done

\* Upgrade's loop runs to its end, and the node is started again.
Fairness ==
    /\ WF_vars(Seek)
    /\ WF_vars(LeaveLoop)
    /\ WF_vars(ConvertRecord)
    /\ WF_vars(Restart)

Spec == Init /\ [][Next]_vars /\ Fairness

-----------------------------------------------------------------------------
TypeOK ==
    /\ \A t \in TxIds : db[LegacyKey(t)] \in Records \cup {Unparsable, Absent}
    /\ \A k \in CoinKeys : db[k] \in Values \cup {Absent}
    /\ snapshot \in Seq(TxIds \X (Records \cup {Unparsable})) /\ pos \in 1..(NTx + 1)
    /\ pc \in {"start", "loop", "returned", "down"}
    /\ result \in {"none", "true", "false"}
    /\ restarts \in 0..MaxRestarts

\* The coins the migration owes for legacy record rec of txid t.
OwedCoins(t, rec) ==
    [n \in 0..(MaxOuts - 1) |->
        IF n + 1 \in DOMAIN rec /\ rec[n + 1] \notin {NullOut, Unspendable}
        THEN rec[n + 1] ELSE Absent]

CoinsOfTx(t) == [n \in 0..(MaxOuts - 1) |-> db[CoinKey(t, n)]]

(***************************************************************************)
(* Cancellation safety (Upgrade under shutdown and crashes): in the        *)
(* database, every transaction is either still wholly in the legacy table  *)
(* with none of its new coins, or wholly converted with its legacy record *)
(* gone: no output is lost and none is present in both formats.            *)
(***************************************************************************)
NoLossNoDuplication ==
    \A t \in TxIds :
        \/ db[LegacyKey(t)] = orig[t] /\ CoinsOfTx(t) = OwedCoins(t, <<>>)
        \/ orig[t] # Unparsable /\ db[LegacyKey(t)] = Absent /\ CoinsOfTx(t) = OwedCoins(t, orig[t])

(***************************************************************************)
(* Completeness: when Upgrade returns true, no legacy key is left and the *)
(* new table holds exactly the spendable outputs of the original records. *)
(***************************************************************************)
TrueMeansMigrated ==
    result = "true" =>
        \A t \in TxIds : orig[t] # Unparsable /\ db[LegacyKey(t)] = Absent
                       /\ CoinsOfTx(t) = OwedCoins(t, orig[t])

(***************************************************************************)
(* Resumption: with no unparsable record, repeated starts of the node      *)
(* eventually see Upgrade return true, however it was interrupted.         *)
(***************************************************************************)
EventuallyMigrated == (\A t \in TxIds : orig[t] # Unparsable) => <>(result = "true")

=============================================================================
