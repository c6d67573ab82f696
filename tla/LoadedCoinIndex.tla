--------------------------- MODULE LoadedCoinIndex ---------------------------
(***************************************************************************)
(* The bulk import of the loaded-coin overlay, CCoinsViewDB::ReadLoadedCoins *)
(* with WriteLoadedCoinIndex (src/src/txdb.cpp): loaded_coins.dat is read  *)
(* record by record, and the records read so far are written to            *)
(* loadedcoindb in one batch whenever the index is a multiple of the batch *)
(* length (4,000,000 in the code), and once more at the end. A missing     *)
(* file, a version the client cannot read, and a record that cannot be     *)
(* decoded (or the end of the file) make it return false.                  *)
(*                                                                         *)
(* The file is a record [exists, nVersionRequired, count, recs]: the       *)
(* header as read, then the records that follow it, some of which may be   *)
(* Bad (they throw on decoding); reading past the last one throws too.     *)
(***************************************************************************)
EXTENDS Integers, Sequences, SequencesExt

CONSTANTS
    Outpoints,      \* COutPoint values (model values)
    Coins,          \* coin contents (model values)
    Absent,         \* a key not present in loadedcoindb
    Bad,            \* a record that fails to deserialize
    ClientVersion,  \* CLIENT_VERSION
    ImportBatch,    \* the 4000000 of i % 4000000 == 0
    MaxRecords      \* most records in the file

ASSUME ClientVersion \in Nat /\ ImportBatch \in Nat \ {0} /\ MaxRecords \in Nat

LoadedCoin == [out : Outpoints, coin : Coins, fSpent : BOOLEAN]

DatFiles ==
    [exists : BOOLEAN, nVersionRequired : {ClientVersion, ClientVersion + 1},
     count : -1..MaxRecords + 1,
     recs : UNION {[1..k -> LoadedCoin \cup {Bad}] : k \in 0..MaxRecords}]

VARIABLES
    loadeddb,     \* loadedcoindb: Outpoints -> LoadedCoin or Absent (keyed by the hash)
    file,         \* loaded_coins.dat
    vLoadedCoin,  \* the records read and not yet written
    i,            \* the loop index
    pc,           \* "start" | "loop" | "returned"
    result,       \* what ReadLoadedCoins returned, or "none"
    prior         \* observability: loadedcoindb before the import

vars == <<loadeddb, file, vLoadedCoin, i, pc, result, prior>>

WriteLoadedCoinIndexKeyHoisted(d, v) ==
    FoldLeft(LAMBDA acc, c : [acc EXCEPT ![v[1].out] = c], d, v)

(***************************************************************************)
(* WriteLoadedCoinIndex: one batch writing each record under the hash of   *)
(* its outpoint; a later record of the same outpoint wins.                 *)
(***************************************************************************)
WriteLoadedCoinIndex(d, v) == FoldLeft(LAMBDA acc, c : [acc EXCEPT ![c.out] = c], d, v)

\* Opening the file and reading the header; the early returns.
Open ==
    /\ pc = "start"
    /\ IF ~file.exists \/ file.nVersionRequired > ClientVersion
          THEN pc' = "returned" /\ result' = "false"
          ELSE pc' = "loop" /\ result' = result
    /\ i' = 0
    /\ vLoadedCoin' = <<>>
    /\ UNCHANGED <<loadeddb, file, prior>>

(***************************************************************************)
(* One turn of the for loop: at every multiple of the batch length the     *)
(* records read so far are written and forgotten; then record i is read,   *)
(* and a decoding exception makes the function return false.               *)
(***************************************************************************)
ReadBeforeFlush ==
    /\ pc = "loop"
    /\ i < file.count
    /\ LET ok == i + 1 \in DOMAIN file.recs /\ file.recs[i + 1] # Bad
           v == IF ok THEN Append(vLoadedCoin, file.recs[i + 1]) ELSE vLoadedCoin
       IN IF i % ImportBatch = 0
             THEN loadeddb' = WriteLoadedCoinIndex(loadeddb, v) /\ vLoadedCoin' = <<>>
             ELSE loadeddb' = loadeddb /\ vLoadedCoin' = v
    /\ IF i + 1 \in DOMAIN file.recs /\ file.recs[i + 1] # Bad
          THEN i' = i + 1 /\ UNCHANGED <<pc, result>>
          ELSE pc' = "returned" /\ result' = "false" /\ UNCHANGED i
    /\ UNCHANGED <<file, prior>>

ReadRecord ==
    /\ pc = "loop"
    /\ i < file.count
    /\ LET flushed == IF i % ImportBatch = 0
                      THEN WriteLoadedCoinIndex(loadeddb, vLoadedCoin) ELSE loadeddb
           v == IF i % ImportBatch = 0 THEN <<>> ELSE vLoadedCoin
       IN /\ loadeddb' = flushed
          /\ IF i + 1 \in DOMAIN file.recs /\ file.recs[i + 1] # Bad
                THEN /\ vLoadedCoin' = Append(v, file.recs[i + 1])
                     /\ i' = i + 1
                     /\ UNCHANGED <<pc, result>>
                ELSE /\ vLoadedCoin' = v
                     /\ pc' = "returned" /\ result' = "false"
                     /\ UNCHANGED i
    /\ UNCHANGED <<file, prior>>

\* After the loop: the final batch is written and the function returns true.
FinishNoFinalWrite ==
    /\ pc = "loop"
    /\ i >= file.count
    /\ pc' = "returned"
    /\ result' = "true"
    /\ UNCHANGED <<loadeddb, file, vLoadedCoin, i, prior>>

Finish ==
    /\ pc = "loop"
    /\ i >= file.count
    /\ loadeddb' = WriteLoadedCoinIndex(loadeddb, vLoadedCoin)
    /\ vLoadedCoin' = <<>>
    /\ pc' = "returned"
    /\ result' = "true"
    /\ UNCHANGED <<file, i, prior>>

Done == pc = "returned" /\ UNCHANGED vars

Init ==
    /\ file \in DatFiles
    /\ loadeddb \in {[o \in Outpoints |-> Absent]} \cup
                    {[o \in Outpoints |-> IF o = r.out THEN r ELSE Absent] : r \in LoadedCoin}
    /\ prior = loadeddb
    /\ vLoadedCoin = <<>>
    /\ i = 0
    /\ pc = "start"
    /\ result = "none"

Next == Open \/ ReadRecord \/ Finish \/ Done

Spec == Init /\ [][Next]_vars

-----------------------------------------------------------------------------
TypeOK ==
    /\ loadeddb \in [Outpoints -> LoadedCoin \cup {Absent}]
    /\ \A o \in Outpoints : loadeddb[o] # Absent => loadeddb[o].out = o
    /\ vLoadedCoin \in Seq(LoadedCoin)
    /\ i \in 0..MaxRecords + 1
    /\ pc \in {"start", "loop", "returned"}
    /\ result \in {"none", "true", "false"}

\* The first k records of the file.
FirstRecords(k) == IF k <= 0 THEN <<>> ELSE SubSeq(file.recs, 1, k)

(***************************************************************************)
(* Import completeness: when ReadLoadedCoins returns true, the overlay     *)
(* holds every record the file declares (the later of two for the same    *)
(* outpoint), over what it held before, whatever the batch length.        *)
(***************************************************************************)
ImportComplete ==
    result = "true" => loadeddb = WriteLoadedCoinIndex(prior, FirstRecords(file.count))

(***************************************************************************)
(* A failed import leaves whole batches only: when ReadLoadedCoins returns *)
(* false, the overlay holds the records of some number of complete        *)
(* batches from the start of the file, and nothing of the batch in which  *)
(* the failure came.                                                       *)
(***************************************************************************)
FailedImportWholeBatches ==
    result = "false" =>
        \E k \in 0..Len(file.recs) :
            /\ k % ImportBatch = 0
            /\ loadeddb = WriteLoadedCoinIndex(prior, FirstRecords(k))

=============================================================================
