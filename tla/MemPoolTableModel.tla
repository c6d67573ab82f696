------------------------- MODULE MemPoolTableModel -------------------------
(***************************************************************************)
(* The GUI's table of recent mempool transactions, MemPoolTableModel       *)
(* (src/unnamed/part_000): on every change of the mempool's size, on a    *)
(* change of the USD/BTC rate and when the client model is set,           *)
(* updateModel asks the mempool for its most recent entries, cuts them at *)
(* the transaction shown in the first row, prepends the rest one by one,  *)
(* and trims the table to 50 rows.                                        *)
(*                                                                         *)
(* Transactions are numbered in the order they enter the mempool, so the  *)
(* newest has the largest number. The mempool (txmempool.cpp) is not part *)
(* of the repository: it is the environment here, accepting and dropping  *)
(* transactions, and InfoRecent's order is the constant NewestFirst.      *)
(***************************************************************************)
EXTENDS Naturals, Sequences, SequencesExt

CONSTANTS
    MaxTx,        \* transactions that ever enter the mempool: 1..MaxTx
    Recent,       \* the 10 of InfoRecent(10)
    Cap,          \* the 50 rows the table is trimmed to
    NewestFirst   \* whether InfoRecent lists the newest entry first

ASSUME MaxTx \in Nat /\ Recent \in Nat \ {0} /\ Cap \in Nat \ {0} /\ NewestFirst \in BOOLEAN

TxIds == 1..MaxTx

VARIABLES
    mempool,      \* the transactions in the mempool, oldest first
    nextTx,       \* the next transaction to enter it
    model,        \* the rows of the table, row 0 first (model.front())
    stored,       \* nTx and nBytes as last stored; nBytes stands for the set of entries
    clientModel,  \* setClientModel has been called
    ibd,          \* clientModel->inInitialBlockDownload()
    fresh         \* observability: updateModel ran past its guards since the mempool last changed

vars == <<mempool, nextTx, model, stored, clientModel, ibd, fresh>>

\* mempool.InfoRecent(Recent): the most recent entries, in InfoRecent's order.
InfoRecent ==
    LET last == SubSeq(mempool, IF Len(mempool) > Recent THEN Len(mempool) - Recent + 1 ELSE 1,
                       Len(mempool))
    IN IF NewestFirst THEN Reverse(last) ELSE last

\* What memPoolSizeChanged is passed: the mempool's size and byte count.
SizeSignal == [nTx |-> Len(mempool), nBytes |-> ToSet(mempool)]

(***************************************************************************)
(* updateModel's table, computed from the rows it starts with: vInfo is   *)
(* cut before the entry equal to the first row, if any; each remaining    *)
(* entry is prepended in turn; rows past Cap are popped from the back.    *)
(***************************************************************************)
CutAfterFront(vInfo) ==
    IF model = <<>> THEN vInfo
    ELSE LET i == SelectInSeq(vInfo, LAMBDA t : t = model[1])
         IN IF i > 0 THEN SubSeq(vInfo, i + 1, Len(vInfo)) ELSE vInfo

CutAtFront(vInfo) ==
    IF model = <<>> THEN vInfo
    ELSE LET i == SelectInSeq(vInfo, LAMBDA t : t = model[1])
         IN IF i > 0 THEN SubSeq(vInfo, 1, i - 1) ELSE vInfo

Prepended(vInfo) == Reverse(vInfo) \o model

TrimOnce(rows) == IF Len(rows) > Cap THEN SubSeq(rows, 1, Len(rows) - 1) ELSE rows

Trim(rows) == IF Len(rows) > Cap THEN SubSeq(rows, 1, Cap) ELSE rows

(***************************************************************************)
(* updateModel with the client model present or not: the early returns   *)
(* for no client model, initial block download and nothing new.           *)
(***************************************************************************)
UpdateModel(cm) ==
    IF ~cm \/ ibd
    THEN UNCHANGED <<model, fresh>>
    ELSE /\ LET vInfo == CutAtFront(InfoRecent)
            IN model' = IF vInfo = <<>> THEN model ELSE Trim(Prepended(vInfo))
         /\ fresh' = TRUE

\* memPoolSizeChanged: only a changed size or byte count is stored and updates the table.
MemPoolSizeChanged ==
    /\ SizeSignal # stored
    /\ stored' = SizeSignal
    /\ UpdateModel(clientModel)
    /\ UNCHANGED <<mempool, nextTx, clientModel, ibd>>

\* setUSDBTC: the rate is stored (not modelled) and the table updated.
SetUSDBTC ==
    /\ UpdateModel(clientModel)
    /\ UNCHANGED <<mempool, nextTx, stored, clientModel, ibd>>

\* setClientModel, which ends with setUSDBTC(optionsModel->getUSDBTC()).
SetClientModel ==
    /\ ~clientModel
    /\ clientModel' = TRUE
    /\ UpdateModel(TRUE)
    /\ UNCHANGED <<mempool, nextTx, stored, ibd>>

\* The environment: a transaction enters the mempool, or leaves it (mined, evicted).
AcceptTx ==
    /\ nextTx <= MaxTx
    /\ mempool' = Append(mempool, nextTx)
    /\ nextTx' = nextTx + 1
    /\ fresh' = FALSE
    /\ UNCHANGED <<model, stored, clientModel, ibd>>

RemoveTx ==
    /\ \E t \in ToSet(mempool) : mempool' = Remove(mempool, t)
    /\ fresh' = FALSE
    /\ UNCHANGED <<nextTx, model, stored, clientModel, ibd>>

LeaveIBD ==
    /\ ibd
    /\ ibd' = FALSE
    /\ UNCHANGED <<mempool, nextTx, model, stored, clientModel, fresh>>

Init ==
    /\ mempool = <<>>
    /\ nextTx = 1
    /\ model = <<>>
    /\ stored = [nTx |-> 0, nBytes |-> {}]
    /\ clientModel = FALSE
    /\ ibd \in BOOLEAN
    /\ fresh = FALSE

Next ==
    \/ MemPoolSizeChanged
    \/ SetUSDBTC
    \/ SetClientModel
    \/ AcceptTx
    \/ RemoveTx
    \/ LeaveIBD

Spec == Init /\ [][Next]_vars

-----------------------------------------------------------------------------
TypeOK ==
    /\ mempool \in Seq(TxIds) /\ nextTx \in 1..MaxTx + 1
    /\ model \in Seq(TxIds)
    /\ Len(model) <= Cap
    /\ clientModel \in BOOLEAN /\ ibd \in BOOLEAN /\ fresh \in BOOLEAN

(***************************************************************************)
(* The newest transaction is shown: once updateModel has run past its     *)
(* guards and the mempool has not changed since, the newest transaction   *)
(* in the mempool is a row of the table, whatever rows were there before, *)
(* whatever was cut and however the table was trimmed.                    *)
(***************************************************************************)
NewestShown ==
    (fresh /\ mempool # <<>>) => Contains(model, Last(mempool))

(***************************************************************************)
(* No row twice (the comment at updateModel: "If we find one then cut     *)
(* down vInfo to only new transactions"): every transaction is shown in   *)
(* at most one row.                                                       *)
(***************************************************************************)
NoDuplicateRows ==
    \A i, j \in 1..Len(model) : model[i] = model[j] => i = j

=============================================================================
