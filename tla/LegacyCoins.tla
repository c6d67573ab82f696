----------------------------- MODULE LegacyCoins -----------------------------
(***************************************************************************)
(* The decoder of the pre-0.15 per-transaction coin record, the legacy     *)
(* class CCoins::Unserialize (src/src/txdb.cpp), which Upgrade runs on     *)
(* every 'c' record: a version, a header code carrying the coinbase flag,  *)
(* the availability of outputs 0 and 1 and the number of non-zero bytes    *)
(* of the spentness bitmask, the bitmask, one compressed txout for every   *)
(* available output, and the height.                                       *)
(*                                                                         *)
(* A record's outputs are the availability vector vout (TRUE: unspent),    *)
(* whose last entry is unspent, as the writer's Cleanup left it. A stream  *)
(* is the sequence of the values read: integers for the VARINTs, bytes    *)
(* 0..255 for the bitmask, and the value Out for a compressed txout.       *)
(* The decoder is checked against Serialize, the writer of the same        *)
(* format in the releases that produced it (outside this repository).     *)
(***************************************************************************)
EXTENDS Naturals, Sequences, SequencesExt, Bitwise

CONSTANTS
    MaxOuts,   \* longest vout of a legacy record
    Heights    \* the nHeight values of records

ASSUME MaxOuts \in Nat \ {0}

\* A compressed txout, kept apart from the bitmask bytes 0..255.
Out == 256
NotRead == [status |-> "none"]
Failed == [status |-> "exception"]

\* vout vectors as Cleanup leaves them: non-empty, the last output unspent.
Vouts == UNION {{v \in [1..n -> BOOLEAN] : v[n]} : n \in 1..MaxOuts}

Records == [fCoinBase : BOOLEAN, vout : Vouts, nHeight : Heights]

-----------------------------------------------------------------------------
(***************************************************************************)
(* The reference writer: CalcMaskSize and CCoins::Serialize. Byte b of    *)
(* the bitmask covers outputs 2+8b .. 9+8b (from 0); only the bytes up to  *)
(* the last non-zero one are written, and nMaskCode counts the non-zero    *)
(* ones, less one when neither output 0 nor 1 is available.               *)
(***************************************************************************)
MaskByte(v, b) ==
    FoldLeft(LAMBDA acc, i : IF 3 + 8 * b + i <= Len(v) /\ v[3 + 8 * b + i]
                             THEN acc + 2^i ELSE acc,
             0, <<0, 1, 2, 3, 4, 5, 6, 7>>)

MaskBytes(v) == IF Len(v) <= 2 THEN {} ELSE 0..((Len(v) - 3) \div 8)

LastUsedByte(v) ==
    LET used == {b \in MaskBytes(v) : MaskByte(v, b) # 0}
    IN IF used = {} THEN 0 ELSE Max(used) + 1

Serialize(r) ==
    LET v == r.vout
        first == v[1]
        second == Len(v) > 1 /\ v[2]
        nonzero == Cardinality({b \in MaskBytes(v) : MaskByte(v, b) # 0})
        nCode == 8 * (nonzero - (IF first \/ second THEN 0 ELSE 1))
                 + (IF r.fCoinBase THEN 1 ELSE 0) + (IF first THEN 2 ELSE 0)
                 + (IF second THEN 4 ELSE 0)
    IN << 1, nCode >>
       \o [b \in 1..LastUsedByte(v) |-> MaskByte(v, b - 1)]
       \o [i \in 1..Cardinality({j \in DOMAIN v : v[j]}) |-> Out]
       \o << r.nHeight >>

-----------------------------------------------------------------------------
(***************************************************************************)
(* The decoder. nMaskCode: the non-zero bitmask bytes still to read.      *)
(***************************************************************************)
MaskCodeNoImplicit(nCode) == nCode \div 8

MaskCode(nCode) == nCode \div 8 + (IF (nCode & 6) # 0 THEN 0 ELSE 1)

\* The eight availability bits of a bitmask byte, bit 0 first.
ByteBits(ch) == [p \in 1..8 |-> (ch \div 2^(p - 1)) % 2 = 1]

(***************************************************************************)
(* The while loop over the bitmask: each byte read appends its eight bits *)
(* to vAvail, and only a non-zero byte counts down nMaskCode. Running out  *)
(* of input throws.                                                        *)
(***************************************************************************)
RECURSIVE ReadMask(_, _, _)
ReadMask(s, nMaskCode, vAvail) ==
    IF nMaskCode = 0 THEN [status |-> "ok", vAvail |-> vAvail, rest |-> s]
    ELSE IF s = <<>> THEN Failed
    ELSE ReadMask(Tail(s), IF Head(s) # 0 THEN nMaskCode - 1 ELSE nMaskCode,
                  vAvail \o ByteBits(Head(s)))

(***************************************************************************)
(* Unserialize: the version (ignored), the header code, the bitmask, one  *)
(* txout per available output, then the height; any read past the end    *)
(* throws.                                                                 *)
(***************************************************************************)
Unserialize(s) ==
    IF Len(s) < 2 THEN Failed
    ELSE LET nCode == s[2]
             m == ReadMask(SubSeq(s, 3, Len(s)), MaskCode(nCode),
                           << (nCode & 2) # 0, (nCode & 4) # 0 >>)
         IN IF m.status = "exception" THEN Failed
            ELSE LET nOut == Cardinality({i \in DOMAIN m.vAvail : m.vAvail[i]})
                 IN IF Len(m.rest) < nOut + 1
                       \/ \E i \in 1..nOut : m.rest[i] # Out
                    THEN Failed
                    ELSE [status |-> "ok", fCoinBase |-> (nCode & 1) # 0,
                          vout |-> m.vAvail,
                          nHeight |-> m.rest[nOut + 1]]

-----------------------------------------------------------------------------
VARIABLES
    coins,    \* the record as the old release held it in memory
    decoded   \* what Unserialize makes of its serialization, or NotRead

vars == <<coins, decoded>>

Init ==
    /\ coins \in Records
    /\ decoded = NotRead

\* Upgrade's pcursor->GetValue(old_coins) on the record's serialization.
Decode ==
    /\ decoded.status = "none"
    /\ decoded' = Unserialize(Serialize(coins))
    /\ UNCHANGED coins

Done == decoded.status # "none" /\ UNCHANGED vars

Next == Decode \/ Done

Spec == Init /\ [][Next]_vars

-----------------------------------------------------------------------------
\* vout without its trailing spent outputs.
RECURSIVE Trimmed(_)
Trimmed(v) == IF v # <<>> /\ ~Last(v) THEN Trimmed(Front(v)) ELSE v

(***************************************************************************)
(* Unserialize inverts the legacy writer: every record it wrote, whether  *)
(* outputs 0 and 1 are spent or not, with zero bytes inside the bitmask   *)
(* or not, decodes to the same coinbase flag, height and unspent outputs, *)
(* the spent outputs that pad vAvail to whole bytes aside.                *)
(***************************************************************************)
UnserializeInvertsSerialize ==
    decoded.status # "none" =>
        /\ decoded.status = "ok"
        /\ decoded.fCoinBase = coins.fCoinBase
        /\ decoded.nHeight = coins.nHeight
        /\ Trimmed(decoded.vout) = coins.vout

=============================================================================
