---------------------------- MODULE MyLoadedCoins ----------------------------
(***************************************************************************)
(* The wallet's own loaded coins on disk: CCoinsViewDB::WriteMyLoadedCoins *)
(* and CCoinsViewDB::ReadMyLoadedCoins (src/src/txdb.cpp) on the file     *)
(* my_loaded_coins.dat. The writer opens the file with "w" (truncating    *)
(* it) and writes the version required (210000), CLIENT_VERSION, the      *)
(* count and the records; an empty vector returns before the file is      *)
(* opened. The reader returns an empty vector on a missing file or a too  *)
(* new version, and on a decoding exception returns what it has read.     *)
(*                                                                         *)
(* The file is Absent or the sequence of the values written to it, in     *)
(* order: three integers, then records. A write that throws, and a        *)
(* process killed while writing, leave a prefix of that sequence (the     *)
(* truncation is done, the stdio buffer and the records after it are not). *)
(***************************************************************************)
EXTENDS Integers, Sequences, SequencesExt

CONSTANTS
    Outpoints,      \* COutPoint values (model values)
    Coins,          \* coin contents (model values)
    Absent,         \* no file on disk
    ClientVersion,  \* CLIENT_VERSION
    MaxExport,      \* longest vector exported
    MaxExports,     \* bound on the calls of WriteMyLoadedCoins
    MaxCrashes      \* bound on the crashes in the middle of a write

ASSUME ClientVersion \in Nat /\ MaxExport \in Nat /\ MaxExports \in Nat /\ MaxCrashes \in Nat

LoadedCoin == [out : Outpoints, coin : Coins, fSpent : BOOLEAN]

Vectors == UNION {[1..k -> LoadedCoin] : k \in 0..MaxExport}

VARIABLES
    file,        \* my_loaded_coins.dat
    lastExport,  \* observability: the last vector passed in, and how its call ended
    exports,     \* calls of WriteMyLoadedCoins so far
    crashes

vars == <<file, lastExport, exports, crashes>>

\* What a completed WriteMyLoadedCoins leaves in the file.
FileImage(v) == <<210000, ClientVersion, Len(v)>> \o v

ReadMyLoadedCoinsCountMinusOne(f) ==
    IF f = Absent \/ Len(f) < 3 \/ f[1] > ClientVersion THEN <<>>
    ELSE SubSeq(f, 4, 3 + Min({f[3] - 1, Len(f) - 3}))

(***************************************************************************)
(* ReadMyLoadedCoins: a missing file, a failed read of the two versions   *)
(* or of the count, and a version required above CLIENT_VERSION give the  *)
(* empty vector; otherwise up to count records are read, and the end of    *)
(* the file ends the loop with the records read so far.                   *)
(***************************************************************************)
ReadMyLoadedCoins(f) ==
    IF f = Absent \/ Len(f) < 3 \/ f[1] > ClientVersion THEN <<>>
    ELSE SubSeq(f, 4, 3 + Min({f[3], Len(f) - 3}))

\* A call that ran on a non-empty vector: how far it got.
\*   "written"     every value reached the file;
\*   "openFailed"  fopen(path, "w") gave NULL: return at 322-324, file untouched;
\*   "writeFailed" a write threw after the truncation: return at 335-338;
\*   "killed"      the process died inside the call.
Outcomes == {"written", "openFailed", "writeFailed", "killed"}

\* The values on disk after a write that stopped early: any proper prefix
\* of the image, the empty one (truncated, nothing flushed) included.
TornImages(v) == {SubSeq(FileImage(v), 1, k) : k \in 0..Len(FileImage(v)) - 1}

WriteMyLoadedCoinsAppend(v) ==
    /\ exports < MaxExports
    /\ IF Len(v) = 0
       THEN /\ file' = file /\ lastExport' = [v |-> v, outcome |-> "written"]
       ELSE \/ /\ file' = IF file = Absent THEN FileImage(v) ELSE file \o FileImage(v)
               /\ lastExport' = [v |-> v, outcome |-> "written"]
            \/ /\ file' = file
               /\ lastExport' = [v |-> v, outcome |-> "openFailed"]
            \/ /\ \E t \in TornImages(v) : file' = t
               /\ lastExport' = [v |-> v, outcome |-> "writeFailed"]
    /\ exports' = exports + 1
    /\ UNCHANGED crashes

(***************************************************************************)
(* WriteMyLoadedCoins returning to its caller. The function is void, so    *)
(* all three ends below look the same to the caller: the empty vector      *)
(* returns before fopen; a failed fopen returns with the old file; an      *)
(* exception from operator<< (a failed fwrite) is caught, logged and      *)
(* returns with the truncated file holding what had reached it.           *)
(***************************************************************************)
WriteMyLoadedCoins(v) ==
    /\ exports < MaxExports
    /\ IF Len(v) = 0
       THEN /\ file' = file /\ lastExport' = [v |-> v, outcome |-> "written"]
       ELSE \/ /\ file' = FileImage(v)
               /\ lastExport' = [v |-> v, outcome |-> "written"]
            \/ /\ file' = file
               /\ lastExport' = [v |-> v, outcome |-> "openFailed"]
            \/ /\ \E t \in TornImages(v) : file' = t
               /\ lastExport' = [v |-> v, outcome |-> "writeFailed"]
    /\ exports' = exports + 1
    /\ UNCHANGED crashes

\* The process killed inside WriteMyLoadedCoins, after fopen truncated the file.
CrashInWrite(v) ==
    /\ exports < MaxExports
    /\ crashes < MaxCrashes
    /\ Len(v) > 0
    /\ \E t \in TornImages(v) : file' = t
    /\ lastExport' = [v |-> v, outcome |-> "killed"]
    /\ exports' = exports + 1
    /\ crashes' = crashes + 1

Init ==
    /\ file = Absent
    /\ lastExport = [v |-> <<>>, outcome |-> "written"]
    /\ exports = 0
    /\ crashes = 0

Next ==
    \/ \E v \in Vectors : WriteMyLoadedCoins(v)
    \/ \E v \in Vectors : CrashInWrite(v)

Spec == Init /\ [][Next]_vars

-----------------------------------------------------------------------------
TypeOK ==
    /\ file # Absent =>
           /\ DOMAIN file = 1..Len(file)
           /\ Len(file) >= 3 => Len(file) <= 3 + file[3]
           /\ \A j \in DOMAIN file : IF j <= 3 THEN file[j] \in Int ELSE file[j] \in LoadedCoin
    /\ lastExport \in [v : Vectors, outcome : Outcomes]
    /\ exports \in 0..MaxExports
    /\ crashes \in 0..MaxCrashes

(***************************************************************************)
(* Round trip of a write that went through: after WriteMyLoadedCoins of a  *)
(* non-empty vector opened the file and wrote every value,                *)
(* ReadMyLoadedCoins gives back that vector, in order, whatever torn or    *)
(* longer file an earlier call left.                                      *)
(***************************************************************************)
WrittenRoundTrip ==
    (lastExport.outcome = "written" /\ Len(lastExport.v) > 0)
        => ReadMyLoadedCoins(file) = lastExport.v

(***************************************************************************)
(* Export is all-or-nothing to the caller: after any call on a non-empty  *)
(* vector that did not write every value (fopen failed, a write threw and  *)
(* was swallowed, or the process died), ReadMyLoadedCoins gives back the  *)
(* whole vector or nothing, never a shorter list or an older export that   *)
(* passes for the one just made.                                          *)
(***************************************************************************)
ExportAllOrNothing ==
    lastExport.outcome \in {"openFailed", "writeFailed", "killed"}
        => ReadMyLoadedCoins(file) \in {<<>>, lastExport.v}

=============================================================================
