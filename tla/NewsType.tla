------------------------------ MODULE NewsType ------------------------------
(***************************************************************************)
(* The news-type share URL of NewsType (txdb.cpp, GetShareURL and SetURL) *)
(* and the news-type table of OPReturnDB (WriteNewsType, EraseNewsType,   *)
(* GetNewsTypes), which shares its leveldb with the 'x' block records of  *)
(* WriteBlockData.  A URL is a sequence of one-character strings, so the  *)
(* codec's find, substr, std::stoi, IsHexNumber and ParseHex are modelled *)
(* by what they do to the characters.                                     *)
(*                                                                         *)
(* The callers (the news pages of the GUI) are not in this repository:    *)
(* the environment imports a URL into a fresh NewsType, stores it when    *)
(* SetURL accepts it, shares a stored type, erases one, or lists them.    *)
(***************************************************************************)
EXTENDS Integers, Sequences, SequencesExt, FiniteSets

CONSTANTS
    URLs,         \* the URLs the user may paste (sequences of characters)
    BlockHashes,  \* hashes of blocks with OP_RETURN data ('x' records)
    BlockData,    \* the vectors of OPReturnData a block may carry
    NoURL,        \* nothing has been shared yet
    MaxTypes      \* bound on the number of stored news types

Digits == <<"0","1","2","3","4","5","6","7","8","9">>
HexChars == <<"0","1","2","3","4","5","6","7","8","9","a","b","c","d","e","f">>
UpperHex == <<"A","B","C","D","E","F">>
Chars == ToSet(HexChars) \cup ToSet(UpperHex) \cup
         {"-", "+", " ", "x", "{", "}", "t"}
IntMax == 2147483647
NPos == -1

(* A NewsType: its number of days, its header script bytes and its title. *)
NewsTypeRec == [nDays : Int, header : Seq(0..255), title : Seq(Chars)]

(* A default-constructed NewsType (the class is declared outside src/). *)
Blank == [nDays |-> 0, header |-> <<>>, title |-> <<>>]

(* std::string::find of one character: its 0-based position, or npos. *)
Find(s, c) == SelectInSeq(s, LAMBDA x : x = c) - 1

(* std::string::substr(pos, len), for pos <= size. *)
Substr(s, pos, len) ==
    SubSeq(s, pos + 1, IF pos + len < Len(s) THEN pos + len ELSE Len(s))

(* The value of a hex digit, or -1 (HexDigit in utilstrencodings).      *)
HexDigit(c) ==
    IF \E i \in 1..16 : HexChars[i] = c
    THEN CHOOSE v \in 0..15 : HexChars[v + 1] = c
    ELSE IF \E i \in 1..6 : UpperHex[i] = c
         THEN CHOOSE v \in 10..15 : UpperHex[v - 9] = c
         ELSE -1

(* std::to_string of an int: optional '-' and the decimal digits.      *)
RECURSIVE Decimal(_)
Decimal(n) == IF n < 10 THEN <<Digits[n + 1]>>
              ELSE Decimal(n \div 10) \o <<Digits[(n % 10) + 1]>>
IntToString(n) == IF n < 0 THEN <<"-">> \o Decimal(-n) ELSE Decimal(n)

(* HexStr: two lower-case hex digits per byte.                          *)
HexStr(bytes) ==
    FlattenSeq([i \in 1..Len(bytes) |->
                   <<HexChars[(bytes[i] \div 16) + 1],
                     HexChars[(bytes[i] % 16) + 1]>>])

(* std::stoi: strtol after leading white space, an optional sign and   *)
(* the longest run of digits; no digit is invalid_argument, a value    *)
(* outside int is out_of_range (both throw).  The magnitude is checked *)
(* digit by digit so that it never leaves int itself; this rejects     *)
(* -2147483648, which stoi accepts and no URL of the model contains.   *)
Stoi(s) ==
    LET start == SelectInSeq(s, LAMBDA c : c # " ")
        rest  == IF start = 0 THEN <<>> ELSE SubSeq(s, start, Len(s))
        neg   == rest # <<>> /\ Head(rest) = "-"
        body  == IF rest # <<>> /\ Head(rest) \in {"-", "+"}
                 THEN Tail(rest) ELSE rest
        stop  == SelectInSeq(body, LAMBDA c : c \notin ToSet(Digits))
        ds    == IF stop = 0 THEN body ELSE SubSeq(body, 1, stop - 1)
        step(acc, c) ==
            LET d == HexDigit(c) IN
            IF acc.range /\ (acc.v < IntMax \div 10 \/
                             (acc.v = IntMax \div 10 /\ d <= IntMax % 10))
            THEN [range |-> TRUE, v |-> acc.v * 10 + d]
            ELSE [range |-> FALSE, v |-> acc.v]
        mag   == FoldLeft(step, [range |-> TRUE, v |-> 0], ds)
    IN [ok |-> ds # <<>> /\ mag.range, val |-> IF neg THEN -mag.v ELSE mag.v]

(* IsHexNumber: an optional "0x" prefix and at least one hex digit,    *)
(* every one of them a hex digit (utilstrencodings, outside src/).      *)
IsHexNumber(s) ==
    LET from == IF Len(s) > 2 /\ s[1] = "0" /\ s[2] = "x" THEN 2 ELSE 0
    IN /\ \A i \in (from + 1)..Len(s) : HexDigit(s[i]) >= 0
       /\ Len(s) > from

(* ParseHex: a byte per two hex digits, white space skipped between    *)
(* bytes, stopping at the first character that is not a hex digit.     *)
RECURSIVE ParseHex(_)
ParseHex(s) ==
    IF s # <<>> /\ Head(s) = " " THEN ParseHex(Tail(s))
    ELSE IF Len(s) < 2 \/ HexDigit(s[1]) < 0 \/ HexDigit(s[2]) < 0
         THEN <<>>
         ELSE <<HexDigit(s[1]) * 16 + HexDigit(s[2])>>
                  \o ParseHex(SubSeq(s, 3, Len(s)))

(* The share URL: days, '{', the header in hex, '}', then the title.    *)
GetShareURL(t) ==
    IntToString(t.nDays) \o <<"{">> \o HexStr(t.header) \o <<"}">> \o t.title

(* The eight characters after '{' that SetURL parses as the header.     *)
HeaderField(u, nFirst) == Substr(u, nFirst + 1, 8)

TitleFieldFromBrace(u, nSecond) == Substr(u, nSecond, Len(u))

(* Everything after the first '}' is the title.                         *)
TitleField(u, nSecond) == Substr(u, nSecond + 1, Len(u))

(* NewsType::SetURL on obj: the result and the object afterwards.  The  *)
(* days and the header are assigned before the checks that follow them, *)
(* so a rejected URL can leave obj changed.                            *)
SetURL(obj, u) ==
    LET nFirst  == Find(u, "{")
        nSecond == Find(u, "}")
        fail(o) == [ok |-> FALSE, obj |-> o]
    IN
    IF \/ Len(u) < 12
       \/ nFirst = NPos \/ nSecond = NPos
       \/ nFirst = 0 \/ nFirst >= Len(u) \/ nSecond >= Len(u)
       \/ nFirst = nSecond
    THEN fail(obj)
    ELSE LET days == Stoi(Substr(u, 0, nFirst)) IN
    IF ~days.ok THEN fail(obj)
    ELSE LET o1 == [obj EXCEPT !.nDays = days.val] IN
    IF o1.nDays = 0 \/ ~IsHexNumber(HeaderField(u, nFirst)) THEN fail(o1)
    ELSE LET o2 == [o1 EXCEPT !.header = ParseHex(HeaderField(u, nFirst))] IN
    IF Len(o2.header) # 4 THEN fail(o2)
    ELSE LET o3 == [o2 EXCEPT !.title = TitleField(u, nSecond)] IN
    [ok |-> o3.title # <<>>, obj |-> o3]

-----------------------------------------------------------------------------
(* The OPReturnDB leveldb: 'X' entries keyed by the hash of a NewsType   *)
(* (the type itself stands for its hash) and 'x' entries of block data.  *)
VARIABLES
    db,      \* set of [prefix, key, value] records
    clip,    \* the URL last produced by GetShareURL, or NoURL
    listed   \* the vector filled by the last GetNewsTypes

vars == <<db, clip, listed>>

StoredTypes == {e.key : e \in {e \in db : e.prefix = "X"}}

Init ==
    /\ db = {}
    /\ clip = NoURL
    /\ listed = {}

(* WriteNewsType: one batched Write of the type under ('X', hash). *)
WriteNewsType(t) ==
    db' = {e \in db : ~(e.prefix = "X" /\ e.key = t)}
            \cup {[prefix |-> "X", key |-> t, value |-> t]}

(* The user imports a URL: SetURL into a fresh NewsType, stored only   *)
(* when SetURL returns true.                                           *)
Import(u) ==
    LET r == SetURL(Blank, u) IN
    /\ Cardinality(StoredTypes) < MaxTypes
    /\ IF r.ok THEN WriteNewsType(r.obj) ELSE UNCHANGED db
    /\ UNCHANGED <<clip, listed>>

(* The user shares a stored type. *)
Share(t) ==
    /\ clip' = GetShareURL(t)
    /\ UNCHANGED <<db, listed>>

(* EraseNewsType: Erase of ('X', hash). *)
EraseNewsType(t) ==
    /\ db' = {e \in db : ~(e.prefix = "X" /\ e.key = t)}
    /\ UNCHANGED <<clip, listed>>

(* WriteBlockData: one batched Write of a block's data under ('x', hash). *)
WriteBlockData(h, v) ==
    /\ db' = {e \in db : ~(e.prefix = "x" /\ e.key = h)}
               \cup {[prefix |-> "x", key |-> h, value |-> v]}
    /\ UNCHANGED <<clip, listed>>

GetNewsTypesNoPrefixCheck ==
    /\ listed' = {e.value : e \in db}
    /\ UNCHANGED <<db, clip>>

(* GetNewsTypes: Seek to ('X', 0) and iterate to the end of the database, *)
(* keeping the values of the keys whose discriminator is 'X'.  The caller *)
(* hands in an empty vector.                                              *)
GetNewsTypes ==
    /\ listed' = {e.value : e \in {e \in db : e.prefix = "X"}}
    /\ UNCHANGED <<db, clip>>

Next ==
    \/ \E u \in URLs \cup (IF clip = NoURL THEN {} ELSE {clip}) : Import(u)
    \/ \E t \in StoredTypes : Share(t) \/ EraseNewsType(t)
    \/ \E h \in BlockHashes, v \in BlockData : WriteBlockData(h, v)
    \/ GetNewsTypes

Spec == Init /\ [][Next]_vars

-----------------------------------------------------------------------------
(* Every stored and every listed entry is a NewsType, and the share URL is  *)
(* a string of the URL alphabet: GetNewsTypes only decodes 'X' values.      *)
TypeOK ==
    /\ \A e \in db :
         \/ e.prefix = "X" /\ e.key \in NewsTypeRec /\ e.value = e.key
         \/ e.prefix = "x" /\ e.key \in BlockHashes /\ e.value \in BlockData
    /\ clip \in Seq(Chars) \cup {NoURL}
    /\ listed \subseteq NewsTypeRec

(* Whatever URL the user imported, the stored type survives a share and a *)
(* re-import unchanged: SetURL accepts GetShareURL of every stored type    *)
(* and rebuilds exactly that type, although SetURL accepts URLs that       *)
(* GetShareURL never produces (upper-case hex, a sign, trailing junk after *)
(* the days, a '}' before the '{', more than eight hex digits).            *)
ShareRoundTrip ==
    \A t \in StoredTypes : SetURL(Blank, GetShareURL(t)) = [ok |-> TRUE, obj |-> t]

=============================================================================
