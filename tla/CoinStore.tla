------------------------------ MODULE CoinStore ------------------------------
(***************************************************************************)
(* What the coin store promises its caller, in the design's words: the     *)
(* database is at a tip with a coin table, and a commit of a changeset to  *)
(* a new tip is atomic. The caller hands over a changeset (Request); it is *)
(* either applied in one step together with the move of the tip (Commit),  *)
(* or, when the process dies before any of it is durable, forgotten        *)
(* (Abandon). No state between the old and the new table is observable.   *)
(***************************************************************************)
EXTENDS Naturals

CONSTANTS Outpoints, Coins, Blocks, NullHash, Absent, Spent, None

VARIABLES
    tip,      \* the block the coin table is at, or NullHash for an empty store
    coins,    \* Outpoints -> Coins or Absent
    pending   \* [tip, cs] of the commit handed over and not yet done, or None

vars == <<tip, coins, pending>>

Entry == [coin : Coins \cup {Spent}, dirty : BOOLEAN, fLoaded : BOOLEAN]

Changeset == UNION {[S -> Entry] : S \in SUBSET Outpoints}

(***************************************************************************)
(* The table after a commit: a dirty entry is written, or erased when      *)
(* spent; an entry that came from the loaded-coin overlay is left out.     *)
(***************************************************************************)
Apply(c, cs) ==
    [o \in Outpoints |->
        IF o \in DOMAIN cs /\ cs[o].dirty /\ ~cs[o].fLoaded
        THEN IF cs[o].coin = Spent THEN Absent ELSE cs[o].coin
        ELSE c[o]]

\* The caller hands over some changeset for some block.
Request ==
    /\ pending = None
    /\ pending' \in [tip : Blocks, cs : Changeset]
    /\ UNCHANGED <<tip, coins>>

Commit ==
    /\ pending # None
    /\ tip' = pending.tip
    /\ coins' = Apply(coins, pending.cs)
    /\ pending' = None

Abandon ==
    /\ pending # None
    /\ pending' = None
    /\ UNCHANGED <<tip, coins>>

Init ==
    /\ tip \in Blocks \cup {NullHash}
    /\ coins \in [Outpoints -> Coins \cup {Absent}]
    /\ tip = NullHash => coins = [o \in Outpoints |-> Absent]
    /\ pending = None

Next ==
    \/ Request
    \/ Commit
    \/ Abandon

Spec == Init /\ [][Next]_vars

=============================================================================
