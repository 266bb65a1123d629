--------------------------- MODULE HistoricStates ---------------------------
(***************************************************************************)
(* What anvil's store of historic states promises to the RPCs that read    *)
(* the state of an older block: a state is the one recorded last for that  *)
(* block, states are forgotten oldest first, and a state once forgotten or *)
(* discarded with its block does not come back by itself.                  *)
(*                                                                         *)
(* Blocks are numbers in the order they were built, so that along any      *)
(* chain a block is larger than its ancestors.                             *)
(***************************************************************************)
EXTENDS Integers

CONSTANTS
    Blocks,  \* block hashes, as numbers
    States   \* states of the database

VARIABLES
    ledger,  \* the state recorded last for each block
    kept     \* the states that can be looked up, by block

vars == <<ledger, kept>>

Restricted(f, S) == [b \in DOMAIN f \cap S |-> f[b]]
With(f, b, s) == [c \in DOMAIN f \cup {b} |-> IF c = b THEN s ELSE f[c]]

Init == ledger = <<>> /\ kept = <<>>

\* A child of b is mined: the state that b has left is recorded.
Record(b, s) ==
    /\ ledger' = With(ledger, b, s)
    /\ kept' = With(kept, b, s)

ForgetOldest ==
    \E b \in DOMAIN kept :
        /\ \A c \in DOMAIN kept : b <= c
        /\ kept' = Restricted(kept, DOMAIN kept \ {b})
        /\ UNCHANGED ledger

\* The chain is unwound to block b.
Unwind(b) ==
    /\ kept' = Restricted(kept, {c \in Blocks : c <= b})
    /\ UNCHANGED ledger

Clear == kept' = <<>> /\ UNCHANGED ledger

Next ==
    \/ \E b \in Blocks, s \in States : Record(b, s)
    \/ ForgetOldest
    \/ \E b \in Blocks : Unwind(b)
    \/ Clear

Spec == Init /\ [][Next]_vars
=============================================================================
