--------------------------- MODULE EvmLightClient ---------------------------
(***************************************************************************)
(* What a light client of the EVM roll-up promises, whatever its proof     *)
(* system: it holds a partial copy of the roll-up's state roots.  The      *)
(* roll-up only appends blocks; the client only learns the root of a block *)
(* that exists, one block at a time, and never revises what it learnt.     *)
(***************************************************************************)
EXTENDS Naturals, Sequences

CONSTANT Roots      \* the state roots a block can have

VARIABLES
    chain,          \* the state roots of the roll-up's blocks, by number
    trusted         \* the client's copy: a function from some heights to roots

vars == <<chain, trusted>>

Init ==
    /\ chain = <<>>
    /\ trusted = [h \in {} |-> chain[h]]

\* The roll-up appends a block.
Grow ==
    /\ Len(chain') = Len(chain) + 1
    /\ chain'[Len(chain')] \in Roots
    /\ \A i \in DOMAIN chain : chain'[i] = chain[i]
    /\ UNCHANGED trusted

\* The client learns the root of block h; learning it again changes nothing.
Trust(h) ==
    /\ trusted' = [k \in DOMAIN trusted \cup {h} |->
                     IF k = h THEN chain[h] ELSE trusted[k]]
    /\ UNCHANGED chain

Next == Grow \/ \E h \in DOMAIN chain : Trust(h)

Spec == Init /\ [][Next]_vars
=============================================================================
