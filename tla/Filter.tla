------------------------------- MODULE Filter -------------------------------
(***************************************************************************)
(* Rust's `iter().filter().collect()`, and what SelectSeq does, as a       *)
(* recursive function, so that it can be proved about.                     *)
(***************************************************************************)
EXTENDS Naturals, Sequences

\* What is left of the first i elements of s when those outside S are dropped.
Kept(s, S) ==
    LET kept[i \in 0 .. Len(s)] ==
            IF i = 0 THEN <<>>
            ELSE IF s[i] \in S THEN Append(kept[i - 1], s[i]) ELSE kept[i - 1]
    IN kept

Retain(s, S) == Kept(s, S)[Len(s)]
=============================================================================
