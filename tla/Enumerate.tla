----------------------------- MODULE Enumerate -----------------------------
(***************************************************************************)
(* Two loops the conversion and the manifest have in common: one that      *)
(* notes where something is found, and one that adds numbers up.           *)
(***************************************************************************)
EXTENDS Integers, Sequences, SequencesExt

\* The numbers of K up to n, in order.
InOrder(K, n) ==
    FoldLeft(LAMBDA found, i : IF i \in K THEN Append(found, i) ELSE found,
             <<>>, [i \in 1..n |-> i])

\* sum()
Total(numbers) == FoldLeft(LAMBDA sum, w : sum + w, 0, numbers)
=============================================================================
