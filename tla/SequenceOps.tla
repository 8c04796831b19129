------------------------------ MODULE SequenceOps ------------------------------
(* Running totals and selections, as recursive functions over the positions of a
   sequence.  SelectSeq and the folds of the libraries compute the same; the
   provers can reason about these. *)
EXTENDS Integers, Sequences

(* The sums of the first members of a sequence of numbers. *)
Totals(s) ==
    LET total[i \in 0..Len(s)] == IF i = 0 THEN 0 ELSE total[i - 1] + s[i]
    IN  total

(* The members of the first positions of s that are in S, in their order. *)
ChosenUpTo(s, S) ==
    LET upTo[i \in 0..Len(s)] ==
            IF i = 0 THEN <<>>
            ELSE IF s[i] \in S THEN Append(upTo[i - 1], s[i]) ELSE upTo[i - 1]
    IN  upTo

(* The members of s that are in S, in their order. *)
Chosen(s, S) == ChosenUpTo(s, S)[Len(s)]
===============================================================================
