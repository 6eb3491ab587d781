------------------------------ MODULE SeqFilter ------------------------------
(***************************************************************************)
(* The Python list comprehension with a condition, [x for x in s if ...].  *)
(***************************************************************************)
EXTENDS Naturals, Sequences

\* The elements of the sequence s that are in the set S, in their order.
Among(s, S) ==
    LET f[n \in 0..Len(s)] ==
            IF n = 0 THEN <<>> ELSE IF s[n] \in S THEN Append(f[n - 1], s[n]) ELSE f[n - 1]
    IN  f[Len(s)]
=============================================================================
