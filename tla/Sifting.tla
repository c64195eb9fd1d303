------------------------------ MODULE Sifting -------------------------------
(***************************************************************************)
(* Array.prototype.filter, and an insertion-ordered Set some of whose      *)
(* elements are deleted: what is left of a sequence, in its order.  It is  *)
(* SelectSeq as a recursive function, which can be reasoned about.         *)
(***************************************************************************)
EXTENDS Naturals, Sequences

\* s without its elements that are in K.
Sifted(s, K) ==
  LET left[n \in 0 .. Len(s)] ==
        IF n = 0 THEN <<>>
        ELSE IF s[n] \in K THEN left[n - 1] ELSE Append(left[n - 1], s[n])
  IN  left[Len(s)]

=============================================================================
