------------------------------- MODULE MCKds -------------------------------
(* Values of int_str for Kds. *)
EXTENDS Kds

\* Up to three words, of which any may be Empty: spaces in front, behind and in
\* a row, and the empty parameter.  In the longer ones the odd numbers fill or
\* pass the Slots and the Limit, with and without repetitions.
SmallInputs ==
  LET Words == {0, 1, 2, 3, Empty}
  IN {<<w>> : w \in Words}
     \cup {<<v, w>> : v, w \in Words}
     \cup {<<u, v, w>> : u, v, w \in Words}
     \cup {<<1, 3, 1, 3>>, <<3, 5, 3, 1>>, <<7, 1, 5, 3>>, <<5, 2, 7, 1, 3, Empty>>}
=============================================================================
