------------------------------- MODULE Filters -------------------------------
(***************************************************************************)
(* How the code takes elements out of an array: `filter` keeps those that  *)
(* a test lets through, in their order.  The standard SelectSeq does the   *)
(* same, but the proof system knows nothing of it; as a recursive function *)
(* the filter can be reasoned about (Filters_proofs).                      *)
(***************************************************************************)
EXTENDS Naturals, Sequences

\* array.filter((element) => !gone.has(element))
Without(s, gone) ==
  LET kept[i \in 0 .. Len(s)] ==
        IF i = 0 THEN <<>>
        ELSE IF s[i] \in gone THEN kept[i - 1] ELSE Append(kept[i - 1], s[i])
  IN  kept[Len(s)]

==============================================================================
