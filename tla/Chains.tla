------------------------------- MODULE Chains -------------------------------
(***************************************************************************)
(* A sequence walked from its head: a chain of records, or a buffer of     *)
(* callbacks, of which some are left out.                                  *)
(***************************************************************************)
EXTENDS Integers, Sequences

Members(s) == {s[i] : i \in 1 .. Len(s)}

Without(s, gone) ==
  LET kept[i \in 0 .. Len(s)] ==
        IF i = 0 THEN << >>
        ELSE IF s[i] \in gone THEN kept[i - 1] ELSE Append(kept[i - 1], s[i])
  IN kept[Len(s)]
=============================================================================
