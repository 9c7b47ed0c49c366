----------------------------- MODULE MCSheetSync -----------------------------
(* An instance of SheetSync for TLC.  Groups and calls are interchangeable. *)
EXTENDS SheetSync

Interchangeable == Permutations(Group) \cup Permutations(Call)
=============================================================================
