----------------------------- MODULE MCPageAlloc -----------------------------
(* Instances of PageAlloc: two holders, a few pages of two or six bytes. *)
EXTENDS PageAlloc

CONSTANTS h1, h2
MCHolders == {h1, h2}
=============================================================================
