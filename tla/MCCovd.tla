------------------------------- MODULE MCCovd -------------------------------
(***************************************************************************)
(* An instance of Covd.                                                     *)
(***************************************************************************)
EXTENDS Covd

\* Keys are looked for elsewhere.
SomeEdits == {<<"KeyDirectory", "/keys">>}

=============================================================================
