----------------------------- MODULE MCRawNand -----------------------------
(* An instance of RawNand for TLC: two blocks of three pages. *)
EXTENDS RawNand

MCSpans == {<<1, 4>>, <<3, 3>>, <<6, 1>>}
=============================================================================
