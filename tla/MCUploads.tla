----------------------------- MODULE MCUploads -----------------------------
(***************************************************************************)
(* Uploads for TLC: the requests are interchangeable.                      *)
(***************************************************************************)
EXTENDS Uploads, TLC

Interchangeable == Permutations(Requests)
=============================================================================
