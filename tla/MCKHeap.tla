------------------------------ MODULE MCKHeap ------------------------------
(* A pool of 12 words with two-word headers: up to four blocks, requests   *)
(* that fit exactly, split, almost split (no room for a header and one     *)
(* word), and do not fit.                                                  *)
EXTENDS KHeap

MCRequests == {1, 8, 13, 40}
=============================================================================
