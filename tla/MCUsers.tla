------------------------------ MODULE MCUsers ------------------------------
(* Five names, three of them interchangeable, for four slots: the table can  *)
(* be full, and accounts removed and added again meet the files they left.   *)
EXTENDS Users, TLC

CONSTANTS ann, bob, cat

MCNames  == {"root", "pd", ann, bob, cat}
Symmetry == Permutations({ann, bob, cat})
=============================================================================
