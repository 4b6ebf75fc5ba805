------------------------------- MODULE MCTcp -------------------------------
(* One request of one or two pieces, a three-byte answer that the server     *)
(* cuts into segments in every way, a ring that holds two bytes, a NIC queue *)
(* of one frame, and sequence numbers modulo 8 that wrap.                    *)
EXTENDS Tcp
=============================================================================
