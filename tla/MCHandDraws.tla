---------------------------- MODULE MCHandDraws ----------------------------
(* One random byte for each of the thirteen faces, and the largest byte.   *)
EXTENDS HandDraws

MCBytes == 0..12 \cup {255}
=============================================================================
