------------------------------ MODULE MCSearch ------------------------------
(* Ties between entries whose ids are in another order than the scan. *)
EXTENDS Search

MCIdOf == <<3, 5, 1, 4, 2>>
=============================================================================
