---------------------------- MODULE MCLlamaWorker ----------------------------
(* Two clients, and texts of one token and of more than fit. *)
EXTENDS LlamaWorker

CONSTANTS c1, c2, short, huge

MCClients == {c1, c2}
MCTexts == {short, huge}
MCTokensOf == [t \in MCTexts |-> IF t = short THEN 1 ELSE 5]
=============================================================================
