------------------------------ MODULE MCRecall ------------------------------
(* Traces 1 and 2 are much alike, 3 and 4 a little; the line of trace 4 is
   over the budget. *)
EXTENDS Recall

MCTraces == 1 .. 4
MCSimilarity ==
    [t \in MCTraces |-> [u \in MCTraces |->
        CASE t = u -> 3
          [] {t, u} = {1, 2} -> 2
          [] {t, u} = {3, 4} -> 1
          [] OTHER -> 0]]
MCLineLength == <<1, 2, 2, 4>>
=============================================================================
