----------------------------- MODULE MCEviction -----------------------------
(* Ranks in hundredths: log2 S less the idle time over S.  4 and 5 share a band; 8 is above
   the maximum stability. *)
EXTENDS Eviction

MCStabilities == {4, 5, 8}
MCBand == [s \in MCStabilities |-> CASE s = 4 -> 4 [] s = 5 -> 4 [] s = 8 -> 6]
MCIdleTimes == {0, 1, 20}
Log100 == [s \in MCStabilities |-> CASE s = 4 -> 200 [] s = 5 -> 232 [] s = 8 -> 300]
MCRank ==
    [s \in MCStabilities |-> [d \in MCIdleTimes |-> Log100[s] - (100 * d) \div s]]
MCDEAD == -150
=============================================================================
