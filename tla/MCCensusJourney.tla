--------------------------- MODULE MCCensusJourney ---------------------------
(* Two tabs of one tenant, two days to log, room for one finish time.       *)
EXTENDS CensusJourney
CONSTANTS tabA, tabB
MCTabs == {tabA, tabB}
MCOpenings == {[t \in MCTabs |-> c] : c \in Cards}
                \cup {[t \in MCTabs |-> IF t = tabA THEN "chart" ELSE "period"]}
MCDates == {"monday", "tuesday"}
=============================================================================
