---------------------------- MODULE MCNavigation ----------------------------
(***************************************************************************)
(* A small instance of NavigationPlanner for TLC.                          *)
(***************************************************************************)
EXTENDS NavigationPlanner, TLC

CONSTANTS g1, g2, l1, l2

MCEntries ==
  {[status |-> "open", summary |-> FALSE, evidence |-> {}],
   [status |-> "abandoned", summary |-> TRUE, evidence |-> {}],
   [status |-> "resolved", summary |-> FALSE, evidence |-> {l1}]}
  \cup [status : {"resolved"}, summary : {TRUE}, evidence : SUBSET Lines]
MCOffered == [Goals -> MCEntries]
MCObservations ==
  {[paths |-> FALSE, lines |-> {}], [paths |-> TRUE, lines |-> {}],
   [paths |-> TRUE, lines |-> {l1}], [paths |-> TRUE, lines |-> {l2}]}
=============================================================================
