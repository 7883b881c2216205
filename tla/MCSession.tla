----------------------------- MODULE MCSession -----------------------------
(***************************************************************************)
(* Finite instances of SessionRegistry and of SessionFeed for TLC.  The    *)
(* two share no variable: each takes its steps while the other is as it    *)
(* was at the start.                                                       *)
(***************************************************************************)
EXTENDS SessionRegistry, SessionFeed

CONSTANTS c1, c2, c3

MCInit == Init /\ FeedInit

MCNext ==
  \/ Next /\ FeedInit /\ UNCHANGED feedVars
  \/ FeedNext /\ Init /\ UNCHANGED vars

MCSpec == MCInit /\ [][MCNext]_<<vars, feedVars>> /\ Fairness
=============================================================================
