---------------------------- MODULE MCTurnReplay ----------------------------
(* Small instances of TurnReplay for TLC: two processes, of which Home runs *)
(* the turn, so there is nothing to permute.                               *)
EXTENDS TurnReplay
=============================================================================
