----------------------------- MODULE TurnStream -----------------------------
(***************************************************************************)
(* What the replay log of one agent turn promises its reader: an ordered   *)
(* log that only grows and ends with its one terminal frame, and a reader  *)
(* that applies exactly the frames of that log, each one once and in       *)
(* order, whatever happens to sockets and processes meanwhile.  (The       *)
(* docstring of agent/runtime/turn_replay.py: "A reconnect reads seq >     *)
(* cursor and then follows newly appended frames without a gap or a        *)
(* duplicate".)                                                            *)
(***************************************************************************)
EXTENDS Naturals, Sequences

VARIABLES
    log,     \* the frames of the turn, in sequence order
    shown    \* the frames the reader has applied

\* type in {"done", "error"} ends a turn
Frame == [by : {"turn", "repair"}, last : BOOLEAN]

Ended(frames) == Len(frames) > 0 /\ frames[Len(frames)].last

Init == log = << >> /\ shown = << >>

Grow ==
    /\ ~Ended(log)
    /\ \E f \in Frame : log' = Append(log, f)
    /\ UNCHANGED shown

Show ==
    /\ Len(shown) < Len(log)
    /\ shown' = Append(shown, log[Len(shown) + 1])
    /\ UNCHANGED log

Next == Grow \/ Show

Spec == Init /\ [][Next]_<<log, shown>>
=============================================================================
