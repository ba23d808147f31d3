------------------------------ MODULE FillTrend ------------------------------
(***************************************************************************)
(* What update_fill_state promises, without its window: the trend changes  *)
(* when, and only when, the last Confirmations samples since the node last *)
(* saw level 0 all point in the same direction.                            *)
(*                                                                         *)
(* streak is the longest run of equal directions at the end of those       *)
(* samples; its length is counted up to Confirmations.                     *)
(***************************************************************************)
EXTENDS Integers

CONSTANTS
  Directions,      \* the directions a sample can point in
  Still,           \* the one adopted with no earlier level to compare with
  NoTrend,         \* the trend before any sample
  Confirmations    \* samples that make a trend

VARIABLES trend, streak

NoStreak == [dir |-> NoTrend, len |-> 0]

Extended(s, dir) ==
  [dir |-> dir,
   len |-> IF s.dir # dir THEN 1
           ELSE IF s.len < Confirmations THEN s.len + 1 ELSE s.len]

Init == trend = NoTrend /\ streak = NoStreak

\* There is no level to compare with: start over.
Restart ==
  /\ trend' = Still
  /\ streak' = NoStreak

\* A sample that points in direction dir.
Sample(dir) ==
  /\ streak' = Extended(streak, dir)
  /\ trend' = IF streak'.len >= Confirmations THEN dir ELSE trend

Next == Restart \/ \E dir \in Directions : Sample(dir)

Spec == Init /\ [][Next]_<<trend, streak>>
=============================================================================
