------------------------------- MODULE MCWorld -------------------------------
(***************************************************************************)
(* Runs of one or two subscribers.  The offsets put the periods of a halt  *)
(* around the first days of March and of May 2024, months of 31 days.      *)
(***************************************************************************)
EXTENDS World

Knobs(count, amounts, missed, grace, modes, flagged, offsets) ==
  [count |-> count, min_amount |-> amounts[1], max_amount |-> amounts[2],
   min_missed |-> missed[1], max_missed |-> missed[2], grace |-> grace,
   modes |-> modes, flagged |-> flagged, offsets |-> offsets]

SmallLadder == {2, 5}

\* One subscriber over a half-year; two of short halts; a merchant whose plan
\* costs nothing.
LongRun == Knobs(1, <<2, 4>>, <<1, 6>>, 2, Modes \ {"mixed_or_unknown"},
                 BOOLEAN, {58, 59, 60, 61})

MixedRun == Knobs(1, <<3, 4>>, <<2, 4>>, 6, Modes, {FALSE}, {59, 60})

TwoRun == Knobs(2, <<2, 5>>, <<1, 2>>, 1, Modes \ {"mixed_or_unknown"},
                {FALSE}, {59})

FreeRun == Knobs(1, <<0, 0>>, <<2, 2>>, 1, Modes, BOOLEAN, {59})

AllRuns == {LongRun, MixedRun, TwoRun, FreeRun}
=============================================================================
