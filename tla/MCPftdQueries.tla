---------------------------- MODULE MCPftdQueries ----------------------------
(***************************************************************************)
(* The shortest and the longest names, registers of four bits for the      *)
(* space, and clock words on both sides of what DOS takes.                 *)
(***************************************************************************)
EXTENDS PftdQueries

MCNameLens == {2, 13}
MCWord == 16
MCGeometries == [spc : {1, 2}, bps : {9}, free : {9}, total : {15}]

Day(y, m, d) == [year |-> y, month |-> m, day |-> d]
At(h, m, s) == [hour |-> h, minute |-> m, second |-> s]

MCDates == {Day(2099, 12, 31)}
MCTimes == {At(23, 59, 59)}

\* 30 February 1980, 31 December 2107, and a day that DOS takes.
MCDateWords == {30 + 32 * 2, 65535 - 32 * 3, 31 + 32 * 12 + 512 * 119, 1 + 32 + 512 * 10}
\* 0:00:60 and 12:01:02.
MCTimeWords == {30, 1 + 32 * 1 + 2048 * 12}

MCFaultyCalls == {"find", "set_date", "set_time"}
=============================================================================
