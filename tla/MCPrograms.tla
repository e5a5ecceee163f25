------------------------------ MODULE MCPrograms ------------------------------
(* The arguments that DemoData is called with, and the file of the New     *)
(* York data: a header, which cannot be parsed, and two lines.  Chunks of  *)
(* three pieces end within a line every other time.  When the clocks go    *)
(* back, a calendar shows the same hour twice.                             *)
EXTENDS DataPrograms

MCLines == <<"bad", "good", "good">>
MCCalendar == [t \in {0, 30, 60} |-> IF t = 30 THEN "1:30" ELSE "1:00"]
MCNewYorkArgs == {<<1, 1>>, <<1, 2>>, <<2, 1>>, <<0, 1>>}
MCFakeArgs == {<<0, 1>>, <<5, 0>>, <<5, 3>>, <<6, 2>>}
=============================================================================
