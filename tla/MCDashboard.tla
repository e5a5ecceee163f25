---------------------------- MODULE MCDashboard ----------------------------
(* Values for the instance of Dashboard that TLC checks.                    *)
EXTENDS Dashboard

MCAlgorithms == <<"algGBTree", "algRegression">>
MCMaps == {"algGBTree", "algRegression", "prediction"}

\* Two days and the first and the last half hour of a day.
MCDays == {0, 1}
MCSlots == {0, 47}
MCZone == [d \in MCDays |-> 8]

\* A place, another one, and none.
MCShown ==
  [t \in {0, 47, 48, 95} |->
     CASE t = 0 -> << <<0, 0>> >>
       [] t = 47 -> << <<1, 2>> >>
       [] t = 48 -> <<>>
       [] OTHER -> << <<0, 0>> >>]

MCCenter == <<0, 0>>
MCPlaces == {<<0, 0>>, <<3, 0>>}
MCSpots == MCPlaces \cup {<<0, 1>>, <<2, 2>>}

MCEntered ==
  [eventTime |-> {DefaultTime, BLANK}, temperature |-> {20, NAN},
   weather |-> {0}, algorithm |-> {4}]
=============================================================================
