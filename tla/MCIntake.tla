------------------------------ MODULE MCIntake ------------------------------
(* An instance of Intake for TLC: texts that are each other's prefixes, so    *)
(* that concatenations can coincide.                                          *)
EXTENDS Intake

MCTexts == {<<"a">>, <<"b">>, <<"a", "b">>}
MCPathLists ==
  {<<>>, <<idPath>>, <<idPath, statusPath>>, <<statusPath, idPath>>,
   <<statusPath, statusPath>>, << <<"transaction">>, statusPath >>,
   << <<"transaction", "amount">>, idPath >>, <<idPath, statusPath, idPath>>}
MCTimestamp == <<"1">>
MCSecret == <<"s">>
MCSomeCard == <<1, 8>>
=============================================================================
