----------------------------- MODULE MCSchedule -------------------------------
(* SealerSchedule for TLC: periods of 4 and 8, clocks one apart.           *)
EXTENDS SealerSchedule

SomeAvgs == {2, 11}
SomeSums == {22}
=============================================================================
