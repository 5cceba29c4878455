------------------------------- MODULE MCRtc -------------------------------
(* Rtc with the numbers a program might write to the device. *)
EXTENDS Rtc

MCRates == {IntMin, -4, 0, 1, 3, 4, 8, 2048}
=============================================================================
