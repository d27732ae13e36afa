---------------------------- MODULE MCPublishing ----------------------------
(* Small instances of Publishing for TLC.                                   *)
EXTENDS Publishing, TLC

CONSTANTS p1, p2

TwoDevices  == <<"device", "device">>
OneDevice   == <<"device">>
OneOfficial == <<"official">>

OnePhone  == <<p1>>
TwoPhones == <<p1, p2>>
=============================================================================
