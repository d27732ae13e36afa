---------------------------- MODULE MCDeviceTasks ----------------------------
(* Small instances of DeviceTasks for TLC.                                  *)
EXTENDS DeviceTasks, TLC

CONSTANTS t1, t2, t3, t4, a, b

ThreeOnOnePhone == t1 :> a @@ t2 :> a @@ t3 :> a @@ t4 :> b
=============================================================================
