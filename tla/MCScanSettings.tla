----------------------------- MODULE MCScanSettings -----------------------------
(* Model values for TLC: two default ports, to which one extra port is one  *)
(* too many, entered with a number that is no port.                        *)
EXTENDS ScanSettings

MCExtras == {{}, {8006, 65536}}
=============================================================================
