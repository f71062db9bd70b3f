------------------------------ MODULE MCDesktop ------------------------------
(* Model values for TLC: two addresses, scanned alone or together.          *)
EXTENDS Desktop

OneRange  == {{1, 2}}
TwoRanges == {{1}, {1, 2}}
OneAddress == {{1}}
=============================================================================
