------------------------------ MODULE MCScanner ------------------------------
(* Model values for TLC: two addresses, two workers, an event buffer that    *)
(* is full after one event, so that senders block on it.  What the addresses *)
(* of a scan are is checked beside it, for addresses of six bits.           *)
EXTENDS Scanner, ScanRange

ASSUME RangesAsAssumed == RangesAreExpanded
=============================================================================
