------------------------------- MODULE ScanRange -------------------------------
(***************************************************************************)
(* The addresses a range is expanded to (internal/scanner/cidr.go), the    *)
(* jobs of a scan.  Addresses are unsigned integers of Bits bits, 32 in    *)
(* the code: a counter that runs to the last of them wraps around.         *)
(***************************************************************************)
EXTENDS Integers, Sequences, Functions

CONSTANT Bits

ASSUME ScanRangeAssumption == Bits \in Nat \ {0, 1}

Top == 2 ^ Bits - 1   \* ^uint32(0)

\* How many addresses share their first ones bits, and the least of them.
Block(ones)      == 2 ^ (Bits - ones)
Network(a, ones) == a - (a % Block(ones))

\* The network and broadcast addresses of all but the smallest ranges are
\* left out.
First(a, ones) == Network(a, ones) + (IF ones <= Bits - 2 THEN 1 ELSE 0)
Last(a, ones)  == Network(a, ones) + Block(ones) - 1 - (IF ones <= Bits - 2 THEN 1 ELSE 0)

\* The loop, which must stop by itself at the last address there is.
ExpandCIDR(a, ones) ==
  LET from[current \in 0..Top] ==
        IF current > Last(a, ones) THEN <<>>
        ELSE <<current>> \o (IF current = Top THEN <<>> ELSE from[(current + 1) % (Top + 1)])
  IN  from[First(a, ones)]

(* A scan tries every address of its range once, in order, the address the *)
(* range was written with among them unless it is the network's or the      *)
(* broadcast address.                                                      *)
RangesAreExpanded ==
  \A a \in 0..Top, ones \in 0..Bits :
    LET hosts == ExpandCIDR(a, ones)
        same  == {b \in 0..Top : b \div Block(ones) = a \div Block(ones)}
        edges == {b \in same : (\A c \in same : b <= c) \/ (\A c \in same : c <= b)}
    IN  /\ Range(hosts) = IF ones <= Bits - 2 THEN same \ edges ELSE same
        /\ \A i, j \in DOMAIN hosts : i < j => hosts[i] < hosts[j]
=============================================================================
