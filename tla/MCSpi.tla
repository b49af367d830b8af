------------------------------- MODULE MCSpi --------------------------------
(***************************************************************************)
(* A small SPI bus: words of one bit, so that a transfer of every length   *)
(* up to the whole register fits in four cycles, and two slots.            *)
(***************************************************************************)
EXTENDS Spi

Slots == [i \in {0, 1} |-> IF i = 0 THEN "slave" ELSE "echo"]

=============================================================================
