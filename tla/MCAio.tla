-------------------------------- MODULE MCAio --------------------------------
(* Small instances of Aio for TLC. *)
EXTENDS Aio

CONSTANTS g1, g2

Pair == <<"scheduled", "native">>

\* A table of one slot, which is used again or runs out, and one of two, with two
\* records in flight.
MCBatches == (2 :> {Pair, <<"scheduled">>, <<"bad">>}) @@ (3 :> {Pair, <<"empty">>})
==============================================================================
