--------------------------------- MODULE MCRp1 ---------------------------------
(* An instance of module Rp1Dma for model checking.                           *)
EXTENDS Rp1Dma

\* Each clock is off with an unusable divider, on at a rate that only the UARTs can use,
\* or on at none; or the DMA clock is on at the crystal's.
MCBootClocks ==
  [Clocks -> {[on |-> FALSE, rate |-> "none"], [on |-> TRUE, rate |-> "fast"],
              [on |-> TRUE, rate |-> "none"]}]
    \cup {[uart |-> [on |-> FALSE, rate |-> "none"], dma |-> Crystal]}
===============================================================================
