----------------------------- MODULE MCAsiEnc -----------------------------
EXTENDS AsiEnc

MCTxModes == [ts : TsModes, burst : BOOLEAN, onTime : {FALSE}] \cup
             [ts : TsModes, burst : {FALSE}, onTime : {TRUE}]

\* Every stream of eight bytes, three of them sync bytes.
MCStreams ==
  {s \in [1..8 -> {1, 15}] : Cardinality({i \in 1..8 : s[i] = 15}) = 3}
MCFewStreams == {<<15, 1, 1, 15, 1, 15, 1, 1>>}
===========================================================================
