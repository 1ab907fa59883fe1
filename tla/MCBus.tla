--------------------------------- MODULE MCBus ---------------------------------
(* Small instances of Bus for TLC. *)
EXTENDS Bus

CONSTANTS marketGod, quant, patriarch

MCNode      == {marketGod, quant, patriarch}
MCPeers     == <<quant, patriarch>>
MCPublisher == {marketGod, quant}
MCReader    == {quant}
================================================================================
