----------------------------- MODULE MCPanicLog -----------------------------
(***************************************************************************)
(* PanicLog for TLC: the calls are numbers, and odd reports are longer.    *)
(***************************************************************************)
EXTENDS PanicLog

MCHandlers == {1}
MCLogHandlers == {2, 3}
MCSize == [r \in MCHandlers \cup MCLogHandlers |-> 1 + (r % 2)]
=============================================================================
