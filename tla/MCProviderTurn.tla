--------------------------- MODULE MCProviderTurn ---------------------------
(* Instances of ProviderTurn for TLC: turns with up to two tool calls,     *)
(* spoken in each of the three APIs, with one retry of a request.  A       *)
(* stream behaves alike whichever request began it: the long ones begin    *)
(* with the first.                                                         *)
EXTENDS ProviderTurn

TwoCalls     == 1 .. 2
LongestFirst == <<5, 1, 1, 1>>
NoFrames     == <<0, 0, 0, 0>>
=============================================================================
