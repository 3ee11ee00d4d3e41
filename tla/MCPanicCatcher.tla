---------------------------- MODULE MCPanicCatcher ----------------------------
(* TLC instance of PanicCatcher by itself: two threads that both install the  *)
(* hook.  With one installer it is a piece of MCPieces.                       *)
EXTENDS PanicCatcher
=============================================================================
