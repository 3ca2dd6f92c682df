------------------------------ MODULE MCTestmode --------------------------------
(* Small instances of Testmode: a report of three pieces, buffers from     *)
(* none to one that holds it with its terminating zero.                    *)
EXTENDS Testmode

MCPieces == <<2, 1, 2>>
MCBufLens == 0 .. 6
================================================================================
