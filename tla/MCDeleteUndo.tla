---------------------------- MODULE MCDeleteUndo ----------------------------
(* Instances of DeleteUndo for TLC.                                        *)
EXTENDS DeleteUndo
=============================================================================
