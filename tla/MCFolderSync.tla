--------------------------- MODULE MCFolderSync ---------------------------
(* Instances of FolderSync for TLC; every constant is a number.            *)
EXTENDS FolderSync
=============================================================================
