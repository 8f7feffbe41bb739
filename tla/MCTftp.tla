------------------------------- MODULE MCTftp -------------------------------
(* A session of two transfers of files of one and two blocks and of a file *)
(* whose name is too long for a request; one small file is here already.   *)
EXTENDS Tftp, TLC

CONSTANTS small, large, long

MCBlocks == small :> 1 @@ large :> 2 @@ long :> 1
MCPresent == {{small}}
=============================================================================
