---------------------------- MODULE MCUploadPage ----------------------------
(***************************************************************************)
(* Values for UploadPage: the first upload has two chunks, any other one.  *)
(***************************************************************************)
EXTENDS UploadPage

MCChunks == [u \in 1..MaxUploads |-> IF u = 1 THEN 2 ELSE 1]
=============================================================================
