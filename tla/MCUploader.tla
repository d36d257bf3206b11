----------------------------- MODULE MCUploader -----------------------------
(* Small instances of Uploader for TLC. *)
EXTENDS Uploader
=============================================================================
