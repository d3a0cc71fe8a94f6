-------------------------- MODULE MCUploadProgress --------------------------
(* A small instance of UploadProgress for TLC. *)
EXTENDS UploadProgress

=============================================================================
