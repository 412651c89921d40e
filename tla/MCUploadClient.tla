---- MODULE MCUploadClient ----
(* An instance of UploadClient for TLC. *)
EXTENDS UploadClient

\* The API calls of the form.
MCCalls == RunCalls
====
