----------------------------- MODULE MCAwsHost -----------------------------
(* AwsHost with one instance at a time. *)
EXTENDS AwsHost
=============================================================================
