---------------------------- MODULE MCHttpClient ----------------------------
(* A small instance of HttpClient for TLC. *)
EXTENDS HttpClient

CONSTANTS t1, t2
=============================================================================
