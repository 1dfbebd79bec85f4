--------------------------- MODULE MCDownloadTask ---------------------------
(* A small instance of DownloadTask for TLC: the values are in the cfg.     *)
EXTENDS DownloadTask
=============================================================================
