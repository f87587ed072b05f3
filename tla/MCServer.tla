------------------------------- MODULE MCServer -------------------------------
(* Three clients, two entries and one, two or three threads.               *)
EXTENDS Server
=============================================================================
