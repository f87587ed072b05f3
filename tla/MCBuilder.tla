------------------------------ MODULE MCBuilder ------------------------------
(* Two files in libs/, one of the server, two of the rest, two runs.       *)
EXTENDS Builder
=============================================================================
