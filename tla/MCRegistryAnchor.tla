-------------------------- MODULE MCRegistryAnchor --------------------------
(* TLC instance: three tests at a time, one kill; two numbers for servers, so *)
(* that one can replace the other in the anchor.                              *)
EXTENDS RegistryAnchor
=============================================================================
