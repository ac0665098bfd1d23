----------------------------- MODULE MCService -----------------------------
(* The names of images and processes in the service's runs.                *)
EXTENDS Service

CONSTANTS i1, i2, w1, s1, s2
=============================================================================
