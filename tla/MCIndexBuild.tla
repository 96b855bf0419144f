---------------------------- MODULE MCIndexBuild ----------------------------
(* IndexBuild on small instances.                                          *)
EXTENDS IndexBuild
=============================================================================
