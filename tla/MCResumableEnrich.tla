------------------------- MODULE MCResumableEnrich -------------------------
(***************************************************************************)
(* Three functions and three runs: a run that completes some, one that is  *)
(* cut short while it resumes, and one that resumes from what is left.     *)
(* The last save is the one in place (AtomicFinish is FALSE): what the     *)
(* loop that renames it can do is a part of what this one can.             *)
(***************************************************************************)
EXTENDS ResumableEnrich
=============================================================================
