---------------------------- MODULE MCEnrichOne ----------------------------
(* Bounds: three attempts are the default (retries = 2); 32 is the budget   *)
(* the tests use, 500 one whose double is below the 1536 cap, 768 the       *)
(* default, 2048 one beyond the cap; a context budget is at least 256.      *)
EXTENDS EnrichOne

Fixed   == {32, 500, 768, 2048}
Context == {256, 4096}
=============================================================================
