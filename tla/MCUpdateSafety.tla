--------------------------- MODULE MCUpdateSafety ---------------------------
(***************************************************************************)
(* TLC instances of UpdateSafety: the machine starts on an image with its  *)
(* previous deployment in place.                                           *)
(***************************************************************************)
EXTENDS UpdateSafety

CONSTANTS good, bad, bad2, r1, r2

\* The good image is the older one: once the bad one runs, the downgrade gate
\* stands in the way of staging the good one again.
MCOlder == {<<good, bad>>}
=============================================================================
