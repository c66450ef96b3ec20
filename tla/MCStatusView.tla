----------------------------- MODULE MCStatusView -----------------------------
(* An instance of StatusView for TLC.                                       *)
EXTENDS StatusView

CONSTANTS p1, p2

Sa(c, i, n) == [conn |-> c, ike |-> i, installed |-> n]

\* p1 is down while p2 has phase 1 only; or p1 is up, with an old SA going, and
\* p2 is connecting again.
MCOutputs ==
  {<<Sa(p2, "ESTABLISHED", FALSE)>>,
   <<Sa(p1, "ESTABLISHED", TRUE), Sa(p1, "DELETING", FALSE),
     Sa(p2, "CONNECTING", FALSE)>>}
=============================================================================
