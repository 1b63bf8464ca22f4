----------------------------- MODULE MCDashboard -----------------------------
(* Up to three repositories, one row to a page.  The table starts in one   *)
(* order only: repositories are interchangeable.                           *)
EXTENDS Dashboard

CONSTANTS r1, r2, r3

MCRepoRow == {r1, r2, r3}

MCInit == DashInit /\ rows \in {<<r1, r2>>, <<r1, r2, r3>>}

MCSpec == MCInit /\ [][DashNext]_dashVars /\ WF_dashVars(Poll)
=============================================================================
