----------------------------- MODULE MCFreshness -----------------------------
(* The page's own updates for TLC: plain deploys, and deploys that are taken    *)
(* back behind a cache that keeps the old shell.                                *)
EXTENDS Freshness
TwoOddities == {{}, {"rollback", "cached"}}
==============================================================================
