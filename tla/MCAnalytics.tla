----------------------------- MODULE MCAnalytics -----------------------------
(* Analytics on a small instance: the bounds are in the cfg files. *)
EXTENDS Analytics

CONSTANTS v1, v2

TwoViewers == {v1, v2}
OneViewer == {v1}
=============================================================================
