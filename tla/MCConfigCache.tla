---------------------------- MODULE MCConfigCache ----------------------------
(* ConfigCache on a small instance: two requests, which change content or  *)
(* hold a settings page, and one other setting with two values.            *)
EXTENDS ConfigCache

CONSTANTS r1, r2, on, off

TwoRequests == {r1, r2}
OneRequest == {r1}
OnOff == {on, off}
JustOn == {on}
=============================================================================
