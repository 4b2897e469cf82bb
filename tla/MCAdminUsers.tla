---------------------------- MODULE MCAdminUsers ----------------------------
(* AdminUsers on a small instance: three emails, one password, and two     *)
(* requests at a time; no set but Emails and Requests is permuted.         *)
EXTENDS AdminUsers, TLC

CONSTANTS a, b, c, p1, r1, r2

ThreeEmails == {a, b, c}
OnePassword == {p1}
TwoRequests == {r1, r2}
UserSymmetry == Permutations(ThreeEmails) \cup Permutations(TwoRequests)
=============================================================================
