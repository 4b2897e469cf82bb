--------------------------- MODULE MCContentStore ---------------------------
(* ContentStore on a small instance. *)
EXTENDS ContentStore, TLC

CONSTANTS r1, r2, u1, post, title, f1, f2, v1

OnePost == {post}
OneTitle == {title}
(* An API client may send the slug that the title gives, or none. *)
TitleSlug == {<<title, 0>>}
TwoRequests == {r1, r2}
OneRequest == {r1}
RequestSymmetry == Permutations(TwoRequests)
=============================================================================
