---------------------------- MODULE MCEventReview ----------------------------
(* An instance of EventReview for TLC: one unit stands for about 15 seconds, *)
(* and the lengths keep the order they have in the code.                     *)
EXTENDS EventReview, TLC

\* Windows that end or begin with the moment 1, and one that is too long.
MCWindows == {<<0, 1>>, <<1, 3>>, <<0, 4>>}
\* A candidate inside the video, one behind its end, one across its start, and
\* one that is not taken over.
MCCandidates == {<<0, 2>>, <<5, 7>>, <<-2, 1>>, <<3, 3>>}
\* A queue of one clip, made of at most two rows.
MCRankScore == <<1, 2, 1>>
\* Much to page through, or much to review.
MCBudgets == {[tags |-> 3, imports |-> 0, reviews |-> 1, readers |-> 1],
              [tags |-> 2, imports |-> 1, reviews |-> 0, readers |-> 1],
              [tags |-> 1, imports |-> 1, reviews |-> 1, readers |-> 1],
              [tags |-> 1, imports |-> 1, reviews |-> 2, readers |-> 0]}
Symmetry == Permutations(Reviews)
=============================================================================
