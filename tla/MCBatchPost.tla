------------------------------ MODULE MCBatchPost ------------------------------
(* Instances of BatchPost for TLC.                                              *)
EXTENDS BatchPost, TLC

CONSTANTS j1, j2, d1, d2, manual, c1, c2, s1, s2, s3, code

\* One job for the batch and one whose batch code was left blank.
MCBatch == (j1 :> code @@ j2 :> Blank)
\* One job only.
MCBatchOne == (j1 :> code)
\* Two jobs for one batch.
MCBatchSame == (j1 :> code @@ j2 :> code)
\* One tagged document and one entered by hand.
MCTag == (d1 :> code @@ manual :> Blank)
\* Two documents of the batch.
MCTagTwo == (d1 :> code @@ d2 :> code)

\* Requests, sessions, the jobs of one batch and its documents.
MCSymmetry ==
    Permutations(Callers) \union Permutations(Sessions)
        \union Permutations(Jobs) \union Permutations(Docs)
================================================================================
