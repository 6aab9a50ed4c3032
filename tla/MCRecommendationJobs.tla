------------------------ MODULE MCRecommendationJobs ------------------------
(* Instances of RecommendationJobs small enough for TLC.                    *)
EXTENDS RecommendationJobs, TLC

\* Sessions, jobs and pool threads are interchangeable: nothing orders them.
Symmetry == Permutations(Sessions) \cup Permutations(Jobs) \cup Permutations(Pool)

\* Bound: a crash is the last step that is followed.  What comes after one is
\* followed under UntilNextSession (RecommendationContract).
UntilCrash == run = 1
=============================================================================
