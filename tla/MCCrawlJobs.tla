---------------------------- MODULE MCCrawlJobs -----------------------------
(* CrawlJobs for TLC: every job targets the one host h1, where the guard   *)
(* matters most.                                                           *)
EXTENDS CrawlJobs, TLC

CONSTANT h1

OneHost == [j \in Jobs |-> h1]

JobsAndRequests == Permutations(Jobs) \cup Permutations(Requests)

=============================================================================
