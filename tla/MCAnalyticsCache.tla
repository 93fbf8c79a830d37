-------------------------- MODULE MCAnalyticsCache --------------------------
(* Small instances of AnalyticsCache for TLC.                              *)
EXTENDS AnalyticsCache, TLC

(* Requests are interchangeable.                                           *)
AnyRequest == Permutations(Requests)
=============================================================================
