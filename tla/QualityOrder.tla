---------------------------- MODULE QualityOrder ----------------------------
(***************************************************************************)
(* compareCandidateQuality (model-workflow/candidate-quality.ts): the      *)
(* fields of a candidate's quality, compared in their order.  The fields   *)
(* before the mean error are the gates of CandidateQuality; the mean is    *)
(* the fraction total / count, and Infinity where nothing was scored.      *)
(***************************************************************************)
EXTENDS Integers

(* What createCandidateQuality returns, for any counts *)
Qualities == [passed : BOOLEAN, gates : [1..6 -> Nat], total : Nat, count : Nat]

(* The mean, where the gates are equal *)
MeanBelow(l, r) ==
    IF l.count = 0 THEN FALSE ELSE r.count = 0 \/ l.total * r.count < r.total * l.count

LexBelow(l, r) ==
    \E i \in DOMAIN l : l[i] < r[i] /\ \A j \in 1..(i - 1) : l[j] = r[j]

Better(l, r) ==
    IF l.passed # r.passed THEN l.passed
    ELSE LexBelow(l.gates, r.gates) \/ (l.gates = r.gates /\ MeanBelow(l, r))
=============================================================================
