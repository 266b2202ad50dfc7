------------------------------- MODULE PivotOps -------------------------------
(***************************************************************************)
(* Pivots: the discovered roots a run asks about.  pivotBroker answers the *)
(* scheduler during a run; hydratePivotsFromJudges adds, when a snapshot   *)
(* is written, a pivot for every root a judge has discarded.  A pivot map  *)
(* gives the status of the pivot of every root, "none" if there is none.   *)
(***************************************************************************)
EXTENDS Naturals

Mode == {"autonomous", "manual"}
PivotStatus == {"none", "pending_review", "accepted", "rejected",
                "auto_accepted", "auto_rejected"}

\* The confidence of the first judge outcome that discarded the root: "low" is
\* below manualAutoRejectionConfidenceThreshold.
Discarded == {"none", "low", "high"}

hasPendingReview(pivots) ==
    \E k \in DOMAIN pivots : pivots[k] = "pending_review"

HandleCandidatePromotion_AcceptsManual(mode, pivots, k) ==
    IF pivots[k] # "none" THEN pivots
    ELSE [pivots EXCEPT ![k] = "auto_accepted"]

\* What the broker holds after it was asked about root k ...
HandleCandidatePromotion(mode, pivots, k) ==
    IF pivots[k] # "none" THEN pivots
    ELSE [pivots EXCEPT ![k] = IF mode = "manual" THEN "pending_review"
                               ELSE "auto_accepted"]

PromotionDecision_ForgetsRejection(mode, pivots, k) ==
    LET status == HandleCandidatePromotion(mode, pivots, k)[k]
    IN  CASE status = "pending_review" -> "pending_review"
          [] OTHER -> "accepted"

\* ... and what it answered.
PromotionDecision(mode, pivots, k) ==
    LET status == HandleCandidatePromotion(mode, pivots, k)[k]
    IN  CASE status \in {"accepted", "auto_accepted"} -> "accepted"
          [] status \in {"rejected", "auto_rejected"} -> "rejected"
          [] OTHER -> "pending_review"

autoRejectedDiscardStatus(mode, confidence) ==
    IF mode = "manual" /\ confidence = "low" THEN "pending_review"
    ELSE "auto_rejected"

hydratePivotsFromJudges_Overwrites(mode, pivots, discards) ==
    [k \in DOMAIN pivots |->
        IF discards[k] # "none"
        THEN autoRejectedDiscardStatus(mode, discards[k]) ELSE pivots[k]]

\* A root that has a pivot keeps its status.
hydratePivotsFromJudges(mode, pivots, discards) ==
    [k \in DOMAIN pivots |->
        IF pivots[k] = "none" /\ discards[k] # "none"
        THEN autoRejectedDiscardStatus(mode, discards[k]) ELSE pivots[k]]

=============================================================================
