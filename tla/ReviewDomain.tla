---------------------------- MODULE ReviewDomain ----------------------------
(***************************************************************************)
(* The contract tables of a manual-review case, shared by the modules of   *)
(* the review workflow: the statuses of a case, which of them a reviewer   *)
(* may edit, the callbacks of the graph-build service with their stage,    *)
(* the statuses that accept each callback and the status each leads to.    *)
(***************************************************************************)
EXTENDS Naturals

\* "ABSENT" is a case that has not been reported yet.
Status == {"ABSENT", "OPEN", "CLAIMED", "IN_REVIEW", "PENDING_APPROVAL",
           "APPLYING", "APPLY_FAILED", "RERUNNING", "VERIFYING",
           "RERUN_FAILED", "RESOLVED", "REJECTED", "CANCELLED"}

EditableStatuses == {"CLAIMED", "IN_REVIEW"}
RetryableStatuses == {"APPLY_FAILED", "RERUN_FAILED"}

EventType == {"CORRECTION_ACCEPTED", "RERUN_STARTED", "RERUN_PROGRESS",
              "RERUN_SUCCEEDED", "RERUN_FAILED",
              "VERIFICATION_SUCCEEDED", "VERIFICATION_FAILED"}

EventStage ==
    [t \in EventType |->
        IF t = "CORRECTION_ACCEPTED" THEN 1
        ELSE IF t \in {"RERUN_STARTED", "RERUN_PROGRESS"} THEN 2
        ELSE IF t \in {"RERUN_SUCCEEDED", "RERUN_FAILED"} THEN 3
        ELSE 4]

\* The statuses in which a case takes an event of type t.
MutantAllowed ==
    [t \in EventType |->
        IF t \in {"CORRECTION_ACCEPTED", "RERUN_STARTED"}
          THEN {"APPLYING", "RERUNNING"}
          ELSE {"RERUNNING", "VERIFYING"}]
Allowed ==
    [t \in EventType |->
        IF t \in {"CORRECTION_ACCEPTED", "RERUN_STARTED"}
          THEN {"APPLYING", "RERUNNING"}
        ELSE IF t \in {"VERIFICATION_SUCCEEDED", "VERIFICATION_FAILED"}
          THEN {"VERIFYING"}
          ELSE {"RERUNNING"}]

\* The status an accepted event of type t gives its case.
Effect ==
    [t \in EventType |->
        IF EventStage[t] < 3 THEN "RERUNNING"
        ELSE IF t = "RERUN_SUCCEEDED" THEN "VERIFYING"
        ELSE IF t = "VERIFICATION_SUCCEEDED" THEN "RESOLVED"
        ELSE "RERUN_FAILED"]

=============================================================================
