---------------------------- MODULE WorkLifecycle ----------------------------
(***************************************************************************)
(* The life of a work item, as btx_platform/api.py decides it: the states, *)
(* the commands, what a command does to the three columns of the state,    *)
(* and who is offered which command.  WorkItems runs it in the threads of  *)
(* the server, WorkDesk under the page that a user has open.               *)
(***************************************************************************)
EXTENDS Naturals

Status == {"detected", "triaged", "prepared", "awaiting_approval", "approved",
           "in_progress", "executed", "verified", "outcome_recorded",
           "dismissed", "closed"}
Terminal == {"dismissed", "closed"}
Approval == {"not_required", "pending", "approved", "rejected"}
Execution == {"not_started", "pending", "executed", "verified", "failed"}

(* WORK_ITEM_TRANSITIONS.                                                  *)
Transitions ==
    [detected |-> [triage |-> "triaged", dismiss |-> "dismissed"],
     triaged |-> [prepare |-> "prepared", dismiss |-> "dismissed"],
     prepared |-> [request_approval |-> "awaiting_approval",
                   start |-> "in_progress", dismiss |-> "dismissed"],
     awaiting_approval |-> [approve |-> "approved", reject |-> "prepared",
                            dismiss |-> "dismissed"],
     approved |-> [start |-> "in_progress", dismiss |-> "dismissed"],
     in_progress |-> [mark_executed |-> "executed", dismiss |-> "dismissed"],
     executed |-> [verify |-> "verified", start |-> "in_progress"],
     verified |-> [record_outcome |-> "outcome_recorded", close |-> "closed"],
     outcome_recorded |-> [close |-> "closed"],
     dismissed |-> [reopen |-> "triaged"],
     closed |-> [reopen |-> "triaged"]]

(* The columns that a command sets besides the status.                     *)
ApprovalOf == [request_approval |-> "pending", approve |-> "approved",
               reject |-> "rejected", reopen |-> "not_required"]
ExecutionOf == [start |-> "pending", mark_executed |-> "executed",
                verify |-> "verified", reopen |-> "not_started"]

(* Mutant: a reopen does not reset the execution state.                    *)
AfterKeepsExecution(row, action) ==
    [row EXCEPT
        !.status = Transitions[row.status][action],
        !.approval = IF action \in DOMAIN ApprovalOf THEN ApprovalOf[action] ELSE @,
        !.execution = IF action \in {"start", "mark_executed", "verify"}
                        THEN ExecutionOf[action] ELSE @]

After(row, action) ==
    [row EXCEPT
        !.status = Transitions[row.status][action],
        !.approval = IF action \in DOMAIN ApprovalOf THEN ApprovalOf[action] ELSE @,
        !.execution = IF action \in DOMAIN ExecutionOf THEN ExecutionOf[action] ELSE @]
-----------------------------------------------------------------------------
(* Mutants: the approval, or the status, is not checked.                   *)
MayExecuteUnapproved(row) ==
    row.external = 0 /\ row.status \in {"prepared", "approved", "in_progress"}
MayExecuteAnyStatus(row) == row.external = 0 /\ row.approval = "approved"

(* Execution as a HubSpot task, which an item has once at the most.        *)
MayExecute(row) ==
    /\ row.external = 0
    /\ row.approval = "approved"
    /\ row.status \in {"approved", "in_progress"}
=============================================================================
