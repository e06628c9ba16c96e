----------------------------- MODULE WorkItems -----------------------------
(***************************************************************************)
(* The work items of btx_platform/api.py: creation with a dedupe key, the  *)
(* lifecycle commands, metadata patches and notes, the closing of items by *)
(* a relationship review, and the execution of an approved item as a       *)
(* HubSpot task.                                                           *)
(*                                                                         *)
(* The routes are plain functions, so the server runs them in the threads  *)
(* of a pool, each with a session of its own.  A handler reads the row,    *)
(* decides, and writes in a later statement; rows are neither locked nor   *)
(* versioned.  The execution of a HubSpot task commits twice, with the     *)
(* calls to HubSpot in between.                                            *)
(*                                                                         *)
(* Metadata, texts, timestamps and roles are left out: a command that only *)
(* some roles may give is a command that somebody may give.                *)
(***************************************************************************)
EXTENDS Naturals, Sequences, FiniteSets, WorkLifecycle

CONSTANTS
    Item,           \* the ids of work items
    Thread,         \* the threads of the server's pool
    DedupeKey,      \* the dedupe keys that clients send
    IdemKey,        \* the idempotency keys of HubSpot executions
    None,           \* a NULL column
    NewItem,        \* what clients create: records [status, approval]
    MaxCommits,     \* bound: commits to one item
    MaxTasks        \* bound: tasks in the HubSpot portal

ASSUME WorkItemsAssumption ==
    /\ None \notin DedupeKey \cup IdemKey
    /\ NewItem \subseteq [status : Status, approval : Approval]
    /\ MaxCommits \in Nat /\ MaxTasks \in Nat

(* create_work_item takes any approval_state; none of the repository's own *)
(* clients sends "approved".                                               *)
ASSUME ClientAssumption == \A new \in NewItem : new.approval # "approved"

(* A row; "absent" is not in the table.  external is the id of a HubSpot   *)
(* task (external_system is set with it and never without it), key its     *)
(* execution_idempotency_key, audit the length of audit_history.           *)
Row == [status : Status \cup {"absent"},
        approval : Approval,
        execution : Execution,
        dedupe : DedupeKey \cup {None},
        external : Nat,
        key : IdemKey \cup {None},
        audit : Nat]

AbsentRow == [status |-> "absent", approval |-> "not_required",
              execution |-> "not_started", dedupe |-> None,
              external |-> 0, key |-> None, audit |-> 0]

(* The three state columns of a row agree: nothing has been executed       *)
(* before "in_progress", an item awaits exactly the approval it asked for, *)
(* and work is verified exactly from "verified" on.                        *)
Agrees(row) ==
    /\ row.status \in {"detected", "triaged", "prepared", "awaiting_approval", "approved"}
          => row.execution = "not_started"
    /\ row.status = "awaiting_approval" => row.approval = "pending"
    /\ row.status = "approved" => row.approval = "approved"
    /\ row.status = "in_progress" => row.execution \in {"pending", "failed"}
    /\ row.status = "executed" => row.execution = "executed"
    /\ row.status \in {"verified", "outcome_recorded", "closed"}
          => row.execution = "verified"

(* The row that create_work_item makes of what a client sends.             *)
NewRow(new, k) ==
    [AbsentRow EXCEPT !.status = new.status, !.approval = new.approval,
                      !.dedupe = k, !.audit = 1]

(* Nor does it compare the columns it is sent.  What the repository's own  *)
(* clients create agrees: detected items, and drafts that await approval.  *)
ASSUME ClientColumnsAssumption == \A new \in NewItem : Agrees(NewRow(new, None))

VARIABLES
    item,       \* work_items: Item -> Row
    tasks,      \* the HubSpot portal: who each task was created for
    ledger,     \* hubspot_task_audits: the ids of verified tasks
    thread,     \* what each thread is doing
    commits,    \* how many commits each item has seen
    raced,      \* the items whose row changed under a handler
    approved    \* the items that somebody has approved

vars == <<item, tasks, ledger, thread, commits, raced, approved>>

ThreadState ==
    [pc : {"idle", "insert", "commit", "begin", "refresh", "create",
           "readback", "verified", "failed"},
     item : Item \cup {None},
     seen : Row,            \* the row as the session loaded it
     new : Row,             \* the row as the session will write it
     key : IdemKey \cup {None},
     task : Nat]            \* the task it created, or 0

Idle == [pc |-> "idle", item |-> None, seen |-> AbsentRow, new |-> AbsentRow,
         key |-> None, task |-> 0]

TypeOK ==
    /\ item \in [Item -> Row]
    /\ tasks \in Seq([item : Item, key : IdemKey])
    /\ ledger \in SUBSET Nat
    /\ thread \in [Thread -> ThreadState]
    /\ \A t \in Thread :
          /\ thread[t].pc \notin {"idle", "insert"} => thread[t].item \in Item
          /\ thread[t].pc \in {"begin", "refresh", "create"} => thread[t].key \in IdemKey
    /\ commits \in [Item -> Nat]
    /\ raced \in SUBSET Item
    /\ approved \in SUBSET Item

Init ==
    /\ item = [i \in Item |-> AbsentRow]
    /\ tasks = <<>>
    /\ ledger = {}
    /\ thread = [t \in Thread |-> Idle]
    /\ commits = [i \in Item |-> 0]
    /\ raced = {}
    /\ approved = {}

-----------------------------------------------------------------------------
(* Sessions.                                                               *)

Present(i) == item[i].status # "absent"
Active(i) == Present(i) /\ item[i].status \notin Terminal
Becomes(t, state) == thread' = [thread EXCEPT ![t] = state]
Goes(t, pc) == thread' = [thread EXCEPT ![t].pc = pc]

(* An UPDATE names the columns whose value the session has changed, and    *)
(* leaves the others as whoever wrote them last.                           *)
Update(row, seen, new) ==
    [c \in DOMAIN row |-> IF new[c] # seen[c] THEN new[c] ELSE row[c]]

(* Reads item i and intends to write it back as `new`, with one more entry *)
(* on the audit_history it read.                                           *)
Reads(t, i, pc, key, new) ==
    /\ thread[t].pc = "idle"
    /\ Present(i)
    /\ commits[i] < MaxCommits
    /\ Becomes(t, [pc |-> pc, item |-> i, seen |-> item[i],
                   new |-> [new EXCEPT !.audit = @ + 1], key |-> key, task |-> 0])
    /\ UNCHANGED <<item, tasks, ledger, commits, raced, approved>>

(* Writes the row the thread intends.  The ghost `raced` notes that the    *)
(* row is no longer the one it read.                                       *)
Writes(t, new) ==
    LET i == thread[t].item IN
    /\ item' = [item EXCEPT ![i] = Update(@, thread[t].seen, new)]
    /\ commits' = [commits EXCEPT ![i] = @ + 1]
    /\ raced' = IF item[i] = thread[t].seen THEN raced ELSE raced \cup {i}

-----------------------------------------------------------------------------
(* Creation: an active item with the dedupe key is returned, otherwise a   *)
(* row is inserted in a later statement.                                   *)
LookUp(t, new, k) ==
    /\ thread[t].pc = "idle"
    /\ k # None => \A j \in Item : Active(j) => item[j].dedupe # k
    /\ Becomes(t, [Idle EXCEPT !.pc = "insert", !.new = NewRow(new, k)])
    /\ UNCHANGED <<item, tasks, ledger, commits, raced, approved>>

Insert(t, i) ==
    /\ thread[t].pc = "insert"
    /\ ~ Present(i)
    /\ item' = [item EXCEPT ![i] = thread[t].new]
    /\ commits' = [commits EXCEPT ![i] = 1]
    /\ Becomes(t, Idle)
    /\ UNCHANGED <<tasks, ledger, raced, approved>>

-----------------------------------------------------------------------------
(* The lifecycle commands, /dismiss among them.                            *)
Transition(t, i, action) ==
    /\ Present(i)
    /\ action \in DOMAIN Transitions[item[i].status]
    /\ Reads(t, i, "commit", None, After(item[i], action))

(* A metadata patch or a note: nothing but an audit entry.                 *)
Annotate(t, i) == Reads(t, i, "commit", None, item[i])

(* A review decision on the relationship an item is about closes it from   *)
(* any status.                                                             *)
CloseReviewed(t, i) ==
    /\ Active(i)
    /\ Reads(t, i, "commit", None,
             [item[i] EXCEPT !.status = "closed", !.execution = "verified"])

Commit(t) ==
    /\ thread[t].pc = "commit"
    /\ Writes(t, thread[t].new)
    /\ approved' = IF thread[t].new.approval = "approved" /\ thread[t].seen.approval # "approved"
                     THEN approved \cup {thread[t].item} ELSE approved
    /\ Becomes(t, Idle)
    /\ UNCHANGED <<tasks, ledger>>

-----------------------------------------------------------------------------
(* Execution as a HubSpot task.  An item that has one is answered at once. *)
Execute(t, i, k) ==
    /\ MayExecute(item[i])
    /\ Len(tasks) < MaxTasks
    /\ Reads(t, i, "begin", k,
             [item[i] EXCEPT !.approval = "approved", !.status = "in_progress",
                             !.execution = "pending", !.key = k])

Begin(t) ==
    /\ thread[t].pc = "begin"
    /\ Writes(t, thread[t].new)
    /\ Goes(t, "refresh")
    /\ UNCHANGED <<tasks, ledger, approved>>

(* session.refresh: the row as it is by now.                               *)
Refresh(t) ==
    LET i == thread[t].item IN
    /\ thread[t].pc = "refresh"
    /\ Becomes(t, [thread[t] EXCEPT !.pc = "create", !.seen = item[i]])
    /\ raced' = IF item[i] = thread[t].new THEN raced ELSE raced \cup {i}
    /\ UNCHANGED <<item, tasks, ledger, commits, approved>>

(* create_task: HubSpot creates the task and says so, or answers an error  *)
(* having created it or not.                                               *)
CreateTask(t) ==
    /\ thread[t].pc = "create"
    /\ Len(tasks) < MaxTasks
    /\ tasks' = Append(tasks, [item |-> thread[t].item, key |-> thread[t].key])
    /\ \/ Becomes(t, [thread[t] EXCEPT !.pc = "readback", !.task = Len(tasks) + 1])
       \/ Goes(t, "failed")
    /\ UNCHANGED <<item, ledger, commits, raced, approved>>

TaskRefused(t) ==
    /\ thread[t].pc = "create"
    /\ Goes(t, "failed")
    /\ UNCHANGED <<item, tasks, ledger, commits, raced, approved>>

(* get_task and _verified_task.                                            *)
ReadBack(t) ==
    /\ thread[t].pc = "readback"
    /\ Goes(t, "verified") \/ Goes(t, "failed")
    /\ UNCHANGED <<item, tasks, ledger, commits, raced, approved>>

(* The second commit writes back the row as it was refreshed.              *)
Finishes(t, row) ==
    /\ Writes(t, [row EXCEPT !.audit = @ + 1])
    /\ Becomes(t, Idle)
    /\ UNCHANGED <<tasks, approved>>

(* Mutant: the id of the verified task is not stored on the row.           *)
FinishUnlinked(t) ==
    /\ thread[t].pc = "verified"
    /\ Finishes(t, [thread[t].seen EXCEPT !.status = "verified", !.execution = "verified"])
    /\ ledger' = ledger \cup {thread[t].task}

FinishVerified(t) ==
    /\ thread[t].pc = "verified"
    /\ Finishes(t, [thread[t].seen EXCEPT !.status = "verified", !.execution = "verified",
                                          !.external = thread[t].task])
    /\ ledger' = ledger \cup {thread[t].task}

FinishFailed(t) ==
    /\ thread[t].pc = "failed"
    /\ Finishes(t, [thread[t].seen EXCEPT !.execution = "failed"])
    /\ UNCHANGED ledger

(* The process stops, or a call to HubSpot times out, which is no          *)
(* HubSpotError: the handler is gone and what it had committed stays.      *)
Abandon(t) ==
    /\ thread[t].pc # "idle"
    /\ Becomes(t, Idle)
    /\ UNCHANGED <<item, tasks, ledger, commits, raced, approved>>

-----------------------------------------------------------------------------
Action == UNION {DOMAIN Transitions[s] : s \in Status}

ThreadStep(t) ==
    \/ \E i \in Item : Insert(t, i)
    \/ Commit(t)
    \/ Begin(t)
    \/ Refresh(t)
    \/ CreateTask(t)
    \/ TaskRefused(t)
    \/ ReadBack(t)
    \/ FinishVerified(t)
    \/ FinishFailed(t)
    \/ Abandon(t)

Command(t) ==
    \/ \E new \in NewItem, k \in DedupeKey \cup {None} : LookUp(t, new, k)
    \/ \E i \in Item :
          \/ \E action \in Action : Transition(t, i, action)
          \/ Annotate(t, i)
          \/ CloseReviewed(t, i)
          \/ \E k \in IdemKey : Execute(t, i, k)

Next == \E t \in Thread : ThreadStep(t) \/ Command(t)

Spec == Init /\ [][Next]_vars

-----------------------------------------------------------------------------
(* The three state columns agree, however an item got where it is, as long *)
(* as no handler wrote over a row that had changed under it                *)
(* (_apply_work_item_transition, the two commits of the execution, and the *)
(* review that closes items).                                              *)
ColumnsAgree == \A i \in Item \ raced : Agrees(item[i])

(* No task reaches HubSpot for an item that nobody ever approved, whatever *)
(* the threads overwrite ("CRO or admin approval is required before        *)
(* execution", api.py).                                                    *)
TasksNeedApproval ==
    \A n \in DOMAIN tasks : tasks[n].item \in approved

(* A task id on a row is one that was read back and entered in the ledger  *)
(* for that item; and unless handlers overlapped, an item never has        *)
(* another verified task than the one it names, however often executions   *)
(* failed, were abandoned or retried (execute_work_item_hubspot_task).     *)
VerifiedTasks ==
    \A i \in Item :
        /\ item[i].external # 0 =>
              item[i].external \in ledger /\ tasks[item[i].external].item = i
        /\ i \notin raced =>
              \A n \in ledger : tasks[n].item = i => n = item[i].external

(* Every commit has its entry on the audit trail, as long as no handler    *)
(* wrote an audit_history that had grown since it read it.                 *)
AuditComplete ==
    \A i \in Item \ raced : item[i].audit = commits[i]

(* What was done for an item is on record: its verified task on the row,   *)
(* and each commit on its audit trail (api.py).                            *)
TasksOnRecord == VerifiedTasks /\ AuditComplete

(* A dismissed or closed item leaves that state only by a reopen, also     *)
(* when an execution of it was under way (unless handlers overlapped).     *)
ClosedStaysClosed ==
    [][\A i \in Item :
          item[i].status \in Terminal /\ item'[i].status \notin Terminal
             => i \in raced' \/ item'[i].status = "triaged"]_vars

(* What the documents say without a condition.                             *)

(* "Retries with the same key return the verified task without creating a  *)
(* duplicate" (the preview of api.py).                                     *)
RetriesCreateNoDuplicate ==
    \A m, n \in DOMAIN tasks : m # n => tasks[m] # tasks[n]

(* "If dedupe_key matches an active item for the tenant, the existing      *)
(* active item is returned instead of creating a duplicate"                *)
(* (docs/WORK_ITEMS_API.md).                                               *)
OneActivePerKey ==
    \A i, j \in Item :
        i # j /\ Active(i) /\ Active(j) /\ item[i].dedupe # None
            => item[i].dedupe # item[j].dedupe

(* "Audit events are append-only" (docs/WORK_ITEMS_API.md): no commit      *)
(* leaves the trail without its own entry and all the earlier ones.        *)
AuditAppendOnly == \A i \in Item : item[i].audit = commits[i]
=============================================================================
