-------------------------- MODULE WorkItemsProofs --------------------------
(***************************************************************************)
(* Proofs about WorkItems for any items, threads, keys and bounds.         *)
(***************************************************************************)
EXTENDS WorkItems, TLAPS

(* An UPDATE keeps a row a row, and takes each column from the session if  *)
(* the session changed it and from the table otherwise.                    *)
LEMMA UpdateRow ==
    ASSUME NEW row \in Row, NEW seen \in Row, NEW new \in Row
    PROVE  /\ Update(row, seen, new) \in Row
           /\ Update(row, seen, new).approval =
                 IF new.approval # seen.approval THEN new.approval ELSE row.approval
  BY DEF Update, Row

(* Every command leads to a status of the lifecycle.                       *)
LEMMA TransitionsStatus ==
    ASSUME NEW s \in Status, NEW a \in DOMAIN Transitions[s]
    PROVE  Transitions[s][a] \in Status
  BY DEF Transitions, Status

(* What a command makes of a row is a row.                                 *)
LEMMA AfterRow ==
    ASSUME NEW row \in Row, row.status \in Status, NEW a \in DOMAIN Transitions[row.status]
    PROVE  After(row, a) \in Row
<1>1. Transitions[row.status][a] \in Status
  BY TransitionsStatus
<1>2. a \in DOMAIN ApprovalOf => ApprovalOf[a] \in Approval
  BY DEF ApprovalOf, Approval
<1>3. a \in DOMAIN ExecutionOf => ExecutionOf[a] \in Execution
  BY DEF ExecutionOf, Execution
<1> QED
  BY <1>1, <1>2, <1>3 DEF After, Row

-----------------------------------------------------------------------------
(* Type correctness.                                                       *)

(* The part of TypeOK that a step of one thread has to re-establish.       *)
ThreadOK(state) ==
    /\ state \in ThreadState
    /\ state.pc \notin {"idle", "insert"} => state.item \in Item
    /\ state.pc \in {"begin", "refresh", "create"} => state.key \in IdemKey

(* A thread that moves to a well-typed state leaves the threads well       *)
(* typed.                                                                  *)
LEMMA BecomesOK ==
    ASSUME TypeOK, NEW t \in Thread, NEW state, ThreadOK(state), Becomes(t, state)
    PROVE  /\ thread' \in [Thread -> ThreadState]
           /\ \A u \in Thread : ThreadOK(thread'[u])
           /\ thread'[t] = state
           /\ \A u \in Thread \ {t} : thread'[u] = thread[u]
  BY DEF TypeOK, ThreadOK, Becomes

(* A thread that goes on to its next step keeps its item and its key.      *)
LEMMA GoesOK ==
    ASSUME TypeOK, NEW t \in Thread, NEW pc \in {"refresh", "failed", "verified"},
           Goes(t, pc),
           thread[t].pc \in {"begin", "create", "readback"},
           pc = "refresh" => thread[t].pc = "begin"
    PROVE  /\ thread' \in [Thread -> ThreadState]
           /\ \A u \in Thread : ThreadOK(thread'[u])
  BY ZenonT(60) DEF TypeOK, ThreadOK, Goes, ThreadState

(* The empty table and the idle threads are well typed.                    *)
LEMMA InitTypeOK == Init => TypeOK
<1>1. AbsentRow \in Row
  BY DEF AbsentRow, Row, Approval, Execution
<1>2. Idle \in ThreadState /\ Idle.pc = "idle"
  BY <1>1 DEF Idle, ThreadState
<1>3. <<>> \in Seq([item : Item, key : IdemKey])
  OBVIOUS
<1> QED
  BY <1>1, <1>2, <1>3 DEF Init, TypeOK

(* The idle state is well typed.                                           *)
LEMMA IdleOK == ThreadOK(Idle)
  BY DEF ThreadOK, Idle, ThreadState, AbsentRow, Row, Approval, Execution

(* A handler that has read a row.                                          *)
LEMMA ReadsOK ==
    ASSUME TypeOK, NEW t \in Thread, NEW i \in Item, NEW pc \in {"commit", "begin"},
           NEW key \in IdemKey \cup {None}, pc = "begin" => key \in IdemKey,
           NEW new \in Row, Reads(t, i, pc, key, new)
    PROVE  TypeOK'
<1> DEFINE state == [pc |-> pc, item |-> i, seen |-> item[i],
                     new |-> [new EXCEPT !.audit = @ + 1], key |-> key, task |-> 0]
<1>1. item[i] \in Row
  BY DEF TypeOK
<1>2. [new EXCEPT !.audit = @ + 1] \in Row
  BY DEF Row
<1>3. ThreadOK(state)
  BY <1>1, <1>2 DEF ThreadOK, ThreadState
<1>4. Becomes(t, state) /\ UNCHANGED <<item, tasks, ledger, commits, raced, approved>>
  BY DEF Reads
<1> HIDE DEF state
<1> QED
  BY <1>3, <1>4, BecomesOK DEF TypeOK, ThreadOK

(* A commit of a row.                                                      *)
LEMMA WritesOK ==
    ASSUME TypeOK, NEW t \in Thread, thread[t].pc \notin {"idle", "insert"},
           NEW new \in Row, Writes(t, new)
    PROVE  /\ item' \in [Item -> Row]
           /\ commits' \in [Item -> Nat]
           /\ raced' \in SUBSET Item
<1>1. thread[t].item \in Item /\ thread[t].seen \in Row
  BY DEF TypeOK, ThreadState
<1>2. item[thread[t].item] \in Row
  BY <1>1 DEF TypeOK
<1>3. Update(item[thread[t].item], thread[t].seen, new) \in Row
  BY <1>1, <1>2, UpdateRow
<1> QED
  BY <1>1, <1>3 DEF TypeOK, Writes

(* The commands that a client gives.                                       *)
LEMMA CommandTypeOK ==
    ASSUME TypeOK, NEW t \in Thread, Command(t)
    PROVE  TypeOK'
<1>1. ASSUME NEW new \in NewItem, NEW k \in DedupeKey \cup {None}, LookUp(t, new, k)
      PROVE  TypeOK'
  <2> DEFINE row == NewRow(new, k)
             state == [Idle EXCEPT !.pc = "insert", !.new = row]
  <2>1. new.status \in Status /\ new.approval \in Approval
    BY WorkItemsAssumption DEF WorkItemsAssumption
  <2>2. row \in Row
    BY <2>1 DEF Row, NewRow, AbsentRow, Execution
  <2>3. ThreadOK(state)
    BY <2>2, IdleOK DEF ThreadOK, Idle, ThreadState
  <2>4. Becomes(t, state) /\ UNCHANGED <<item, tasks, ledger, commits, raced, approved>>
    BY <1>1 DEF LookUp
  <2> HIDE DEF state
  <2> QED
    BY <2>3, <2>4, BecomesOK DEF TypeOK, ThreadOK
<1>2. ASSUME NEW i \in Item PROVE item[i] \in Row
  BY <1>2 DEF TypeOK
<1>3. ASSUME NEW i \in Item, NEW a \in Action, Transition(t, i, a) PROVE TypeOK'
  <2>1. item[i].status \in Status /\ a \in DOMAIN Transitions[item[i].status]
    BY <1>2, <1>3 DEF Transition, Present, Row
  <2>2. After(item[i], a) \in Row
    BY <1>2, <2>1, AfterRow
  <2> QED
    BY <1>3, <2>2, ReadsOK DEF Transition
<1>4. ASSUME NEW i \in Item, Annotate(t, i) PROVE TypeOK'
  BY <1>2, <1>4, ReadsOK DEF Annotate
<1>5. ASSUME NEW i \in Item, CloseReviewed(t, i) PROVE TypeOK'
  <2>1. [item[i] EXCEPT !.status = "closed", !.execution = "verified"] \in Row
    BY <1>2 DEF Row, Status, Execution
  <2> QED
    BY <1>5, <2>1, ReadsOK DEF CloseReviewed
<1>6. ASSUME NEW i \in Item, NEW k \in IdemKey, Execute(t, i, k) PROVE TypeOK'
  <2>1. [item[i] EXCEPT !.approval = "approved", !.status = "in_progress",
                        !.execution = "pending", !.key = k] \in Row
    BY <1>2 DEF Row, Status, Execution, Approval
  <2> QED
    BY <1>6, <2>1, ReadsOK DEF Execute
<1> QED
  BY <1>1, <1>3, <1>4, <1>5, <1>6 DEF Command

(* The steps of a handler.                                                 *)
LEMMA ThreadTypeOK ==
    ASSUME TypeOK, NEW t \in Thread, ThreadStep(t)
    PROVE  TypeOK'
<1> DEFINE ThreadsOK == /\ thread' \in [Thread -> ThreadState]
                        /\ \A u \in Thread : ThreadOK(thread'[u])
<1>1. thread[t].seen \in Row /\ thread[t].new \in Row /\ thread[t].task \in Nat
  BY DEF TypeOK, ThreadState
<1>2. Becomes(t, Idle) => ThreadsOK
  BY IdleOK, BecomesOK
<1>3. ASSUME ThreadsOK, UNCHANGED <<item, tasks, ledger, commits, raced, approved>>
      PROVE  TypeOK'
  BY <1>3 DEF TypeOK, ThreadOK
<1>4. ASSUME NEW i \in Item, Insert(t, i) PROVE TypeOK'
  <2>1. item' \in [Item -> Row] /\ commits' \in [Item -> Nat]
    BY <1>1, <1>4 DEF Insert, TypeOK
  <2> QED
    BY <1>2, <1>4, <2>1 DEF Insert, TypeOK, ThreadOK
<1>5. CASE Commit(t)
  <2>1. thread[t].item \in Item /\ thread[t].pc = "commit"
    BY <1>5 DEF Commit, TypeOK
  <2>2. /\ item' \in [Item -> Row] /\ commits' \in [Item -> Nat] /\ raced' \in SUBSET Item
    BY <1>1, <1>5, <2>1, WritesOK DEF Commit
  <2>3. approved' \in SUBSET Item
    BY <1>5, <2>1 DEF Commit, TypeOK
  <2> QED
    BY <1>2, <1>5, <2>2, <2>3 DEF Commit, TypeOK, ThreadOK
<1>6. CASE Begin(t)
  <2>1. /\ item' \in [Item -> Row] /\ commits' \in [Item -> Nat] /\ raced' \in SUBSET Item
    BY <1>1, <1>6, WritesOK DEF Begin
  <2>2. ThreadsOK
    BY <1>6, GoesOK DEF Begin
  <2> QED
    BY <1>6, <2>1, <2>2 DEF Begin, TypeOK, ThreadOK
<1>7. CASE Refresh(t)
  <2>1. thread[t].item \in Item /\ item[thread[t].item] \in Row /\ ThreadOK(thread[t])
    BY <1>7 DEF Refresh, TypeOK, ThreadOK
  <2> DEFINE state == [thread[t] EXCEPT !.pc = "create", !.seen = item[thread[t].item]]
  <2>2. ThreadOK(state)
    BY <1>7, <2>1 DEF Refresh, ThreadOK, ThreadState
  <2>3. Becomes(t, state)
    BY <1>7 DEF Refresh
  <2> HIDE DEF state
  <2>4. ThreadsOK
    BY <2>2, <2>3, BecomesOK
  <2> QED
    BY <1>7, <2>1, <2>4 DEF Refresh, TypeOK, ThreadOK
<1>8. CASE CreateTask(t)
  <2>1. /\ thread[t].item \in Item /\ thread[t].key \in IdemKey
        /\ thread[t].pc = "create" /\ ThreadOK(thread[t])
    BY <1>8 DEF CreateTask, TypeOK, ThreadOK
  <2>2. tasks' \in Seq([item : Item, key : IdemKey])
    BY <1>8, <2>1 DEF CreateTask, TypeOK
  <2> DEFINE state == [thread[t] EXCEPT !.pc = "readback", !.task = Len(tasks) + 1]
  <2>3. Len(tasks) + 1 \in Nat
    BY DEF TypeOK
  <2>4. ThreadOK(state)
    BY <2>1, <2>3 DEF ThreadOK, ThreadState
  <2>5. Becomes(t, state) \/ Goes(t, "failed")
    BY <1>8 DEF CreateTask
  <2> HIDE DEF state
  <2>6. ThreadsOK
    BY <2>1, <2>4, <2>5, BecomesOK, GoesOK
  <2> QED
    BY <1>8, <2>2, <2>6 DEF CreateTask, TypeOK, ThreadOK
<1>9. CASE TaskRefused(t)
  BY <1>3, <1>9, GoesOK DEF TaskRefused
<1>10. CASE ReadBack(t)
  BY <1>3, <1>10, GoesOK DEF ReadBack
<1>11. ASSUME NEW row \in Row, thread[t].pc \in {"verified", "failed"}, Finishes(t, row),
              ledger' \in SUBSET Nat
       PROVE  TypeOK'
  <2>1. [row EXCEPT !.audit = @ + 1] \in Row
    BY DEF Row
  <2>2. /\ item' \in [Item -> Row] /\ commits' \in [Item -> Nat] /\ raced' \in SUBSET Item
    BY <1>11, <2>1, WritesOK DEF Finishes
  <2> QED
    BY <1>2, <1>11, <2>2 DEF Finishes, TypeOK, ThreadOK
<1>12. CASE FinishVerified(t)
  <2>1. [thread[t].seen EXCEPT !.status = "verified", !.execution = "verified",
                               !.external = thread[t].task] \in Row
    BY <1>1 DEF Row, Status, Execution
  <2> QED
    BY <1>1, <1>11, <1>12, <2>1 DEF FinishVerified, TypeOK
<1>13. CASE FinishFailed(t)
  <2>1. [thread[t].seen EXCEPT !.execution = "failed"] \in Row
    BY <1>1 DEF Row, Execution
  <2> QED
    BY <1>11, <1>13, <2>1 DEF FinishFailed, TypeOK
<1>14. CASE Abandon(t)
  BY <1>2, <1>3, <1>14 DEF Abandon
<1> QED
  BY <1>4, <1>5, <1>6, <1>7, <1>8, <1>9, <1>10, <1>12, <1>13, <1>14 DEF ThreadStep

(* Every step, and every stuttering step, keeps the types.                 *)
LEMMA StepTypeOK == TypeOK /\ [Next]_vars => TypeOK'
<1>1. TypeOK /\ UNCHANGED vars => TypeOK'
  BY DEF TypeOK, vars
<1> QED
  BY <1>1, CommandTypeOK, ThreadTypeOK DEF Next

(* Every reachable state of the work items is well typed.                  *)
THEOREM TypeCorrect == Spec => []TypeOK
  BY InitTypeOK, StepTypeOK, PTL DEF Spec

-----------------------------------------------------------------------------
(* No HubSpot task without an approval.  A row that says "approved", and a *)
(* handler that has read such a row or is on its way to HubSpot, stand for *)
(* an approval that somebody once gave: a handler can overwrite what it    *)
(* did not see, but no UPDATE makes up an approval that neither the table  *)
(* nor the session had.                                                    *)
ApprovalsAreReal ==
    /\ \A i \in Item : item[i].approval = "approved" => i \in approved
    /\ \A t \in Thread :
          LET state == thread[t] IN
          /\ state.pc = "insert" => state.new.approval # "approved"
          /\ state.pc \notin {"idle", "insert"} /\ state.seen.approval = "approved"
                => state.item \in approved
          /\ state.pc \in {"begin", "refresh", "create"} => state.item \in approved

IInv == TypeOK /\ ApprovalsAreReal /\ TasksNeedApproval

(* With no item created, nobody has approved anything.                     *)
LEMMA InitIInv == Init => IInv
<1> SUFFICES ASSUME Init PROVE IInv
  OBVIOUS
<1>1. TypeOK
  BY InitTypeOK
<1>2. /\ \A i \in Item : item[i].approval = "not_required"
      /\ \A t \in Thread : thread[t].pc = "idle"
      /\ tasks = <<>>
  BY DEF Init, AbsentRow, Idle
<1> QED
  BY <1>1, <1>2 DEF IInv, ApprovalsAreReal, TasksNeedApproval

(* The approvals stay real if one thread moves to a state that rests on    *)
(* them and no row gains an approval.                                      *)
RealState(state) ==
    /\ state.pc = "insert" => state.new.approval # "approved"
    /\ state.pc \notin {"idle", "insert"} /\ state.seen.approval = "approved"
          => state.item \in approved
    /\ state.pc \in {"begin", "refresh", "create"} => state.item \in approved

(* A step that moves one thread to a state with real approvals, and writes *)
(* nothing, keeps the invariant.                                           *)
LEMMA ApprovalsKept ==
    ASSUME IInv, NEW t \in Thread, RealState(thread'[t]),
           \A u \in Thread \ {t} : thread'[u] = thread[u],
           UNCHANGED <<item, approved>>
    PROVE  ApprovalsAreReal'
  BY DEF IInv, ApprovalsAreReal, RealState

(* The commands: what they read is approved only if somebody approved it.  *)
LEMMA CommandApprovals ==
    ASSUME IInv, NEW t \in Thread, Command(t)
    PROVE  ApprovalsAreReal' /\ TasksNeedApproval'
<1>1. TypeOK /\ thread \in [Thread -> ThreadState]
  BY DEF IInv, TypeOK
<1>2. ASSUME NEW new \in NewItem, NEW k \in DedupeKey \cup {None}, LookUp(t, new, k)
      PROVE  ApprovalsAreReal' /\ TasksNeedApproval'
  <2> DEFINE state == [Idle EXCEPT !.pc = "insert", !.new = NewRow(new, k)]
  <2>1. Becomes(t, state) /\ UNCHANGED <<item, tasks, ledger, commits, raced, approved>>
    BY <1>2 DEF LookUp
  <2>2. state.pc = "insert" /\ state.new.approval # "approved"
    BY ClientAssumption DEF ClientAssumption, Idle, NewRow, AbsentRow
  <2> HIDE DEF state
  <2>3. RealState(thread'[t]) /\ \A u \in Thread \ {t} : thread'[u] = thread[u]
    BY <1>1, <2>1, <2>2 DEF Becomes, RealState
  <2> QED
    BY <2>1, <2>3, ApprovalsKept DEF IInv, TasksNeedApproval
<1>3. ASSUME NEW i \in Item, NEW pc \in {"commit", "begin"}, NEW key, NEW new,
             Reads(t, i, pc, key, new), pc = "begin" => item[i].approval = "approved"
      PROVE  ApprovalsAreReal' /\ TasksNeedApproval'
  <2> DEFINE state == [pc |-> pc, item |-> i, seen |-> item[i],
                       new |-> [new EXCEPT !.audit = @ + 1], key |-> key, task |-> 0]
  <2>1. Becomes(t, state) /\ UNCHANGED <<item, tasks, ledger, commits, raced, approved>>
    BY <1>3 DEF Reads
  <2>2. RealState(state)
    BY <1>3 DEF RealState, IInv, ApprovalsAreReal
  <2> HIDE DEF state
  <2>3. thread'[t] = state /\ \A u \in Thread \ {t} : thread'[u] = thread[u]
    BY <1>1, <2>1 DEF Becomes
  <2> QED
    BY <2>1, <2>2, <2>3, ApprovalsKept DEF IInv, TasksNeedApproval
<1> QED
  BY <1>2, <1>3 DEF Command, Transition, Annotate, CloseReviewed, Execute, MayExecute

(* A commit of a row whose approval is the one that the session read, or   *)
(* is noted in the same step.                                              *)
LEMMA WriteApprovals ==
    ASSUME IInv, NEW t \in Thread, thread[t].pc \notin {"idle", "insert"},
           NEW new \in Row, Writes(t, new), approved \subseteq approved',
           new.approval = "approved" =>
              \/ thread[t].seen.approval = "approved"
              \/ thread[t].item \in approved'
    PROVE  \A i \in Item : item'[i].approval = "approved" => i \in approved'
<1> DEFINE j == thread[t].item
<1>1. TypeOK /\ j \in Item /\ thread[t].seen \in Row /\ item[j] \in Row
  BY DEF IInv, TypeOK, ThreadState
<1>2. item' = [item EXCEPT ![j] = Update(item[j], thread[t].seen, new)]
  BY DEF Writes
<1>3. Update(item[j], thread[t].seen, new).approval =
        IF new.approval # thread[t].seen.approval THEN new.approval ELSE item[j].approval
  BY <1>1, UpdateRow
<1>4. /\ item'[j].approval =
            IF new.approval # thread[t].seen.approval THEN new.approval ELSE item[j].approval
      /\ \A i \in Item \ {j} : item'[i] = item[i]
  BY <1>1, <1>2, <1>3 DEF TypeOK
<1> HIDE DEF j
<1>5. item[j].approval = "approved" => j \in approved
  BY <1>1 DEF IInv, ApprovalsAreReal
<1>6. item'[j].approval = "approved" => j \in approved'
  BY <1>4, <1>5 DEF j
<1> QED
  BY <1>4, <1>6 DEF IInv, ApprovalsAreReal

(* No step of an execution invents an approval, or creates a task without  *)
(* one.                                                                    *)
LEMMA ThreadApprovals ==
    ASSUME IInv, NEW t \in Thread, ThreadStep(t)
    PROVE  ApprovalsAreReal' /\ TasksNeedApproval'
<1>1. /\ TypeOK /\ thread \in [Thread -> ThreadState]
      /\ thread[t].seen \in Row /\ thread[t].new \in Row /\ thread[t].task \in Nat
  BY DEF IInv, TypeOK, ThreadState
<1>2. ASSUME NEW state, Becomes(t, state)
      PROVE  thread'[t] = state /\ \A u \in Thread \ {t} : thread'[u] = thread[u]
  BY <1>1, <1>2 DEF Becomes
<1>3. ASSUME NEW pc, Goes(t, pc)
      PROVE  /\ thread'[t] = [thread[t] EXCEPT !.pc = pc]
             /\ \A u \in Thread \ {t} : thread'[u] = thread[u]
  BY <1>1, <1>3 DEF Goes
<1>4. RealState(thread[t]) /\ RealState(Idle)
  BY DEF IInv, ApprovalsAreReal, RealState, Idle
<1>5. ASSUME UNCHANGED <<tasks, approved>> PROVE TasksNeedApproval'
  BY <1>5 DEF IInv, TasksNeedApproval
<1>6. ASSUME NEW new \in Row, Writes(t, new), thread[t].pc \notin {"idle", "insert"},
             \/ UNCHANGED approved
             \/ approved' = approved \cup {thread[t].item},
             new.approval = "approved" =>
                \/ thread[t].seen.approval = "approved"
                \/ thread[t].item \in approved',
             NEW state, RealState(state), thread'[t] = state,
             \A u \in Thread \ {t} : thread'[u] = thread[u]
      PROVE  ApprovalsAreReal'
  <2>1. \A i \in Item : item'[i].approval = "approved" => i \in approved'
    BY <1>6, WriteApprovals
  <2> QED
    BY <1>6, <2>1 DEF IInv, ApprovalsAreReal, RealState
<1>7. ASSUME NEW i \in Item, Insert(t, i) PROVE ApprovalsAreReal' /\ TasksNeedApproval'
  <2>1. /\ item' = [item EXCEPT ![i] = thread[t].new] /\ thread[t].pc = "insert"
        /\ thread'[t] = Idle /\ \A u \in Thread \ {t} : thread'[u] = thread[u]
        /\ UNCHANGED <<tasks, approved>>
    BY <1>2, <1>7 DEF Insert
  <2>2. thread[t].new.approval # "approved"
    BY <2>1 DEF IInv, ApprovalsAreReal
  <2>3. \A j \in Item : item'[j].approval = "approved" => j \in approved'
    BY <2>1, <2>2 DEF IInv, ApprovalsAreReal, TypeOK
  <2> QED
    BY <1>4, <1>5, <2>1, <2>3 DEF IInv, ApprovalsAreReal, RealState
<1>8. CASE Commit(t)
  <2>1. /\ thread[t].pc = "commit" /\ Writes(t, thread[t].new) /\ Becomes(t, Idle)
        /\ UNCHANGED tasks
        /\ approved' = IF thread[t].new.approval = "approved"
                          /\ thread[t].seen.approval # "approved"
                        THEN approved \cup {thread[t].item} ELSE approved
    BY <1>8 DEF Commit
  <2>2. thread'[t] = Idle /\ \A u \in Thread \ {t} : thread'[u] = thread[u]
    BY <1>2, <2>1
  <2>3. ApprovalsAreReal'
    BY <1>1, <1>4, <1>6, <2>1, <2>2
  <2> QED
    BY <2>1, <2>3 DEF IInv, TasksNeedApproval
<1>9. CASE Begin(t)
  <2>1. /\ thread[t].pc = "begin" /\ Writes(t, thread[t].new) /\ Goes(t, "refresh")
        /\ UNCHANGED <<tasks, approved>>
    BY <1>9 DEF Begin
  <2>2. thread[t].item \in approved
    BY <1>4, <2>1 DEF RealState
  <2>3. RealState([thread[t] EXCEPT !.pc = "refresh"])
    BY <1>1, <1>4, <2>1, <2>2 DEF RealState, ThreadState
  <2>4. ApprovalsAreReal'
    BY <1>1, <1>3, <1>6, <2>1, <2>2, <2>3
  <2> QED
    BY <1>5, <2>1, <2>4
<1>10. CASE Refresh(t)
  <2> DEFINE state == [thread[t] EXCEPT !.pc = "create", !.seen = item[thread[t].item]]
  <2>1. /\ thread[t].pc = "refresh" /\ Becomes(t, state)
        /\ UNCHANGED <<item, tasks, approved>>
    BY <1>10 DEF Refresh
  <2>2. RealState(state)
    BY <1>1, <1>4, <2>1 DEF RealState, ThreadState
  <2> HIDE DEF state
  <2> QED
    BY <1>2, <1>5, <2>1, <2>2, ApprovalsKept
<1>11. CASE CreateTask(t)
  <2> DEFINE state == [thread[t] EXCEPT !.pc = "readback", !.task = Len(tasks) + 1]
  <2>1. /\ thread[t].pc = "create"
        /\ Becomes(t, state) \/ Goes(t, "failed")
        /\ tasks' = Append(tasks, [item |-> thread[t].item, key |-> thread[t].key])
        /\ UNCHANGED <<item, approved>>
    BY <1>11 DEF CreateTask
  <2>2. RealState(state) /\ RealState([thread[t] EXCEPT !.pc = "failed"])
    BY <1>1, <1>4, <2>1 DEF RealState, ThreadState
  <2> HIDE DEF state
  <2>3. ApprovalsAreReal'
    BY <1>2, <1>3, <2>1, <2>2, ApprovalsKept
  <2>4. TasksNeedApproval'
    <3>1. thread[t].item \in approved
      BY <1>4, <2>1 DEF RealState
    <3> QED
      BY <1>1, <2>1, <3>1 DEF IInv, TasksNeedApproval, TypeOK
  <2> QED
    BY <2>3, <2>4
<1>12. CASE TaskRefused(t) \/ ReadBack(t)
  <2>1. PICK pc \in {"failed", "verified"} : Goes(t, pc)
    BY <1>12 DEF TaskRefused, ReadBack
  <2>2. /\ thread[t].pc \in {"create", "readback"}
        /\ UNCHANGED <<item, tasks, approved>>
    BY <1>12 DEF TaskRefused, ReadBack
  <2>3. RealState([thread[t] EXCEPT !.pc = pc])
    BY <1>1, <1>4, <2>2 DEF RealState, ThreadState
  <2> QED
    BY <1>3, <1>5, <2>1, <2>2, <2>3, ApprovalsKept
<1>13. ASSUME NEW row \in Row, row.approval = thread[t].seen.approval,
              thread[t].pc \in {"verified", "failed"}, Finishes(t, row)
       PROVE  ApprovalsAreReal' /\ TasksNeedApproval'
  <2> DEFINE new == [row EXCEPT !.audit = @ + 1]
  <2>1. new \in Row /\ new.approval = row.approval
    BY DEF Row
  <2>2. Writes(t, new) /\ Becomes(t, Idle) /\ UNCHANGED <<tasks, approved>>
    BY <1>13 DEF Finishes
  <2> HIDE DEF new
  <2>3. ApprovalsAreReal'
    BY <1>2, <1>4, <1>6, <1>13, <2>1, <2>2
  <2> QED
    BY <1>5, <2>2, <2>3
<1>14. CASE FinishVerified(t)
  <2> DEFINE row == [thread[t].seen EXCEPT !.status = "verified", !.execution = "verified",
                                           !.external = thread[t].task]
  <2>1. row \in Row /\ row.approval = thread[t].seen.approval
    BY <1>1 DEF Row, Status, Execution
  <2> QED
    BY <1>13, <1>14, <2>1 DEF FinishVerified
<1>15. CASE FinishFailed(t)
  <2> DEFINE row == [thread[t].seen EXCEPT !.execution = "failed"]
  <2>1. row \in Row /\ row.approval = thread[t].seen.approval
    BY <1>1 DEF Row, Execution
  <2> QED
    BY <1>13, <1>15, <2>1 DEF FinishFailed
<1>16. CASE Abandon(t)
  BY <1>2, <1>4, <1>5, <1>16, ApprovalsKept DEF Abandon
<1> QED
  BY <1>7, <1>8, <1>9, <1>10, <1>11, <1>12, <1>14, <1>15, <1>16 DEF ThreadStep

(* Every step, and every stuttering step, keeps the invariant.             *)
LEMMA StepIInv == IInv /\ [Next]_vars => IInv'
<1>1. IInv /\ UNCHANGED vars => IInv'
  BY StepTypeOK DEF IInv, ApprovalsAreReal, TasksNeedApproval, vars
<1> QED
  BY <1>1, StepTypeOK, CommandApprovals, ThreadApprovals DEF IInv, Next

(* No HubSpot task is ever created for an item that nobody approved,       *)
(* whatever the number of threads and whatever they overwrite              *)
(* (execute_work_item_hubspot_task).                                       *)
THEOREM NoTaskWithoutApproval == Spec => []TasksNeedApproval
<1>1. IInv => TasksNeedApproval
  BY DEF IInv
<1> QED
  BY <1>1, InitIInv, StepIInv, PTL DEF Spec
-----------------------------------------------------------------------------
(* What a session knows of its row, as long as nobody has written the row  *)
(* since: the row it will write agrees if the one it read did, names the   *)
(* same task, has one audit entry more, and leaves a closed item closed    *)
(* unless it reopens it; and an execution under way is of an item that is  *)
(* in progress and has no task yet.                                        *)
SoundSession(s) ==
    /\ s.pc = "insert" =>
          /\ Agrees(s.new)
          /\ s.new.status # "absent"
          /\ s.new.external = 0 /\ s.new.audit = 1
    /\ s.pc \notin {"idle", "insert"} => Present(s.item)
    /\ s.pc \in {"commit", "begin"} =>
          /\ Agrees(s.seen) => Agrees(s.new)
          /\ s.new.status # "absent"
          /\ s.seen.status \in Terminal => s.new.status \in Terminal \cup {"triaged"}
          /\ s.new.external = s.seen.external
          /\ s.new.audit = s.seen.audit + 1
    /\ s.pc \in {"begin", "refresh"} => s.new.status = "in_progress" /\ s.new.external = 0
    /\ s.pc = "begin" => s.seen.status \notin Terminal
    /\ s.pc \in {"create", "readback", "verified", "failed"} => s.seen.status # "absent"
    /\ s.pc \in {"create", "readback", "verified", "failed"} /\ s.item \notin raced =>
          s.seen.status = "in_progress" /\ s.seen.external = 0
    /\ s.pc \in {"readback", "verified"} =>
          s.task \in DOMAIN tasks /\ tasks[s.task].item = s.item

(* An id that is not in the table names no task.                           *)
AbsentUnlinked == \A i \in Item : ~ Present(i) => item[i].external = 0

RInv ==
    /\ TypeOK
    /\ \A t \in Thread : SoundSession(thread[t])
    /\ ledger \subseteq DOMAIN tasks
    /\ AbsentUnlinked
    /\ ColumnsAgree
    /\ VerifiedTasks
    /\ AuditComplete

(* An UPDATE by a session whose row nobody has written since leaves the    *)
(* row exactly as the session has it.                                      *)
LEMMA UpdateFresh ==
    ASSUME NEW seen \in Row, NEW new \in Row
    PROVE  Update(seen, seen, new) = new
<1>1. Update(seen, seen, new) = [c \in DOMAIN seen |-> new[c]]
  BY DEF Update
<1>2. DOMAIN seen = DOMAIN new /\ new = [c \in DOMAIN new |-> new[c]]
  BY DEF Row
<1> QED
  BY <1>1, <1>2

(* An UPDATE never takes a row out of the table, and leaves the task of a  *)
(* row alone if the session does.                                          *)
LEMMA UpdateKeeps ==
    ASSUME NEW row \in Row, NEW seen \in Row, NEW new \in Row
    PROVE  /\ row.status # "absent" /\ new.status # "absent"
                => Update(row, seen, new).status # "absent"
           /\ Update(row, seen, new).external =
                 IF new.external # seen.external THEN new.external ELSE row.external
  BY DEF Update, Row

(* A commit: what it does to its own row, which stays out of `raced` only  *)
(* if nobody has written it since the session read it, and to the others.  *)
LEMMA WriteRows ==
    ASSUME TypeOK, NEW t \in Thread, NEW i \in Item, i = thread[t].item,
           Present(i), NEW new \in Row, new.status # "absent", Writes(t, new)
    PROVE  /\ i \notin raced' =>
                 i \notin raced /\ item[i] = thread[t].seen /\ item'[i] = new
           /\ item'[i].status # "absent"
           /\ item'[i].external = IF new.external # thread[t].seen.external
                                   THEN new.external ELSE item[i].external
           /\ commits'[i] = commits[i] + 1
           /\ \A j \in Item \ {i} :
                 item'[j] = item[j] /\ commits'[j] = commits[j] /\ (j \in raced' <=> j \in raced)
           /\ raced \subseteq raced'
<1>1. thread[t].seen \in Row /\ item[i] \in Row
  BY DEF TypeOK, ThreadState
<1>2. item' = [item EXCEPT ![i] = Update(item[i], thread[t].seen, new)]
  BY DEF Writes
<1>3. item'[i] = Update(item[i], thread[t].seen, new)
  BY <1>2 DEF TypeOK
<1>4. /\ item'[i].status # "absent"
      /\ item'[i].external = IF new.external # thread[t].seen.external
                               THEN new.external ELSE item[i].external
  BY <1>1, <1>3, UpdateKeeps DEF Present
<1>5. raced' = IF item[i] = thread[t].seen THEN raced ELSE raced \cup {i}
  BY DEF Writes
<1>6. item[i] = thread[t].seen => item'[i] = new
  BY <1>1, <1>3, UpdateFresh
<1> QED
  BY <1>2, <1>4, <1>5, <1>6 DEF Writes, TypeOK

(* What every command makes of a row.                                      *)
LEMMA AfterSound ==
    ASSUME NEW row \in Row, row.status \in Status, NEW a \in DOMAIN Transitions[row.status]
    PROVE  /\ Agrees(row) => Agrees(After(row, a))
           /\ After(row, a).status # "absent"
           /\ row.status \in Terminal => After(row, a).status = "triaged"
           /\ After(row, a).external = row.external
           /\ After(row, a).audit = row.audit
  BY DEF After, Agrees, Transitions, ApprovalOf, ExecutionOf, Row, Status, Terminal

(* The table, the portal and the overlaps only grow.                       *)
Grows ==
    /\ \A i \in Item : Present(i) => Present(i)'
    /\ raced \subseteq raced'
    /\ \A n \in DOMAIN tasks : n \in DOMAIN tasks' /\ tasks'[n] = tasks[n]

(* What the rows, the ledger and the portal say of each other.             *)
RowsInv ==
    /\ ledger \subseteq DOMAIN tasks
    /\ AbsentUnlinked
    /\ ColumnsAgree
    /\ VerifiedTasks
    /\ AuditComplete

(* A closed item stays closed in this step, unless it is reopened.         *)
ClosedKept ==
    \A i \in Item :
        item[i].status \in Terminal /\ item'[i].status \notin Terminal
            => i \in raced' \/ item'[i].status = "triaged"

(* The sessions stay sound if that of one thread does.                     *)
LEMMA SessionsKept ==
    ASSUME RInv, Grows, NEW t \in Thread, SoundSession(thread[t])',
           \A u \in Thread \ {t} : thread'[u] = thread[u]
    PROVE  \A u \in Thread : SoundSession(thread[u])'
<1> SUFFICES ASSUME NEW u \in Thread \ {t} PROVE SoundSession(thread[u])'
  OBVIOUS
<1>1. SoundSession(thread[u]) /\ thread'[u] = thread[u]
  BY DEF RInv
<1>2. thread[u].pc \notin {"idle", "insert"} => thread[u].item \in Item
  BY DEF RInv, TypeOK
<1> QED
  BY <1>1, <1>2 DEF SoundSession, Grows

(* Where no row is written, what the rows say stays true.                  *)
LEMMA RowsQuiet ==
    ASSUME RInv, Grows, UNCHANGED <<item, ledger, commits>>
    PROVE  RowsInv' /\ ClosedKept
<1>1. (ledger \subseteq DOMAIN tasks)' /\ AbsentUnlinked'
  BY DEF RInv, Grows, AbsentUnlinked, Present
<1>2. ColumnsAgree' /\ AuditComplete'
  BY DEF RInv, Grows, ColumnsAgree, AuditComplete
<1>3. VerifiedTasks'
  BY DEF RInv, Grows, VerifiedTasks
<1> QED
  BY <1>1, <1>2, <1>3 DEF RowsInv, ClosedKept

(* A commit that leaves the task of the row alone.                         *)
LEMMA RowsWritten ==
    ASSUME RInv, NEW t \in Thread, NEW i \in Item, i = thread[t].item, Present(i),
           NEW new \in Row, Writes(t, new), UNCHANGED <<tasks, ledger>>,
           new.status # "absent",
           new.external = thread[t].seen.external,
           i \notin raced' =>
              /\ Agrees(thread[t].seen) => Agrees(new)
              /\ new.audit = thread[t].seen.audit + 1
              /\ thread[t].seen.status \in Terminal =>
                    new.status \in Terminal \cup {"triaged"}
    PROVE  RowsInv' /\ Grows /\ ClosedKept
<1> DEFINE seen == thread[t].seen
<1>1. TypeOK
  BY DEF RInv
<1>2. /\ i \notin raced' => i \notin raced /\ item[i] = seen /\ item'[i] = new
      /\ item'[i].status # "absent"
      /\ item'[i].external = item[i].external
      /\ commits'[i] = commits[i] + 1
      /\ \A j \in Item \ {i} :
            item'[j] = item[j] /\ commits'[j] = commits[j] /\ (j \in raced' <=> j \in raced)
      /\ raced \subseteq raced'
  BY <1>1, WriteRows
<1>3. Grows
  BY <1>2 DEF Grows, Present
<1>4. (ledger \subseteq DOMAIN tasks)' /\ AbsentUnlinked'
  BY <1>2 DEF RInv, AbsentUnlinked, Present
<1>5. ColumnsAgree'
  BY <1>2 DEF RInv, ColumnsAgree
<1>6. AuditComplete'
  BY <1>2 DEF RInv, AuditComplete
<1>7. VerifiedTasks'
  BY <1>2 DEF RInv, VerifiedTasks
<1>8. ClosedKept
  BY <1>2 DEF ClosedKept
<1> QED
  BY <1>3, <1>4, <1>5, <1>6, <1>7, <1>8 DEF RowsInv

(* A client that looks up a key, or reads a row, begins a sound session.   *)
LEMMA CommandSound ==
    ASSUME RInv, NEW t \in Thread, Command(t)
    PROVE  SoundSession(thread[t])' /\ Grows /\ RowsInv' /\ ClosedKept
           /\ \A u \in Thread \ {t} : thread'[u] = thread[u]
<1>1. TypeOK /\ thread \in [Thread -> ThreadState]
  BY DEF RInv, TypeOK
<1>2. ASSUME UNCHANGED <<item, tasks, ledger, commits, raced>>
      PROVE  /\ Grows /\ RowsInv' /\ ClosedKept
             /\ \A s : SoundSession(s) =>
                   (thread'[t] = s => SoundSession(thread[t])')
  <2>1. Grows
    BY <1>2 DEF Grows, Present
  <2> QED
    BY <1>2, <2>1, RowsQuiet DEF SoundSession, Present
<1>3. ASSUME NEW new \in NewItem, NEW k \in DedupeKey \cup {None}, LookUp(t, new, k)
      PROVE  /\ SoundSession(thread[t])' /\ Grows /\ RowsInv' /\ ClosedKept
             /\ \A u \in Thread \ {t} : thread'[u] = thread[u]
  <2> DEFINE state == [Idle EXCEPT !.pc = "insert", !.new = NewRow(new, k)]
  <2>1. Becomes(t, state) /\ UNCHANGED <<item, tasks, ledger, commits, raced>>
    BY <1>3 DEF LookUp
  <2>2. /\ Agrees(NewRow(new, k)) /\ NewRow(new, k).status # "absent"
        /\ NewRow(new, k).external = 0 /\ NewRow(new, k).audit = 1
    BY WorkItemsAssumption, ClientColumnsAssumption
       DEF WorkItemsAssumption, NewRow, AbsentRow, Agrees, Status
  <2>3. SoundSession(state)
    BY <2>2 DEF SoundSession, Idle
  <2> HIDE DEF state
  <2>4. thread'[t] = state /\ \A u \in Thread \ {t} : thread'[u] = thread[u]
    BY <1>1, <2>1 DEF Becomes
  <2> QED
    BY <1>2, <2>1, <2>3, <2>4
<1>4. ASSUME NEW i \in Item, NEW pc \in {"commit", "begin"}, NEW key, NEW new \in Row,
             Reads(t, i, pc, key, new),
             Agrees(item[i]) => Agrees(new),
             new.status # "absent",
             item[i].status \in Terminal => new.status \in Terminal \cup {"triaged"},
             new.external = item[i].external,
             new.audit = item[i].audit,
             pc = "begin" => /\ new.status = "in_progress" /\ new.external = 0
                             /\ item[i].status \notin Terminal
      PROVE  /\ SoundSession(thread[t])' /\ Grows /\ RowsInv' /\ ClosedKept
             /\ \A u \in Thread \ {t} : thread'[u] = thread[u]
  <2> DEFINE row == [new EXCEPT !.audit = @ + 1]
             state == [pc |-> pc, item |-> i, seen |-> item[i],
                       new |-> row, key |-> key, task |-> 0]
  <2>1. Becomes(t, state) /\ Present(i) /\ UNCHANGED <<item, tasks, ledger, commits, raced>>
    BY <1>4 DEF Reads
  <2>2. /\ row.audit = new.audit + 1 /\ row.status = new.status
        /\ row.external = new.external /\ (Agrees(new) => Agrees(row))
    BY DEF Row, Agrees
  <2> HIDE DEF row
  <2>3. SoundSession(state)
    BY <1>4, <2>1, <2>2 DEF SoundSession
  <2> HIDE DEF state
  <2>4. thread'[t] = state /\ \A u \in Thread \ {t} : thread'[u] = thread[u]
    BY <1>1, <2>1 DEF Becomes
  <2> QED
    BY <1>2, <2>1, <2>3, <2>4
<1>5. ASSUME NEW i \in Item PROVE item[i] \in Row
  BY <1>1, <1>5 DEF TypeOK
<1>6. ASSUME NEW i \in Item, NEW a \in Action, Transition(t, i, a)
      PROVE  /\ SoundSession(thread[t])' /\ Grows /\ RowsInv' /\ ClosedKept
             /\ \A u \in Thread \ {t} : thread'[u] = thread[u]
  <2>1. item[i].status \in Status /\ a \in DOMAIN Transitions[item[i].status]
    BY <1>5, <1>6 DEF Transition, Present, Row
  <2>2. After(item[i], a) \in Row
    BY <1>5, <2>1, AfterRow
  <2> QED
    BY <1>4, <1>5, <1>6, <2>1, <2>2, AfterSound DEF Transition
<1>7. ASSUME NEW i \in Item, Annotate(t, i)
      PROVE  /\ SoundSession(thread[t])' /\ Grows /\ RowsInv' /\ ClosedKept
             /\ \A u \in Thread \ {t} : thread'[u] = thread[u]
  <2>1. item[i].status # "absent" /\ Reads(t, i, "commit", None, item[i])
    BY <1>7 DEF Annotate, Reads, Present
  <2> QED
    BY <1>4, <1>5, <2>1
<1>8. ASSUME NEW i \in Item, CloseReviewed(t, i)
      PROVE  /\ SoundSession(thread[t])' /\ Grows /\ RowsInv' /\ ClosedKept
             /\ \A u \in Thread \ {t} : thread'[u] = thread[u]
  <2> DEFINE row == [item[i] EXCEPT !.status = "closed", !.execution = "verified"]
  <2>1. /\ row \in Row /\ Agrees(row) /\ row.status = "closed"
        /\ row.external = item[i].external /\ row.audit = item[i].audit
    BY <1>5 DEF Row, Status, Execution, Agrees
  <2>2. Reads(t, i, "commit", None, row)
    BY <1>8 DEF CloseReviewed
  <2> HIDE DEF row
  <2> QED
    BY <1>4, <2>1, <2>2 DEF Terminal
<1>9. ASSUME NEW i \in Item, NEW k \in IdemKey, Execute(t, i, k)
      PROVE  /\ SoundSession(thread[t])' /\ Grows /\ RowsInv' /\ ClosedKept
             /\ \A u \in Thread \ {t} : thread'[u] = thread[u]
  <2> DEFINE row == [item[i] EXCEPT !.approval = "approved", !.status = "in_progress",
                                    !.execution = "pending", !.key = k]
  <2>1. /\ row \in Row /\ Agrees(row) /\ row.status = "in_progress"
        /\ row.external = item[i].external /\ row.audit = item[i].audit
    BY <1>5 DEF Row, Status, Execution, Approval, Agrees
  <2>2. /\ Reads(t, i, "begin", k, row) /\ item[i].external = 0
        /\ item[i].status \notin Terminal
    BY <1>9 DEF Execute, MayExecute, Terminal
  <2> HIDE DEF row
  <2> QED
    BY <1>4, <2>1, <2>2
<1> QED
  BY <1>3, <1>6, <1>7, <1>8, <1>9 DEF Command

(* What a session appends to the audit history leaves the rest of the row. *)
LEMMA EntryAdded ==
    ASSUME NEW row \in Row
    PROVE  /\ [row EXCEPT !.audit = @ + 1] \in Row
           /\ [row EXCEPT !.audit = @ + 1].audit = row.audit + 1
           /\ [row EXCEPT !.audit = @ + 1].status = row.status
           /\ [row EXCEPT !.audit = @ + 1].execution = row.execution
           /\ [row EXCEPT !.audit = @ + 1].approval = row.approval
           /\ [row EXCEPT !.audit = @ + 1].external = row.external
  BY DEF Row

(* A handler that goes on keeps what it knows.                             *)
LEMMA GoesOn ==
    ASSUME TypeOK, NEW t \in Thread, NEW pc, Goes(t, pc)
    PROVE  /\ thread'[t].pc = pc
           /\ thread'[t].item = thread[t].item
           /\ thread'[t].seen = thread[t].seen
           /\ thread'[t].new = thread[t].new
           /\ thread'[t].key = thread[t].key
           /\ thread'[t].task = thread[t].task
           /\ \A u \in Thread \ {t} : thread'[u] = thread[u]
<1>1. thread \in [Thread -> ThreadState] /\ thread' = [thread EXCEPT ![t].pc = pc]
  BY DEF TypeOK, Goes
<1>2. thread[t] \in ThreadState
  BY <1>1
<1>3. thread'[t] = [thread[t] EXCEPT !.pc = pc]
  BY <1>1
<1> QED
  BY <1>1, <1>2, <1>3 DEF ThreadState

(* The second commit of a verified execution: the row names the new task,  *)
(* and the ledger has no other one for the item unless handlers            *)
(* overlapped.                                                             *)
LEMMA RowsVerified ==
    ASSUME RInv, NEW t \in Thread, FinishVerified(t)
    PROVE  RowsInv' /\ Grows /\ ClosedKept
<1> DEFINE i == thread[t].item
           seen == thread[t].seen
           row == [seen EXCEPT !.status = "verified", !.execution = "verified",
                               !.external = thread[t].task]
           new == [row EXCEPT !.audit = @ + 1]
<1>1. /\ TypeOK /\ i \in Item /\ seen \in Row /\ thread[t].task \in Nat
      /\ thread[t].pc = "verified"
  BY DEF RInv, TypeOK, ThreadState, FinishVerified
<1>2. /\ Present(i)
      /\ i \notin raced => seen.status = "in_progress" /\ seen.external = 0
      /\ thread[t].task \in DOMAIN tasks /\ tasks[thread[t].task].item = i
  BY <1>1 DEF RInv, SoundSession
<1>3. /\ new \in Row /\ new.status = "verified" /\ new.execution = "verified"
      /\ new.external = thread[t].task /\ new.audit = seen.audit + 1
  <2> HIDE DEF seen
  <2>1. /\ row \in Row /\ row.status = "verified" /\ row.execution = "verified"
        /\ row.external = thread[t].task /\ row.audit = seen.audit
    BY <1>1 DEF Row, Status, Execution
  <2> HIDE DEF row
  <2> QED
    BY <2>1, EntryAdded
<1>4. /\ Writes(t, new) /\ UNCHANGED tasks
      /\ ledger' = ledger \cup {thread[t].task}
  BY DEF FinishVerified, Finishes
<1> HIDE DEF new
<1>5. /\ i \notin raced' => i \notin raced /\ item[i] = seen /\ item'[i] = new
      /\ item'[i].status # "absent"
      /\ item'[i].external = IF new.external # seen.external
                               THEN new.external ELSE item[i].external
      /\ commits'[i] = commits[i] + 1
      /\ \A j \in Item \ {i} :
            item'[j] = item[j] /\ commits'[j] = commits[j] /\ (j \in raced' <=> j \in raced)
      /\ raced \subseteq raced'
  BY <1>1, <1>2, <1>3, <1>4, WriteRows
<1>6. Grows
  BY <1>4, <1>5 DEF Grows, Present
<1>7. (ledger \subseteq DOMAIN tasks)' /\ AbsentUnlinked'
  BY <1>2, <1>4, <1>5 DEF RInv, AbsentUnlinked, Present
<1>8. ColumnsAgree' /\ AuditComplete'
  <2>1. i \notin raced' => Agrees(item'[i]) /\ item'[i].audit = commits'[i]
    BY <1>1, <1>3, <1>5 DEF Agrees, RInv, AuditComplete
  <2> QED
    BY <1>5, <2>1 DEF RInv, ColumnsAgree, AuditComplete
<1>9. VerifiedTasks'
  <2>1. ASSUME NEW j \in Item, item'[j].external # 0
        PROVE  item'[j].external \in ledger' /\ tasks'[item'[j].external].item = j
    BY <1>2, <1>3, <1>4, <1>5, <2>1 DEF RInv, VerifiedTasks
  <2>2. ASSUME NEW j \in Item, j \notin raced', NEW n \in ledger', tasks'[n].item = j
        PROVE  n = item'[j].external
    <3>1. CASE j # i
      BY <1>2, <1>4, <1>5, <2>2, <3>1 DEF RInv, VerifiedTasks
    <3>2. CASE j = i
      <4>1. item'[i].external = thread[t].task /\ item[i].external = 0 /\ i \notin raced
        <5>1. i \notin raced' /\ i \notin raced /\ item'[i] = new
          BY <1>5, <2>2, <3>2
        <5>2. item[i] = seen /\ seen.external = 0
          BY <1>2, <1>5, <5>1
        <5> QED
          BY <1>3, <5>1, <5>2
      <4>2. n \notin ledger
        <5>1. ASSUME n \in ledger PROVE n = 0
          BY <1>4, <2>2, <3>2, <4>1, <5>1 DEF RInv, VerifiedTasks
        <5>2. 0 \notin ledger
          BY DEF RInv, TypeOK
        <5> QED
          BY <5>1, <5>2
      <4> QED
        BY <1>4, <2>2, <3>2, <4>1, <4>2
    <3> QED
      BY <3>1, <3>2
  <2> QED
    BY <2>1, <2>2 DEF VerifiedTasks
<1>10. ClosedKept
  <2>1. SUFFICES ASSUME item[i].status \in Terminal PROVE i \in raced'
    BY <1>5 DEF ClosedKept
  <2>2. i \notin raced => seen.status \notin Terminal
    BY <1>2 DEF Terminal
  <2> QED
    BY <1>5, <2>1, <2>2
<1> QED
  BY <1>6, <1>7, <1>8, <1>9, <1>10 DEF RowsInv

(* The idle state is sound.                                                *)
LEMMA IdleSound == SoundSession(Idle)'
  BY DEF SoundSession, Idle

(* The steps of a handler.                                                 *)
LEMMA ThreadSound ==
    ASSUME RInv, NEW t \in Thread, ThreadStep(t)
    PROVE  /\ SoundSession(thread[t])' /\ Grows /\ RowsInv' /\ ClosedKept
           /\ \A u \in Thread \ {t} : thread'[u] = thread[u]
<1> DEFINE Goal == /\ SoundSession(thread[t])' /\ Grows /\ RowsInv' /\ ClosedKept
                   /\ \A u \in Thread \ {t} : thread'[u] = thread[u]
<1>1. /\ TypeOK /\ thread \in [Thread -> ThreadState] /\ SoundSession(thread[t])
      /\ thread[t].seen \in Row /\ thread[t].new \in Row /\ thread[t].task \in Nat
      /\ thread[t].pc \notin {"idle", "insert"} => thread[t].item \in Item
  BY DEF RInv, TypeOK, ThreadState
<1>2. ASSUME NEW state, Becomes(t, state)
      PROVE  thread'[t] = state /\ \A u \in Thread \ {t} : thread'[u] = thread[u]
  BY <1>1, <1>2 DEF Becomes
<1>3. ASSUME NEW pc, Goes(t, pc)
      PROVE  /\ thread'[t] = [thread[t] EXCEPT !.pc = pc]
             /\ \A u \in Thread \ {t} : thread'[u] = thread[u]
  BY <1>1, <1>3 DEF Goes
<1>4. ASSUME Becomes(t, Idle)
      PROVE  SoundSession(thread[t])' /\ \A u \in Thread \ {t} : thread'[u] = thread[u]
  <2>1. thread'[t] = Idle
    BY <1>2, <1>4
  <2> QED
    BY <1>2, <1>4, <2>1, IdleSound DEF SoundSession, Idle
<1>5. ASSUME NEW i \in Item, Insert(t, i) PROVE Goal
  <2>1. /\ thread[t].pc = "insert" /\ ~ Present(i) /\ Becomes(t, Idle)
        /\ item' = [item EXCEPT ![i] = thread[t].new]
        /\ commits' = [commits EXCEPT ![i] = 1]
        /\ UNCHANGED <<tasks, ledger, raced>>
    BY <1>5 DEF Insert
  <2>2. /\ item'[i] = thread[t].new /\ commits'[i] = 1
        /\ \A j \in Item \ {i} : item'[j] = item[j] /\ commits'[j] = commits[j]
    BY <1>1, <2>1 DEF TypeOK
  <2>3. /\ Agrees(item'[i]) /\ item'[i].status # "absent"
        /\ item'[i].external = 0 /\ item'[i].audit = 1
    BY <1>1, <2>1, <2>2 DEF SoundSession
  <2>4. Grows
    BY <2>1, <2>2, <2>3 DEF Grows, Present
  <2>5. ledger' \subseteq DOMAIN tasks' /\ AbsentUnlinked' /\ ColumnsAgree' /\ AuditComplete'
    BY <2>1, <2>2, <2>3 DEF RInv, AbsentUnlinked, Present, ColumnsAgree, AuditComplete
  <2>6. VerifiedTasks'
    BY <2>1, <2>2, <2>3 DEF RInv, VerifiedTasks, AbsentUnlinked
  <2>7. ClosedKept
    BY <2>1, <2>2 DEF ClosedKept, Present, Terminal
  <2> QED
    BY <1>4, <2>1, <2>4, <2>5, <2>6, <2>7 DEF RowsInv
<1>6. CASE Commit(t)
  <2>1. /\ thread[t].pc = "commit" /\ Writes(t, thread[t].new) /\ Becomes(t, Idle)
        /\ UNCHANGED <<tasks, ledger>>
    BY <1>6 DEF Commit
  <2>2. RowsInv' /\ Grows /\ ClosedKept
    BY <1>1, <2>1, RowsWritten DEF SoundSession
  <2> QED
    BY <1>4, <2>1, <2>2
<1>7. CASE Begin(t)
  <2>1. /\ thread[t].pc = "begin" /\ Writes(t, thread[t].new) /\ Goes(t, "refresh")
        /\ UNCHANGED <<tasks, ledger>>
    BY <1>7 DEF Begin
  <2>2. RowsInv' /\ Grows /\ ClosedKept
    BY <1>1, <2>1, RowsWritten DEF SoundSession
  <2>3. thread'[t].pc = "refresh" /\ thread'[t].item = thread[t].item
        /\ thread'[t].new = thread[t].new
    BY <1>1, <2>1, GoesOn
  <2>4. SoundSession(thread[t])'
    BY <1>1, <2>1, <2>2, <2>3 DEF SoundSession, Grows
  <2> QED
    BY <1>3, <2>1, <2>2, <2>4
<1>8. CASE Refresh(t)
  <2> DEFINE i == thread[t].item
             state == [thread[t] EXCEPT !.pc = "create", !.seen = item[i]]
  <2>1. /\ thread[t].pc = "refresh" /\ Becomes(t, state)
        /\ raced' = IF item[i] = thread[t].new THEN raced ELSE raced \cup {i}
        /\ UNCHANGED <<item, tasks, ledger, commits>>
    BY <1>8 DEF Refresh
  <2>2. Grows
    BY <2>1 DEF Grows, Present
  <2>3. state.pc = "create" /\ state.item = i /\ state.seen = item[i]
    BY <1>1 DEF ThreadState
  <2> HIDE DEF state
  <2>4. /\ i \in Item /\ Present(i)
        /\ thread[t].new.status = "in_progress" /\ thread[t].new.external = 0
    BY <1>1, <2>1 DEF SoundSession
  <2>5. i \notin raced' => item[i] = thread[t].new
    BY <2>1
  <2>6. thread'[t] = state
    BY <1>2, <2>1
  <2>7. SoundSession(thread[t])'
    BY <2>2, <2>3, <2>4, <2>5, <2>6 DEF SoundSession, Grows, Present
  <2> QED
    BY <1>2, <2>1, <2>2, <2>7, RowsQuiet
<1>9. CASE CreateTask(t)
  <2> DEFINE state == [thread[t] EXCEPT !.pc = "readback", !.task = Len(tasks) + 1]
             entry == [item |-> thread[t].item, key |-> thread[t].key]
  <2>1. /\ thread[t].pc = "create" /\ tasks' = Append(tasks, entry)
        /\ Becomes(t, state) \/ Goes(t, "failed")
        /\ UNCHANGED <<item, ledger, commits, raced>>
    BY <1>9 DEF CreateTask
  <2>2. /\ \A n \in DOMAIN tasks : n \in DOMAIN tasks' /\ tasks'[n] = tasks[n]
        /\ Len(tasks) + 1 \in DOMAIN tasks' /\ tasks'[Len(tasks) + 1] = entry
    <3>1. entry \in [item : Item, key : IdemKey] /\ tasks \in Seq([item : Item, key : IdemKey])
      BY <1>1, <2>1 DEF TypeOK
    <3> QED
      BY <2>1, <3>1
  <2>3. Grows
    BY <2>1, <2>2 DEF Grows, Present
  <2>4. /\ state.pc = "readback" /\ state.item = thread[t].item
        /\ state.seen = thread[t].seen /\ state.task = Len(tasks) + 1
    BY <1>1 DEF ThreadState
  <2>5. ASSUME Goes(t, "failed")
        PROVE  /\ thread'[t].pc = "failed" /\ thread'[t].item = thread[t].item
               /\ thread'[t].seen = thread[t].seen
    BY <1>1, <2>5, GoesOn
  <2> HIDE DEF state
  <2>6. SoundSession(thread[t])'
    BY <1>1, <1>2, <2>1, <2>2, <2>3, <2>4, <2>5 DEF SoundSession, Grows
  <2> QED
    BY <1>2, <1>3, <2>1, <2>3, <2>6, RowsQuiet
<1>10. CASE TaskRefused(t) \/ ReadBack(t)
  <2>1. PICK pc \in {"failed", "verified"} : Goes(t, pc)
    BY <1>10 DEF TaskRefused, ReadBack
  <2>2. /\ thread[t].pc \in {"create", "readback"}
        /\ pc = "verified" => thread[t].pc = "readback"
        /\ UNCHANGED <<item, tasks, ledger, commits, raced>>
    <3>1. CASE TaskRefused(t)
      <4>1. Goes(t, "failed") /\ thread[t].pc = "create"
            /\ UNCHANGED <<item, tasks, ledger, commits, raced>>
        BY <3>1 DEF TaskRefused
      <4>2. thread'[t].pc = "failed" /\ thread'[t].pc = pc
        BY <1>1, <2>1, <4>1, GoesOn
      <4> QED
        BY <4>1, <4>2
    <3>2. CASE ReadBack(t)
      BY <3>2 DEF ReadBack
    <3> QED
      BY <1>10, <3>1, <3>2
  <2>3. Grows
    BY <2>2 DEF Grows, Present
  <2>4. /\ thread'[t].pc = pc /\ thread'[t].item = thread[t].item
        /\ thread'[t].seen = thread[t].seen /\ thread'[t].task = thread[t].task
    BY <1>1, <2>1, GoesOn
  <2>5. SoundSession(thread[t])'
    BY <1>1, <2>2, <2>3, <2>4 DEF SoundSession, Grows
  <2> QED
    BY <1>3, <2>1, <2>2, <2>3, <2>5, RowsQuiet
<1>11. CASE FinishVerified(t)
  <2>1. Becomes(t, Idle)
    BY <1>11 DEF FinishVerified, Finishes
  <2> QED
    BY <1>4, <1>11, <2>1, RowsVerified
<1>12. CASE FinishFailed(t)
  <2> DEFINE row == [thread[t].seen EXCEPT !.execution = "failed"]
             new == [row EXCEPT !.audit = @ + 1]
  <2>1. /\ thread[t].pc = "failed" /\ Writes(t, new) /\ Becomes(t, Idle)
        /\ UNCHANGED <<tasks, ledger>>
    BY <1>12 DEF FinishFailed, Finishes
  <2>2. /\ new \in Row /\ new.status = thread[t].seen.status /\ new.execution = "failed"
        /\ new.external = thread[t].seen.external /\ new.audit = thread[t].seen.audit + 1
    <3>1. /\ row \in Row /\ row.status = thread[t].seen.status /\ row.execution = "failed"
          /\ row.external = thread[t].seen.external /\ row.audit = thread[t].seen.audit
      BY <1>1 DEF Row, Execution
    <3> HIDE DEF row
    <3> QED
      BY <3>1, EntryAdded
  <2> HIDE DEF new
  <2>3. thread[t].item \in Item /\ Present(thread[t].item)
    BY <1>1, <2>1 DEF SoundSession
  <2>4. RowsInv' /\ Grows /\ ClosedKept
    <3>1. thread[t].item \notin raced => thread[t].seen.status = "in_progress"
      BY <1>1, <2>1 DEF SoundSession
    <3>2. thread[t].item \notin raced' => thread[t].item \notin raced
      BY <2>1 DEF Writes
    <3>3. thread[t].item \notin raced' =>
             /\ Agrees(new)
             /\ new.audit = thread[t].seen.audit + 1
             /\ thread[t].seen.status \notin Terminal
      BY <2>2, <3>1, <3>2 DEF Agrees, Terminal
    <3>4. new.status # "absent"
      BY <1>1, <2>1, <2>2 DEF SoundSession
    <3> QED
      BY <2>1, <2>2, <2>3, <3>3, <3>4, RowsWritten
  <2> QED
    BY <1>4, <2>1, <2>4
<1>13. CASE Abandon(t)
  <2>1. Becomes(t, Idle) /\ UNCHANGED <<item, tasks, ledger, commits, raced>>
    BY <1>13 DEF Abandon
  <2>2. Grows
    BY <2>1 DEF Grows, Present
  <2> QED
    BY <1>4, <2>1, <2>2, RowsQuiet
<1> QED
  BY <1>5, <1>6, <1>7, <1>8, <1>9, <1>10, <1>11, <1>12, <1>13 DEF ThreadStep

(* With no item created, everything is on record.                          *)
LEMMA InitRInv == Init => RInv
<1> SUFFICES ASSUME Init PROVE RInv
  OBVIOUS
<1>1. TypeOK
  BY InitTypeOK
<1>2. /\ \A i \in Item : item[i] = AbsentRow /\ commits[i] = 0
      /\ \A t \in Thread : thread[t] = Idle
      /\ ledger = {}
  BY DEF Init
<1>3. \A t \in Thread : SoundSession(thread[t])
  BY <1>2 DEF SoundSession, Idle
<1>4. AbsentUnlinked /\ ColumnsAgree /\ VerifiedTasks /\ AuditComplete
  BY <1>2 DEF AbsentUnlinked, ColumnsAgree, Agrees, VerifiedTasks, AuditComplete, AbsentRow
<1> QED
  BY <1>1, <1>2, <1>3, <1>4 DEF RInv

(* Every step, and every stuttering step, keeps the invariant, and leaves  *)
(* a closed item closed unless it reopens it.                              *)
LEMMA StepRInv == RInv /\ [Next]_vars => RInv' /\ ClosedKept
<1>1. ASSUME RInv, UNCHANGED vars PROVE RInv' /\ ClosedKept
  BY <1>1, StepTypeOK DEF RInv, SoundSession, AbsentUnlinked, Present, ColumnsAgree,
     VerifiedTasks, AuditComplete, ClosedKept, vars
<1>2. ASSUME RInv, Next PROVE RInv' /\ ClosedKept
  <2>1. PICK t \in Thread : ThreadStep(t) \/ Command(t)
    BY <1>2 DEF Next
  <2>2. /\ SoundSession(thread[t])' /\ Grows /\ RowsInv' /\ ClosedKept
        /\ \A u \in Thread \ {t} : thread'[u] = thread[u]
    BY <1>2, <2>1, CommandSound, ThreadSound
  <2>3. \A u \in Thread : SoundSession(thread[u])'
    BY <1>2, <2>2, SessionsKept
  <2>4. TypeOK'
    BY <1>2, StepTypeOK DEF RInv
  <2> QED
    BY <2>2, <2>3, <2>4 DEF RInv, RowsInv
<1> QED
  BY <1>1, <1>2

(* The three state columns of an item agree in every reachable state, for  *)
(* any number of threads, as long as no handler wrote over a row that had  *)
(* changed under it (_apply_work_item_transition, the execution, and the   *)
(* review that closes items).                                              *)
THEOREM ColumnsAlwaysAgree == Spec => []ColumnsAgree
<1>1. RInv => ColumnsAgree
  BY DEF RInv
<1> QED
  BY <1>1, InitRInv, StepRInv, PTL DEF Spec

(* The verified task of an item is on its row, in the ledger and in the    *)
(* portal, and no commit is missing from its audit trail, however often    *)
(* executions failed, were abandoned or retried (api.py).                  *)
THEOREM EverythingOnRecord == Spec => []TasksOnRecord
<1>1. RInv => TasksOnRecord
  BY DEF RInv, TasksOnRecord
<1> QED
  BY <1>1, InitRInv, StepRInv, PTL DEF Spec

(* No execution that was under way brings a dismissed or closed item back. *)
THEOREM ClosedForGood == Spec => ClosedStaysClosed
<1>1. RInv /\ [Next]_vars => [ClosedKept]_vars
  BY StepRInv
<1>2. Spec => []RInv
  BY InitRInv, StepRInv, PTL DEF Spec
<1> QED
  BY <1>1, <1>2, PTL DEF Spec, ClosedStaysClosed, ClosedKept
=============================================================================
