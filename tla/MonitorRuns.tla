----------------------------- MODULE MonitorRuns -----------------------------
(***************************************************************************)
(* Triggering a monitor run (btx_platform/pipeline.py) and what the run    *)
(* does to the two artifacts it leaves (monitor_engine/pipeline.py).       *)
(*                                                                         *)
(* A trigger is a handler thread.  It checks the recent rows, exports the  *)
(* configuration to a file, commits a row and waits for the monitor, a     *)
(* child process; with the other mechanism it asks GitHub to run the       *)
(* workflow, which works on artifacts of its own.  The child reads the     *)
(* archive, and at its end replaces archive and feed, one file after the   *)
(* other.  It may fail anywhere; it is killed when it takes too long; and  *)
(* it goes on if the API process that waits for it stops.                  *)
(***************************************************************************)
EXTENDS RunArchive, EngineConfig

CONSTANTS
  Triggers,      \* handler threads of POST /pipeline/run
  MaxRows,       \* bound on the runs triggered
  MinInterval,   \* pipeline_min_interval_seconds, in ticks
  MaxClock,      \* bound of the clock
  MaxCrashes,    \* bound on stops of the API process
  SourceOf,      \* the source that publishes each item
  Archived       \* the items of the last run before these

ASSUME MonitorRunsAssumption ==
  /\ {MaxRows, MinInterval, MaxClock, MaxCrashes} \subseteq Nat
  /\ MaxRows > 0
  /\ "source_registry" \in Names
  /\ Archived \in Batches

VARIABLES
  rows,       \* pipeline_runs, in the order of their commits
  trigger,    \* the threads
  child,      \* the monitor process of each row
  cfgFile,    \* the registry version in btx-monitor-config.json
  archive,    \* archive.json
  feed,       \* run_output.json
  mechanism,  \* pipeline_mechanism, fixed when the API starts
  clock,
  crashes,
  latest      \* history: the last published copy of every story

runVars == <<rows, trigger, child, cfgFile, archive, feed, mechanism, clock,
             crashes, latest>>

RunId == 1..MaxRows

InProgress == {"queued", "running"}

(* In a row of the runs, cfg is the registry version read for the run, and *)
(* checked, history, how many rows the check before it saw.                *)
(* A thread: cfg and checked are what its check read, sender is the panel  *)
(* that waits for its answer.                                              *)
Idle == [pc |-> "idle", cfg |-> 0, checked |-> 0, run |-> 0, sender |-> Nobody]

(* phase says how far the child is; torn is one killed between the files.  *)
NoChild ==
  [phase |-> "none", cfg |-> 0, items |-> {}, loaded |-> EmptyArchive,
   before |-> EmptyArchive, feedBefore |-> [run |-> 0, newTier1 |-> {}]]

Alive == {"spawned", "analyzed", "loaded", "archived"}

RunInit ==
  /\ rows = <<>>
  /\ trigger = [t \in Triggers |-> Idle]
  /\ child = [r \in RunId |-> NoChild]
  /\ cfgFile = 0
  /\ archive = UpdateArchive(EmptyArchive, [run |-> 0, items |-> Archived])
  /\ feed = [run |-> 0, newTier1 |-> {}]
  /\ mechanism \in {"subprocess", "github"}
  /\ clock = 0
  /\ crashes = 0
  /\ latest = Archived
-----------------------------------------------------------------------------
(* Mutant: the interval is checked and a run in progress is not.           *)
AssertSpaced == rows # <<>> => clock - Last(rows).at >= MinInterval

(* assert_can_start raises PipelineRateLimit otherwise.  (Twenty rows are  *)
(* read; the oldest of more is never in progress while a newer one exists, *)
(* unless two triggers raced.)                                             *)
AssertCanStart ==
  /\ \A r \in DOMAIN rows : rows[r].status \notin InProgress
  /\ rows # <<>> => clock - Last(rows).at >= MinInterval

Ask(t, sender) ==
  /\ trigger[t].pc = "idle" /\ Len(rows) < MaxRows
  /\ trigger' = [trigger EXCEPT ![t].pc = "asked", ![t].sender = sender]
  /\ UNCHANGED <<rows, child, cfgFile, archive, feed, mechanism, clock,
                 crashes, latest>>

(* trigger_pipeline: the check, and export_monitor_config's reads.         *)
Check(t) ==
  /\ trigger[t].pc = "asked" /\ AssertCanStart
  /\ trigger' = [trigger EXCEPT
       ![t].pc = "checked", ![t].checked = Len(rows),
       ![t].cfg = LatestConfig("source_registry").version]
  /\ UNCHANGED <<rows, child, cfgFile, archive, feed, mechanism, clock,
                 crashes, latest>>

(* The thread is done; its answer is on the way if somebody waits for it.  *)
Answer(t) ==
  trigger' = [trigger EXCEPT ![t] =
    IF @.sender = Nobody THEN Idle
    ELSE [@ EXCEPT !.pc = "answered", !.cfg = 0, !.checked = 0, !.run = 0]]

(* A 429.                                                                  *)
RateLimit(t) ==
  /\ trigger[t].pc = "asked" /\ ~AssertCanStart
  /\ Answer(t)
  /\ UNCHANGED <<rows, child, cfgFile, archive, feed, mechanism, clock,
                 crashes, latest>>

(* The export's write of the file, and the commit of the row.              *)
InsertRun(t) ==
  /\ trigger[t].pc = "checked" /\ Len(rows) < MaxRows
  /\ cfgFile' = trigger[t].cfg
  /\ rows' = Append(rows,
       [status |-> IF mechanism = "subprocess" THEN "running" ELSE "queued",
        at |-> clock, cfg |-> trigger[t].cfg, checked |-> trigger[t].checked])
  /\ trigger' = [trigger EXCEPT ![t].pc = "waiting", ![t].run = Len(rows) + 1]
  /\ child' = IF mechanism = "subprocess"
              THEN [child EXCEPT ![Len(rows) + 1].phase = "spawned"] ELSE child
  /\ UNCHANGED <<archive, feed, mechanism, clock, crashes, latest>>

(* The second commit: the outcome of the run.                              *)
Outcome(t, status) ==
  /\ rows' = [rows EXCEPT ![trigger[t].run].status = status]
  /\ Answer(t)

(* run_subprocess returns, or raises because the exit code is not zero.    *)
Finish(t) ==
  LET r == trigger[t].run IN
  /\ trigger[t].pc = "waiting" /\ mechanism = "subprocess"
  /\ child[r].phase \in {"done", "failed"}
  /\ Outcome(t, IF child[r].phase = "done" THEN "completed" ELSE "failed")
  /\ UNCHANGED <<child, cfgFile, archive, feed, mechanism, clock, crashes,
                 latest>>

Ended(r, phase, cfg) ==
  child' = [child EXCEPT ![r] = [NoChild EXCEPT !.phase = phase, !.cfg = cfg]]

(* History: a run whose copy of a story is in the archive to stay.         *)
Published(r) ==
  child[r].items \cup {l \in latest : ~\E i \in child[r].items : SameStory(l, i)}

(* TimeoutExpired: subprocess.run has killed the child where it was.       *)
Timeout(t) ==
  LET r == trigger[t].run IN
  /\ trigger[t].pc = "waiting" /\ mechanism = "subprocess"
  /\ child[r].phase \in Alive
  /\ Ended(r, IF child[r].phase = "archived" THEN "torn" ELSE "killed", child[r].cfg)
  /\ latest' = IF child[r].phase = "archived" THEN Published(r) ELSE latest
  /\ Outcome(t, "failed")
  /\ UNCHANGED <<cfgFile, archive, feed, mechanism, clock, crashes>>

(* dispatch_github answers or raises.                                      *)
Dispatch(t) ==
  /\ trigger[t].pc = "waiting" /\ mechanism = "github"
  /\ \E status \in {"dispatched", "failed"} : Outcome(t, status)
  /\ UNCHANGED <<child, cfgFile, archive, feed, mechanism, clock, crashes,
                 latest>>

(* The API process stops; its child does not.                              *)
CrashApi ==
  /\ crashes < MaxCrashes
  /\ \E t \in Triggers : trigger[t].pc # "idle"
  /\ trigger' = [t \in Triggers |-> Idle]
  /\ crashes' = crashes + 1
  /\ UNCHANGED <<rows, child, cfgFile, archive, feed, mechanism, clock, latest>>

Tick ==
  /\ clock < MaxClock
  /\ clock' = clock + 1
  /\ UNCHANGED <<rows, trigger, child, cfgFile, archive, feed, mechanism,
                 crashes, latest>>
-----------------------------------------------------------------------------
EnabledSources(v) ==
  (CHOOSE c \in configs["source_registry"] : c.version = v).document

(* run_pipeline up to the archive: every source failing, analysis giving   *)
(* nothing for something, and a missing key end the run with exit code 1.  *)
Collect(r) ==
  /\ child[r].phase = "spawned"
  /\ \/ Ended(r, "failed", cfgFile)
     \/ \E items \in Batches :
          /\ \A i \in items : SourceOf[i.id] \in EnabledSources(cfgFile)
          /\ child' = [child EXCEPT ![r].phase = "analyzed", ![r].cfg = cfgFile,
                                    ![r].items = items]
  /\ UNCHANGED <<rows, trigger, cfgFile, archive, feed, mechanism, clock,
                 crashes, latest>>

LoadArchive(r) ==
  /\ child[r].phase = "analyzed"
  /\ child' = [child EXCEPT ![r].phase = "loaded", ![r].loaded = archive]
  /\ UNCHANGED <<rows, trigger, cfgFile, archive, feed, mechanism, clock,
                 crashes, latest>>

(* _persist_completed_run: stage both, remember both, replace the archive. *)
ReplaceArchive(r) ==
  /\ child[r].phase = "loaded"
  /\ archive' = UpdateArchive(child[r].loaded, [run |-> r, items |-> child[r].items])
  /\ child' = [child EXCEPT ![r].phase = "archived", ![r].before = archive,
                            ![r].feedBefore = feed]
  /\ UNCHANGED <<rows, trigger, cfgFile, feed, mechanism, clock, crashes, latest>>

(* Then the feed, whose diff is against the archive the run has loaded.    *)
ReplaceFeed(r) ==
  /\ child[r].phase = "archived"
  /\ feed' = [run |-> r, newTier1 |->
       NewTier1(child[r].items, LastItems(child[r].loaded))]
  /\ Ended(r, "done", child[r].cfg)
  /\ latest' = Published(r)
  /\ UNCHANGED <<rows, trigger, cfgFile, archive, mechanism, clock, crashes>>

(* An exception at the second replace: the last good pair is restored.     *)
RestorePair(r) ==
  /\ child[r].phase = "archived"
  /\ archive' = child[r].before
  /\ feed' = child[r].feedBefore
  /\ Ended(r, "failed", child[r].cfg)
  /\ UNCHANGED <<rows, trigger, cfgFile, mechanism, clock, crashes, latest>>

TriggerStep(t) ==
  \/ Check(t) \/ RateLimit(t) \/ InsertRun(t)
  \/ Finish(t) \/ Timeout(t) \/ Dispatch(t)

ChildStep(r) ==
  Collect(r) \/ LoadArchive(r) \/ ReplaceArchive(r) \/ ReplaceFeed(r)
    \/ RestorePair(r)

RunNext ==
  \/ \E t \in Triggers : TriggerStep(t)
  \/ \E r \in RunId : ChildStep(r)
  \/ CrashApi
  \/ Tick
-----------------------------------------------------------------------------
(* The check of the later run did not see the earlier one.                 *)
Raced(q, r) == q < r /\ rows[r].checked < q

Overlapped == \E q, r \in DOMAIN rows : Raced(q, r)

(* Runs are one at a time and MinInterval apart, whatever crashes: unless  *)
(* two triggers were both checked before either had its row, a run starts  *)
(* only after the last one has an outcome - so a row that a stopped        *)
(* process has left in progress is the last row (pipeline.py:43-56,        *)
(* 155-170).                                                               *)
TriggersSerialized ==
  \A q, r \in DOMAIN rows : q < r /\ ~Raced(q, r) =>
    /\ rows[q].status \notin InProgress
    /\ rows[r].at - rows[q].at >= MinInterval

(* Feed and archive are of one run, except while a run is between the two  *)
(* files or was killed there, until the next run has completed, and except *)
(* for runs that overlapped (monitor_engine/pipeline.py:62-91).            *)
PairTogether ==
  \/ feed.run = LastRun(archive)
  \/ Overlapped
  \/ child[LastRun(archive)].phase \in {"archived", "torn"}

(* One run at a time has the rows and the files, whatever was killed       *)
(* (btx_platform/pipeline.py, monitor_engine/pipeline.py).                 *)
RunsApart == TriggersSerialized /\ PairTogether

(* An important story outlives the window: if its last published copy is   *)
(* of tier 1 the archive holds it, in the window or pinned - unless runs   *)
(* overlapped (archive/core.py:224-245, monitor_engine/pipeline.py:80).    *)
ImportantKept ==
  \/ \A l \in latest : l.tier <= PersistTier => Holds(archive, l)
  \/ Overlapped

(* A run collects from the sources that were read for it, unless a trigger *)
(* that raced with its own has rewritten the file                          *)
(* (btx_platform/pipeline.py:73-92).                                       *)
RunReadsItsConfig ==
  \A r \in DOMAIN rows :
    child[r].phase \notin {"none", "spawned", "killed"} =>
      \/ child[r].cfg = rows[r].cfg
      \/ \E q \in DOMAIN rows : Raced(q, r) \/ Raced(r, q)

(* A run loses no important story and collects as it was configured        *)
(* (monitor_engine/archive/core.py, btx_platform/pipeline.py).             *)
RunsKeep == ImportantKept /\ RunReadsItsConfig
=============================================================================
