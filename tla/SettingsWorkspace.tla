-------------------------- MODULE SettingsWorkspace --------------------------
(***************************************************************************)
(* The settings surface of one browser tab                                 *)
(* (frontend/src/ui/settings/SettingsWorkspace.tsx) over the backend's     *)
(* configurations and monitor runs, which other people use too.            *)
(*                                                                         *)
(* One panel is mounted at a time: the editor of the scoring weights, that *)
(* of the source registry, or one that edits nothing.  A panel is given a  *)
(* number when it mounts, and an answer finds it by that number (the       *)
(* alive flag of the effect; React drops the setters of an unmounted       *)
(* component).  The weights that the decision engine uses are a global of  *)
(* the page and outlive the panel.                                         *)
(***************************************************************************)
EXTENDS MonitorRuns

CONSTANTS
  Drafts,       \* for each name what its editor can hold, valid or not
  MaxEffort     \* bound on panels opened, edits, saves and runs together

VARIABLES
  panel,        \* the mounted panel
  load,         \* the GET of each panel opened so far
  applied,      \* CONFIG, the scoring weights in use
  local,        \* localStorage: the draft of each configuration
  live,         \* LIVE_MODE: the build has a backend
  edits         \* history: edits so far

panelVars == <<panel, load, applied, local, live, edits>>

settingsVars == <<configs, put, rows, trigger, child, cfgFile, archive, feed,
          mechanism, clock, crashes, latest, panel, load, applied, local, live,
          edits>>

(* stray is history: the document is not the one of the version shown, as  *)
(* the user knows who has edited or saved, or as a late load has made it.  *)
NoPanel ==
  [name |-> None, number |-> 0, document |-> {}, saved |-> 0, busy |-> "no",
   removing |-> None, stray |-> FALSE]

Settled == [phase |-> "settled", name |-> None, version |-> 0]

Opened == Len(load)

Effort ==
  Opened + edits + Cardinality({p \in Puts : put[p].phase # "unused"})
    + 2 * (Len(rows) + Cardinality({t \in Triggers : trigger[t].pc \in {"asked", "checked"}}))

Room(cost) == Effort + cost <= MaxEffort

SettingsInit ==
  /\ ConfigInit
  /\ RunInit
  /\ panel = NoPanel
  /\ load = <<>>
  /\ applied = Seed["scoring_weights"]
  /\ local = Seed
  /\ live \in BOOLEAN
  /\ edits = 0

Frame == UNCHANGED <<configs, rows, child, cfgFile, archive, feed, mechanism,
                     clock, crashes, latest, live>>
-----------------------------------------------------------------------------
(* The errors of EngineTuningPanel are empty: weights of -100 to 100.      *)
ValidWeights(d) == d \in Documents["scoring_weights"]

(* Those of SourcesPanel: names, HTTPS URLs and distinct ids.              *)
ValidSources(d) == d \in Documents["source_registry"]

(* Choosing a section mounts its panel and unmounts the one before: state  *)
(* is read from localStorage, and in a live build a GET is sent.           *)
Open(n) ==
  /\ Room(1)
  /\ panel.name # n
  /\ panel' = [NoPanel EXCEPT
       !.name = n, !.number = Opened + 1, !.document = local[n], !.stray = TRUE]
  /\ load' = Append(load, IF live THEN [phase |-> "sent", name |-> n, version |-> 0]
                          ELSE Settled)
  /\ applied' = IF ~live /\ n = "scoring_weights" THEN local[n] ELSE applied
  /\ UNCHANGED <<put, trigger, local, edits>> /\ Frame

(* Another section, or another surface.                                    *)
Leave ==
  /\ panel.name # None
  /\ panel' = NoPanel
  /\ UNCHANGED <<put, trigger, load, applied, local, edits>> /\ Frame

(* get_engine_config reads the latest row.                                 *)
ReadConfig(k) ==
  /\ load[k].phase = "sent"
  /\ load' = [load EXCEPT ![k].phase = "read",
                          ![k].version = LatestConfig(load[k].name).version]
  /\ UNCHANGED <<put, trigger, panel, applied, local, edits>> /\ Frame

LoadedRow(k) ==
  CHOOSE row \in configs[load[k].name] : row.version = load[k].version

(* Mutant: the answer to a panel that is gone is used all the same.        *)
LoadAnsweredDead(k) ==
  /\ load[k].phase = "read"
  /\ load' = [load EXCEPT ![k] = Settled]
  /\ panel' = IF panel.number = k
              THEN [panel EXCEPT !.document = LoadedRow(k).document,
                      !.saved = load[k].version,
                      !.stray = panel.busy = "save"]
              ELSE panel
  /\ applied' = IF load[k].name = "scoring_weights"
                THEN LoadedRow(k).document ELSE applied
  /\ UNCHANGED <<put, trigger, local, edits>> /\ Frame

(* The panel takes the answer over whatever has been edited meanwhile.     *)
LoadAnswered(k) ==
  /\ load[k].phase = "read"
  /\ load' = [load EXCEPT ![k] = Settled]
  /\ IF panel.number # k THEN UNCHANGED <<panel, applied>>
     ELSE /\ panel' = [panel EXCEPT !.document = LoadedRow(k).document,
                         !.saved = load[k].version,
                         !.stray = panel.busy = "save"]
          /\ applied' = IF panel.name = "scoring_weights"
                        THEN LoadedRow(k).document ELSE applied
  /\ UNCHANGED <<put, trigger, local, edits>> /\ Frame

(* What the user is told is left out; the panel keeps its local draft.     *)
LoadFailed(k) ==
  /\ load[k].phase \in {"sent", "read"}
  /\ load' = [load EXCEPT ![k] = Settled]
  /\ UNCHANGED <<put, trigger, panel, applied, local, edits>> /\ Frame

(* The document changes in the panel, and the weights apply at once.       *)
Change(d) ==
  /\ panel' = [panel EXCEPT !.document = d, !.removing = None, !.stray = TRUE]
  /\ applied' = IF panel.name = "scoring_weights" THEN d ELSE applied
  /\ edits' = edits + 1
  /\ UNCHANGED <<put, trigger, load, local>> /\ Frame

(* updateWeight                                                            *)
EditWeights(d) ==
  /\ panel.name = "scoring_weights" /\ Room(1) /\ d # panel.document
  /\ Change(d)

(* updateSource, addSource                                                 *)
EditSources(d) ==
  /\ panel.name = "source_registry" /\ Room(1) /\ d # panel.document
  /\ Change(d)

(* Remove source opens a dialog; Cancel closes it; a load may change the   *)
(* draft while it is open.                                                 *)
AskRemove(source) ==
  /\ panel.name = "source_registry" /\ Room(1)
  /\ panel.removing = None /\ source \in panel.document \ {"bad"}
  /\ panel' = [panel EXCEPT !.removing = source]
  /\ UNCHANGED <<put, trigger, load, applied, local, edits>> /\ Frame

CancelRemove ==
  /\ panel.removing # None
  /\ panel' = [panel EXCEPT !.removing = None]
  /\ UNCHANGED <<put, trigger, load, applied, local, edits>> /\ Frame

ConfirmRemove ==
  /\ panel.removing # None
  /\ Change(panel.document \ {panel.removing})
-----------------------------------------------------------------------------
MaySave ==
  /\ panel.name # None /\ panel.removing = None
  /\ panel.busy = "no"
  /\ IF panel.name = "scoring_weights" THEN ValidWeights(panel.document)
     ELSE ValidSources(panel.document)

(* save, in a local build.                                                 *)
SaveLocally ==
  /\ MaySave /\ ~live
  /\ local' = [local EXCEPT ![panel.name] = panel.document]
  /\ UNCHANGED <<put, trigger, panel, load, applied, edits>> /\ Frame

(* save: the document of this moment is sent.                              *)
Save(p) ==
  /\ MaySave /\ live /\ Room(1)
  /\ SendPut(p, panel.name, panel.document, panel.number)
  /\ panel' = [panel EXCEPT !.busy = "save", !.stray = FALSE]
  /\ UNCHANGED <<trigger, load, applied, local, edits>> /\ Frame

(* Mutant: the label is the version of the row that was there before.      *)
SaveAnsweredOld(p) ==
  /\ put[p].phase = "stored" /\ put[p].sender # Nobody
  /\ put' = [put EXCEPT ![p].sender = Nobody]
  /\ panel' = IF panel.number = put[p].sender
              THEN [panel EXCEPT !.saved = put[p].version - 1, !.busy = "no"]
              ELSE panel
  /\ UNCHANGED <<trigger, load, applied, local, edits>> /\ Frame

(* The answer sets the label, and not the document.                        *)
SaveAnswered(p) ==
  /\ put[p].phase = "stored" /\ put[p].sender # Nobody
  /\ put' = [put EXCEPT ![p].sender = Nobody]
  /\ panel' = IF panel.number = put[p].sender
              THEN [panel EXCEPT !.saved = put[p].version, !.busy = "no"]
              ELSE panel
  /\ UNCHANGED <<trigger, load, applied, local, edits>> /\ Frame

(* Refused, or the answer is lost while the backend carries on.            *)
SaveFailed(p) ==
  /\ put[p].sender # Nobody
  /\ put' = [put EXCEPT ![p].sender = Nobody]
  /\ panel' = IF panel.number = put[p].sender
              THEN [panel EXCEPT !.busy = "no", !.stray = TRUE]
              ELSE panel
  /\ UNCHANGED <<trigger, load, applied, local, edits>> /\ Frame

(* Somebody else saves.  (Other people matter to a live build only.)       *)
OtherSaves(p, n, d) ==
  /\ live /\ Room(1)
  /\ SendPut(p, n, d, Nobody)
  /\ UNCHANGED <<trigger, panel, load, applied, local, edits>> /\ Frame
-----------------------------------------------------------------------------
(* runNow                                                                  *)
RunNow(t) ==
  /\ panel.name = "source_registry" /\ panel.removing = None
  /\ panel.busy = "no" /\ live /\ Room(2)
  /\ Ask(t, panel.number)
  /\ panel' = [panel EXCEPT !.busy = "run"]
  /\ UNCHANGED <<configs, put, load, applied, local, live, edits>>

OtherRuns(t) ==
  /\ live /\ Room(2)
  /\ Ask(t, Nobody)
  /\ UNCHANGED <<configs, put, panel, load, applied, local, live, edits>>

(* The answer of the thread: the run with its outcome, or a refusal.       *)
RunAnswered(t) ==
  /\ trigger[t].pc = "answered"
  /\ trigger' = [trigger EXCEPT ![t] = Idle]
  /\ panel' = IF panel.number = trigger[t].sender
              THEN [panel EXCEPT !.busy = "no"]
              ELSE panel
  /\ UNCHANGED <<put, load, applied, local, edits>> /\ Frame

(* No thread is left to answer: the API has stopped.                       *)
RunFailed ==
  /\ panel.busy = "run"
  /\ \A t \in Triggers : trigger[t].sender # panel.number
  /\ panel' = [panel EXCEPT !.busy = "no"]
  /\ UNCHANGED <<put, trigger, load, applied, local, edits>> /\ Frame

(* Reset workspace, confirmed: the page reloads.  The drafts in            *)
(* localStorage stay.                                                      *)
ResetWorkspace ==
  /\ panel' = NoPanel
  /\ load' = [k \in DOMAIN load |-> Settled]
  /\ applied' = Seed["scoring_weights"]
  /\ UNCHANGED <<put, trigger, local, edits>> /\ Frame
-----------------------------------------------------------------------------
PanelNext ==
  \/ \E n \in Names : Open(n)
  \/ Leave
  \/ \E k \in DOMAIN load : ReadConfig(k) \/ LoadAnswered(k) \/ LoadFailed(k)
  \/ \E d \in Drafts["scoring_weights"] : EditWeights(d)
  \/ \E d \in Drafts["source_registry"] : EditSources(d)
  \/ \E s \in UNION Drafts["source_registry"] : AskRemove(s)
  \/ CancelRemove
  \/ ConfirmRemove
  \/ SaveLocally
  \/ ResetWorkspace
  \/ RunFailed

PutNext ==
  \E p \in Puts :
    \/ Save(p) \/ SaveAnswered(p) \/ SaveFailed(p)
    \/ \E n \in Names : \E d \in Documents[n] : OtherSaves(p, n, d)
    \/ /\ ReadLatest(p) \/ Insert(p)
       /\ UNCHANGED <<runVars, panelVars>>

TriggerNext ==
  \E t \in Triggers : RunNow(t) \/ OtherRuns(t) \/ RunAnswered(t)

SettingsNext ==
  \/ PanelNext
  \/ PutNext
  \/ TriggerNext
  \/ RunNext /\ UNCHANGED <<configVars, panelVars>>

SettingsSpec == SettingsInit /\ [][SettingsNext]_settingsVars
-----------------------------------------------------------------------------
(* "Version N saved" is said of what is shown: the document in the panel   *)
(* is that version's, unless the user has changed it since it was saved or *)
(* loaded, or the load was answered while a save was under way             *)
(* (SettingsWorkspace.tsx:144-147, 202-222, 244-274).                      *)
LabelTruthful ==
  panel.saved > 0 /\ ~panel.stray /\ panel.busy # "save" =>
    [version |-> panel.saved, document |-> panel.document]
      \in configs[panel.name]

(* Scoring follows the panel that is open: the weights in use change only  *)
(* to what the weights editor shows, or to the built-in ones of a reload,  *)
(* never through the answer to a panel that has been left                  *)
(* (SettingsWorkspace.tsx:201-224).                                        *)
AppliedIsShown ==
  [][applied' # applied =>
       \/ panel'.name = "scoring_weights" /\ applied' = panel'.document
       \/ panel' = NoPanel /\ applied' = Seed["scoring_weights"]]_settingsVars
=============================================================================
