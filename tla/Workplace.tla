------------------------------ MODULE Workplace ------------------------------
(***************************************************************************)
(* The surfaces of the cockpit that read the world and act on what others  *)
(* have written: the settings with the monitor they run, the decision      *)
(* engine with its feed, the composition of documents, work, the snapshot  *)
(* of the world.  Cockpit has the surfaces that are conversations, forms   *)
(* or drawers; as there, App.tsx mounts one, and the state of the others   *)
(* does not exist then.                                                    *)
(***************************************************************************)
EXTENDS SettingsWorkspace, DecisionFeed, Drafting, WorkDesk, ProspectDesk

VARIABLE surface

workplaceVars == <<settingsVars, feedVars, draftVars, deskVars, worldVars, surface>>

Surfaces == {"settings", "feed", "draft", "work", "world"}

WorkplaceInit ==
  /\ surface \in Surfaces
  /\ SettingsInit /\ FeedInit /\ DraftInit /\ DeskInit /\ WorldInit
  /\ surface # "settings" => ~live /\ mechanism = "subprocess"
  /\ surface # "feed" => weights = CHOOSE config \in Configs : TRUE
  /\ surface # "work" => role = "viewer" /\ work = CHOOSE row \in StartRows : TRUE
  /\ surface # "world" =>
       /\ tenant = "live" /\ hubspot = "ok" /\ output.reads = "missing"
       /\ portal = [f \in Firms |-> "absent"]

SettingsStep ==
  /\ surface = "settings"
  /\ SettingsNext
  /\ UNCHANGED <<feedVars, draftVars, deskVars, worldVars, surface>>

FeedStep ==
  /\ surface = "feed"
  /\ FeedNext
  /\ UNCHANGED <<settingsVars, draftVars, deskVars, worldVars, surface>>

DraftStep ==
  /\ surface = "draft"
  /\ DraftNext
  /\ UNCHANGED <<settingsVars, feedVars, deskVars, worldVars, surface>>

DeskStep ==
  /\ surface = "work"
  /\ DeskNext
  /\ UNCHANGED <<settingsVars, feedVars, draftVars, worldVars, surface>>

WorldStep ==
  /\ surface = "world"
  /\ WorldNext
  /\ UNCHANGED <<settingsVars, feedVars, draftVars, deskVars, surface>>

WorkplaceNext == SettingsStep \/ FeedStep \/ DraftStep \/ DeskStep \/ WorldStep

WorkplaceSpec == WorkplaceInit /\ [][WorkplaceNext]_workplaceVars
-----------------------------------------------------------------------------
(* The figures of the cockpit agree with its lists and with each other,    *)
(* the pages agree among themselves, and no account is lost to an outage   *)
(* (api.py, canonicalMetrics.ts, and the pages).                           *)
WorldTold == surface = "world" => NumbersAgree /\ AccountsKept /\ PagesAgree
=============================================================================
