------------------------------- MODULE Cockpit -------------------------------
(***************************************************************************)
(* The surfaces of the cockpit beside each other.  App.tsx mounts the one  *)
(* that the route names; the state of the others does not exist then, and  *)
(* is kept at a value of no meaning here.  The portal's scripts run beside *)
(* the cockpit and are taken for a surface of their own; so is the frame   *)
(* itself, whose pages are empty in Shell.                                 *)
(*                                                                         *)
(* The surfaces share the router and the tenant, and no state: what is     *)
(* true of each alone is true of a session that goes from one to another,  *)
(* apart from answers that come after their surface is gone, which         *)
(* DeliverableEditor and CrmWrites model themselves.                       *)
(***************************************************************************)
EXTENDS AskSurface, DeliverableEditor, SandboxPortal, CrmWrites, MonitorDesk,
  ClientLists, Shell, Library, EvidenceDesk

VARIABLE surface

cockpitVars == <<askVars, editorVars, portalVars, crmVars, monitorVars,
                 listVars, shellVars, libraryVars, evidenceVars, surface>>

Surfaces == {"ask", "deliverable", "account", "list", "portal", "updates", "lists",
             "shell", "library", "evidence"}

CockpitInit ==
  /\ surface \in Surfaces
  /\ AskInit /\ EditorInit /\ PortalInit /\ CrmInit /\ MonitorInit /\ ListsInit
  /\ ShellInit /\ LibraryInit /\ EvidenceInit
  /\ surface # "ask" => \A c \in Conversations : conversations[c] = NoRow
  /\ surface # "deliverable" => ~backend /\ ~plain /\ made = 0
  /\ surface # "account" => ~panel.writable
  /\ surface # "portal" =>
       companies = <<>> /\ schema = {} /\ ~portal.uniqueDomain /\ ~portal.autoCreate
  /\ surface # "shell" => Here = Typed(Place("briefing"))
  /\ surface # "library" => memory = EmptyMemory
  /\ surface # "evidence" =>
       cast = (CHOOSE c \in Casts : TRUE) /\ filed = (CHOOSE item \in Filings : TRUE)

AskOnly ==
  /\ surface = "ask"
  /\ UNCHANGED <<editorVars, portalVars, crmVars, monitorVars, listVars,
                 shellVars, libraryVars, evidenceVars, surface>>

AskStep == AskOnly /\ AskNext

EditorStep ==
  /\ surface = "deliverable"
  /\ EditorNext
  /\ UNCHANGED <<askVars, portalVars, crmVars, monitorVars, listVars,
                 shellVars, libraryVars, evidenceVars, surface>>

CrmStep ==
  /\ \/ surface = "account" /\ PanelNext
     \/ surface = "list" /\ ListNext
     \/ surface \in {"account", "list"} /\ (CrmServeNext \/ CrmMishapNext)
  /\ UNCHANGED <<askVars, editorVars, portalVars, monitorVars, listVars,
                 shellVars, libraryVars, evidenceVars, surface>>

PortalStep ==
  /\ surface = "portal"
  /\ PortalNext
  /\ UNCHANGED <<askVars, editorVars, crmVars, monitorVars, listVars,
                 shellVars, libraryVars, evidenceVars, surface>>

UpdatesStep ==
  /\ surface = "updates"
  /\ MonitorNext
  /\ UNCHANGED <<askVars, editorVars, portalVars, crmVars, listVars,
                 shellVars, libraryVars, evidenceVars, surface>>

ListsStep ==
  /\ surface = "lists"
  /\ ListsNext
  /\ UNCHANGED <<askVars, editorVars, portalVars, crmVars, monitorVars,
                 shellVars, libraryVars, evidenceVars, surface>>

ShellStep ==
  /\ surface = "shell"
  /\ ShellNext
  /\ UNCHANGED <<askVars, editorVars, portalVars, crmVars, monitorVars, listVars,
                 libraryVars, evidenceVars, surface>>

LibraryStep ==
  /\ surface = "library"
  /\ LibraryNext
  /\ UNCHANGED <<askVars, editorVars, portalVars, crmVars, monitorVars, listVars,
                 shellVars, evidenceVars, surface>>

EvidenceStep ==
  /\ surface = "evidence"
  /\ EvidenceNext
  /\ UNCHANGED <<askVars, editorVars, portalVars, crmVars, monitorVars, listVars,
                 shellVars, libraryVars, surface>>

CockpitNext == AskStep \/ EditorStep \/ CrmStep \/ PortalStep
  \/ UpdatesStep \/ ListsStep \/ ShellStep \/ LibraryStep \/ EvidenceStep

(* The fairness of AskSpec.                                                *)
CockpitSpec ==
  /\ CockpitInit /\ [][CockpitNext]_cockpitVars
  /\ WF_cockpitVars(AskOnly /\ ServeNext)
  /\ WF_cockpitVars(AskOnly /\ PageNext)
-----------------------------------------------------------------------------
(* Ask comes to rest when it is the surface of the session.                *)
AskSettles == surface = "ask" => Settles
=============================================================================
