----------------------------- MODULE UserInterface -----------------------------
(***************************************************************************)
(* The web interface (platform/ui/scripts/pion.js): a tab for each of the  *)
(* configuration pages and one for the Reactors page.  The pages share     *)
(* neither variables nor requests, so that what is done on one does not    *)
(* show on another.  A behaviour of this module is one in which the user   *)
(* works on one of them: the one that "current_page" names.                *)
(***************************************************************************)
EXTENDS ConfigPages, WorkspaceEditor

VARIABLE current_page

interfaceVars == <<current_page, pagesVars, editorVars>>

\* Selecting a page for the first time initialises it; no other has panes.
ConfigPageSelected ==
    \/ current_page = "config" /\ PagesInit
    \/ /\ current_page = "reactor_config"
       /\ kind = "none"
       /\ page = [CreatePanesFromAllItems EXCEPT !.children = <<>>, !.panes = <<>>,
                                                 !.selected = NoPane, !.timers = <<>>]
       /\ config = [i \in Items |-> Absent]
       /\ NoRequests

Init == ConfigPageSelected /\ EditorInit

Next ==
    /\ \/ current_page = "config" /\ PagesNext /\ UNCHANGED editorVars
       \/ current_page = "reactor_config" /\ EditorNext /\ UNCHANGED pagesVars
    /\ UNCHANGED current_page

Spec == Init /\ [][Next]_interfaceVars /\ PagesFairness

================================================================================
