------------------------------ MODULE WebShell ------------------------------
(***************************************************************************)
(* The components of the project page that keep state of their own, one at  *)
(* a time: the windows (useWorkspaceState), the composers, the template     *)
(* menus, what has been read, the stars, and what lies over the page.  Of    *)
(* one another they see the windows only, so a behaviour follows one part    *)
(* and leaves the others alone.                                              *)
(***************************************************************************)
EXTENDS WorkspaceState, Composer, TemplateMenu, Conversation, Stars, Overlays

VARIABLE part

shellVars == <<part, workspaceVars, composerVars, menuVars, conversationVars, starVars, overlayVars>>
Parts == {"windows", "composer", "menus", "reading", "stars", "overlays"}

AllAt(x) == [w \in Panes |-> x]

ShellInit ==
    /\ part \in Parts
    /\ WorkspaceInit
    /\ ComposerInit /\ MenuInit /\ ConversationInit /\ StarsInit /\ OverlaysInit
    \* The parts left alone start in one state only.
    /\ part # "windows" => activeId = 1
    /\ part # "composer" => temporary = [w \in Drafting |-> FALSE] /\ prompts = [w \in Drafting |-> 0]
    /\ part # "reading" => answers = AllAt(0) /\ active = PaneList[1]
    /\ part # "overlays" => activePane = PaneList[1]

ShellNext ==
    /\ UNCHANGED part
    /\ \/ /\ part = "windows" /\ WorkspaceNext
          /\ UNCHANGED <<composerVars, menuVars, conversationVars, starVars, overlayVars>>
       \/ /\ part = "composer" /\ ComposerNext
          /\ UNCHANGED <<workspaceVars, menuVars, conversationVars, starVars, overlayVars>>
       \/ /\ part = "menus" /\ MenuNext
          /\ UNCHANGED <<workspaceVars, composerVars, conversationVars, starVars, overlayVars>>
       \/ /\ part = "reading" /\ ConversationNext
          /\ UNCHANGED <<workspaceVars, composerVars, menuVars, starVars, overlayVars>>
       \/ /\ part = "stars" /\ StarsNext
          /\ UNCHANGED <<workspaceVars, composerVars, menuVars, conversationVars, overlayVars>>
       \/ /\ part = "overlays" /\ OverlaysNext
          /\ UNCHANGED <<workspaceVars, composerVars, menuVars, conversationVars, starVars>>

ShellSpec == ShellInit /\ [][ShellNext]_shellVars

-----------------------------------------------------------------------------
(* Properties.                                                             *)

\* The invariants of the parts: what a window shows is what a reload will show,
\* of its draft, its templates and its stars; the windows, the open ones and the
\* active one agree, and no temporary window outlives its creation; the counts
\* of unread answers agree with the lists behind them; the palette agrees with
\* what is remembered.
ShellInv ==
    /\ WorkspaceTypeOK /\ ViewIsConsistent /\ TempsAreInFlight
    /\ ComposerInv /\ MenuInv /\ ConversationInv /\ StarsInv /\ OverlaysInv
=============================================================================
