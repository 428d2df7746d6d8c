---------------------------- MODULE TemplateMenu ----------------------------
(***************************************************************************)
(* The template menus of the open chat windows.  Every menu keeps its own  *)
(* copy of the list in localStorage: it reads it when it is mounted, hears *)
(* of changes only while it is open, and writes its copy back whole.       *)
(***************************************************************************)
EXTENDS WebPage

CONSTANTS MaxTemplates,   \* bound: templates ever saved; the code keeps 50
          RecentMax       \* RECENT_TEMPLATES_MAX

ASSUME TemplateMenuAssumption == MaxTemplates \in Nat /\ RecentMax \in Nat

VARIABLES menuOpen,       \* templatesOpen, of the window
          present,        \* the menu is mounted: no call of the window is pending
          list, form,     \* of the menu
          templates, picked, saved,   \* localStorage; ids handed out
          missed          \* history: the storage changed while the menu was not listening

menuVars == <<menuOpen, present, list, form, templates, picked, saved, missed>>

BuiltIn == 0                  \* among the recently used
NoForm == 0
NewForm == MaxTemplates + 1   \* otherwise the template edited
Template == [id : 1..MaxTemplates, text : 0..1]
TemplateIds(ts) == {t.id : t \in ts}

MenuInit ==
    /\ menuOpen = [m \in Panes |-> FALSE] /\ present = [m \in Panes |-> TRUE]
    /\ list = [m \in Panes |-> {}] /\ form = [m \in Panes |-> NoForm]
    /\ templates = {} /\ picked = <<>> /\ saved = 0 /\ missed = [m \in Panes |-> FALSE]

Usable(m) == present[m] /\ menuOpen[m]

\* The event wav:templates-changed: every open menu reads the storage again.
Broadcast(l) ==
    /\ list' = [m \in Panes |-> IF Usable(m) THEN templates' ELSE l[m]]
    /\ missed' = [m \in Panes |-> ~Usable(m) /\ (missed[m] \/ templates' # templates)]

\* Mutant: the storage is written and nobody is told.
WritesSilently(m, ts) ==
    /\ templates' = ts /\ list' = [list EXCEPT ![m] = ts]
    /\ missed' = [n \in Panes |-> missed[n] \/ ~Usable(n)]
\* setUserTemplates and writeUserTemplates.
Writes(m, ts) == templates' = ts /\ Broadcast([list EXCEPT ![m] = ts])

FormGoes(m, f) == form' = [form EXCEPT ![m] = f]

Toggle(m) ==
    /\ menuOpen' = [menuOpen EXCEPT ![m] = ~@]
    /\ UNCHANGED <<present, list, form, templates, picked, saved, missed>>

\* Escape reaches the listener of every open menu.
EscapeCloses ==
    /\ \E m \in Panes : Usable(m)
    /\ menuOpen' = [m \in Panes |-> menuOpen[m] /\ ~present[m]]
    /\ UNCHANGED <<present, list, form, templates, picked, saved, missed>>

\* The menu is not rendered while a call of the window is pending.
SendHides(m) ==
    /\ present[m]
    /\ present' = [present EXCEPT ![m] = FALSE]
    /\ UNCHANGED <<menuOpen, list, form, templates, picked, saved, missed>>
AnswerShows(m) ==
    /\ ~present[m]
    /\ present' = [present EXCEPT ![m] = TRUE]
    /\ list' = [list EXCEPT ![m] = templates] /\ missed' = [missed EXCEPT ![m] = FALSE]
    /\ FormGoes(m, NoForm)
    /\ UNCHANGED <<menuOpen, templates, picked, saved>>

\* handlePick: the menu closes; its listener and those of the others have
\* heard of the new list of recently used before.
Pick(m) ==
    /\ Usable(m)
    /\ \E id \in TemplateIds(list[m]) \cup {BuiltIn} :
          picked' = UsedLast(picked, id, RecentMax)
    /\ templates' = templates /\ Broadcast(list)
    /\ menuOpen' = [menuOpen EXCEPT ![m] = FALSE]
    /\ UNCHANGED <<present, form, saved>>

OpenForm(m) ==
    /\ Usable(m)
    /\ \E f \in {NewForm} \cup TemplateIds(list[m]) : FormGoes(m, f)
    /\ UNCHANGED <<menuOpen, present, list, templates, picked, saved, missed>>
CancelForm(m) ==
    /\ Usable(m) /\ form[m] # NoForm
    /\ FormGoes(m, NoForm)
    /\ UNCHANGED <<menuOpen, present, list, templates, picked, saved, missed>>

\* onSaveNew.
SaveNew(m) ==
    /\ Usable(m) /\ form[m] = NewForm /\ saved < MaxTemplates
    /\ saved' = saved + 1
    /\ Writes(m, list[m] \cup {[id |-> saved', text |-> 0]})
    /\ FormGoes(m, NoForm)
    /\ UNCHANGED <<menuOpen, present, picked>>
SaveEdit(m) ==
    /\ Usable(m) /\ form[m] \in 1..MaxTemplates
    /\ Writes(m, {IF t.id = form[m] THEN [t EXCEPT !.text = 1] ELSE t : t \in list[m]})
    /\ FormGoes(m, NoForm)
    /\ UNCHANGED <<menuOpen, present, picked, saved>>

DeleteTemplate(m) ==
    /\ Usable(m)
    /\ \E id \in TemplateIds(list[m]) :
          /\ Writes(m, {t \in list[m] : t.id # id})
          /\ IF form[m] = id THEN FormGoes(m, NoForm) ELSE UNCHANGED form
    /\ UNCHANGED <<menuOpen, present, picked, saved>>

MenuNext ==
    \/ EscapeCloses
    \/ \E m \in Panes :
          \/ Toggle(m) \/ SendHides(m) \/ AnswerShows(m) \/ Pick(m)
          \/ OpenForm(m) \/ CancelForm(m) \/ SaveNew(m) \/ SaveEdit(m) \/ DeleteTemplate(m)

-----------------------------------------------------------------------------
(* Properties.                                                             *)

\* No template is listed twice, in the storage or by a menu, and the recently
\* used are few and distinct.
MenuInv ==
    /\ \A ts \in {templates} \cup {list[m] : m \in Panes} :
          ts \subseteq Template /\ \A t, u \in ts : t.id = u.id => t = u
    /\ IsInjective(picked) /\ Len(picked) <= RecentMax

\* A menu writes back the list it has, whole; yet what it saves, changes or
\* deletes is one template, and no other goes, comes back or changes with it.
\* It does not hold for a menu the storage changed behind while it was closed:
\* opening it reads nothing, so it writes its old list.
OneTemplateAtATime ==
    [][\A m \in Panes :
          (SaveNew(m) \/ SaveEdit(m) \/ DeleteTemplate(m)) /\ ~missed[m]
          => \E id \in 1..MaxTemplates : \A t \in Template :
                t.id # id => (t \in templates' <=> t \in templates)]_menuVars
=============================================================================
