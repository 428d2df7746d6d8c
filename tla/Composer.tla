------------------------------ MODULE Composer ------------------------------
(***************************************************************************)
(* The composers of the open chat windows: the draft, the recall of earlier *)
(* prompts with the arrow keys, and the copy of the draft kept in           *)
(* localStorage under the id of the window.  A draft is the set of the kinds *)
(* of text it is made of.                                                   *)
(*                                                                          *)
(* A handler and the effects that follow it are one action: React flushes   *)
(* the effects of a click or a key before the next event.                   *)
(***************************************************************************)
EXTENDS Integers, Sequences, FiniteSets

CONSTANTS Drafting,     \* the windows typed in; no composer sees another
          MaxPrompts    \* bound: prompts of one conversation

ASSUME ComposerAssumption == MaxPrompts \in Nat

VARIABLES shown,        \* the windows the canvas mounts
          temporary,    \* windows still under the id the client made up
          busy,         \* ChatSession: a call of the window is pending
          prompts,      \* its user messages that have not failed
          draft, recall,
          kept          \* localStorage, by window and kind of id

composerVars == <<shown, temporary, busy, prompts, draft, recall, kept>>

Text == SUBSET {"typed", "recalled", "inserted"}
KeyOf(w) == IF temporary[w] THEN "temporary" ELSE "stored"
Saved(w) == kept[w][KeyOf(w)]

ComposerInit ==
    /\ shown = Drafting
    /\ temporary \in [Drafting -> BOOLEAN]
    /\ busy = [w \in Drafting |-> FALSE]
    /\ prompts \in [Drafting -> 0..MaxPrompts]
    /\ draft = [w \in Drafting |-> {}]
    /\ recall = [w \in Drafting |-> -1]
    /\ kept = [w \in Drafting |-> [k \in {"temporary", "stored"} |-> {}]]

\* setDraft, with the effect that writes it down.
Drafts(w, text) ==
    /\ draft' = [draft EXCEPT ![w] = text]
    /\ kept' = [kept EXCEPT ![w][KeyOf(w)] = text]

Recalls(w, i) == recall' = [recall EXCEPT ![w] = i]

\* Mutant: a key pressed in the field leaves the recall where it was.
TypesOn(w, text) == Drafts(w, text) /\ UNCHANGED recall
\* onChange.
Types(w, text) == Drafts(w, text) /\ Recalls(w, -1)

Type(w) ==
    /\ w \in shown /\ ~busy[w]
    /\ \E text \in {draft[w] \cup {"typed"}, {"typed"}, {}} : Types(w, text)
    /\ UNCHANGED <<shown, temporary, busy, prompts>>

\* submit; the Enter key ends the recall, the button does not.
Submit(w) ==
    /\ w \in shown /\ ~busy[w] /\ draft[w] # {} /\ prompts[w] < MaxPrompts
    /\ busy' = [busy EXCEPT ![w] = TRUE]
    /\ prompts' = [prompts EXCEPT ![w] = @ + 1]
    /\ Drafts(w, {})
    /\ Recalls(w, -1) \/ UNCHANGED recall
    /\ UNCHANGED <<shown, temporary>>

\* The session settles the call; a failed prompt leaves the history.
CallSettles(w) ==
    /\ busy[w]
    /\ busy' = [busy EXCEPT ![w] = FALSE]
    /\ prompts' \in {prompts, [prompts EXCEPT ![w] = @ - 1]}
    /\ UNCHANGED <<shown, temporary, draft, recall, kept>>

\* Escape in the field, and the shortcut, which keeps the recall.
EscapeClears(w) ==
    /\ w \in shown /\ ~busy[w] /\ draft[w] # {}
    /\ Drafts(w, {}) /\ Recalls(w, -1)
    /\ UNCHANGED <<shown, temporary, busy, prompts>>
ShortcutClears(w) ==
    /\ w \in shown
    /\ Drafts(w, {})
    /\ UNCHANGED <<shown, temporary, busy, prompts, recall>>

RecallOlder(w) ==
    /\ w \in shown /\ ~busy[w] /\ prompts[w] > 0
    /\ draft[w] = {} \/ recall[w] >= 0
    /\ LET next == IF recall[w] + 1 < prompts[w] THEN recall[w] + 1 ELSE prompts[w] - 1
       IN  Recalls(w, next)
    /\ Drafts(w, {"recalled"})
    /\ UNCHANGED <<shown, temporary, busy, prompts>>

RecallNewer(w) ==
    /\ w \in shown /\ ~busy[w] /\ recall[w] >= 0
    /\ Recalls(w, recall[w] - 1)
    /\ Drafts(w, IF recall[w] - 1 \in 0..(prompts[w] - 1) THEN {"recalled"} ELSE {})
    /\ UNCHANGED <<shown, temporary, busy, prompts>>

\* A template or a quotation is appended; neither ends the recall.
Insert(w) ==
    /\ w \in shown
    /\ Drafts(w, draft[w] \cup {"inserted"})
    /\ UNCHANGED <<shown, temporary, busy, prompts, recall>>

CloseComposer(w) ==
    /\ w \in shown
    /\ shown' = shown \ {w}
    /\ UNCHANGED <<temporary, busy, prompts, draft, recall, kept>>

\* useState(() => readDraft(key)).
Mounts(w) == draft' = [draft EXCEPT ![w] = Saved(w)]

ReopenComposer(w) ==
    /\ w \notin shown
    /\ shown' = shown \cup {w}
    /\ Mounts(w) /\ Recalls(w, -1)
    /\ UNCHANGED <<temporary, busy, prompts, kept>>

\* The call of createWindow settles: the window comes back under its stored
\* id, which is the key of the component, so it is mounted anew.
PersistComposer(w) ==
    /\ temporary[w]
    /\ temporary' = [temporary EXCEPT ![w] = FALSE]
    /\ draft' = [draft EXCEPT ![w] = kept[w]["stored"]]
    /\ Recalls(w, -1)
    /\ busy' = [busy EXCEPT ![w] = FALSE]
    /\ prompts' = [prompts EXCEPT ![w] = 0]
    /\ UNCHANGED <<shown, kept>>

\* A reload shows every stored window again; what was not stored is gone.
Reload ==
    /\ \A w \in Drafting : ~temporary[w]
    /\ shown' = Drafting
    /\ busy' = [w \in Drafting |-> FALSE]
    /\ draft' = [w \in Drafting |-> Saved(w)]
    /\ recall' = [w \in Drafting |-> -1]
    /\ UNCHANGED <<temporary, prompts, kept>>

ComposerNext ==
    \/ \E w \in Drafting :
          \/ Type(w) \/ Submit(w) \/ CallSettles(w) \/ EscapeClears(w) \/ ShortcutClears(w)
          \/ RecallOlder(w) \/ RecallNewer(w) \/ Insert(w)
          \/ CloseComposer(w) \/ ReopenComposer(w) \/ PersistComposer(w)
    \/ Reload

-----------------------------------------------------------------------------
(* Properties.                                                             *)

\* What the composer of an open window shows is what a reload will show.
ComposerInv ==
    \A w \in Drafting :
        /\ draft[w] \in Text /\ recall[w] \in -1..(MaxPrompts - 1)
        /\ w \in shown => Saved(w) = draft[w]

\* Typed text leaves a stored window only by a gesture in the open window that
\* sends or erases it: closing, reopening and reloading keep it, and the arrow
\* keys never put a recalled prompt in its place.
DraftsSurvive ==
    [][\A w \in Drafting :
          ~temporary[w] /\ "typed" \in Saved(w) /\ "typed" \notin Saved(w)' =>
              w \in shown /\ w \in shown' /\ draft'[w] = {}]_composerVars
=============================================================================
