------------------------------ MODULE TaskMeta ------------------------------
(***************************************************************************)
(* The block of fields that the task tools keep in the body of an issue     *)
(* (tools/task-meta.mjs), and the script that gives one to the issues that  *)
(* have none (task-meta-backfill.mjs).  A body is a list of lines, told      *)
(* apart as far as the parser does; one issue, which its owner edits while  *)
(* the script goes through its list.                                        *)
(***************************************************************************)
EXTENDS Naturals, Sequences

CONSTANTS MaxBody,          \* bound: lines of a body the owner writes
          MaxBackfills      \* bound

ASSUME MetaAssumption == MaxBody \in Nat /\ MaxBackfills \in Nat

VARIABLES body, backfill, backfills

metaVars == <<body, backfill, backfills>>

Scalar(f, v) == [is |-> "scalar", field |-> f, value |-> v]
List(f, items) == [is |-> "list", field |-> f, value |-> items]
Item(v) == [is |-> "item", field |-> "none", value |-> v]
Mark(m) == [is |-> m, field |-> "none", value |-> 0]

OpenMark == Mark("open")
CloseMark == Mark("close")
OtherLine == Mark("other")      \* blank, prose, or a field that is not known

\* What an owner writes; "dependsOn: 1" and the form with one item to a line.
OwnLines == {OpenMark, CloseMark, OtherLine,
             Scalar("estimatedComplexity", "M"), Scalar("estimatedComplexity", "huge"),
             List("dependsOn", <<1>>), List("dependsOn", <<>>), Item(2)}

NoMeta == [scalar |-> <<>>, list |-> <<>>]      \* no field at all
NoBackfill == [at |-> "idle", read |-> <<>>, new |-> <<>>, meta |-> NoMeta, edited |-> FALSE]

MetaInit == body = <<>> /\ backfill = NoBackfill /\ backfills = 0

-----------------------------------------------------------------------------
(* task-meta.                                                              *)

\* The first line from the nth that is m, 0 if there is none.
FirstLine(b, n, m) ==
    IF \E i \in n..Len(b) : b[i] = m
    THEN CHOOSE i \in n..Len(b) : b[i] = m /\ \A j \in n..(i - 1) : b[j] # m
    ELSE 0

\* The first opening mark, and the first closing mark behind it.
OpenAt(b) == FirstLine(b, 1, OpenMark)
CloseAt(b) == IF OpenAt(b) = 0 THEN 0 ELSE FirstLine(b, OpenAt(b) + 1, CloseMark)
HasBlock(b) == CloseAt(b) # 0

With(fields, f, v) == [g \in DOMAIN fields \cup {f} |-> IF g = f THEN v ELSE fields[g]]

WithScalar(meta, f, v) == [scalar |-> With(meta.scalar, f, v), list |-> meta.list]
WithList(meta, f, v) == [scalar |-> meta.scalar, list |-> With(meta.list, f, v)]

\* One line: an item belongs to the list above it, if that was opened without
\* items of its own; the last of two values of a field counts.
ParseLine(acc, line) ==
    CASE line.is = "item" /\ acc.current # "none" ->
            [meta |-> WithList(acc.meta, acc.current,
                               Append(acc.meta.list[acc.current], line.value)),
             current |-> acc.current]
      [] line.is = "list" ->
            [meta |-> WithList(acc.meta, line.field, line.value),
             current |-> IF line.value = <<>> THEN line.field ELSE "none"]
      [] line.is = "scalar" ->
            [meta |-> WithScalar(acc.meta, line.field, line.value), current |-> "none"]
      [] OTHER -> [meta |-> acc.meta, current |-> "none"]

ParseTaskMeta(b) ==
    IF ~HasBlock(b) THEN NoMeta
    ELSE LET Upto[n \in 0..Len(b)] ==
                 IF n <= OpenAt(b) THEN [meta |-> NoMeta, current |-> "none"]
                 ELSE ParseLine(Upto[n - 1], b[n])
         IN  Upto[CloseAt(b) - 1].meta

IsValid(meta) == \A f \in DOMAIN meta.scalar : meta.scalar[f] # "huge"

\* A field that is set; a list that is not empty, one item to a line.
ScalarLines(meta, f) ==
    IF f \in DOMAIN meta.scalar THEN <<Scalar(f, meta.scalar[f])>> ELSE <<>>
ListLines(meta, f) ==
    IF f \in DOMAIN meta.list /\ meta.list[f] # <<>>
    THEN <<List(f, <<>>)>> \o [i \in DOMAIN meta.list[f] |-> Item(meta.list[f][i])]
    ELSE <<>>

\* SCALAR_FIELDS and LIST_FIELDS, in their order, as far as the tools use them.
RenderTaskMeta(meta) ==
    <<OpenMark>>
    \o ScalarLines(meta, "estimatedComplexity") \o ScalarLines(meta, "acLastVerifiedAt")
    \o ListLines(meta, "dependsOn")
    \o <<CloseMark>>

\* Mutant: what follows the block is taken from its closing mark.
UpsertKeepsClose(b, meta) ==
    IF HasBlock(b)
    THEN SubSeq(b, 1, OpenAt(b) - 1) \o RenderTaskMeta(meta) \o SubSeq(b, CloseAt(b), Len(b))
    ELSE b \o (IF b = <<>> THEN <<>> ELSE <<OtherLine>>) \o RenderTaskMeta(meta)
UpsertTaskMeta(b, meta) ==
    IF HasBlock(b)
    THEN SubSeq(b, 1, OpenAt(b) - 1) \o RenderTaskMeta(meta) \o SubSeq(b, CloseAt(b) + 1, Len(b))
    ELSE b \o (IF b = <<>> THEN <<>> ELSE <<OtherLine>>) \o RenderTaskMeta(meta)

\* mergeMeta with the patch of the script: when the issue was looked at.
Verified(meta) == WithScalar(meta, "acLastVerifiedAt", "now")

-----------------------------------------------------------------------------
(* The script.                                                             *)

BackfillStarts ==
    /\ backfill.at # "patch" /\ backfills < MaxBackfills
    /\ backfills' = backfills + 1
    /\ \E force \in BOOLEAN :
          LET existing == ParseTaskMeta(body)
              merged == Verified(existing)
          IN  backfill' =
                IF existing # NoMeta /\ ~force THEN [NoBackfill EXCEPT !.at = "skipped"]
                ELSE IF ~IsValid(merged) THEN [NoBackfill EXCEPT !.at = "died"]
                ELSE [at |-> "patch", read |-> body, meta |-> merged,
                      new |-> UpsertTaskMeta(body, merged), edited |-> FALSE]
    /\ UNCHANGED body

\* The body goes out as it was made from what the list said.
PatchesBody ==
    /\ backfill.at = "patch"
    /\ body' = backfill.new
    /\ backfill' = [backfill EXCEPT !.at = "patched"]
    /\ UNCHANGED backfills

\* gh refuses, --dry-run, or an interrupt.
EditFails ==
    /\ backfill.at = "patch"
    /\ backfill' = NoBackfill
    /\ UNCHANGED <<body, backfills>>

OwnerEdits ==
    /\ Len(body) < MaxBody /\ \E line \in OwnLines : body' = Append(body, line)
    /\ backfill' = IF backfill.at = "patch" THEN [backfill EXCEPT !.edited = TRUE] ELSE NoBackfill
    /\ UNCHANGED backfills

MetaNext == OwnerEdits \/ BackfillStarts \/ PatchesBody \/ EditFails

-----------------------------------------------------------------------------
(* Properties.                                                             *)

\* What is left of a body without its block.
Outside(b) == IF HasBlock(b) THEN SubSeq(b, 1, OpenAt(b) - 1) \o SubSeq(b, CloseAt(b) + 1, Len(b))
                             ELSE b

\* Meta without its empty lists, which are not written.
Normal(meta) ==
    [scalar |-> meta.scalar,
     list |-> [f \in {g \in DOMAIN meta.list : meta.list[g] # <<>>} |-> meta.list[f]]]

\* What the script wrote into an issue is read there again: each field the
\* issue had, and the date.  Unless the body had an opening mark without a
\* closing one, to which all that follows is then added.
WrittenIsRead ==
    backfill.at = "patched" /\ (HasBlock(backfill.read) \/ OpenAt(backfill.read) = 0) =>
        ParseTaskMeta(body) = Normal(backfill.meta)

\* And the text around the block is what the list said.  (What the owner
\* changed in between is lost.)
TextIsKept ==
    backfill.at = "patched" /\ (HasBlock(backfill.read) \/ OpenAt(backfill.read) = 0) =>
        Outside(body) \in {Outside(backfill.read), Append(backfill.read, OtherLine)}

\* A field recorded on an issue survives the script that records others.
MetaInv == WrittenIsRead /\ TextIsKept

MetaSpec == MetaInit /\ [][MetaNext]_metaVars
=============================================================================
