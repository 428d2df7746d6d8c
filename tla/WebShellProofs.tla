--------------------------- MODULE WebShellProofs ---------------------------
(***************************************************************************)
(* Theorems about the parts of WebShell, for every value of the constants. *)
(* Each part has an invariant of its own, inductive under the part's Next; *)
(* the theorems at the end lift them to the specification.                 *)
(***************************************************************************)
EXTENDS WebShell, SequenceTheorems, FiniteSetTheorems, WellFoundedInduction, TLAPS

-----------------------------------------------------------------------------
(* Lists.                                                                  *)

\* t has the elements of s that are in keep, and at tells their places, in order.
KeptAt(s, keep, t, at) ==
    /\ at \in [1..Len(t) -> 1..Len(s)]
    /\ \A n \in 1..Len(t) : t[n] = s[at[n]] /\ s[at[n]] \in keep
    /\ \A m, n \in 1..Len(t) : m < n => at[m] < at[n]
    /\ \A i \in 1..Len(s) : s[i] \in keep => \E n \in 1..Len(t) : at[n] = i

\* A filter is that.
LEMMA Filtering ==
    ASSUME NEW S, NEW s \in Seq(S), NEW keep
    PROVE  /\ Filtered(s, keep) \in Seq(S)
           /\ \E at : KeptAt(s, keep, Filtered(s, keep), at)
<1> DEFINE places == {i \in DOMAIN s : s[i] \in keep}
           upTo(i) == {j \in places : j <= i}
           N == Cardinality(places)
           rank == [i \in places |-> Cardinality(upTo(i))]
           Place(n) == CHOOSE i \in places : Cardinality({j \in places : j <= i}) = n
           at == [n \in 1..N |-> Place(n)]
<1>1. DOMAIN s = 1..Len(s) /\ Len(s) \in Nat
  OBVIOUS
<1>2. IsFiniteSet(places) /\ N \in Nat
  <2>1. IsFiniteSet(1..Len(s))
    BY FS_Interval, <1>1
  <2>2. places \in SUBSET (1..Len(s))
    BY <1>1
  <2> QED BY <2>1, <2>2, FS_Subset, FS_CardinalityType
<1>3. \A i \in places : /\ IsFiniteSet(upTo(i)) /\ upTo(i) \in SUBSET places
                        /\ rank[i] = Cardinality(upTo(i)) /\ rank[i] \in 1..N
  <2> SUFFICES ASSUME NEW i \in places
               PROVE  /\ IsFiniteSet(upTo(i)) /\ upTo(i) \in SUBSET places
                      /\ rank[i] = Cardinality(upTo(i)) /\ rank[i] \in 1..N
    OBVIOUS
  <2>1. upTo(i) \in SUBSET places /\ i \in upTo(i)
    BY <1>1
  <2>2. IsFiniteSet(upTo(i)) /\ Cardinality(upTo(i)) <= N
    BY <2>1, <1>2, FS_Subset
  <2>3. Cardinality(upTo(i)) \in Nat /\ Cardinality(upTo(i)) # 0
    BY <2>1, <2>2, FS_CardinalityType, FS_EmptySet
  <2> HIDE DEF upTo, N, places
  <2>4. rank[i] = Cardinality(upTo(i))
    OBVIOUS
  <2> QED BY <2>1, <2>2, <2>3, <2>4, <1>2
<1>4. \A i, k \in places : i < k => rank[i] < rank[k]
  <2> SUFFICES ASSUME NEW i \in places, NEW k \in places, i < k
               PROVE  rank[i] < rank[k]
    OBVIOUS
  <2>1. upTo(i) \in SUBSET upTo(k) /\ k \in upTo(k) /\ k \notin upTo(i)
    BY <1>1
  <2>2. Cardinality(upTo(i)) <= Cardinality(upTo(k)) /\ Cardinality(upTo(i)) # Cardinality(upTo(k))
    BY <2>1, <1>3, FS_Subset
  <2>3. Cardinality(upTo(i)) \in Nat /\ Cardinality(upTo(k)) \in Nat
    BY <1>3, FS_CardinalityType
  <2> HIDE DEF upTo, rank, places
  <2> QED BY <2>2, <2>3, <1>3
<1>5. /\ rank \in Injection(places, 1..N)
      /\ \A i, k \in places : rank[i] = rank[k] => i = k
  <2>1. rank \in [places -> 1..N]
    BY <1>3
  <2>a. places \subseteq Nat
    BY <1>1
  <2> HIDE DEF upTo, rank, N, places
  <2>2. places \subseteq Nat /\ \A i \in places : rank[i] \in Nat
    BY <2>a, <1>2, <1>3
  <2>3. \A i, k \in places : rank[i] = rank[k] => i = k
    BY <1>4, <2>2
  <2> QED BY <2>1, <2>3, Zenon DEF Injection, IsInjective
<1>6. \A n \in 1..N : \E i \in places : rank[i] = n
  <2>1. IsFiniteSet(1..N) /\ Cardinality(1..N) = N
    BY <1>2, FS_Interval
  <2>2. rank \in Surjection(places, 1..N)
    BY <1>5, <2>1, FS_Injection
  <2> QED BY <2>2 DEF Surjection
<1>7. \A n \in 1..N : at[n] \in places /\ rank[at[n]] = n
  <2> SUFFICES ASSUME NEW n \in 1..N PROVE at[n] \in places /\ rank[at[n]] = n
    OBVIOUS
  <2>1. \E i \in places : Cardinality({j \in places : j <= i}) = n
    BY <1>6, <1>3
  <2>2. Place(n) \in places /\ Cardinality({j \in places : j <= Place(n)}) = n
    BY <2>1, Zenon
  <2> QED BY <2>2, <1>3
<1>8. Filtered(s, keep) = [n \in 1..N |-> s[at[n]]]
  BY DEF Filtered
<1> HIDE DEF at, rank, N
<1>9. /\ at \in [1..N -> places]
      /\ \A m, n \in 1..N : m < n => at[m] < at[n]
      /\ \A i \in places : \E n \in 1..N : at[n] = i
  <2>1. at \in [1..N -> places]
    BY <1>7 DEF at
  <2>2. \A m, n \in 1..N : m < n => at[m] < at[n]
    BY <1>1, <1>2, <1>4, <1>7
  <2> HIDE DEF places, upTo
  <2>3. \A i \in places : rank[i] \in 1..N /\ at[rank[i]] = i
    BY <1>3, <1>5, <1>7
  <2> QED BY <2>1, <2>2, <2>3
<1>10. Filtered(s, keep) \in Seq(S) /\ Len(Filtered(s, keep)) = N
  <2>1. \A n \in 1..N : s[at[n]] \in S
    BY <1>9
  <2> QED BY <1>2, <1>8, <2>1
<1>11. KeptAt(s, keep, Filtered(s, keep), at)
  BY <1>1, <1>8, <1>9, <1>10 DEF KeptAt
<1> QED BY <1>10, <1>11

\* What a filter keeps: the elements that are meant, each as often as it was there.
LEMMA FilterKeeps ==
    ASSUME NEW S, NEW s \in Seq(S), NEW keep
    PROVE  /\ Filtered(s, keep) \in Seq(S)
           /\ ToSet(Filtered(s, keep)) = ToSet(s) \cap keep
           /\ Len(Filtered(s, keep)) \in Nat /\ Len(Filtered(s, keep)) <= Len(s)
           /\ IsInjective(s) => IsInjective(Filtered(s, keep))
<1> DEFINE t == Filtered(s, keep)
<1>0. PICK at : KeptAt(s, keep, t, at)
  BY Filtering
<1>1. /\ at \in [1..Len(t) -> 1..Len(s)]
      /\ \A n \in 1..Len(t) : t[n] = s[at[n]] /\ s[at[n]] \in keep
      /\ \A m, n \in 1..Len(t) : m < n => at[m] < at[n]
      /\ \A i \in 1..Len(s) : s[i] \in keep => \E n \in 1..Len(t) : at[n] = i
  BY <1>0, Zenon DEF KeptAt
<1>2. t \in Seq(S)
  BY Filtering
<1> HIDE DEF t
<1>3. /\ DOMAIN s = 1..Len(s) /\ Len(s) \in Nat
      /\ DOMAIN t = 1..Len(t) /\ Len(t) \in Nat
  BY <1>2
<1>4. ToSet(t) = ToSet(s) \cap keep
  <2>1. ASSUME NEW x \in ToSet(t) PROVE x \in ToSet(s) \cap keep
    BY <1>1, <1>3, <2>1 DEF ToSet
  <2>2. ASSUME NEW x \in ToSet(s), x \in keep PROVE x \in ToSet(t)
    <3>1. PICK i \in 1..Len(s) : x = s[i]
      BY <1>3 DEF ToSet
    <3>2. PICK n \in 1..Len(t) : at[n] = i
      BY <1>1, <2>2, <3>1
    <3> QED BY <1>1, <1>3, <3>1, <3>2 DEF ToSet
  <2> QED BY <2>1, <2>2
<1>5. \A m, n \in 1..Len(t) : at[m] = at[n] => m = n
  BY <1>1, <1>3
<1>6. Len(t) <= Len(s)
  <2>1. at \in Injection(1..Len(t), 1..Len(s))
    BY <1>1, <1>5, Zenon DEF Injection, IsInjective
  <2>2. ASSUME NEW n \in Nat PROVE IsFiniteSet(1..n) /\ Cardinality(1..n) = n
    BY FS_Interval
  <2>3. IsFiniteSet(1..Len(s)) /\ Cardinality(1..Len(s)) = Len(s) /\ Cardinality(1..Len(t)) = Len(t)
    BY <1>3, <2>2
  <2> QED BY <2>1, <2>3, FS_Injection
<1>7. IsInjective(s) => IsInjective(t)
  BY <1>1, <1>3, <1>5 DEF IsInjective
<1> QED BY <1>2, <1>3, <1>4, <1>6, <1>7 DEF t

\* x comes first, once, and what is dropped is of the end.
LEMMA LastUsed ==
    ASSUME NEW S, NEW s \in Seq(S), NEW x \in S, NEW n \in Nat, IsInjective(s)
    PROVE  /\ UsedLast(s, x, n) \in Seq(S)
           /\ IsInjective(UsedLast(s, x, n))
           /\ Len(UsedLast(s, x, n)) <= n
<1> DEFINE rest == Filtered(s, ToSet(s) \ {x})
           all == <<x>> \o rest
           k == IF Len(all) < n THEN Len(all) ELSE n
<1>1. rest \in Seq(S) /\ x \notin ToSet(rest) /\ IsInjective(rest)
  BY FilterKeeps
<1> HIDE DEF rest
<1>2. /\ all \in Seq(S) /\ Len(all) = Len(rest) + 1 /\ Len(rest) \in Nat
      /\ \A i \in 1..Len(all) : all[i] = IF i = 1 THEN x ELSE rest[i - 1]
  BY <1>1
<1>3. \A i \in 1..Len(rest) : rest[i] # x
  BY <1>1 DEF ToSet
<1>4. \A i, j \in 1..Len(rest) : rest[i] = rest[j] => i = j
  BY <1>1 DEF IsInjective
<1> HIDE DEF all
<1>5. \A i, j \in 1..Len(all) : all[i] = all[j] => i = j
  <2> SUFFICES ASSUME NEW i \in 1..Len(all), NEW j \in 1..Len(all), all[i] = all[j] PROVE i = j
    OBVIOUS
  <2>1. CASE i = 1 /\ j = 1
    BY <2>1
  <2>2. CASE i = 1 /\ j # 1
    BY <1>2, <1>3, <2>2
  <2>3. CASE i # 1 /\ j = 1
    BY <1>2, <1>3, <2>3
  <2>4. CASE i # 1 /\ j # 1
    <3>1. i - 1 \in 1..Len(rest) /\ j - 1 \in 1..Len(rest) /\ rest[i - 1] = rest[j - 1]
      BY <1>2, <2>4
    <3> QED BY <1>2, <1>4, <3>1
  <2> QED BY <2>1, <2>2, <2>3, <2>4
<1>6. k \in 0..Len(all) /\ k <= n
  BY <1>2
<1>7. UsedLast(s, x, n) = SubSeq(all, 1, k)
  BY DEF UsedLast, all, rest
<1> HIDE DEF k
<1>8. /\ SubSeq(all, 1, k) \in Seq(S) /\ Len(SubSeq(all, 1, k)) = k
      /\ \A i \in 1..k : SubSeq(all, 1, k)[i] = all[i]
  BY <1>2, <1>6
<1>9. IsInjective(SubSeq(all, 1, k))
  BY <1>2, <1>5, <1>6, <1>8 DEF IsInjective
<1> QED BY <1>6, <1>7, <1>8, <1>9

\* A set of numbers has a least one.
LEMMA Lowest ==
    ASSUME NEW S, S \subseteq Nat, S # {}
    PROVE  (CHOOSE x \in S : \A y \in S : x <= y) \in S
<1> DEFINE R == OpToRel(<, Nat)
<1>1. \E x \in S : \A y \in S : ~ (<<y, x>> \in R)
  <2>1. IsWellFoundedOn(R, Nat)
    BY NatLessThanWellFounded
  <2> HIDE DEF R
  <2> QED BY <2>1, WFMin
<1>2. \A x, y \in S : y < x => <<y, x>> \in R
  BY DEF OpToRel
<1>3. PICK x \in S : \A y \in S : ~ (<<y, x>> \in R)
  BY <1>1
<1> HIDE DEF R
<1>4. \A y \in S : ~(y < x)
  BY <1>2, <1>3
<1>5. \A y \in S : x <= y
  BY <1>4
<1> QED BY <1>5, Zenon

-----------------------------------------------------------------------------
(* Composer.                                                               *)

\* A recalled prompt is never mixed with typed text, which is why the arrow keys
\* erase none; a window that is busy has a prompt to take back.
ComposerIInv ==
    /\ shown \subseteq Drafting
    /\ temporary \in [Drafting -> BOOLEAN] /\ busy \in [Drafting -> BOOLEAN]
    /\ prompts \in [Drafting -> 0..MaxPrompts]
    /\ draft \in [Drafting -> Text] /\ recall \in [Drafting -> -1..(MaxPrompts - 1)]
    /\ kept \in [Drafting -> [{"temporary", "stored"} -> Text]]
    /\ \A w \in Drafting :
          /\ busy[w] => prompts[w] > 0
          /\ recall[w] >= 0 => "typed" \notin draft[w]
          /\ w \in shown => Saved(w) = draft[w]

LEMMA ComposerStart ==
    ASSUME ComposerAssumption, ComposerInit PROVE ComposerIInv
<1>1. /\ shown = Drafting /\ temporary \in [Drafting -> BOOLEAN]
      /\ busy = [w \in Drafting |-> FALSE] /\ prompts \in [Drafting -> 0..MaxPrompts]
      /\ draft = [w \in Drafting |-> {}] /\ recall = [w \in Drafting |-> -1]
      /\ kept = [w \in Drafting |-> [k \in {"temporary", "stored"} |-> {}]]
  BY Zenon DEF ComposerInit
<1>2. {} \in Text /\ -1 \in -1..(MaxPrompts - 1)
  BY DEF Text, ComposerAssumption
<1>3. \A w \in Drafting : KeyOf(w) \in {"temporary", "stored"}
  BY Zenon DEF KeyOf
<1>4. \A w \in Drafting : Saved(w) = draft[w] /\ ~busy[w] /\ ~ (recall[w] >= 0)
  BY <1>1, <1>3 DEF Saved
<1>5. /\ busy \in [Drafting -> BOOLEAN] /\ draft \in [Drafting -> Text]
      /\ recall \in [Drafting -> -1..(MaxPrompts - 1)]
      /\ kept \in [Drafting -> [{"temporary", "stored"} -> Text]]
  BY <1>1, <1>2
<1> QED BY <1>1, <1>4, <1>5 DEF ComposerIInv

\* What is drafted is written down under the key of the window, and under no other.
LEMMA Drafted ==
    ASSUME ComposerIInv, NEW w \in Drafting, NEW text \in Text, Drafts(w, text),
           UNCHANGED temporary
    PROVE  /\ draft' \in [Drafting -> Text] /\ draft'[w] = text
           /\ kept' \in [Drafting -> [{"temporary", "stored"} -> Text]]
           /\ Saved(w)' = text
           /\ \A v \in Drafting : v # w => draft'[v] = draft[v] /\ Saved(v)' = Saved(v)
<1>1. \A v \in Drafting : KeyOf(v) \in {"temporary", "stored"} /\ KeyOf(v)' = KeyOf(v)
  BY Zenon DEF KeyOf
<1>2. draft' = [draft EXCEPT ![w] = text] /\ kept' = [kept EXCEPT ![w][KeyOf(w)] = text]
  BY DEF Drafts
<1>3. draft \in [Drafting -> Text] /\ kept \in [Drafting -> [{"temporary", "stored"} -> Text]]
  BY Zenon DEF ComposerIInv
<1> QED BY <1>1, <1>2, <1>3 DEF Saved

\* The parts of the invariant that a draft and a recall decide, of one window.
DraftFits(w) ==
    /\ busy[w] => prompts[w] > 0
    /\ recall[w] >= 0 => "typed" \notin draft[w]
    /\ w \in shown => Saved(w) = draft[w]

\* A gesture in the field: a text that is drafted, and the recall with it.
LEMMA Gestured ==
    ASSUME ComposerIInv, NEW w \in Drafting, NEW text \in Text, Drafts(w, text),
           NEW i \in -1..(MaxPrompts - 1), i >= 0 => "typed" \notin text,
           recall' = [recall EXCEPT ![w] = i],
           UNCHANGED <<shown, temporary, busy, prompts>>
    PROVE  ComposerIInv'
<1>1. /\ draft' \in [Drafting -> Text] /\ draft'[w] = text
      /\ kept' \in [Drafting -> [{"temporary", "stored"} -> Text]]
      /\ Saved(w)' = text
      /\ \A v \in Drafting : v # w => draft'[v] = draft[v] /\ Saved(v)' = Saved(v)
  BY Drafted
<1>2. recall \in [Drafting -> -1..(MaxPrompts - 1)]
  BY Zenon DEF ComposerIInv
<1>3. /\ recall' \in [Drafting -> -1..(MaxPrompts - 1)] /\ recall'[w] = i
      /\ \A v \in Drafting : v # w => recall'[v] = recall[v]
  BY <1>2
<1>4. \A v \in Drafting : DraftFits(v)
  BY Zenon DEF ComposerIInv, DraftFits
<1>5. DraftFits(w)'
  BY <1>1, <1>3, <1>4, Zenon DEF DraftFits
<1>6. \A v \in Drafting : v # w => DraftFits(v)'
  BY <1>1, <1>3, <1>4, Zenon DEF DraftFits
<1>7. \A v \in Drafting : DraftFits(v)'
  BY <1>5, <1>6, Zenon
<1> QED BY <1>1, <1>3, <1>7, Zenon DEF ComposerIInv, DraftFits

LEMMA ComposerKept ==
    ASSUME ComposerAssumption, ComposerIInv, [ComposerNext]_composerVars PROVE ComposerIInv'
<1> USE ComposerAssumption DEF ComposerAssumption
<1>1. /\ shown \subseteq Drafting
      /\ temporary \in [Drafting -> BOOLEAN] /\ busy \in [Drafting -> BOOLEAN]
      /\ prompts \in [Drafting -> 0..MaxPrompts]
      /\ draft \in [Drafting -> Text] /\ recall \in [Drafting -> -1..(MaxPrompts - 1)]
      /\ kept \in [Drafting -> [{"temporary", "stored"} -> Text]]
      /\ \A w \in Drafting : DraftFits(w)
  BY Zenon DEF ComposerIInv, DraftFits
<1>2. \A w \in Drafting : KeyOf(w) \in {"temporary", "stored"} /\ Saved(w) \in Text
  <2>1. \A w \in Drafting : KeyOf(w) \in {"temporary", "stored"}
    BY Zenon DEF KeyOf
  <2> QED BY <1>1, <2>1 DEF Saved
<1>3. {} \in Text /\ {"typed"} \in Text /\ {"recalled"} \in Text
      /\ \A text \in Text : text \cup {"typed"} \in Text /\ text \cup {"inserted"} \in Text
  BY DEF Text
<1>4. -1 \in -1..(MaxPrompts - 1)
  OBVIOUS
<1>5. CASE UNCHANGED composerVars
  BY <1>5, Zenon DEF composerVars, ComposerIInv, Saved, KeyOf
<1>6. ASSUME NEW w \in Drafting, Type(w) PROVE ComposerIInv'
  <2>1. PICK text \in {draft[w] \cup {"typed"}, {"typed"}, {}} : Types(w, text)
    BY <1>6, Zenon DEF Type
  <2>2. text \in Text
    BY <1>1, <1>3, <2>1
  <2>3. /\ Drafts(w, text) /\ recall' = [recall EXCEPT ![w] = -1]
        /\ UNCHANGED <<shown, temporary, busy, prompts>>
    BY <1>6, <2>1, Zenon DEF Type, Types, Recalls
  <2>4. -1 >= 0 => "typed" \notin text
    OBVIOUS
  <2> QED BY <1>4, <2>2, <2>3, <2>4, Gestured
<1>7. ASSUME NEW w \in Drafting, Submit(w) PROVE ComposerIInv'
  <2>1. /\ busy' = [busy EXCEPT ![w] = TRUE] /\ prompts' = [prompts EXCEPT ![w] = @ + 1]
        /\ Drafts(w, {}) /\ prompts[w] < MaxPrompts
        /\ recall' = recall \/ recall' = [recall EXCEPT ![w] = -1]
        /\ UNCHANGED <<shown, temporary>>
    BY <1>7, Zenon DEF Submit, Recalls
  <2>2. /\ draft' \in [Drafting -> Text] /\ draft'[w] = {}
        /\ kept' \in [Drafting -> [{"temporary", "stored"} -> Text]]
        /\ Saved(w)' = {}
        /\ \A v \in Drafting : v # w => draft'[v] = draft[v] /\ Saved(v)' = Saved(v)
    BY <1>3, <2>1, Drafted
  <2>3. /\ prompts' \in [Drafting -> 0..MaxPrompts] /\ prompts'[w] > 0
        /\ \A v \in Drafting : v # w => prompts'[v] = prompts[v]
    BY <1>1, <2>1
  <2>4. /\ busy' \in [Drafting -> BOOLEAN]
        /\ \A v \in Drafting : v # w => busy'[v] = busy[v]
    BY <1>1, <2>1, Zenon
  <2>5. /\ recall' \in [Drafting -> -1..(MaxPrompts - 1)]
        /\ \A v \in Drafting : v # w => recall'[v] = recall[v]
    BY <1>1, <1>4, <2>1
  <2>6. DraftFits(w)'
    BY <2>2, <2>3, Zenon DEF DraftFits
  <2>7. \A v \in Drafting : v # w => DraftFits(v)'
    BY <1>1, <2>1, <2>2, <2>3, <2>4, <2>5, Zenon DEF DraftFits
  <2>8. \A v \in Drafting : DraftFits(v)'
    BY <2>6, <2>7, Zenon
  <2> QED BY <1>1, <2>1, <2>2, <2>3, <2>4, <2>5, <2>8, Zenon DEF ComposerIInv, DraftFits
<1>8. ASSUME NEW w \in Drafting, CallSettles(w) PROVE ComposerIInv'
  <2>1. /\ busy' = [busy EXCEPT ![w] = FALSE] /\ busy[w]
        /\ prompts' \in {prompts, [prompts EXCEPT ![w] = @ - 1]}
        /\ UNCHANGED <<shown, temporary, draft, recall, kept>>
    BY <1>8, Zenon DEF CallSettles
  <2>2. prompts[w] > 0
    BY <1>1, <2>1, Zenon DEF DraftFits
  <2>3. /\ prompts' \in [Drafting -> 0..MaxPrompts]
        /\ \A v \in Drafting : v # w => prompts'[v] = prompts[v]
    BY <1>1, <2>1, <2>2
  <2>4. /\ busy' \in [Drafting -> BOOLEAN] /\ ~busy'[w]
        /\ \A v \in Drafting : v # w => busy'[v] = busy[v]
    BY <1>1, <2>1, Zenon
  <2>5. \A v \in Drafting : Saved(v)' = Saved(v)
    BY <2>1, Zenon DEF Saved, KeyOf
  <2>6. \A v \in Drafting : DraftFits(v)'
    BY <1>1, <2>1, <2>3, <2>4, <2>5, Zenon DEF DraftFits
  <2> QED BY <1>1, <2>1, <2>3, <2>4, <2>6, Zenon DEF ComposerIInv, DraftFits
<1>9. ASSUME NEW w \in Drafting, EscapeClears(w) PROVE ComposerIInv'
  BY <1>3, <1>4, <1>9, Gestured DEF EscapeClears, Recalls
<1>10. ASSUME NEW w \in Drafting, NEW text \in Text, Drafts(w, text),
              "typed" \in text => "typed" \in draft[w],
              UNCHANGED <<shown, temporary, busy, prompts, recall>>
       PROVE  ComposerIInv'
  <2>1. recall[w] \in -1..(MaxPrompts - 1) /\ recall' = [recall EXCEPT ![w] = recall[w]]
    BY <1>1, <1>10
  <2>2. recall[w] >= 0 => "typed" \notin text
    BY <1>1, <1>10, Zenon DEF DraftFits
  <2> QED BY <1>10, <2>1, <2>2, Gestured
<1>11. ASSUME NEW w \in Drafting, ShortcutClears(w) PROVE ComposerIInv'
  <2>1. "typed" \notin {} /\ Drafts(w, {}) /\ UNCHANGED <<shown, temporary, busy, prompts, recall>>
    BY <1>11 DEF ShortcutClears
  <2> QED BY <1>3, <1>10, <2>1
<1>12. ASSUME NEW w \in Drafting, RecallOlder(w) PROVE ComposerIInv'
  <2> DEFINE next == IF recall[w] + 1 < prompts[w] THEN recall[w] + 1 ELSE prompts[w] - 1
  <2>1. next \in -1..(MaxPrompts - 1)
    BY <1>1, <1>12 DEF RecallOlder
  <2>2. Recalls(w, next) /\ Drafts(w, {"recalled"}) /\ UNCHANGED <<shown, temporary, busy, prompts>>
    BY <1>12, Zenon DEF RecallOlder
  <2> HIDE DEF next
  <2> QED BY <1>3, <2>1, <2>2, Gestured DEF Recalls
<1>13. ASSUME NEW w \in Drafting, RecallNewer(w) PROVE ComposerIInv'
  <2> DEFINE text == IF recall[w] - 1 \in 0..(prompts[w] - 1) THEN {"recalled"} ELSE {}
             next == recall[w] - 1
  <2>1. text \in Text /\ "typed" \notin text
    BY <1>3
  <2>2. next \in -1..(MaxPrompts - 1)
    BY <1>1, <1>13 DEF RecallNewer
  <2>3. Recalls(w, next) /\ Drafts(w, text) /\ UNCHANGED <<shown, temporary, busy, prompts>>
    BY <1>13, Zenon DEF RecallNewer
  <2> HIDE DEF next, text
  <2> QED BY <2>1, <2>2, <2>3, Gestured DEF Recalls
<1>14. ASSUME NEW w \in Drafting, Insert(w) PROVE ComposerIInv'
  <2>1. draft[w] \cup {"inserted"} \in Text /\ ("typed" \in draft[w] \cup {"inserted"} => "typed" \in draft[w])
    BY <1>1, <1>3
  <2> QED BY <1>10, <1>14, <2>1 DEF Insert
<1>15. ASSUME NEW w \in Drafting, CloseComposer(w) PROVE ComposerIInv'
  <2>1. /\ shown' = shown \ {w}
        /\ UNCHANGED <<temporary, busy, prompts, draft, recall, kept>>
    BY <1>15, Zenon DEF CloseComposer
  <2>2. \A v \in Drafting : Saved(v)' = Saved(v)
    BY <2>1, Zenon DEF Saved, KeyOf
  <2>3. \A v \in Drafting : DraftFits(v)'
    BY <1>1, <2>1, <2>2, Zenon DEF DraftFits
  <2> QED BY <1>1, <2>1, <2>3, Zenon DEF ComposerIInv, DraftFits
<1>16. ASSUME NEW w \in Drafting, ReopenComposer(w) PROVE ComposerIInv'
  <2>1. /\ shown' = shown \cup {w} /\ draft' = [draft EXCEPT ![w] = Saved(w)]
        /\ recall' = [recall EXCEPT ![w] = -1]
        /\ UNCHANGED <<temporary, busy, prompts, kept>>
    BY <1>16, Zenon DEF ReopenComposer, Mounts, Recalls
  <2>2. \A v \in Drafting : Saved(v)' = Saved(v)
    BY <2>1, Zenon DEF Saved, KeyOf
  <2>3. /\ draft' \in [Drafting -> Text] /\ draft'[w] = Saved(w)
        /\ \A v \in Drafting : v # w => draft'[v] = draft[v]
    BY <1>1, <1>2, <2>1
  <2>4. /\ recall' \in [Drafting -> -1..(MaxPrompts - 1)] /\ ~ (recall'[w] >= 0)
        /\ \A v \in Drafting : v # w => recall'[v] = recall[v]
    BY <1>1, <2>1
  <2>5. \A v \in Drafting : DraftFits(v)'
    BY <1>1, <2>1, <2>2, <2>3, <2>4, Zenon DEF DraftFits
  <2> QED BY <1>1, <2>1, <2>3, <2>4, <2>5, Zenon DEF ComposerIInv, DraftFits
<1>17. ASSUME NEW w \in Drafting, PersistComposer(w) PROVE ComposerIInv'
  <2>1. /\ temporary' = [temporary EXCEPT ![w] = FALSE]
        /\ draft' = [draft EXCEPT ![w] = kept[w]["stored"]]
        /\ recall' = [recall EXCEPT ![w] = -1]
        /\ busy' = [busy EXCEPT ![w] = FALSE] /\ prompts' = [prompts EXCEPT ![w] = 0]
        /\ UNCHANGED <<shown, kept>>
    BY <1>17, Zenon DEF PersistComposer, Recalls
  <2>2. /\ temporary' \in [Drafting -> BOOLEAN] /\ ~temporary'[w]
        /\ \A v \in Drafting : v # w => temporary'[v] = temporary[v]
        /\ busy' \in [Drafting -> BOOLEAN] /\ ~busy'[w]
        /\ \A v \in Drafting : v # w => busy'[v] = busy[v]
    BY <1>1, <2>1, Zenon
  <2>3. \A v \in Drafting : v # w => Saved(v)' = Saved(v)
    BY <2>1, <2>2, Zenon DEF Saved, KeyOf
  <2>4. Saved(w)' = kept[w]["stored"]
    BY <2>1, <2>2, Zenon DEF Saved, KeyOf
  <2>5. /\ draft' \in [Drafting -> Text] /\ draft'[w] = kept[w]["stored"]
        /\ \A v \in Drafting : v # w => draft'[v] = draft[v]
    BY <1>1, <2>1
  <2>6. /\ recall' \in [Drafting -> -1..(MaxPrompts - 1)] /\ ~ (recall'[w] >= 0)
        /\ \A v \in Drafting : v # w => recall'[v] = recall[v]
        /\ prompts' \in [Drafting -> 0..MaxPrompts]
        /\ \A v \in Drafting : v # w => prompts'[v] = prompts[v]
    BY <1>1, <2>1
  <2>7. \A v \in Drafting : DraftFits(v)'
    BY <1>1, <2>1, <2>2, <2>3, <2>4, <2>5, <2>6, Zenon DEF DraftFits
  <2> QED BY <1>1, <2>1, <2>2, <2>5, <2>6, <2>7, Zenon DEF ComposerIInv, DraftFits
<1>18. CASE Reload
  <2>1. /\ shown' = Drafting /\ busy' = [w \in Drafting |-> FALSE]
        /\ draft' = [w \in Drafting |-> Saved(w)] /\ recall' = [w \in Drafting |-> -1]
        /\ UNCHANGED <<temporary, prompts, kept>>
    BY <1>18, Zenon DEF Reload
  <2>2. \A v \in Drafting : Saved(v)' = Saved(v)
    BY <2>1, Zenon DEF Saved, KeyOf
  <2>3. draft' \in [Drafting -> Text] /\ \A v \in Drafting : draft'[v] = Saved(v)
    BY <1>2, <2>1
  <2>4. /\ recall' \in [Drafting -> -1..(MaxPrompts - 1)]
        /\ \A v \in Drafting : ~ (recall'[v] >= 0)
    BY <2>1
  <2>5. busy' \in [Drafting -> BOOLEAN] /\ \A v \in Drafting : ~busy'[v]
    BY <2>1, Zenon
  <2>6. \A v \in Drafting : DraftFits(v)'
    BY <2>2, <2>3, <2>4, <2>5, Zenon DEF DraftFits
  <2> QED BY <1>1, <2>1, <2>3, <2>4, <2>5, <2>6, Zenon DEF ComposerIInv, DraftFits
<1> QED BY <1>5, <1>6, <1>7, <1>8, <1>9, <1>11, <1>12, <1>13, <1>14, <1>15, <1>16, <1>17, <1>18,
           Zenon DEF ComposerNext

LEMMA ComposerIsSafe ==
    ASSUME ComposerAssumption, ComposerIInv PROVE ComposerInv
BY Zenon DEF ComposerIInv, ComposerInv

\* A step takes typed text from a stored window only by emptying its open field.
LEMMA DraftsStay ==
    ASSUME ComposerAssumption, ComposerIInv, [ComposerNext]_composerVars,
           NEW w \in Drafting, ~temporary[w], "typed" \in Saved(w), "typed" \notin Saved(w)'
    PROVE  w \in shown /\ w \in shown' /\ draft'[w] = {}
<1>1. /\ draft \in [Drafting -> Text]
      /\ \A v \in Drafting : /\ recall[v] >= 0 => "typed" \notin draft[v]
                             /\ v \in shown => Saved(v) = draft[v]
  BY Zenon DEF ComposerIInv
<1>2. ~ UNCHANGED <<temporary, kept>>
  <2> SUFFICES ASSUME UNCHANGED <<temporary, kept>> PROVE Saved(w)' = Saved(w)
    OBVIOUS
  <2> QED BY Zenon DEF Saved, KeyOf
<1>3. ASSUME NEW v \in Drafting, NEW text \in Text, Drafts(v, text), UNCHANGED temporary
      PROVE  v = w /\ Saved(w)' = text /\ draft'[w] = text
  <2>1. /\ draft'[v] = text /\ Saved(v)' = text
        /\ \A x \in Drafting : x # v => Saved(x)' = Saved(x)
    BY <1>3, Drafted
  <2>2. v = w
    BY <2>1
  <2> QED BY <2>1, <2>2
<1>4. {} \in Text /\ {"typed"} \in Text /\ {"recalled"} \in Text
      /\ \A text \in Text : text \cup {"typed"} \in Text /\ text \cup {"inserted"} \in Text
  BY DEF Text
<1>5. ASSUME NEW v \in Drafting, Drafts(v, {}), v \in shown, UNCHANGED <<shown, temporary>>
      PROVE  w \in shown /\ w \in shown' /\ draft'[w] = {}
  BY <1>3, <1>4, <1>5
<1>6. CASE UNCHANGED composerVars
  BY <1>2, <1>6, Zenon DEF composerVars
<1>7. ASSUME NEW v \in Drafting, Type(v) PROVE w \in shown /\ w \in shown' /\ draft'[w] = {}
  <2>1. PICK text \in {draft[v] \cup {"typed"}, {"typed"}, {}} : Drafts(v, text)
    BY <1>7, Zenon DEF Type, Types
  <2>2. v \in shown /\ UNCHANGED <<shown, temporary>>
    BY <1>7, Zenon DEF Type
  <2>3. text \in Text
    BY <1>1, <1>4, <2>1
  <2>4. v = w /\ "typed" \notin text
    BY <1>3, <2>1, <2>2, <2>3
  <2>5. text = {}
    BY <2>1, <2>4
  <2> QED BY <1>5, <2>1, <2>2, <2>5
<1>8. ASSUME NEW v \in Drafting, Submit(v) \/ EscapeClears(v) \/ ShortcutClears(v)
      PROVE  w \in shown /\ w \in shown' /\ draft'[w] = {}
  <2>1. v \in shown /\ Drafts(v, {}) /\ UNCHANGED <<shown, temporary>>
    BY <1>8, Zenon DEF Submit, EscapeClears, ShortcutClears
  <2> QED BY <1>5, <2>1
<1>9. ASSUME NEW v \in Drafting, CallSettles(v) \/ CloseComposer(v) \/ ReopenComposer(v) PROVE FALSE
  BY <1>2, <1>9, Zenon DEF CallSettles, CloseComposer, ReopenComposer
<1>10. ASSUME NEW v \in Drafting, RecallOlder(v) \/ RecallNewer(v) PROVE FALSE
  <2>1. PICK text \in {{"recalled"}, {}} : Drafts(v, text)
    <3>1. CASE RecallOlder(v)
      BY <3>1, Zenon DEF RecallOlder
    <3>2. CASE RecallNewer(v)
      <4>1. Drafts(v, IF recall[v] - 1 \in 0..(prompts[v] - 1) THEN {"recalled"} ELSE {})
        BY <3>2, Zenon DEF RecallNewer
      <4> QED BY <4>1, Zenon
    <3> QED BY <1>10, <3>1, <3>2
  <2>2. v \in shown /\ (draft[v] = {} \/ recall[v] >= 0) /\ UNCHANGED temporary
    BY <1>10, Zenon DEF RecallOlder, RecallNewer
  <2>3. v = w
    BY <1>3, <1>4, <2>1, <2>2
  <2> QED BY <1>1, <2>2, <2>3
<1>11. ASSUME NEW v \in Drafting, Insert(v) PROVE FALSE
  <2>1. v \in shown /\ Drafts(v, draft[v] \cup {"inserted"}) /\ UNCHANGED temporary
    BY <1>11, Zenon DEF Insert
  <2>2. draft[v] \cup {"inserted"} \in Text
    BY <1>1, <1>4
  <2>3. v = w /\ Saved(w)' = draft[w] \cup {"inserted"}
    BY <1>3, <2>1, <2>2
  <2> QED BY <1>1, <2>1, <2>3
<1>12. ASSUME NEW v \in Drafting, PersistComposer(v) PROVE FALSE
  <2>1. temporary[v] /\ temporary' = [temporary EXCEPT ![v] = FALSE] /\ kept' = kept
    BY <1>12, Zenon DEF PersistComposer
  <2>2. v # w /\ temporary \in [Drafting -> BOOLEAN]
    BY <2>1, Zenon DEF ComposerIInv
  <2>3. temporary'[w] = temporary[w]
    BY <2>1, <2>2, Zenon
  <2>4. Saved(w)' = Saved(w)
    BY <2>1, <2>3, Zenon DEF Saved, KeyOf
  <2> QED BY <2>4
<1>13. CASE Reload
  BY <1>2, <1>13, Zenon DEF Reload
<1> QED BY <1>6, <1>7, <1>8, <1>9, <1>10, <1>11, <1>12, <1>13, Zenon DEF ComposerNext

-----------------------------------------------------------------------------
(* Template menus.                                                         *)

\* A list of templates: of the ids handed out so far, each once.
ListFits(ts) ==
    /\ \A t \in ts : t.id <= saved
    /\ \A t, u \in ts : t.id = u.id => t = u

\* The lists of the menus and what is stored are of the same kind; MenuInv follows.
MenuIInv ==
    /\ menuOpen \in [Panes -> BOOLEAN] /\ present \in [Panes -> BOOLEAN]
    /\ list \in [Panes -> SUBSET Template] /\ form \in [Panes -> 0..NewForm]
    /\ templates \in SUBSET Template /\ saved \in 0..MaxTemplates
    /\ picked \in Seq(0..MaxTemplates) /\ IsInjective(picked) /\ Len(picked) <= RecentMax
    /\ ListFits(templates) /\ \A m \in Panes : ListFits(list[m])

LEMMA MenuStart ==
    ASSUME TemplateMenuAssumption, MenuInit PROVE MenuIInv
<1> USE TemplateMenuAssumption DEF TemplateMenuAssumption
<1>1. /\ menuOpen = [m \in Panes |-> FALSE] /\ present = [m \in Panes |-> TRUE]
      /\ list = [m \in Panes |-> {}] /\ form = [m \in Panes |-> NoForm]
      /\ templates = {} /\ picked = <<>> /\ saved = 0
  BY Zenon DEF MenuInit
<1>2. menuOpen \in [Panes -> BOOLEAN] /\ present \in [Panes -> BOOLEAN]
  BY <1>1, Zenon
<1>3. /\ list \in [Panes -> SUBSET Template] /\ form \in [Panes -> 0..NewForm]
      /\ templates \in SUBSET Template /\ saved \in 0..MaxTemplates
  BY <1>1 DEF NoForm, NewForm
<1>4. picked \in Seq(0..MaxTemplates) /\ IsInjective(picked) /\ Len(picked) <= RecentMax
  BY <1>1 DEF IsInjective
<1>5. ListFits(templates) /\ \A m \in Panes : ListFits(list[m])
  BY <1>1 DEF ListFits
<1> QED BY <1>2, <1>3, <1>4, <1>5 DEF MenuIInv

\* A write of one menu, heard by the others.
LEMMA MenuWrites ==
    ASSUME MenuIInv, NEW m \in Panes, NEW ts \in SUBSET Template, Writes(m, ts)
    PROVE  /\ templates' = ts
           /\ list' \in [Panes -> SUBSET Template]
           /\ \A x \in Panes : list'[x] = IF Usable(x) \/ x = m THEN ts ELSE list[x]
<1>1. list \in [Panes -> SUBSET Template]
  BY Zenon DEF MenuIInv
<1>0. /\ templates' = ts
      /\ list' = [x \in Panes |-> IF Usable(x) THEN templates' ELSE [list EXCEPT ![m] = ts][x]]
  BY Zenon DEF Writes, Broadcast
<1>2. /\ templates' = ts
      /\ list' = [x \in Panes |-> IF Usable(x) THEN ts ELSE [list EXCEPT ![m] = ts][x]]
  BY <1>0
<1>3. \A x \in Panes : [list EXCEPT ![m] = ts][x] = IF x = m THEN ts ELSE list[x]
  BY <1>1
<1>4. \A x \in Panes : list'[x] = IF Usable(x) \/ x = m THEN ts ELSE list[x]
  BY <1>2, <1>3, Zenon
<1>5. \A x \in Panes : list'[x] \in SUBSET Template
  BY <1>1, <1>4, Zenon
<1>6. list' \in [Panes -> SUBSET Template]
  BY <1>2, <1>5, Zenon
<1> QED BY <1>2, <1>4, <1>6

LEMMA MenuKept ==
    ASSUME TemplateMenuAssumption, MenuIInv, [MenuNext]_menuVars PROVE MenuIInv'
<1> USE TemplateMenuAssumption DEF TemplateMenuAssumption
<1>1. /\ menuOpen \in [Panes -> BOOLEAN] /\ present \in [Panes -> BOOLEAN]
      /\ list \in [Panes -> SUBSET Template] /\ form \in [Panes -> 0..NewForm]
      /\ templates \in SUBSET Template /\ saved \in 0..MaxTemplates
      /\ picked \in Seq(0..MaxTemplates) /\ IsInjective(picked) /\ Len(picked) <= RecentMax
      /\ ListFits(templates) /\ \A m \in Panes : ListFits(list[m])
  BY Zenon DEF MenuIInv
<1>2. 0 \in 0..NewForm /\ NewForm \in 0..NewForm /\ 1..MaxTemplates \subseteq 0..NewForm
  BY DEF NewForm
<1>3. ASSUME NEW ts, ts \in SUBSET Template PROVE TemplateIds(ts) \subseteq 1..MaxTemplates
  BY <1>3 DEF TemplateIds, Template
\* The lists are those there were, or one that fits.
<1>4. ASSUME NEW m \in Panes, NEW ts \in SUBSET Template, Writes(m, ts), ListFits(ts),
             UNCHANGED <<menuOpen, present, picked, saved>>, form' \in [Panes -> 0..NewForm]
      PROVE  MenuIInv'
  <2>1. /\ templates' = ts /\ list' \in [Panes -> SUBSET Template]
        /\ \A x \in Panes : list'[x] = IF Usable(x) \/ x = m THEN ts ELSE list[x]
    BY <1>4, MenuWrites
  <2>2. \A x \in Panes : list'[x] = ts \/ list'[x] = list[x]
    BY <2>1
  <2>3. ListFits(templates)' /\ \A x \in Panes : ListFits(list[x])'
    BY <1>1, <1>4, <2>1, <2>2, Zenon DEF ListFits
  <2> QED BY <1>1, <1>4, <2>1, <2>3, Zenon DEF MenuIInv
<1>5. ASSUME NEW f \in 0..NewForm, NEW m \in Panes, FormGoes(m, f) PROVE form' \in [Panes -> 0..NewForm]
  BY <1>1, <1>5 DEF FormGoes
<1>6. CASE UNCHANGED menuVars
  BY <1>6, Zenon DEF menuVars, MenuIInv, ListFits
<1>7. CASE EscapeCloses \/ \E m \in Panes : Toggle(m)
  <2>1. menuOpen' \in [Panes -> BOOLEAN] /\ UNCHANGED <<present, list, form, templates, picked, saved>>
    BY <1>1, <1>7, Zenon DEF EscapeCloses, Toggle
  <2> QED BY <1>1, <2>1, Zenon DEF MenuIInv, ListFits
<1>8. ASSUME NEW m \in Panes, SendHides(m) PROVE MenuIInv'
  <2>1. present' \in [Panes -> BOOLEAN] /\ UNCHANGED <<menuOpen, list, form, templates, picked, saved>>
    BY <1>1, <1>8, Zenon DEF SendHides
  <2> QED BY <1>1, <2>1, Zenon DEF MenuIInv, ListFits
<1>9. ASSUME NEW m \in Panes, AnswerShows(m) PROVE MenuIInv'
  <2>1. /\ present' = [present EXCEPT ![m] = TRUE]
        /\ list' = [list EXCEPT ![m] = templates] /\ FormGoes(m, NoForm)
        /\ UNCHANGED <<menuOpen, templates, picked, saved>>
    BY <1>9, Zenon DEF AnswerShows
  <2>2. present' \in [Panes -> BOOLEAN]
    BY <1>1, <2>1, Zenon
  <2>3. list' \in [Panes -> SUBSET Template] /\ \A x \in Panes : list'[x] = templates \/ list'[x] = list[x]
    BY <1>1, <2>1
  <2>4. form' \in [Panes -> 0..NewForm]
    BY <1>2, <1>5, <2>1 DEF NoForm
  <2>5. ListFits(templates)' /\ \A x \in Panes : ListFits(list[x])'
    BY <1>1, <2>1, <2>3, Zenon DEF ListFits
  <2> QED BY <1>1, <2>1, <2>2, <2>3, <2>4, <2>5, Zenon DEF MenuIInv
<1>10. ASSUME NEW m \in Panes, Pick(m) PROVE MenuIInv'
  <2>1. PICK id \in TemplateIds(list[m]) \cup {BuiltIn} : picked' = UsedLast(picked, id, RecentMax)
    BY <1>10, Zenon DEF Pick
  <2>2. /\ templates' = templates /\ Broadcast(list)
        /\ menuOpen' = [menuOpen EXCEPT ![m] = FALSE]
        /\ UNCHANGED <<present, form, saved>>
    BY <1>10, Zenon DEF Pick
  <2>3. id \in 0..MaxTemplates
    <3>1. TemplateIds(list[m]) \subseteq 1..MaxTemplates
      BY <1>1, <1>3
    <3> QED BY <2>1, <3>1 DEF BuiltIn
  <2>4. picked' \in Seq(0..MaxTemplates) /\ IsInjective(picked') /\ Len(picked') <= RecentMax
    BY <1>1, <2>1, <2>3, LastUsed
  <2>5. /\ list' = [x \in Panes |-> IF Usable(x) THEN templates ELSE list[x]]
        /\ menuOpen' \in [Panes -> BOOLEAN]
    BY <1>1, <2>2, Zenon DEF Broadcast
  <2>6. \A x \in Panes : list'[x] = templates \/ list'[x] = list[x]
    BY <2>5, Zenon
  <2>7. list' \in [Panes -> SUBSET Template]
    BY <1>1, <2>5, Zenon
  <2>8. ListFits(templates)' /\ \A x \in Panes : ListFits(list[x])'
    BY <1>1, <2>2, <2>6, Zenon DEF ListFits
  <2> QED BY <1>1, <2>2, <2>4, <2>5, <2>7, <2>8, Zenon DEF MenuIInv
<1>11. ASSUME NEW m \in Panes, OpenForm(m) \/ CancelForm(m) PROVE MenuIInv'
  <2>1. UNCHANGED <<menuOpen, present, list, templates, picked, saved>>
    BY <1>11, Zenon DEF OpenForm, CancelForm
  <2>2. PICK f \in {NewForm, NoForm} \cup TemplateIds(list[m]) : FormGoes(m, f)
    BY <1>11, Zenon DEF OpenForm, CancelForm
  <2>3. f \in 0..NewForm
    <3>1. TemplateIds(list[m]) \subseteq 1..MaxTemplates
      BY <1>1, <1>3
    <3> QED BY <1>2, <2>2, <3>1 DEF NoForm
  <2>4. form' \in [Panes -> 0..NewForm]
    BY <1>5, <2>2, <2>3
  <2> QED BY <1>1, <2>1, <2>4, Zenon DEF MenuIInv, ListFits
<1>12. ASSUME NEW m \in Panes, SaveNew(m) PROVE MenuIInv'
  <2> DEFINE ts == list[m] \cup {[id |-> saved + 1, text |-> 0]}
  <2>1. /\ saved < MaxTemplates /\ saved' = saved + 1 /\ Writes(m, ts) /\ FormGoes(m, NoForm)
        /\ UNCHANGED <<menuOpen, present, picked>>
    BY <1>12, Zenon DEF SaveNew
  <2>2. ts \in SUBSET Template
    BY <1>1, <2>1 DEF Template
  <2>3. /\ \A t \in list[m] : t.id \in 1..MaxTemplates /\ t.id <= saved
        /\ \A t, u \in list[m] : t.id = u.id => t = u
    BY <1>1 DEF ListFits, Template
  <2>4. \A t \in ts : t.id <= saved + 1
    BY <1>1, <2>3
  <2>5. \A t, u \in ts : t.id = u.id => t = u
    BY <1>1, <2>3
  <2> HIDE DEF ts
  <2>6. /\ templates' = ts /\ list' \in [Panes -> SUBSET Template]
        /\ \A x \in Panes : list'[x] = IF Usable(x) \/ x = m THEN ts ELSE list[x]
    BY <2>1, <2>2, MenuWrites
  <2>7. \A x \in Panes : list'[x] = ts \/ list'[x] = list[x]
    BY <2>6
  <2>8. form' \in [Panes -> 0..NewForm]
    BY <1>2, <1>5, <2>1 DEF NoForm
  <2>9. saved' \in 0..MaxTemplates
    BY <1>1, <2>1
  <2>10. \A x \in Panes : \A t \in list[x] : t.id <= saved + 1
    BY <1>1 DEF ListFits, Template
  <2>11. ListFits(templates)' /\ \A x \in Panes : ListFits(list[x])'
    BY <1>1, <2>1, <2>4, <2>5, <2>6, <2>7, <2>10, Zenon DEF ListFits
  <2> QED BY <1>1, <2>1, <2>2, <2>6, <2>8, <2>9, <2>11, Zenon DEF MenuIInv
<1>13. ASSUME NEW m \in Panes, SaveEdit(m) PROVE MenuIInv'
  <2> DEFINE edited(t) == IF t.id = form[m] THEN [t EXCEPT !.text = 1] ELSE t
             ts == {edited(t) : t \in list[m]}
  <2>1. /\ Writes(m, ts) /\ FormGoes(m, NoForm)
        /\ UNCHANGED <<menuOpen, present, picked, saved>>
    BY <1>13, Zenon DEF SaveEdit
  <2>2. list[m] \subseteq Template /\ ListFits(list[m])
    BY <1>1
  <2>3. ASSUME NEW t \in Template PROVE edited(t) \in Template /\ edited(t).id = t.id
    BY DEF Template
  <2>4. ASSUME NEW t \in list[m] PROVE edited(t) \in Template /\ edited(t).id = t.id
    <3>1. t \in Template
      BY <2>2, <2>4
    <3> QED BY <2>3, <3>1
  <2>5. ts \in SUBSET Template
    BY <2>4
  <2>6. ListFits(ts)
    BY <2>2, <2>4 DEF ListFits
  <2> HIDE DEF ts
  <2>7. form' \in [Panes -> 0..NewForm]
    BY <1>2, <1>5, <2>1 DEF NoForm
  <2> QED BY <1>4, <2>1, <2>5, <2>6, <2>7
<1>14. ASSUME NEW m \in Panes, DeleteTemplate(m) PROVE MenuIInv'
  <2>1. PICK id \in TemplateIds(list[m]) :
           /\ Writes(m, {t \in list[m] : t.id # id})
           /\ IF form[m] = id THEN FormGoes(m, NoForm) ELSE UNCHANGED form
    BY <1>14, Zenon DEF DeleteTemplate
  <2>2. UNCHANGED <<menuOpen, present, picked, saved>>
    BY <1>14, Zenon DEF DeleteTemplate
  <2>3. form' \in [Panes -> 0..NewForm]
    BY <1>1, <1>2, <1>5, <2>1 DEF NoForm
  <2>4. {t \in list[m] : t.id # id} \in SUBSET Template /\ ListFits({t \in list[m] : t.id # id})
    BY <1>1 DEF ListFits
  <2> QED BY <1>4, <2>1, <2>2, <2>3, <2>4
<1> QED BY <1>6, <1>7, <1>8, <1>9, <1>10, <1>11, <1>12, <1>13, <1>14, Zenon DEF MenuNext

LEMMA MenuIsSafe ==
    ASSUME MenuIInv PROVE MenuInv
<1>1. /\ list \in [Panes -> SUBSET Template] /\ templates \in SUBSET Template
      /\ IsInjective(picked) /\ Len(picked) <= RecentMax
      /\ ListFits(templates) /\ \A m \in Panes : ListFits(list[m])
  BY Zenon DEF MenuIInv
<1>2. ASSUME NEW ts \in {templates} \cup {list[m] : m \in Panes}
      PROVE  ts \subseteq Template /\ \A t, u \in ts : t.id = u.id => t = u
  <2>1. ts \subseteq Template /\ ListFits(ts)
    BY <1>1, <1>2
  <2> QED BY <2>1, Zenon DEF ListFits
<1> QED BY <1>1, <1>2, Zenon DEF MenuInv

\* A menu that has missed nothing lists what is stored.
NothingMissed ==
    /\ missed \in [Panes -> BOOLEAN]
    /\ \A m \in Panes : ~missed[m] => list[m] = templates

\* It stays so: a menu that can be used reads what is written, and another has
\* missed it.
LEMMA MissedKept ==
    ASSUME MenuIInv, NothingMissed, [MenuNext]_menuVars PROVE NothingMissed'
<1>1. list \in [Panes -> SUBSET Template] /\ missed \in [Panes -> BOOLEAN]
  BY Zenon DEF MenuIInv, NothingMissed
<1>2. \A m \in Panes : ~missed[m] => list[m] = templates
  BY Zenon DEF NothingMissed
<1>3. CASE UNCHANGED <<list, templates, missed>>
  BY <1>3, Zenon DEF NothingMissed
<1>4. ASSUME NEW l, Broadcast(l), NEW w \in Panes, Usable(w), \A x \in Panes : x # w => l[x] = list[x]
      PROVE  NothingMissed'
  <2>1. /\ list' = [x \in Panes |-> IF Usable(x) THEN templates' ELSE l[x]]
        /\ missed' = [x \in Panes |-> ~Usable(x) /\ (missed[x] \/ templates' # templates)]
    BY <1>4, Zenon DEF Broadcast
  <2>2. missed' \in [Panes -> BOOLEAN]
    BY <2>1, Zenon
  <2>3. ASSUME NEW x \in Panes, ~missed'[x] PROVE list'[x] = templates'
    <3>1. CASE Usable(x)
      BY <2>1, <3>1, Zenon
    <3>2. CASE ~Usable(x)
      <4>1. ~missed[x] /\ templates' = templates /\ x # w
        BY <1>4, <2>1, <2>3, <3>2, Zenon
      <4> QED BY <1>2, <1>4, <2>1, <3>2, <4>1, Zenon
    <3> QED BY <3>1, <3>2
  <2> QED BY <2>2, <2>3, Zenon DEF NothingMissed
<1>5. ASSUME NEW m \in Panes, SaveNew(m) \/ SaveEdit(m) \/ DeleteTemplate(m) PROVE NothingMissed'
  <2>1. Usable(m) /\ \E ts : Writes(m, ts)
    BY <1>5, Zenon DEF SaveNew, SaveEdit, DeleteTemplate
  <2>2. PICK ts : Writes(m, ts)
    BY <2>1
  <2>3. Broadcast([list EXCEPT ![m] = ts])
    BY <2>2, Zenon DEF Writes
  <2>4. \A x \in Panes : x # m => [list EXCEPT ![m] = ts][x] = list[x]
    BY <1>1
  <2> QED BY <1>4, <2>1, <2>3, <2>4
<1>6. ASSUME NEW m \in Panes, Pick(m) PROVE NothingMissed'
  <2>1. Usable(m) /\ Broadcast(list)
    BY <1>6, Zenon DEF Pick
  <2> QED BY <1>4, <2>1
<1>7. ASSUME NEW m \in Panes, AnswerShows(m) PROVE NothingMissed'
  <2>1. /\ list' = [list EXCEPT ![m] = templates] /\ missed' = [missed EXCEPT ![m] = FALSE]
        /\ templates' = templates
    BY <1>7, Zenon DEF AnswerShows
  <2> QED BY <1>1, <1>2, <2>1 DEF NothingMissed
<1>8. ASSUME NEW m \in Panes, Toggle(m) \/ SendHides(m) \/ OpenForm(m) \/ CancelForm(m)
      PROVE  UNCHANGED <<list, templates, missed>>
  BY <1>8, Zenon DEF Toggle, SendHides, OpenForm, CancelForm
<1>9. EscapeCloses \/ UNCHANGED menuVars => UNCHANGED <<list, templates, missed>>
  BY Zenon DEF EscapeCloses, menuVars
<1> QED BY <1>3, <1>5, <1>6, <1>7, <1>8, <1>9, Zenon DEF MenuNext

\* A menu that has missed nothing changes one template of those that are stored.
LEMMA OneChanges ==
    ASSUME TemplateMenuAssumption, MenuIInv, NothingMissed, NEW m \in Panes, ~missed[m],
           SaveNew(m) \/ SaveEdit(m) \/ DeleteTemplate(m)
    PROVE  \E id \in 1..MaxTemplates : \A t \in Template :
              t.id # id => (t \in templates' <=> t \in templates)
<1>1. list[m] = templates /\ templates \subseteq Template /\ saved \in 0..MaxTemplates
  BY Zenon DEF MenuIInv, NothingMissed
<1>2. CASE SaveNew(m)
  <2>1. /\ saved < MaxTemplates
        /\ templates' = list[m] \cup {[id |-> saved', text |-> 0]} /\ saved' = saved + 1
    BY <1>2, Zenon DEF SaveNew, Writes
  <2>2. saved + 1 \in 1..MaxTemplates
    BY <1>1, <2>1 DEF TemplateMenuAssumption
  <2>3. \A t \in Template : t.id # saved + 1 => (t \in templates' <=> t \in templates)
    BY <1>1, <2>1
  <2> QED BY <2>2, <2>3
<1>3. CASE SaveEdit(m)
  <2>1. /\ form[m] \in 1..MaxTemplates
        /\ templates' = {IF t.id = form[m] THEN [t EXCEPT !.text = 1] ELSE t : t \in list[m]}
    BY <1>3, Zenon DEF SaveEdit, Writes
  <2>2. ASSUME NEW t \in Template, t.id # form[m] PROVE t \in templates' <=> t \in templates
    <3>1. \A u \in Template : u.id = form[m] => [u EXCEPT !.text = 1] # t
      BY <2>2 DEF Template
    <3> QED BY <1>1, <2>1, <2>2, <3>1
  <2> QED BY <2>1, <2>2
<1>4. CASE DeleteTemplate(m)
  <2>1. PICK id \in TemplateIds(list[m]) : templates' = {t \in list[m] : t.id # id}
    BY <1>4, Zenon DEF DeleteTemplate, Writes
  <2>2. id \in 1..MaxTemplates
    BY <1>1, <2>1 DEF TemplateIds, Template
  <2> QED BY <1>1, <2>1, <2>2
<1> QED BY <1>2, <1>3, <1>4

-----------------------------------------------------------------------------
(* Conversations.                                                          *)

Reader == [sticky : BOOLEAN, ids : Seq(Nat), badge : Nat, cursor : Int,
           known : SUBSET Nat, seen : Nat]

\* What a mounted window keeps, of n answers.
ReaderFits(r, n) ==
    /\ r \in Reader
    /\ r.badge = Len(r.ids) /\ r.cursor < Len(r.ids)
    /\ IsInjective(r.ids) /\ ToSet(r.ids) \subseteq r.known
    /\ r.known \subseteq 1..n

\* What it keeps when it is active: it has seen all of them.
ReaderKnows(r, n) == ReaderFits(r, n) /\ r.known = 1..n /\ r.seen = n

\* The window has seen what Workspace has, or less if it was marked as read since.
WindowFits(w) ==
    /\ ReaderFits(reader[w], answers[w])
    /\ reader[w].seen <= told[w]
    /\ w \notin marked => reader[w].seen = told[w]
    /\ w = active => ReaderKnows(reader[w], answers[w]) /\ told[w] = answers[w]

\* Of every window: what its reader points at it knows, and while it is active it knows all.
ConversationIInv ==
    /\ canvas \subseteq Panes /\ active \in canvas \cup {Nobody}
    /\ answers \in [Panes -> Nat] /\ told \in [Panes -> Nat] /\ DOMAIN reader = Panes
    /\ \A w \in Panes : told[w] <= answers[w]
    /\ \A w \in canvas : WindowFits(w)

\* The answers from one number to another, each once.
LEMMA NumberedFits ==
    ASSUME NEW m \in Nat \ {0}, NEW n \in Nat, m <= n + 1
    PROVE  /\ Numbered(m, n) \in Seq(Nat) /\ Len(Numbered(m, n)) = n + 1 - m
           /\ IsInjective(Numbered(m, n)) /\ ToSet(Numbered(m, n)) \subseteq 1..n
           /\ Numbered(m, n) = <<>> <=> m = n + 1
<1> DEFINE s == Numbered(m, n)
<1>1. s = [i \in 1..(n + 1 - m) |-> m + i - 1] /\ n + 1 - m \in Nat
  BY DEF Numbered
<1>2. \A i \in 1..(n + 1 - m) : m + i - 1 \in 1..n
  OBVIOUS
<1>3. s \in Seq(Nat) /\ Len(s) = n + 1 - m /\ DOMAIN s = 1..(n + 1 - m)
  <2>1. s \in [1..(n + 1 - m) -> Nat]
    BY <1>1, <1>2
  <2> QED BY <1>1, <2>1
<1> HIDE DEF s
<1>4. IsInjective(s)
  BY <1>1, <1>3 DEF IsInjective
<1>5. ToSet(s) \subseteq 1..n
  BY <1>1, <1>2, <1>3 DEF ToSet
<1>6. s = <<>> <=> m = n + 1
  BY <1>1, <1>3
<1> QED BY <1>3, <1>4, <1>5, <1>6 DEF s

LEMMA EmptyList == /\ <<>> \in Seq(Nat) /\ Len(<<>>) = 0
                   /\ IsInjective(<<>>) /\ ToSet(<<>>) = {}
BY DEF IsInjective, ToSet

\* A reader is put together of parts that fit.
LEMMA ReaderOf ==
    ASSUME NEW n \in Nat, NEW sticky \in BOOLEAN, NEW ids \in Seq(Nat), NEW cursor \in Int,
           NEW known, NEW seen \in Nat,
           cursor < Len(ids), IsInjective(ids), ToSet(ids) \subseteq known, known \subseteq 1..n
    PROVE  ReaderFits([sticky |-> sticky, ids |-> ids, badge |-> Len(ids), cursor |-> cursor,
                       known |-> known, seen |-> seen], n)
<1>1. Len(ids) \in Nat /\ known \in SUBSET Nat
  OBVIOUS
<1> QED BY <1>1, Zenon DEF ReaderFits, Reader

\* A reader that is mounted fits.
LEMMA Mounting ==
    ASSUME NEW n \in Nat, NEW isActive \in BOOLEAN, NEW sticky \in BOOLEAN
    PROVE  /\ ReaderFits(MountedAt(n, isActive, sticky), n)
           /\ MountedAt(n, isActive, sticky).seen = n
           /\ isActive => ReaderKnows(MountedAt(n, isActive, sticky), n)
<1> DEFINE ids == IF isActive /\ ~sticky THEN Numbered(1, n) ELSE <<>>
           known == IF isActive THEN 1..n ELSE {}
           r == MountedAt(n, isActive, sticky)
<1>1. /\ ids \in Seq(Nat) /\ IsInjective(ids) /\ ToSet(ids) \subseteq known /\ known \subseteq 1..n
  <2>1. CASE isActive /\ ~sticky
    <3>1. ids = Numbered(1, n) /\ known = 1..n
      BY <2>1, Zenon
    <3>2. 1 \in Nat \ {0} /\ 1 <= n + 1
      OBVIOUS
    <3> QED BY <3>1, <3>2, NumberedFits
  <2>2. CASE ~ (isActive /\ ~sticky)
    <3>1. ids = <<>>
      BY <2>2, Zenon
    <3> QED BY <3>1, EmptyList
  <2> QED BY <2>1, <2>2
<1>2. -1 < Len(ids) /\ -1 \in Int
  BY <1>1
<1>3. r = [sticky |-> sticky, ids |-> ids, badge |-> Len(ids), cursor |-> -1,
           known |-> known, seen |-> n]
  BY Zenon DEF MountedAt
<1> HIDE DEF ids, known
<1>4. ReaderFits(r, n)
  BY <1>1, <1>2, <1>3, ReaderOf
<1>5. r.seen = n /\ r.known = known
  BY <1>3
<1>6. isActive => known = 1..n
  BY Zenon DEF known
<1> QED BY <1>4, <1>5, <1>6, Zenon DEF ReaderKnows

\* A window that becomes active points at the answers it has not seen.
LEMMA Activating ==
    ASSUME NEW n \in Nat, NEW r, r.seen \in 0..n, r.sticky \in BOOLEAN
    PROVE  ReaderKnows(Activated(r, n), n) /\ Activated(r, n).badge = n - r.seen
<1> DEFINE ids == Numbered(r.seen + 1, n)
           a == Activated(r, n)
           cursor == IF ids = <<>> THEN -1 ELSE 0
           sticky == r.sticky /\ ids = <<>>
<1>1. /\ ids \in Seq(Nat) /\ IsInjective(ids) /\ ToSet(ids) \subseteq 1..n
      /\ Len(ids) = n - r.seen
      /\ ids = <<>> <=> r.seen + 1 = n + 1
  <2>1. r.seen + 1 \in Nat \ {0} /\ r.seen + 1 <= n + 1 /\ n + 1 - (r.seen + 1) = n - r.seen
    OBVIOUS
  <2> QED BY <2>1, NumberedFits
<1>2. cursor \in Int /\ cursor < Len(ids)
  BY <1>1
<1>3. a = [sticky |-> sticky, ids |-> ids, badge |-> Len(ids), cursor |-> cursor,
           known |-> 1..n, seen |-> n]
  BY Zenon DEF Activated
<1>4. sticky \in BOOLEAN
  BY Zenon
<1> HIDE DEF ids, cursor, sticky
<1>5. ReaderFits(a, n)
  BY <1>1, <1>2, <1>3, <1>4, ReaderOf
<1>6. a.seen = n /\ a.known = 1..n /\ a.badge = Len(ids)
  BY <1>3
<1> QED BY <1>1, <1>5, <1>6, Zenon DEF ReaderKnows

\* A reader that is renewed.
Renewed(r, known, seen, ids, badge) ==
    [r EXCEPT !.known = known, !.seen = seen, !.ids = ids, !.badge = badge]
LEMMA ReaderRenewed ==
    ASSUME NEW r \in Reader, NEW known \in SUBSET Nat, NEW seen \in Nat, NEW ids \in Seq(Nat),
           NEW badge \in Nat, NEW a, a = Renewed(r, known, seen, ids, badge)
    PROVE  /\ a \in Reader
           /\ a.known = known /\ a.seen = seen /\ a.ids = ids /\ a.badge = badge /\ a.cursor = r.cursor
BY DEF Reader, Renewed

\* An answer that is not listed is listed last.
LEMMA AppendNew ==
    ASSUME NEW n \in Nat, NEW s \in Seq(Nat), IsInjective(s), ToSet(s) \subseteq 1..n
    PROVE  /\ Append(s, n + 1) \in Seq(Nat) /\ Len(Append(s, n + 1)) = Len(s) + 1
           /\ IsInjective(Append(s, n + 1)) /\ ToSet(Append(s, n + 1)) \subseteq 1..(n + 1)
<1> DEFINE t == Append(s, n + 1)
<1>1. DOMAIN s = 1..Len(s) /\ Len(s) \in Nat
  OBVIOUS
<1>2. /\ t \in Seq(Nat) /\ Len(t) = Len(s) + 1 /\ DOMAIN t = 1..Len(t)
      /\ \A i \in 1..Len(t) : t[i] = IF i = Len(t) THEN n + 1 ELSE s[i]
  OBVIOUS
<1> HIDE DEF t
<1>3. \A i \in 1..Len(s) : s[i] \in 1..n
  BY <1>1 DEF ToSet
<1>4. \A i \in 1..Len(t) : t[i] \in 1..(n + 1)
  BY <1>1, <1>2, <1>3
<1>5. \A i, j \in 1..Len(s) : s[i] = s[j] => i = j
  BY <1>1 DEF IsInjective
<1>6. \A i, j \in 1..Len(t) : t[i] = t[j] => i = j
  <2> SUFFICES ASSUME NEW i \in 1..Len(t), NEW j \in 1..Len(t), t[i] = t[j] PROVE i = j
    OBVIOUS
  <2>1. CASE i = Len(t) /\ j # Len(t)
    BY <1>1, <1>2, <1>3, <2>1
  <2>2. CASE i # Len(t) /\ j = Len(t)
    BY <1>1, <1>2, <1>3, <2>2
  <2>3. CASE i # Len(t) /\ j # Len(t)
    <3>1. i \in 1..Len(s) /\ j \in 1..Len(s)
      BY <1>1, <1>2, <2>3
    <3> QED BY <1>2, <1>5, <2>3, <3>1
  <2> QED BY <2>1, <2>2, <2>3
<1>7. IsInjective(t) /\ ToSet(t) \subseteq 1..(n + 1)
  BY <1>2, <1>4, <1>6 DEF IsInjective, ToSet
<1> QED BY <1>2, <1>7 DEF t

\* The active window that takes an answer knows it, once.
LEMMA Noticing ==
    ASSUME NEW n \in Nat, NEW r, ReaderKnows(r, n)
    PROVE  ReaderKnows(Noticed(r, n + 1, TRUE), n + 1)
<1> DEFINE a == Noticed(r, n + 1, TRUE)
<1>1. /\ r \in Reader /\ r.badge = Len(r.ids) /\ r.cursor < Len(r.ids)
      /\ IsInjective(r.ids) /\ ToSet(r.ids) \subseteq 1..n /\ r.known = 1..n
  BY Zenon DEF ReaderKnows, ReaderFits
<1>2. r.ids \in Seq(Nat) /\ Len(r.ids) \in Nat /\ r.cursor \in Int
  BY <1>1 DEF Reader
<1>3. r.known \cup {n + 1} = 1..(n + 1)
  BY <1>1
<1>4. 1..(n + 1) \in SUBSET Nat /\ n + 1 \in Nat
  OBVIOUS
\* The list is as it was, or has the answer too.
<1>5. ASSUME NEW ids \in Seq(Nat), NEW k \in Nat, k = Len(ids), NEW b,
             b = Renewed(r, 1..(n + 1), n + 1, ids, k),
             IsInjective(ids), ToSet(ids) \subseteq 1..(n + 1), r.cursor < Len(ids)
      PROVE  ReaderKnows(b, n + 1)
  <2>1. b \in Reader /\ b.known = 1..(n + 1) /\ b.seen = n + 1 /\ b.ids = ids /\ b.badge = k
        /\ b.cursor = r.cursor
    <3>1. r \in Reader
      BY <1>1
    <3>2. b = Renewed(r, 1..(n + 1), n + 1, ids, k)
      BY <1>5
    <3> QED BY <1>4, <3>1, <3>2, ReaderRenewed
  <2> QED BY <1>5, <2>1, Zenon DEF ReaderKnows, ReaderFits
<1>6. CASE r.sticky
  <2>1. a = [r EXCEPT !.known = @ \cup {n + 1}, !.seen = n + 1, !.ids = @, !.badge = @]
    BY <1>6, Zenon DEF Noticed
  <2> HIDE DEF a
  <2>2. a = Renewed(r, 1..(n + 1), n + 1, r.ids, r.badge)
    BY <1>3, <2>1 DEF Renewed
  <2>3. ToSet(r.ids) \subseteq 1..(n + 1) /\ r.badge \in Nat
    BY <1>1, <1>2
  <2>4. ReaderKnows(a, n + 1)
    <3> HIDE DEF a
    <3> QED BY <1>1, <1>2, <1>5, <2>2, <2>3
  <2> QED BY <2>4 DEF a
<1>7. CASE ~r.sticky
  <2> DEFINE more == Append(r.ids, n + 1)
  <2>1. a = [r EXCEPT !.known = @ \cup {n + 1}, !.seen = n + 1, !.ids = Append(@, n + 1),
                      !.badge = Len(r.ids) + 1]
    BY <1>7, Zenon DEF Noticed
  <2> HIDE DEF a
  <2>2. /\ more \in Seq(Nat) /\ Len(more) = Len(r.ids) + 1
        /\ IsInjective(more) /\ ToSet(more) \subseteq 1..(n + 1)
    BY <1>1, <1>2, AppendNew
  <2> HIDE DEF more
  <2>3. a = Renewed(r, 1..(n + 1), n + 1, more, Len(more))
    BY <1>3, <2>1, <2>2 DEF more, Renewed
  <2>4. Len(more) \in Nat /\ r.cursor < Len(more)
    BY <1>1, <1>2, <2>2
  <2>5. ReaderKnows(a, n + 1)
    BY <1>5, <2>2, <2>3, <2>4
  <2> QED BY <2>5 DEF a
<1> QED BY <1>6, <1>7

\* The list is kept or emptied, with its badge and cursor: nothing else a gesture does.
LEMMA Clearing ==
    ASSUME NEW r, NEW n, ReaderFits(r, n), NEW sticky \in BOOLEAN
    PROVE  /\ ReaderFits([r EXCEPT !.sticky = sticky], n)
           /\ [r EXCEPT !.sticky = sticky].known = r.known
           /\ [r EXCEPT !.sticky = sticky].seen = r.seen
           /\ ReaderFits([r EXCEPT !.sticky = sticky, !.ids = <<>>, !.badge = 0, !.cursor = -1], n)
           /\ [r EXCEPT !.sticky = sticky, !.ids = <<>>, !.badge = 0, !.cursor = -1].known = r.known
           /\ [r EXCEPT !.sticky = sticky, !.ids = <<>>, !.badge = 0, !.cursor = -1].seen = r.seen
<1> DEFINE a == [r EXCEPT !.sticky = sticky]
           b == [r EXCEPT !.sticky = sticky, !.ids = <<>>, !.badge = 0, !.cursor = -1]
<1>1. r \in Reader
  BY Zenon DEF ReaderFits
<1>2. /\ a \in Reader /\ a.known = r.known /\ a.seen = r.seen /\ a.ids = r.ids
      /\ a.badge = r.badge /\ a.cursor = r.cursor
  BY <1>1 DEF Reader
<1>3. /\ b \in Reader /\ b.known = r.known /\ b.seen = r.seen /\ b.ids = <<>>
      /\ b.badge = 0 /\ b.cursor = -1
  <2>1. b = [r EXCEPT !.sticky = sticky, !.ids = <<>>, !.badge = 0, !.cursor = -1]
    OBVIOUS
  <2> HIDE DEF b
  <2>2. b \in Reader
    <3>1. PICK ids \in Seq(Nat), badge \in Nat, cursor \in Int :
             ids = <<>> /\ badge = 0 /\ cursor = -1
      <4>1. 0 \in Nat /\ -1 \in Int
        OBVIOUS
      <4> QED BY <4>1, EmptyList, Zenon
    <3>2. b = [r EXCEPT !.sticky = sticky, !.ids = ids, !.badge = badge, !.cursor = cursor]
      BY <2>1, <3>1, Zenon
    <3> QED BY <1>1, <3>2 DEF Reader
  <2>3. /\ b.known = r.known /\ b.seen = r.seen /\ b.ids = <<>>
        /\ b.badge = 0 /\ b.cursor = -1
    BY <1>1, <2>1 DEF Reader
  <2> QED BY <2>2, <2>3
<1> HIDE DEF a, b
<1>4. ReaderFits(a, n)
  BY <1>2 DEF ReaderFits
<1>5. b.cursor < Len(b.ids) /\ b.badge = Len(b.ids)
  BY <1>3
<1>6. IsInjective(b.ids) /\ ToSet(b.ids) \subseteq b.known
  BY <1>3, EmptyList
<1>7. ReaderFits(b, n)
  BY <1>3, <1>5, <1>6 DEF ReaderFits
<1> QED BY <1>2, <1>3, <1>4, <1>7 DEF a, b

\* The keys move the cursor within the list.
LEMMA Stepping ==
    ASSUME NEW r, NEW n, ReaderFits(r, n), r.ids # <<>>, NEW cursor \in 0..(Len(r.ids) - 1)
    PROVE  /\ ReaderFits([r EXCEPT !.sticky = FALSE, !.cursor = cursor], n)
           /\ [r EXCEPT !.sticky = FALSE, !.cursor = cursor].known = r.known
           /\ [r EXCEPT !.sticky = FALSE, !.cursor = cursor].seen = r.seen
<1> DEFINE a == [r EXCEPT !.sticky = FALSE, !.cursor = cursor]
<1>1. r \in Reader
  BY Zenon DEF ReaderFits
<1>2. /\ a \in Reader /\ a.known = r.known /\ a.seen = r.seen /\ a.ids = r.ids
      /\ a.badge = r.badge /\ a.cursor = cursor
  <2>1. a = [r EXCEPT !.sticky = FALSE, !.cursor = cursor]
    OBVIOUS
  <2> HIDE DEF a
  <2>2. a \in Reader
    <3>1. PICK sticky \in BOOLEAN : sticky = FALSE
      BY Zenon
    <3>2. a = [r EXCEPT !.sticky = sticky, !.cursor = cursor]
      BY <2>1, <3>1, Zenon
    <3>3. cursor \in Int
      OBVIOUS
    <3> QED BY <1>1, <3>2, <3>3 DEF Reader
  <2>3. /\ a.known = r.known /\ a.seen = r.seen /\ a.ids = r.ids
        /\ a.badge = r.badge /\ a.cursor = cursor
    BY <1>1, <2>1 DEF Reader
  <2> QED BY <2>2, <2>3
<1>3. Len(r.ids) \in Nat
  BY <1>1 DEF Reader
<1> HIDE DEF a
<1>4. a.cursor < Len(a.ids)
  BY <1>2, <1>3
<1>5. ReaderFits(a, n)
  BY <1>2, <1>4 DEF ReaderFits
<1> QED BY <1>2, <1>5 DEF a

\* One reader changes.
LEMMA Reading ==
    ASSUME ConversationIInv, NEW w \in Panes, NEW r, Reads(w, r)
    PROVE  DOMAIN reader' = Panes /\ reader'[w] = r /\ \A v \in Panes \ {w} : reader'[v] = reader[v]
BY DEF ConversationIInv, Reads

\* What a window has stays right while nothing of it changes.
LEMMA Undisturbed ==
    ASSUME NEW w, WindowFits(w), reader'[w] = reader[w], answers'[w] = answers[w],
           told'[w] = told[w], w \notin marked' => w \notin marked, active' = w => active = w
    PROVE  WindowFits(w)'
BY Zenon DEF WindowFits

\* A gesture of the reader changes what is listed and nothing that was seen.
LEMMA Gesture ==
    ASSUME ConversationIInv, NEW w \in canvas, NEW r, ReaderFits(r, answers[w]),
           r.known = reader[w].known, r.seen = reader[w].seen, Reads(w, r),
           UNCHANGED <<canvas, active, answers, told, marked>>
    PROVE  ConversationIInv'
<1>1. /\ w \in Panes /\ canvas \subseteq Panes
      /\ canvas' = canvas /\ active' = active /\ answers' = answers /\ told' = told /\ marked' = marked
  BY DEF ConversationIInv
<1>2. DOMAIN reader' = Panes /\ reader'[w] = r /\ \A v \in Panes \ {w} : reader'[v] = reader[v]
  BY <1>1, Reading
<1>3. ASSUME NEW v \in canvas PROVE WindowFits(v)'
  <2>1. WindowFits(v) /\ v \in Panes
    BY <1>1 DEF ConversationIInv
  <2>2. CASE v = w
    BY <1>1, <1>2, <2>1, <2>2, Zenon DEF WindowFits, ReaderKnows
  <2>3. CASE v # w
    BY <1>1, <1>2, <2>1, <2>3, Undisturbed, Zenon
  <2> QED BY <2>2, <2>3
<1> QED BY <1>1, <1>2, <1>3, Zenon DEF ConversationIInv

\* The parts of the invariant that say nothing of a reader.
ReadingFits ==
    /\ canvas \subseteq Panes /\ active \in canvas \cup {Nobody}
    /\ answers \in [Panes -> Nat] /\ told \in [Panes -> Nat] /\ DOMAIN reader = Panes
    /\ \A w \in Panes : told[w] <= answers[w]

\* A window that becomes active has seen everything.
LEMMA Seeing ==
    ASSUME ConversationIInv, NEW w \in Panes, NEW r, ReaderKnows(r, answers[w]), Reads(w, r), Sees(w),
           w \in canvas', canvas' \ {w} \subseteq canvas, canvas' \subseteq Panes, UNCHANGED answers
    PROVE  ConversationIInv'
<1>1. w # Nobody \/ w = Nobody
  OBVIOUS
<1>2. DOMAIN reader' = Panes /\ reader'[w] = r /\ \A v \in Panes \ {w} : reader'[v] = reader[v]
  BY Reading
<1>3. /\ answers \in [Panes -> Nat] /\ told \in [Panes -> Nat] /\ answers' = answers
      /\ canvas \subseteq Panes /\ \A v \in Panes : told[v] <= answers[v]
  BY DEF ConversationIInv
<1>4. active' = w /\ marked' = marked \ {w} /\ told' = IF w = Nobody THEN told ELSE [told EXCEPT ![w] = answers[w]]
  BY DEF Sees
<1>5. w # Nobody
  BY ConversationAssumption
<1>6. told' = [told EXCEPT ![w] = answers[w]]
  BY <1>4, <1>5, Zenon
<1>7. /\ told' \in [Panes -> Nat] /\ told'[w] = answers[w]
      /\ \A v \in Panes \ {w} : told'[v] = told[v]
  BY <1>3, <1>6
<1>8. ReadingFits'
  <2>1. \A v \in Panes : told'[v] <= answers'[v]
    BY <1>3, <1>7
  <2>2. active' \in canvas' \cup {Nobody}
    BY <1>4
  <2> QED BY <1>2, <1>3, <1>7, <2>1, <2>2, Zenon DEF ReadingFits
<1>9. ASSUME NEW v \in canvas' PROVE WindowFits(v)'
  <2>1. CASE v = w
    <3>1. ReaderKnows(r, answers[w]) /\ answers[w] \in Nat
      BY <1>3
    <3>2. ReaderFits(r, answers[w]) /\ r.seen = answers[w]
      BY <3>1, Zenon DEF ReaderKnows
    <3>3. r.seen <= answers[w]
      BY <3>1, <3>2
    <3> QED BY <1>2, <1>3, <1>7, <2>1, <3>1, <3>2, <3>3, Zenon DEF WindowFits
  <2>2. CASE v # w
    <3>1. WindowFits(v) /\ v \in Panes
      BY <1>3, <2>2 DEF ConversationIInv
    <3> QED BY <1>2, <1>3, <1>4, <1>7, <2>2, <3>1, Undisturbed, Zenon
  <2> QED BY <2>1, <2>2
<1> QED BY <1>8, <1>9, Zenon DEF ReadingFits, ConversationIInv

LEMMA ConversationStart == ConversationInit => ConversationIInv
<1> SUFFICES ASSUME ConversationInit PROVE ConversationIInv
  OBVIOUS
<1>1. /\ canvas = Panes /\ active \in Panes /\ answers \in [Panes -> 0..1]
      /\ reader = [w \in Panes |-> MountedAt(answers[w], w = active, TRUE)]
      /\ told = answers
  BY DEF ConversationInit
<1>2. answers \in [Panes -> Nat] /\ \A w \in Panes : answers[w] <= answers[w]
  BY <1>1
<1>3. ASSUME NEW w \in Panes PROVE WindowFits(w)
  <2> DEFINE r == MountedAt(answers[w], w = active, TRUE)
  <2>1. answers[w] \in Nat /\ reader[w] = r /\ TRUE \in BOOLEAN /\ (w = active) \in BOOLEAN
    BY <1>1, <1>2, Zenon
  <2>2. ReaderFits(r, answers[w]) /\ r.seen = answers[w] /\ (w = active => ReaderKnows(r, answers[w]))
    BY <2>1, Mounting, Zenon
  <2>3. r.seen <= answers[w]
    <3> HIDE DEF r
    <3> QED BY <2>1, <2>2
  <2> QED BY <1>1, <2>1, <2>2, <2>3, Zenon DEF WindowFits
<1> QED BY <1>1, <1>2, <1>3, Zenon DEF ConversationIInv

\* The effect of becoming active, on a window that was mounted.
LEMMA Awakening ==
    ASSUME ConversationIInv, NEW w \in canvas
    PROVE  /\ w \in Panes /\ answers[w] \in Nat /\ told[w] \in Nat /\ reader[w].seen \in Nat
           /\ reader[w].seen <= told[w] /\ (w \notin marked => reader[w].seen = told[w])
           /\ told[w] <= answers[w]
           /\ ReaderKnows(Activated(reader[w], answers[w]), answers[w])
           /\ Activated(reader[w], answers[w]).badge = answers[w] - reader[w].seen
<1>1. /\ w \in Panes /\ answers[w] \in Nat /\ told[w] \in Nat /\ told[w] <= answers[w]
      /\ WindowFits(w)
  BY DEF ConversationIInv
<1>2. /\ reader[w] \in Reader /\ reader[w].seen <= told[w]
      /\ (w \notin marked => reader[w].seen = told[w])
  BY <1>1, Zenon DEF WindowFits, ReaderFits
<1>3. reader[w].seen \in Nat
  BY <1>2 DEF Reader
<1>4. reader[w].sticky \in BOOLEAN
  BY <1>2, Zenon DEF Reader
<1>5. reader[w].seen \in 0..answers[w]
  BY <1>1, <1>2, <1>3
<1>6. /\ ReaderKnows(Activated(reader[w], answers[w]), answers[w])
      /\ Activated(reader[w], answers[w]).badge = answers[w] - reader[w].seen
  BY <1>1, <1>4, <1>5, Activating, Zenon
<1> QED BY <1>1, <1>2, <1>3, <1>6

LEMMA ConversationKept == ConversationIInv /\ ConversationNext => ConversationIInv'
<1> SUFFICES ASSUME ConversationIInv, ConversationNext PROVE ConversationIInv'
  OBVIOUS
<1>1. ASSUME NEW w \in Panes, FocusWindow(w) PROVE ConversationIInv'
  <2> DEFINE r == Activated(reader[w], answers[w])
  <2>1. w \in canvas /\ Sees(w) /\ Reads(w, r) /\ canvas' = canvas /\ answers' = answers
    BY <1>1 DEF FocusWindow
  <2>2. ReaderKnows(r, answers[w]) /\ canvas' \ {w} \subseteq canvas /\ canvas' \subseteq Panes
    BY <2>1, Awakening DEF ConversationIInv
  <2> HIDE DEF r
  <2> QED BY <2>1, <2>2, Seeing
<1>2. ASSUME NEW w \in Panes, CloseWindow(w) PROVE ConversationIInv'
  <2>1. /\ canvas' = canvas \ {w} /\ canvas \subseteq Panes /\ answers' = answers
        /\ IF w # active THEN UNCHANGED <<active, told, marked, reader>>
           ELSE IF canvas' = {} THEN Sees(Nobody) /\ UNCHANGED reader
           ELSE \E v \in canvas' : Sees(v) /\ Reads(v, Activated(reader[v], answers[v]))
    BY <1>2 DEF CloseWindow, ConversationIInv
  <2>2. CASE w # active
    <3>1. active' = active /\ told' = told /\ marked' = marked /\ reader' = reader
      BY <2>1, <2>2, Zenon
    <3>2. \A v \in canvas' : WindowFits(v)'
      <4>1. SUFFICES ASSUME NEW v \in canvas' PROVE WindowFits(v)'
        OBVIOUS
      <4>2. WindowFits(v)
        BY <2>1 DEF ConversationIInv
      <4> QED BY <2>1, <3>1, <4>2, Undisturbed, Zenon
    <3>3. active' \in canvas' \cup {Nobody}
      BY <2>1, <2>2, <3>1 DEF ConversationIInv
    <3>4. canvas' \subseteq Panes
      BY <2>1
    <3> QED BY <2>1, <3>1, <3>2, <3>3, <3>4, Zenon DEF ConversationIInv
  <2>3. CASE w = active /\ canvas' = {}
    <3>1. Sees(Nobody) /\ reader' = reader
      BY <2>1, <2>3, Zenon
    <3>2. told' = told /\ active' = Nobody
      BY <3>1, Zenon DEF Sees
    <3> QED BY <2>1, <2>3, <3>1, <3>2 DEF ConversationIInv
  <2>4. CASE w = active /\ canvas' # {}
    <3>1. PICK v \in canvas' : Sees(v) /\ Reads(v, Activated(reader[v], answers[v]))
      BY <2>1, <2>4, Zenon
    <3> DEFINE r == Activated(reader[v], answers[v])
    <3>2. v \in canvas /\ v \in Panes /\ canvas' \ {v} \subseteq canvas /\ canvas' \subseteq Panes
      BY <2>1, <3>1
    <3>3. ReaderKnows(r, answers[v]) /\ Reads(v, r)
      BY <3>1, <3>2, Awakening
    <3> HIDE DEF r
    <3> QED BY <2>1, <3>1, <3>2, <3>3, Seeing
  <2> QED BY <2>2, <2>3, <2>4
<1>3. ASSUME NEW w \in Panes, ReopenWindow(w) PROVE ConversationIInv'
  <2>1. /\ canvas' = canvas \cup {w} /\ Sees(w) /\ answers' = answers
    BY <1>3 DEF ReopenWindow
  <2>2. PICK sticky \in BOOLEAN : Reads(w, MountedAt(answers[w], TRUE, sticky))
    BY <1>3 DEF ReopenWindow
  <2> DEFINE r == MountedAt(answers[w], TRUE, sticky)
  <2>3. answers[w] \in Nat /\ canvas \subseteq Panes
    BY DEF ConversationIInv
  <2>4. ReaderKnows(r, answers[w]) /\ Reads(w, r)
    <3>1. TRUE \in BOOLEAN
      BY Zenon
    <3> QED BY <2>2, <2>3, <3>1, Mounting, Zenon
  <2>5. w \in canvas' /\ canvas' \ {w} \subseteq canvas /\ canvas' \subseteq Panes
    BY <2>1, <2>3
  <2> HIDE DEF r
  <2> QED BY <2>1, <2>4, <2>5, Seeing
<1>4. CASE ReloadPage
  <2>1. canvas' = Panes /\ active' \in Panes /\ told' = answers /\ answers' = answers /\ marked' = {}
    BY <1>4, Zenon DEF ReloadPage
  <2>2. PICK bottom \in [Panes -> BOOLEAN] :
           reader' = [w \in Panes |-> MountedAt(answers[w], w = active', bottom[w])]
    BY <1>4 DEF ReloadPage
  <2>3. answers \in [Panes -> Nat] /\ \A w \in Panes : answers[w] <= answers[w]
    BY DEF ConversationIInv
  <2>4. ASSUME NEW w \in Panes PROVE WindowFits(w)'
    <3> DEFINE r == MountedAt(answers[w], w = active', bottom[w])
    <3>1. answers[w] \in Nat /\ reader'[w] = r /\ bottom[w] \in BOOLEAN /\ (w = active') \in BOOLEAN
      BY <2>2, <2>3, Zenon
    <3>2. ReaderFits(r, answers[w]) /\ r.seen = answers[w] /\ (w = active' => ReaderKnows(r, answers[w]))
      BY <3>1, Mounting, Zenon
    <3>3. r.seen <= answers[w]
      <4> HIDE DEF r
      <4> QED BY <3>1, <3>2
    <3> QED BY <2>1, <3>1, <3>2, <3>3, Zenon DEF WindowFits
  <2>5. DOMAIN reader' = Panes
    BY <2>2
  <2> QED BY <2>1, <2>3, <2>4, <2>5, Zenon DEF ConversationIInv
<1>5. ASSUME NEW w \in Panes, AnswerArrives(w) PROVE ConversationIInv'
  <2> DEFINE n == answers[w]
             r == IF w \in canvas THEN Noticed(reader[w], n + 1, w = active) ELSE reader[w]
  <2>1. /\ answers \in [Panes -> Nat] /\ told \in [Panes -> Nat] /\ canvas \subseteq Panes
        /\ n \in Nat /\ active \in canvas \cup {Nobody} /\ w # Nobody
        /\ \A v \in Panes : told[v] <= answers[v]
    BY ConversationAssumption DEF ConversationIInv
  <2>2. /\ canvas' = canvas /\ active' = active /\ marked' = marked
        /\ answers' = [answers EXCEPT ![w] = @ + 1]
    BY <1>5 DEF AnswerArrives
  <2>3. /\ answers' \in [Panes -> Nat] /\ answers'[w] = n + 1
        /\ \A v \in Panes \ {w} : answers'[v] = answers[v]
    BY <2>1, <2>2
  <2>4. Reads(w, r)
    BY <1>5, <2>3, Zenon DEF AnswerArrives
  <2>5. DOMAIN reader' = Panes /\ reader'[w] = r /\ \A v \in Panes \ {w} : reader'[v] = reader[v]
    BY <2>4, Reading
  <2>6. /\ told' \in [Panes -> Nat] /\ (w = active => told'[w] = n + 1) /\ (w # active => told'[w] = told[w])
        /\ \A v \in Panes \ {w} : told'[v] = told[v]
    <3>1. told' = IF w = active THEN [told EXCEPT ![w] = n + 1] ELSE told
      BY <1>5, <2>3, Zenon DEF AnswerArrives
    <3>2. CASE w = active
      <4>1. told' = [told EXCEPT ![w] = n + 1]
        BY <3>1, <3>2, Zenon
      <4> HIDE DEF n
      <4> QED BY <2>1, <3>2, <4>1
    <3>3. CASE w # active
      BY <2>1, <3>1, <3>3, Zenon
    <3> QED BY <3>2, <3>3
  <2>7. \A v \in Panes : told'[v] <= answers'[v]
    <3>1. told'[w] <= answers'[w]
      <4>1. told[w] <= n /\ told[w] \in Nat
        BY <2>1
      <4> HIDE DEF n
      <4> QED BY <2>1, <2>3, <2>6, <4>1
    <3> QED BY <2>1, <2>3, <2>6, <3>1
  <2>8. ASSUME NEW v \in canvas PROVE WindowFits(v)'
    <3>1. WindowFits(v) /\ v \in Panes
      BY <2>1 DEF ConversationIInv
    <3>2. CASE v # w
      BY <2>2, <2>3, <2>5, <2>6, <3>1, <3>2, Undisturbed, Zenon
    <3>3. CASE v = w /\ w = active
      <4>1. ReaderKnows(reader[w], n)
        BY <3>1, <3>3, Zenon DEF WindowFits
      <4>2. r = Noticed(reader[w], n + 1, TRUE)
        BY <3>3, Zenon
      <4> HIDE DEF n, r
      <4>3. ReaderKnows(r, n + 1)
        BY <2>1, <4>1, <4>2, Noticing, Zenon
      <4>4. ReaderFits(r, n + 1) /\ r.seen = n + 1
        BY <4>3, Zenon DEF ReaderKnows
      <4>5. r.seen <= n + 1
        BY <2>1, <4>4
      <4> QED BY <2>3, <2>5, <2>6, <3>3, <4>3, <4>4, <4>5, Zenon DEF WindowFits
    <3>4. CASE v = w /\ w # active
      <4>1. r = reader[w]
        BY <3>3, <3>4, Zenon DEF Noticed
      <4>2. 1..n \subseteq 1..(n + 1)
        <5> HIDE DEF n
        <5> QED BY <2>1
      <4> HIDE DEF n, r
      <4>3. ReaderFits(r, n + 1) /\ r.seen <= told[w] /\ (w \notin marked => r.seen = told[w])
        <5>1. ReaderFits(r, n) /\ r.seen <= told[w] /\ (w \notin marked => r.seen = told[w])
          BY <3>1, <3>4, <4>1, Zenon DEF WindowFits, n
        <5>2. r.known \subseteq 1..(n + 1)
          BY <4>2, <5>1, Zenon DEF ReaderFits
        <5> QED BY <5>1, <5>2, Zenon DEF ReaderFits
      <4> QED BY <2>2, <2>3, <2>5, <2>6, <3>4, <4>3, Zenon DEF WindowFits
    <3> QED BY <3>2, <3>3, <3>4
  <2> QED BY <2>1, <2>2, <2>3, <2>5, <2>6, <2>7, <2>8, Zenon DEF ConversationIInv
<1>6. ASSUME NEW w \in canvas PROVE ReaderFits(reader[w], answers[w]) /\ w \in Panes
  BY <1>6, Zenon DEF ConversationIInv, WindowFits
<1>7. ASSUME NEW w \in Panes, NEW bottom \in BOOLEAN, Scroll(w, bottom) PROVE ConversationIInv'
  <2> DEFINE r == [reader[w] EXCEPT !.sticky = bottom]
             s == [reader[w] EXCEPT !.sticky = TRUE, !.ids = <<>>, !.badge = 0, !.cursor = -1]
  <2>1. /\ w \in canvas /\ UNCHANGED <<canvas, active, answers, told, marked>>
        /\ Reads(w, IF bottom /\ ~reader[w].sticky THEN s ELSE r)
    BY <1>7, Zenon DEF Scroll
  <2>2. TRUE \in BOOLEAN /\ ReaderFits(reader[w], answers[w])
    BY <1>6, <2>1, Zenon
  <2>3. /\ ReaderFits(r, answers[w]) /\ r.known = reader[w].known /\ r.seen = reader[w].seen
        /\ ReaderFits(s, answers[w]) /\ s.known = reader[w].known /\ s.seen = reader[w].seen
    BY <2>2, Clearing, Zenon
  <2> HIDE DEF r, s
  <2>4. Reads(w, s) \/ Reads(w, r)
    BY <2>1, Zenon
  <2> QED BY <2>1, <2>3, <2>4, Gesture, Zenon
<1>8. ASSUME NEW w \in Panes, GoesToBottom(w) \/ LeavesBottom(w) PROVE ConversationIInv'
  <2>1. PICK sticky \in BOOLEAN : Reads(w, [reader[w] EXCEPT !.sticky = sticky])
    BY <1>8, Zenon DEF GoesToBottom, LeavesBottom
  <2> DEFINE r == [reader[w] EXCEPT !.sticky = sticky]
  <2>2. w \in canvas /\ UNCHANGED <<canvas, active, answers, told, marked>>
    BY <1>8, Zenon DEF GoesToBottom, LeavesBottom
  <2>3. ReaderFits(r, answers[w]) /\ r.known = reader[w].known /\ r.seen = reader[w].seen
    BY <1>6, <2>2, Clearing, Zenon
  <2>4. Reads(w, r)
    BY <2>1
  <2> HIDE DEF r
  <2> QED BY <2>2, <2>3, <2>4, Gesture
<1>9. ASSUME NEW w \in Panes, StepUnread(w) PROVE ConversationIInv'
  <2> DEFINE n == Len(reader[w].ids)
  <2>1. w \in canvas /\ reader[w].ids # <<>> /\ UNCHANGED <<canvas, active, answers, told, marked>>
    BY <1>9, ConversationAssumption DEF StepUnread, ConversationIInv
  <2>2. PICK dir \in {-1, 1} :
           Reads(w, [reader[w] EXCEPT !.sticky = FALSE, !.cursor = IF @ < 0 THEN 0 ELSE (@ + dir + n) % n])
    BY <1>9, Zenon DEF StepUnread
  <2> DEFINE c == reader[w].cursor
             to == IF c < 0 THEN 0 ELSE (c + dir + n) % n
             r == [reader[w] EXCEPT !.sticky = FALSE, !.cursor = to]
  <2>3. ReaderFits(reader[w], answers[w])
    BY <1>6, <2>1
  <2>4. reader[w] \in Reader
    BY <2>3, Zenon DEF ReaderFits
  <2>5. c \in Int /\ n \in Nat /\ n > 0
    BY <2>1, <2>4 DEF Reader
  <2>6. to \in 0..(n - 1)
    <3>1. (c + dir + n) \in Int
      BY <2>5
    <3> HIDE DEF n, c
    <3> QED BY <2>5, <3>1
  <2>7. Reads(w, r)
    BY <2>2, Zenon
  <2> HIDE DEF to
  <2>8. ReaderFits(r, answers[w]) /\ r.known = reader[w].known /\ r.seen = reader[w].seen
    BY <2>1, <2>3, <2>6, Stepping, Zenon
  <2> HIDE DEF r
  <2> QED BY <2>1, <2>7, <2>8, Gesture
<1>10. ASSUME NEW w \in Panes, ClickBadge(w) PROVE ConversationIInv'
  <2> DEFINE r == [reader[w] EXCEPT !.sticky = FALSE, !.ids = <<>>, !.badge = 0, !.cursor = -1]
  <2>1. w \in canvas /\ Reads(w, r) /\ UNCHANGED <<canvas, active, answers, told, marked>>
    BY <1>10, ConversationAssumption, Zenon DEF ClickBadge, ConversationIInv
  <2>2. FALSE \in BOOLEAN /\ ReaderFits(reader[w], answers[w])
    BY <1>6, <2>1, Zenon
  <2>3. ReaderFits(r, answers[w]) /\ r.known = reader[w].known /\ r.seen = reader[w].seen
    BY <2>2, Clearing, Zenon
  <2> HIDE DEF r
  <2> QED BY <2>1, <2>3, Gesture
<1>11. ASSUME NEW ws \in SUBSET Panes, MarkRead(ws) PROVE ConversationIInv'
  <2>1. /\ canvas' = canvas /\ active' = active /\ answers' = answers /\ reader' = reader
        /\ told' = [w \in Panes |-> IF w \in ws THEN answers[w] ELSE told[w]]
        /\ marked' = marked \cup ws /\ \A w \in ws : SidebarCount(w) > 0
    BY <1>11 DEF MarkRead
  <2>2. /\ answers \in [Panes -> Nat] /\ told \in [Panes -> Nat] /\ canvas \subseteq Panes
        /\ \A w \in Panes : told[w] <= answers[w]
    BY DEF ConversationIInv
  <2>3. /\ told' \in [Panes -> Nat]
        /\ \A w \in ws : told'[w] = answers[w]
        /\ \A w \in Panes \ ws : told'[w] = told[w]
    BY <2>1, <2>2
  <2>4. \A w \in Panes : told'[w] <= answers'[w]
    BY <2>1, <2>2, <2>3
  <2>5. active \notin ws
    BY <2>1 DEF SidebarCount
  <2>6. ASSUME NEW w \in canvas PROVE WindowFits(w)'
    <3>1. WindowFits(w) /\ w \in Panes
      BY <2>2 DEF ConversationIInv
    <3>2. CASE w \notin ws
      BY <2>1, <2>3, <3>1, <3>2, Undisturbed, Zenon
    <3>3. CASE w \in ws
      <4>1. w # active /\ w \in marked' /\ told'[w] = answers[w]
        BY <2>1, <2>3, <2>5, <3>3
      <4>2. ReaderFits(reader[w], answers[w]) /\ reader[w] \in Reader /\ reader[w].seen <= told[w]
        BY <3>1, Zenon DEF WindowFits, ReaderFits
      <4>3. reader[w].seen \in Nat
        BY <4>2 DEF Reader
      <4>4. reader[w].seen <= told'[w]
        BY <2>2, <3>1, <4>1, <4>2, <4>3
      <4> QED BY <2>1, <4>1, <4>2, <4>4, Zenon DEF WindowFits
    <3> QED BY <3>2, <3>3
  <2>7. active' \in canvas' \cup {Nobody} /\ DOMAIN reader' = Panes
    BY <2>1 DEF ConversationIInv
  <2> QED BY <2>1, <2>2, <2>3, <2>4, <2>6, <2>7, Zenon DEF ConversationIInv
<1>12. \A w \in Panes : {w} \in SUBSET Panes
  OBVIOUS
<1>13. {w \in Panes : SidebarCount(w) > 0} \in SUBSET Panes
  OBVIOUS
<1> QED BY <1>1, <1>2, <1>3, <1>4, <1>5, <1>7, <1>8, <1>9, <1>10, <1>11, <1>12, <1>13, ZenonT(60)
        DEF ConversationNext

LEMMA ConversationIsSafe == ConversationIInv => ConversationInv
<1> SUFFICES ASSUME ConversationIInv PROVE ConversationInv
  OBVIOUS
<1>1. active \in canvas \cup {Nobody} /\ \A w \in canvas : WindowFits(w)
  BY DEF ConversationIInv
<1> QED BY <1>1, Zenon DEF ConversationInv, WindowFits, ReaderFits, ReaderKnows

\* What FocusShowsUnread says of a step.
UnreadIsShown ==
    ~ReloadPage =>
        \A w \in canvas : w # active /\ active' = w =>
              /\ reader'[w].badge >= SidebarCount(w)
              /\ w \notin marked => reader'[w].badge = SidebarCount(w)

\* A step that gives a window the focus shows what the sidebar counted.
LEMMA UnreadStep == ConversationIInv /\ ConversationNext => UnreadIsShown
<1> SUFFICES ASSUME ConversationIInv, ConversationNext, ~ReloadPage,
                    NEW w \in canvas, w # active, active' = w
             PROVE  /\ reader'[w].badge >= SidebarCount(w)
                    /\ w \notin marked => reader'[w].badge = SidebarCount(w)
  BY DEF UnreadIsShown
<1>1. w \in Panes /\ w # Nobody
  BY ConversationAssumption DEF ConversationIInv
<1>2. Reads(w, Activated(reader[w], answers[w]))
  <2>1. ASSUME NEW v \in Panes, FocusWindow(v) PROVE Reads(w, Activated(reader[w], answers[w]))
    <3>1. v = w
      BY <2>1 DEF FocusWindow, Sees
    <3> QED BY <2>1, <3>1 DEF FocusWindow
  <2>2. ASSUME NEW v \in Panes, CloseWindow(v) PROVE Reads(w, Activated(reader[w], answers[w]))
    <3>1. IF v # active THEN UNCHANGED <<active, told, marked, reader>>
          ELSE IF canvas' = {} THEN Sees(Nobody) /\ UNCHANGED reader
          ELSE \E u \in canvas' : Sees(u) /\ Reads(u, Activated(reader[u], answers[u]))
      BY <2>2, Zenon DEF CloseWindow
    <3>2. v = active
      BY <3>1, Zenon
    <3>3. canvas' # {}
      BY <1>1, <3>1, <3>2, Zenon DEF Sees
    <3> QED BY <3>1, <3>2, <3>3, Zenon DEF Sees
  <2>3. ~(active' = active)
    OBVIOUS
  <2>4. ASSUME NEW v \in Panes, ReopenWindow(v) PROVE FALSE
    BY <2>4 DEF ReopenWindow, Sees
  <2> QED BY <2>1, <2>2, <2>3, <2>4, ZenonT(60)
          DEF ConversationNext, AnswerArrives, Scroll, GoesToBottom, LeavesBottom, StepUnread, ClickBadge, MarkRead
<1>3. reader'[w] = Activated(reader[w], answers[w])
  BY <1>1, <1>2, Reading
<1>4. SidebarCount(w) = answers[w] - told[w]
  BY DEF SidebarCount
<1>5. /\ answers[w] \in Nat /\ told[w] \in Nat /\ reader[w].seen \in Nat
      /\ reader[w].seen <= told[w] /\ (w \notin marked => reader[w].seen = told[w])
      /\ Activated(reader[w], answers[w]).badge = answers[w] - reader[w].seen
  BY Awakening, Zenon
<1>6. reader'[w].badge = answers[w] - reader[w].seen
  BY <1>3, <1>5
<1> QED BY <1>4, <1>5, <1>6

-----------------------------------------------------------------------------
(* Stars.                                                                  *)

\* The functions have the windows as domain, which StarsInv alone does not say.
StarsIInv ==
    /\ onCanvas \subseteq Panes
    /\ DOMAIN starredIds = Panes /\ DOMAIN showOnlyStarred = Panes
    /\ StarsInv

LEMMA StarsStart ==
    ASSUME StarsInit PROVE StarsIInv
<1>1. /\ onCanvas = Panes /\ starredIds = [w \in Panes |-> {}] /\ starStore = starredIds
      /\ showOnlyStarred = [w \in Panes |-> FALSE]
  BY Zenon DEF StarsInit
<1>2. \A w \in Panes : starredIds[w] = starStore[w] /\ ~showOnlyStarred[w]
  BY <1>1, Zenon
<1> QED BY <1>1, <1>2, Zenon DEF StarsIInv, StarsInv

\* The stars of some windows and the storage change together.
LEMMA StarsTogether ==
    ASSUME StarsIInv, NEW ws, NEW stars, StarsBecome(ws, stars),
           onCanvas' \subseteq Panes, \A w \in onCanvas' : w \in onCanvas \/ w \in ws
    PROVE  StarsIInv'
<1>1. /\ starredIds' = [w \in Panes |-> IF w \in ws THEN stars[w] ELSE starredIds[w]]
      /\ starStore' = [w \in Panes |-> IF w \in ws THEN stars[w] ELSE starStore[w]]
      /\ showOnlyStarred' = [w \in Panes |-> showOnlyStarred[w] /\ (w \in ws => stars[w] # {})]
  BY Zenon DEF StarsBecome
<1>2. \A w \in onCanvas : /\ starredIds[w] = starStore[w]
                          /\ showOnlyStarred[w] => starredIds[w] # {}
  BY Zenon DEF StarsIInv, StarsInv
<1>3. ASSUME NEW w \in onCanvas'
      PROVE  /\ starredIds'[w] = starStore'[w]
             /\ showOnlyStarred'[w] => starredIds'[w] # {}
  <2>1. CASE w \in ws
    <3>1. starredIds'[w] = stars[w] /\ starStore'[w] = stars[w]
      BY <1>1, <2>1
    <3>2. showOnlyStarred'[w] => stars[w] # {}
      BY <1>1, <2>1, Zenon
    <3> QED BY <3>1, <3>2, Zenon
  <2>2. CASE w \notin ws
    <3>1. starredIds'[w] = starredIds[w] /\ starStore'[w] = starStore[w]
      BY <1>1, <2>2
    <3>2. showOnlyStarred'[w] => showOnlyStarred[w]
      BY <1>1, <2>2, Zenon
    <3> QED BY <1>2, <2>2, <3>1, <3>2, Zenon
  <2> QED BY <2>1, <2>2
<1>4. DOMAIN starredIds' = Panes /\ DOMAIN showOnlyStarred' = Panes
  BY <1>1
<1> QED BY <1>3, <1>4, Zenon DEF StarsIInv, StarsInv

LEMMA StarsKept ==
    ASSUME StarsIInv, [StarsNext]_starVars PROVE StarsIInv'
<1>1. /\ onCanvas \subseteq Panes /\ DOMAIN starredIds = Panes /\ DOMAIN showOnlyStarred = Panes
      /\ \A w \in onCanvas : /\ starredIds[w] = starStore[w]
                             /\ showOnlyStarred[w] => starredIds[w] # {}
  BY Zenon DEF StarsIInv, StarsInv
<1>2. CASE UNCHANGED <<onCanvas, starredIds, showOnlyStarred, starStore>>
  BY <1>2, Zenon DEF StarsIInv, StarsInv
<1>3. ASSUME NEW w \in Panes, Send(w) PROVE StarsIInv'
  <2>1. /\ showOnlyStarred' = [showOnlyStarred EXCEPT ![w] = FALSE]
        /\ UNCHANGED <<onCanvas, starredIds, starStore>>
    BY <1>3, Zenon DEF Send
  <2>2. \A v \in onCanvas : showOnlyStarred'[v] => showOnlyStarred[v]
    BY <1>1, <2>1, Zenon
  <2>3. DOMAIN showOnlyStarred' = Panes
    BY <1>1, <2>1, Zenon
  <2> QED BY <1>1, <2>1, <2>2, <2>3, Zenon DEF StarsIInv, StarsInv
<1>4. ASSUME NEW w \in Panes, ToggleStar(w) PROVE StarsIInv'
  <2>1. onCanvas' = onCanvas /\ \E ws, stars : StarsBecome(ws, stars)
    BY <1>4, Zenon DEF ToggleStar
  <2> QED BY <1>1, <2>1, StarsTogether, Zenon
<1>5. ASSUME NEW w \in Panes, ToggleFilter(w) PROVE StarsIInv'
  <2>1. /\ w \in onCanvas /\ (showOnlyStarred[w] \/ starredIds[w] # {})
        /\ showOnlyStarred' = [showOnlyStarred EXCEPT ![w] = ~@]
        /\ UNCHANGED <<onCanvas, starredIds, starStore>>
    BY <1>5, Zenon DEF ToggleFilter
  <2>2. \A v \in onCanvas : showOnlyStarred'[v] => showOnlyStarred[v] \/ v = w
    BY <1>1, <2>1, Zenon
  <2>3. starredIds[w] # {}
    BY <1>1, <2>1, Zenon
  <2>4. DOMAIN showOnlyStarred' = Panes
    BY <1>1, <2>1, Zenon
  <2> QED BY <1>1, <2>1, <2>2, <2>3, <2>4, Zenon DEF StarsIInv, StarsInv
<1>6. ASSUME NEW w \in Panes, CloseStarred(w) PROVE StarsIInv'
  <2>1. onCanvas' = onCanvas \ {w} /\ UNCHANGED <<starredIds, showOnlyStarred, starStore>>
    BY <1>6, Zenon DEF CloseStarred
  <2> QED BY <1>1, <2>1, Zenon DEF StarsIInv, StarsInv
<1>7. ASSUME NEW w \in Panes, ReopenStarred(w) PROVE StarsIInv'
  <2>1. onCanvas' = onCanvas \cup {w} /\ StarsBecome({w}, starStore)
    BY <1>7, Zenon DEF ReopenStarred, MountsStarred
  <2>2. onCanvas' \subseteq Panes /\ \A v \in onCanvas' : v \in onCanvas \/ v \in {w}
    BY <1>1, <2>1
  <2> QED BY <2>1, <2>2, StarsTogether
<1>8. CASE ReloadStarred
  <2>1. onCanvas' = Panes /\ StarsBecome(Panes, starStore)
    BY <1>8, Zenon DEF ReloadStarred, MountsStarred
  <2> QED BY <2>1, StarsTogether
<1>9. CASE UnstarAll
  <2> DEFINE ws == {s[1] : s \in starredAll}
  <2>1. Unstars(ws) /\ onCanvas' = onCanvas
    BY <1>9, Zenon DEF UnstarAll
  <2> HIDE DEF ws
  <2>2. /\ starStore' = [w \in Panes |-> IF w \in ws THEN {} ELSE starStore[w]]
        /\ starredIds' = [w \in Panes |-> IF w \in onCanvas THEN starStore'[w] ELSE starredIds[w]]
        /\ showOnlyStarred' = [w \in Panes |->
              showOnlyStarred[w] /\ (w \in onCanvas => starredIds'[w] # {})]
    BY <2>1, Zenon DEF Unstars
  <2>3. \A w \in onCanvas : starredIds'[w] = starStore'[w]
    BY <1>1, <2>2, Zenon
  <2>4. \A w \in onCanvas : showOnlyStarred'[w] => starredIds'[w] # {}
    BY <1>1, <2>2, Zenon
  <2>5. DOMAIN starredIds' = Panes /\ DOMAIN showOnlyStarred' = Panes
    BY <2>2, Zenon
  <2> QED BY <1>1, <2>1, <2>3, <2>4, <2>5, Zenon DEF StarsIInv, StarsInv
<1>10. CASE OpenPalette \/ ClosePalette \/ \E w \in Panes : Confirm(w)
  BY <1>2, <1>10, Zenon DEF OpenPalette, ClosePalette, Confirm
<1>11. CASE UNCHANGED starVars
  BY <1>2, <1>11, Zenon DEF starVars
<1> QED BY <1>3, <1>4, <1>5, <1>6, <1>7, <1>8, <1>9, <1>10, <1>11, Zenon DEF StarsNext

\* A step takes stars from the storage of a window one at a time while it is shown,
\* or because the palette lists it.
LEMMA StarsRemain ==
    ASSUME StarsIInv, [StarsNext]_starVars, NEW w \in Panes
    PROVE  \/ starStore[w] \subseteq starStore'[w]
           \/ w \in onCanvas /\ \E m \in bubbles[w] : starStore'[w] = starStore[w] \ {m}
           \/ paletteShown /\ \E s \in starredAll : s[1] = w
<1>1. \A v \in onCanvas : starredIds[v] = starStore[v]
  BY Zenon DEF StarsIInv, StarsInv
<1>2. CASE starStore' = starStore
  BY <1>2
<1>3. ASSUME NEW v \in Panes, ToggleStar(v)
      PROVE  \/ starStore[w] \subseteq starStore'[w]
             \/ w \in onCanvas /\ \E m \in bubbles[w] : starStore'[w] = starStore[w] \ {m}
  <2>1. PICK m \in IF showOnlyStarred[v] THEN bubbles[v] \cap starredIds[v] ELSE bubbles[v] :
           StarsBecome({v}, [starredIds EXCEPT ![v] = (starredIds[v] \ {m}) \cup ({m} \ starredIds[v])])
    BY <1>3, Zenon DEF ToggleStar
  <2>2. m \in bubbles[v] /\ v \in onCanvas
    BY <1>3, <2>1, Zenon DEF ToggleStar
  <2> DEFINE stars == [starredIds EXCEPT ![v] = (starredIds[v] \ {m}) \cup ({m} \ starredIds[v])]
  <2>3. starStore' = [x \in Panes |-> IF x \in {v} THEN stars[x] ELSE starStore[x]]
    BY <2>1, Zenon DEF StarsBecome
  <2>4. CASE w = v
    <3>1. starStore'[w] = (starredIds[w] \ {m}) \cup ({m} \ starredIds[w])
      <4>1. DOMAIN starredIds = Panes
        BY Zenon DEF StarsIInv
      <4> QED BY <2>3, <2>4, <4>1, Zenon
    <3>2. starredIds[w] = starStore[w]
      BY <1>1, <2>2, <2>4
    <3>3. CASE m \in starStore[w]
      BY <2>2, <2>4, <3>1, <3>2, <3>3
    <3>4. CASE m \notin starStore[w]
      BY <3>1, <3>2, <3>4
    <3> QED BY <3>3, <3>4
  <2>5. CASE w # v
    BY <2>3, <2>5, Zenon
  <2> QED BY <2>4, <2>5
<1>4. CASE UnstarAll
  <2>1. paletteShown /\ Unstars({s[1] : s \in starredAll})
    BY <1>4, Zenon DEF UnstarAll
  <2>2. w \notin {s[1] : s \in starredAll} => starStore'[w] = starStore[w]
    BY <2>1, Zenon DEF Unstars
  <2> QED BY <2>1, <2>2, Zenon
<1>5. ASSUME NEW ws, StarsBecome(ws, starStore) PROVE starStore'[w] = starStore[w]
  BY <1>5, Zenon DEF StarsBecome
<1>6. ASSUME NEW v \in Panes, ReopenStarred(v) PROVE starStore'[w] = starStore[w]
  BY <1>5, <1>6, Zenon DEF ReopenStarred, MountsStarred
<1>7. CASE ReloadStarred
  BY <1>5, <1>7, Zenon DEF ReloadStarred, MountsStarred
<1>8. ASSUME NEW v \in Panes, Send(v) \/ Confirm(v) \/ ToggleFilter(v) \/ CloseStarred(v)
      PROVE  starStore' = starStore
  BY <1>8, Zenon DEF Send, Confirm, ToggleFilter, CloseStarred
<1>9. CASE OpenPalette \/ ClosePalette \/ UNCHANGED starVars
  BY <1>2, <1>9, Zenon DEF OpenPalette, ClosePalette, starVars
<1> QED BY <1>2, <1>3, <1>4, <1>6, <1>7, <1>8, <1>9, Zenon DEF StarsNext

-----------------------------------------------------------------------------
(* What lies over the page.                                                *)

\* A list of windows that names none twice.
Once(s) == s \in Seq(Panes) /\ IsInjective(s)

RecentsFit == Once(recents) /\ Len(recents) <= RecentsMax
PaletteFits ==
    /\ Once(recentIds) /\ hover \in Nat
    /\ open => recentIds = recents /\ query = lastQuery
    /\ ~open => query = "" /\ hover = 0
NoticesFit == toasts \in Nat /\ toasts <= MaxVisible /\ armed = toasts

\* That nothing is listed twice follows; the hovered place is a number besides.
OverlaysIInv == opened \subseteq Panes /\ RecentsFit /\ PaletteFits /\ NoticesFit

\* Two lists without a window in common make one.
LEMMA Joined ==
    ASSUME NEW s, NEW t, Once(s), Once(t), ToSet(s) \cap ToSet(t) = {}
    PROVE  Once(s \o t) /\ ToSet(s \o t) = ToSet(s) \cup ToSet(t)
<1> DEFINE a == s \o t
<1>1. /\ s \in Seq(Panes) /\ t \in Seq(Panes) /\ Len(s) \in Nat /\ Len(t) \in Nat
      /\ DOMAIN s = 1..Len(s) /\ DOMAIN t = 1..Len(t)
  BY DEF Once
<1>2. /\ a \in Seq(Panes) /\ Len(a) = Len(s) + Len(t) /\ DOMAIN a = 1..Len(a)
      /\ \A i \in 1..Len(a) : a[i] = IF i <= Len(s) THEN s[i] ELSE t[i - Len(s)]
  BY <1>1
<1>3. /\ \A i, j \in 1..Len(s) : s[i] = s[j] => i = j
      /\ \A i, j \in 1..Len(t) : t[i] = t[j] => i = j
      /\ \A i \in 1..Len(s), j \in 1..Len(t) : s[i] # t[j]
  <2>1. \A i, j \in 1..Len(s) : s[i] = s[j] => i = j
    BY <1>1 DEF Once, IsInjective
  <2>2. \A i, j \in 1..Len(t) : t[i] = t[j] => i = j
    BY <1>1 DEF Once, IsInjective
  <2>3. (\A i \in 1..Len(s) : s[i] \in ToSet(s)) /\ (\A j \in 1..Len(t) : t[j] \in ToSet(t))
    BY <1>1, Zenon DEF ToSet
  <2> QED BY <2>1, <2>2, <2>3
<1> HIDE DEF a
<1>4. \A i, j \in 1..Len(a) : a[i] = a[j] => i = j
  <2> SUFFICES ASSUME NEW i \in 1..Len(a), NEW j \in 1..Len(a), a[i] = a[j] PROVE i = j
    OBVIOUS
  <2>1. CASE i <= Len(s) /\ j <= Len(s)
    BY <1>1, <1>2, <1>3, <2>1
  <2>2. CASE i <= Len(s) /\ ~(j <= Len(s))
    <3>1. i \in 1..Len(s) /\ j - Len(s) \in 1..Len(t) /\ s[i] = t[j - Len(s)]
      BY <1>1, <1>2, <2>2
    <3> QED BY <1>3, <3>1
  <2>3. CASE ~(i <= Len(s)) /\ j <= Len(s)
    <3>1. j \in 1..Len(s) /\ i - Len(s) \in 1..Len(t) /\ s[j] = t[i - Len(s)]
      BY <1>1, <1>2, <2>3
    <3> QED BY <1>3, <3>1
  <2>4. CASE ~(i <= Len(s)) /\ ~(j <= Len(s))
    <3>1. i - Len(s) \in 1..Len(t) /\ j - Len(s) \in 1..Len(t) /\ t[i - Len(s)] = t[j - Len(s)]
      BY <1>1, <1>2, <2>4
    <3>2. i - Len(s) = j - Len(s)
      BY <1>3, <3>1
    <3> QED BY <1>1, <1>2, <3>2
  <2> QED BY <2>1, <2>2, <2>3, <2>4
<1>5. ToSet(a) = ToSet(s) \cup ToSet(t)
  <2>1. ASSUME NEW x \in ToSet(a) PROVE x \in ToSet(s) \cup ToSet(t)
    <3>1. PICK i \in 1..Len(a) : x = a[i]
      BY <1>2 DEF ToSet
    <3>2. (i \in 1..Len(s) /\ x = s[i]) \/ (i - Len(s) \in 1..Len(t) /\ x = t[i - Len(s)])
      BY <1>1, <1>2, <3>1
    <3> QED BY <1>1, <3>2 DEF ToSet
  <2>2. ASSUME NEW x \in ToSet(s) PROVE x \in ToSet(a)
    <3>1. PICK i \in 1..Len(s) : x = s[i]
      BY <1>1 DEF ToSet
    <3>2. i \in 1..Len(a) /\ a[i] = x
      BY <1>1, <1>2, <3>1
    <3> QED BY <1>2, <3>2 DEF ToSet
  <2>3. ASSUME NEW x \in ToSet(t) PROVE x \in ToSet(a)
    <3>1. PICK i \in 1..Len(t) : x = t[i]
      BY <1>1 DEF ToSet
    <3>2. i + Len(s) \in 1..Len(a) /\ a[i + Len(s)] = x
      BY <1>1, <1>2, <3>1
    <3> QED BY <1>2, <3>2 DEF ToSet
  <2> QED BY <2>1, <2>2, <2>3
<1>6. Once(a)
  BY <1>2, <1>4 DEF Once, IsInjective
<1> QED BY <1>5, <1>6 DEF a

\* The beginning of a list that has each window once has each once.
LEMMA Beginning ==
    ASSUME NEW s, Once(s), NEW n \in Nat
    PROVE  Once(FirstOf(s, n)) /\ ToSet(FirstOf(s, n)) \subseteq Panes
<1> DEFINE k == IF Len(s) < n THEN Len(s) ELSE n
           a == SubSeq(s, 1, k)
<1>1. s \in Seq(Panes) /\ Len(s) \in Nat /\ DOMAIN s = 1..Len(s)
  BY DEF Once
<1>2. k \in 0..Len(s)
  BY <1>1
<1> HIDE DEF k
<1>3. /\ a \in Seq(Panes) /\ DOMAIN a = 1..k
      /\ \A i \in 1..k : a[i] = s[i] /\ i \in 1..Len(s)
  BY <1>1, <1>2
<1> HIDE DEF a
<1>4. IsInjective(a)
  BY <1>1, <1>3 DEF Once, IsInjective
<1>5. ToSet(a) \subseteq Panes
  BY <1>1, <1>3 DEF ToSet
<1>6. FirstOf(s, n) = a
  BY DEF FirstOf, a, k
<1> QED BY <1>3, <1>4, <1>5, <1>6 DEF Once

\* All windows are in the list of all windows.
LEMMA AllListed == Once(PaneList) /\ ToSet(PaneList) = Panes
<1> DEFINE N == Cardinality(Panes)
           Good(f) == f \in [1..N -> Panes] /\ IsInjective(f)
<1>1. N \in Nat /\ ExistsBijection(1..N, Panes)
  BY OverlaysAssumption, FS_CardinalityType
<1>2. \E f \in [1..N -> Panes] : IsInjective(f)
  BY <1>1, Zenon DEF ExistsBijection, Bijection, Injection
<1>3. PaneList \in [1..N -> Panes] /\ IsInjective(PaneList)
  BY <1>2, Zenon DEF PaneList, SetToSeq
<1>4. PaneList \in Injection(1..N, Panes)
  BY <1>3, Zenon DEF Injection
<1>5. IsFiniteSet(1..N) /\ Cardinality(1..N) = N
  BY <1>1, FS_Interval
<1>6. PaneList \in Surjection(1..N, Panes)
  BY <1>4, <1>5, OverlaysAssumption, FS_Injection
<1> HIDE DEF N
<1>7. PaneList \in Seq(Panes)
  BY <1>1, <1>3
<1>8. ToSet(PaneList) = Panes
  BY <1>3, <1>6 DEF Surjection, ToSet
<1> QED BY <1>3, <1>7, <1>8 DEF Once

\* So has what is filtered.
LEMMA FilterOnce ==
    ASSUME NEW s, Once(s), NEW keep
    PROVE  Once(Filtered(s, keep)) /\ ToSet(Filtered(s, keep)) = ToSet(s) \cap keep
BY FilterKeeps DEF Once

\* What the palette lists, whatever it is told.
LEMMA Listing ==
    ASSUME NEW these, NEW ids, Once(ids), NEW act, NEW text
    PROVE  /\ Once(Items(these, ids, act, text))
           /\ text = "" => ToSet(Items(these, ids, act, text)) = Panes
<1> DEFINE shownFirst == Filtered(PaneList, these)
           shownThen == Filtered(PaneList, Panes \ these)
           first == RecentEntries(ids, act, text)
           wanted == IF text = "" THEN Panes ELSE Matching
           rest == Filtered(AllPanes(these), wanted \ ToSet(first))
           blank == text = ""
<1>1. /\ Once(shownFirst) /\ ToSet(shownFirst) = Panes \cap these
      /\ Once(shownThen) /\ ToSet(shownThen) = Panes \cap (Panes \ these)
  BY AllListed, FilterOnce
<1>2. AllPanes(these) = shownFirst \o shownThen
  BY DEF AllPanes
<1>3. Once(AllPanes(these)) /\ ToSet(AllPanes(these)) = Panes
  <2>1. ToSet(shownFirst) \cap ToSet(shownThen) = {} /\ ToSet(shownFirst) \cup ToSet(shownThen) = Panes
    BY <1>1
  <2> HIDE DEF shownFirst, shownThen
  <2> QED BY <1>1, <1>2, <2>1, Joined
<1>4. Once(first) /\ ToSet(first) \subseteq Panes
  <2> HIDE DEF blank
  <2>1. CASE ~blank
    <3>1. first = <<>>
      BY <2>1, Zenon DEF RecentEntries, blank
    <3> HIDE DEF first
    <3> QED BY <3>1 DEF Once, IsInjective, ToSet
  <2>2. CASE blank
    <3>1. first = FirstOf(Filtered(ids, Panes \ {act}), RecentsShown)
      BY <2>2, Zenon DEF RecentEntries, blank
    <3>2. Once(Filtered(ids, Panes \ {act}))
      BY FilterOnce, Zenon
    <3> HIDE DEF first
    <3> QED BY <3>1, <3>2, Beginning, OverlaysAssumption
  <2> QED BY <2>1, <2>2
<1>5. Items(these, ids, act, text) = first \o rest
  BY Zenon DEF Items
<1> HIDE DEF first, blank, wanted
<1>6. Once(rest) /\ ToSet(rest) = Panes \cap (wanted \ ToSet(first))
  BY <1>3, FilterOnce, Zenon
<1> HIDE DEF rest
<1>7. ToSet(first) \cap ToSet(rest) = {}
  BY <1>6
<1>8. blank => ToSet(first) \cup ToSet(rest) = Panes
  <2>1. blank => wanted = Panes
    BY Zenon DEF wanted, blank
  <2> QED BY <1>4, <1>6, <2>1
<1>9. Once(first \o rest) /\ ToSet(first \o rest) = ToSet(first) \cup ToSet(rest)
  BY <1>4, <1>6, <1>7, Joined
<1> QED BY <1>5, <1>8, <1>9, Zenon DEF blank

LEMMA OverlaysAreSafe == OverlaysIInv => OverlaysInv
<1> SUFFICES ASSUME OverlaysIInv PROVE OverlaysInv
  OBVIOUS
<1>1. Once(Listed) /\ (query = "" => ToSet(Listed) = Panes)
  BY Listing, Zenon DEF Listed, OverlaysIInv, PaletteFits
<1> QED BY <1>1, Zenon DEF OverlaysInv, OverlaysIInv, RecentsFit, PaletteFits, NoticesFit, Once

LEMMA OverlaysStart == OverlaysInit => OverlaysIInv
<1> SUFFICES ASSUME OverlaysInit PROVE OverlaysIInv
  OBVIOUS
<1>1. /\ opened = Panes /\ activePane \in Panes /\ recents = <<activePane>> /\ recentIds = <<>>
      /\ open = FALSE /\ query = "" /\ hover = 0 /\ toasts = 0 /\ armed = 0
  BY Zenon DEF OverlaysInit
<1>2. Once(recents) /\ Len(recents) = 1 /\ Once(recentIds)
  <2>1. activePane \in Panes /\ recents = <<activePane>> /\ recentIds = <<>>
    BY <1>1, Zenon
  <2> QED BY <2>1 DEF Once, IsInjective
<1>3. RecentsFit
  BY <1>2, OverlaysAssumption DEF RecentsFit
<1>4. NoticesFit
  <2>1. toasts = 0 /\ armed = 0
    BY <1>1, Zenon
  <2> QED BY <2>1, OverlaysAssumption DEF NoticesFit
<1>5. PaletteFits
  <2>1. 0 \in Nat
    OBVIOUS
  <2> QED BY <1>1, <1>2, <2>1, Zenon DEF PaletteFits
<1>6. opened \subseteq Panes
  BY <1>1, Zenon
<1> QED BY <1>3, <1>4, <1>5, <1>6, Zenon DEF OverlaysIInv

\* The window that becomes active is remembered first.
LEMMA Remembering ==
    ASSUME RecentsFit, NEW w \in Panes \cup {NoPane}, Becomes(w)
    PROVE  RecentsFit'
<1>1. recents' = IF w = NoPane THEN recents ELSE UsedLast(recents, w, RecentsMax)
  BY Zenon DEF Becomes
<1>2. CASE w = NoPane
  <2>1. recents' = recents
    BY <1>1, <1>2, Zenon
  <2> QED BY <2>1, Zenon DEF RecentsFit, Once
<1>3. CASE w # NoPane
  <2>1. recents' = UsedLast(recents, w, RecentsMax) /\ w \in Panes
    BY <1>1, <1>3, Zenon
  <2>2. recents \in Seq(Panes) /\ IsInjective(recents) /\ RecentsMax \in Nat
    BY OverlaysAssumption DEF RecentsFit, Once
  <2> QED BY <2>1, <2>2, LastUsed, Zenon DEF RecentsFit, Once
<1> QED BY <1>2, <1>3

\* The highlight falls on a place of the list.
LEMMA Falling ==
    ASSUME HoverFalls, Once(recentIds')
    PROVE  hover' \in Nat /\ (~open' => hover' = 0)
<1> DEFINE all == Items(opened', recentIds', activePane', query')
           news == {i \in DOMAIN all : all[i] \in unread'}
<1>1. hover' = IF ~open' \/ query' # "" \/ news = {} THEN 0 ELSE Min(news) - 1
  BY Zenon DEF HoverFalls
<1>2. DOMAIN all \subseteq Nat \ {0}
  <2>1. Once(all)
    BY Listing, Zenon
  <2> HIDE DEF all
  <2>2. all \in Seq(Panes)
    BY <2>1, Zenon DEF Once
  <2> QED BY <2>2
<1>3. news # {} => Min(news) \in Nat \ {0}
  <2>1. news \subseteq Nat \ {0}
    BY <1>2
  <2> HIDE DEF news
  <2> QED BY <2>1, Lowest DEF Min
<1> HIDE DEF news
<1>4. news # {} => Min(news) - 1 \in Nat
  BY <1>3
<1>5. 0 \in Nat
  OBVIOUS
<1> QED BY <1>1, <1>4, <1>5, Zenon

\* The palette hears of the recents while it is open, and shows what was typed.
LEMMA Hearing ==
    ASSUME Once(recentIds), RecentsFit', recentIds' = IF open' THEN recents' ELSE recentIds,
           open' => query' = lastQuery', ~open' => query' = "", HoverFalls
    PROVE  PaletteFits'
<1>1. Once(recentIds')
  BY Zenon DEF RecentsFit, Once
<1>2. hover' \in Nat /\ (~open' => hover' = 0)
  BY <1>1, Falling, Zenon
<1>3. CASE open'
  BY <1>1, <1>2, <1>3, Zenon DEF PaletteFits, Once
<1>4. CASE ~open'
  BY <1>1, <1>2, <1>4, Zenon DEF PaletteFits, Once
<1> QED BY <1>3, <1>4, Zenon

\* A palette that hears nothing keeps what it heard.
LEMMA Heard ==
    ASSUME PaletteFits, UNCHANGED <<recents, recentIds>>, open' => open,
           open' => query' = lastQuery', ~open' => query' = "", HoverFalls
    PROVE  PaletteFits'
<1>1. Once(recentIds')
  BY Zenon DEF PaletteFits, Once
<1>2. hover' \in Nat /\ (~open' => hover' = 0)
  BY <1>1, Falling, Zenon
<1>3. CASE open'
  BY <1>1, <1>2, <1>3, Zenon DEF PaletteFits, Once
<1>4. CASE ~open'
  BY <1>1, <1>2, <1>4, Zenon DEF PaletteFits, Once
<1> QED BY <1>3, <1>4, Zenon

\* The number of toasts shown is the lesser of two.
LEMMA LeastOfTwo ==
    ASSUME NEW a \in Nat, NEW b \in Nat
    PROVE  Min({a, b}) \in {a, b} /\ Min({a, b}) <= b
<1>1. \E x \in {a, b} : \A y \in {a, b} : x <= y
  OBVIOUS
<1>2. Min({a, b}) \in {a, b} /\ \A y \in {a, b} : Min({a, b}) <= y
  BY <1>1, Zenon DEF Min
<1> QED BY <1>2, Zenon

LEMMA OverlaysKept == OverlaysIInv /\ OverlaysNext => OverlaysIInv'
<1> SUFFICES ASSUME OverlaysIInv, OverlaysNext PROVE OverlaysIInv'
  OBVIOUS
<1>1. /\ opened \subseteq Panes /\ RecentsFit /\ PaletteFits /\ NoticesFit
      /\ Once(recentIds)
  BY Zenon DEF OverlaysIInv, PaletteFits
<1>2. ASSUME UNCHANGED toastVars PROVE NoticesFit'
  BY <1>1, <1>2 DEF NoticesFit, toastVars
<1>3. ASSUME UNCHANGED recents PROVE RecentsFit'
  BY <1>1, <1>3 DEF RecentsFit, Once
\* The steps of the page.
<1>4. ASSUME NEW w \in Panes, AnswerComes(w) PROVE OverlaysIInv'
  <2>1. /\ Becomes(w) \/ UNCHANGED recents
        /\ UNCHANGED <<opened, lastQuery, open, query, toastVars>> /\ HearsRecents /\ HoverFalls
    BY <1>4, Zenon DEF AnswerComes
  <2>2. RecentsFit'
    BY <1>1, <1>3, <2>1, Remembering, Zenon
  <2>3. PaletteFits'
    BY <1>1, <2>1, <2>2, Hearing, Zenon DEF HearsRecents, PaletteFits
  <2> QED BY <1>1, <1>2, <2>1, <2>2, <2>3, Zenon DEF OverlaysIInv
<1>5. ASSUME NEW w \in Panes, FocusPane(w) PROVE OverlaysIInv'
  <2>1. /\ Becomes(w)
        /\ UNCHANGED <<opened, lastQuery, open, query, toastVars>> /\ HearsRecents /\ HoverFalls
    BY <1>5, Zenon DEF FocusPane
  <2>2. RecentsFit'
    BY <1>1, <2>1, Remembering, Zenon
  <2>3. PaletteFits'
    BY <1>1, <2>1, <2>2, Hearing, Zenon DEF HearsRecents, PaletteFits
  <2> QED BY <1>1, <1>2, <2>1, <2>2, <2>3, Zenon DEF OverlaysIInv
<1>6. ASSUME NEW w \in Panes, ClosePane(w) PROVE OverlaysIInv'
  <2>1. /\ opened' = opened \ {w}
        /\ UNCHANGED <<lastQuery, open, query, toastVars>> /\ HearsRecents /\ HoverFalls
        /\ IF w # activePane THEN UNCHANGED <<activePane, unread, recents>>
           ELSE IF opened' = {} THEN Becomes(NoPane)
           ELSE \E v \in opened' : Becomes(v)
    BY <1>6, Zenon DEF ClosePane
  <2>2. opened' \subseteq Panes
    BY <1>1, <2>1
  <2>3. UNCHANGED recents \/ \E v \in Panes \cup {NoPane} : Becomes(v)
    BY <2>1, <2>2, Zenon
  <2>4. RecentsFit'
    BY <1>1, <1>3, <2>3, Remembering, Zenon
  <2>5. PaletteFits'
    BY <1>1, <2>1, <2>4, Hearing, Zenon DEF HearsRecents, PaletteFits
  <2> QED BY <1>2, <2>1, <2>2, <2>4, <2>5, Zenon DEF OverlaysIInv
\* The steps of the palette.
<1>7. ASSUME TogglePalette PROVE OverlaysIInv'
  <2>1. /\ UNCHANGED <<opened, recents, toastVars>> /\ HoverFalls
        /\ recentIds' = IF open' THEN recents ELSE recentIds
    BY <1>7, Zenon DEF TogglePalette, pageVars
  <2>2. (open' => query' = lastQuery') /\ (~open' => query' = "")
    BY <1>7, Zenon DEF TogglePalette, PaletteCloses
  <2>3. recents' = recents /\ opened' = opened
    BY <2>1, Zenon
  <2>4. recentIds' = IF open' THEN recents' ELSE recentIds
    BY <2>1, <2>3, Zenon
  <2>5. PaletteFits'
    BY <1>1, <1>3, <2>1, <2>2, <2>3, <2>4, Hearing, Zenon
  <2> QED BY <1>1, <1>2, <1>3, <2>1, <2>3, <2>5, Zenon DEF OverlaysIInv
<1>8. ASSUME TypeQuery PROVE OverlaysIInv'
  <2>1. /\ UNCHANGED <<opened, recents, toastVars, open, recentIds>> /\ HoverFalls
        /\ query' = lastQuery' /\ open
    BY <1>8, Zenon DEF TypeQuery, QueryBecomes, pageVars
  <2>2. PaletteFits'
    BY <1>1, <2>1, Heard, Zenon DEF PaletteFits
  <2> QED BY <1>1, <1>2, <1>3, <2>1, <2>2, Zenon DEF OverlaysIInv
<1>9. ASSUME Arrow PROVE OverlaysIInv'
  <2>1. UNCHANGED <<opened, recents, toastVars, open, recentIds, query, lastQuery>> /\ open
    BY <1>9, Zenon DEF Arrow, pageVars
  <2>2. hover' \in Nat
    <3>1. PICK i \in DOMAIN Listed : hover' = i - 1
      BY <1>9, Zenon DEF Arrow
    <3>2. Listed \in Seq(Panes)
      BY <1>1, Listing, Zenon DEF Listed, Once
    <3> QED BY <3>1, <3>2
  <2>3. PaletteFits'
    BY <1>1, <2>1, <2>2, Zenon DEF PaletteFits, Once
  <2> QED BY <1>1, <1>2, <1>3, <2>1, <2>3, Zenon DEF OverlaysIInv
<1>10. ASSUME Choose PROVE OverlaysIInv'
  <2> DEFINE at == Min({hover + 1, Len(Listed)})
             w == Listed[at]
  <2>1. /\ opened' = opened \cup {w} /\ Becomes(w)
        /\ open' = FALSE /\ query' = "" /\ UNCHANGED toastVars /\ HearsRecents /\ HoverFalls
    BY <1>10, Zenon DEF Choose, PaletteCloses
  <2>2. w \in Panes
    <3>1. hover \in Nat /\ Listed \in Seq(Panes) /\ Listed # <<>>
      BY <1>1, <1>10, Listing, Zenon DEF Choose, PaletteFits, Listed, Once
    <3>2. Len(Listed) \in Nat \ {0}
      BY <3>1
    <3>3. Min({hover + 1, Len(Listed)}) \in {hover + 1, Len(Listed)}
          /\ Min({hover + 1, Len(Listed)}) <= Len(Listed)
      BY <3>1, <3>2, LeastOfTwo
    <3> QED BY <3>1, <3>2, <3>3
  <2>3. RecentsFit'
    BY <1>1, <2>1, <2>2, Remembering, Zenon
  <2>4. PaletteFits'
    BY <1>1, <2>1, <2>3, Hearing, Zenon DEF HearsRecents
  <2>5. opened' \subseteq Panes
    <3>1. opened \subseteq Panes /\ opened' = opened \cup {w}
      BY <1>1, <2>1, Zenon
    <3> HIDE DEF w
    <3> QED BY <2>2, <3>1
  <2> QED BY <1>2, <2>1, <2>3, <2>4, <2>5, Zenon DEF OverlaysIInv
<1>11. ASSUME ClickBackdrop PROVE OverlaysIInv'
  <2>1. /\ UNCHANGED <<opened, recents, toastVars, recentIds>> /\ HoverFalls
        /\ open' = FALSE /\ query' = ""
    BY <1>11, Zenon DEF ClickBackdrop, PaletteCloses, pageVars
  <2>2. PaletteFits'
    BY <1>1, <2>1, Heard, Zenon DEF PaletteFits
  <2> QED BY <1>1, <1>2, <1>3, <2>1, <2>2, Zenon DEF OverlaysIInv
<1>12. ASSUME ProjectsSettle PROVE OverlaysIInv'
  <2>1. /\ UNCHANGED <<opened, recents, toastVars, open, recentIds, query, lastQuery>>
        /\ HoverFalls \/ UNCHANGED hover
    BY <1>12, Zenon DEF ProjectsSettle, pageVars
  <2>2. ASSUME HoverFalls PROVE PaletteFits'
    BY <1>1, <2>1, <2>2, Heard, Zenon DEF PaletteFits
  <2>3. ASSUME UNCHANGED hover PROVE PaletteFits'
    BY <1>1, <2>1, <2>3, Zenon DEF PaletteFits, Once
  <2>4. PaletteFits'
    BY <2>1, <2>2, <2>3, Zenon
  <2> QED BY <1>1, <1>2, <1>3, <2>1, <2>4, Zenon DEF OverlaysIInv
<1>13. ASSUME Escape PROVE OverlaysIInv'
  <2>1. /\ UNCHANGED <<opened, recents, recentIds>> /\ HoverFalls
        /\ toasts' = 0 /\ armed' = 0
        /\ IF open /\ query # "" THEN QueryBecomes("") /\ UNCHANGED <<open, projects>>
           ELSE IF open THEN PaletteCloses
           ELSE UNCHANGED <<open, query, lastQuery, projects>>
    BY <1>13, Zenon DEF Escape, pageVars
  <2>2. NoticesFit'
    <3>1. toasts' = 0 /\ armed' = 0
      BY <2>1, Zenon
    <3> QED BY <3>1, OverlaysAssumption DEF NoticesFit
  <2>3. (open' => query' = lastQuery') /\ (~open' => query' = "")
    <3>1. ASSUME open, query # "" PROVE (open' => query' = lastQuery') /\ (~open' => query' = "")
      BY <1>1, <2>1, <3>1, Zenon DEF QueryBecomes
    <3>2. ASSUME open, query = "" PROVE (open' => query' = lastQuery') /\ (~open' => query' = "")
      BY <1>1, <2>1, <3>2, Zenon DEF PaletteCloses
    <3>3. ASSUME ~open PROVE (open' => query' = lastQuery') /\ (~open' => query' = "")
      BY <1>1, <2>1, <3>3, Zenon DEF PaletteFits
    <3> QED BY <3>1, <3>2, <3>3, Zenon
  <2>4. open' => open
    <3>1. ASSUME open' PROVE open
      BY <2>1, <3>1, Zenon
    <3> QED BY <3>1, Zenon
  <2>5. PaletteFits'
    BY <1>1, <2>1, <2>3, <2>4, Heard, Zenon DEF PaletteFits
  <2>6. opened' \subseteq Panes /\ RecentsFit'
    BY <1>1, <1>3, <2>1, Zenon
  <2> QED BY <2>2, <2>5, <2>6, Zenon DEF OverlaysIInv
<1>14. ASSUME ToggleHelp PROVE OverlaysIInv'
  <2>1. UNCHANGED <<opened, recents, toastVars, open, recentIds, query, lastQuery, hover>>
    BY <1>14, Zenon DEF ToggleHelp, pageVars, paletteVars
  <2>2. PaletteFits'
    BY <1>1, <2>1, Zenon DEF PaletteFits, Once
  <2> QED BY <1>1, <1>2, <1>3, <2>1, <2>2, Zenon DEF OverlaysIInv
\* The steps of the notices.
<1>15. ASSUME Push \/ Dismiss \/ TimersRun PROVE OverlaysIInv'
  <2>1. UNCHANGED <<opened, recents, open, recentIds, query, lastQuery, hover>>
    BY <1>15, Zenon DEF Push, Dismiss, TimersRun, pageVars, paletteVars
  <2>2. PaletteFits'
    BY <1>1, <2>1, Zenon DEF PaletteFits, Once
  <2>3. NoticesFit'
    <3>1. toasts \in Nat /\ toasts <= MaxVisible /\ armed = toasts /\ armed' = toasts' /\ MaxVisible \in Nat
      BY <1>1, <1>15, OverlaysAssumption DEF NoticesFit, Push, Pushes, Dismiss, TimersRun, TimersRestart
    <3>2. CASE Push
      <4>1. toasts' = Min({toasts + 1, MaxVisible})
        BY <3>2 DEF Push, Pushes
      <4>2. Min({toasts + 1, MaxVisible}) \in {toasts + 1, MaxVisible}
            /\ Min({toasts + 1, MaxVisible}) <= MaxVisible
        BY <3>1, LeastOfTwo
      <4> QED BY <3>1, <4>1, <4>2 DEF NoticesFit
    <3>3. CASE Dismiss
      BY <3>1, <3>3 DEF NoticesFit, Dismiss
    <3>4. CASE TimersRun
      BY <3>1, <3>4 DEF NoticesFit, TimersRun
    <3> QED BY <1>15, <3>2, <3>3, <3>4
  <2> QED BY <1>1, <1>3, <2>1, <2>2, <2>3, Zenon DEF OverlaysIInv
<1> QED BY <1>4, <1>5, <1>6, <1>7, <1>8, <1>9, <1>10, <1>11, <1>12, <1>13, <1>14, <1>15, ZenonT(60)
        DEF OverlaysNext

-----------------------------------------------------------------------------
(* The windows.                                                            *)

Distinct(rows) == \A i, j \in DOMAIN rows : rows[i].id = rows[j].id => i = j

\* The windows the view or a call names, and all that are known.
Named == IdsOf(pool) \cup {calls[d].id : d \in Calls}
Known == Named \cup IdsOf(windows) \cup IdsOf(server)

\* What a call remembers, and what its creation may be seen by.
CallFits(c) ==
    /\ calls[c].waiting => calls[c].kind # "none"
    /\ calls[c].kind \in {"rename", "delete"} => calls[c].id \in Id /\ ~IsLocal(calls[c].id)
    /\ calls[c].kind = "delete" => calls[c].at > 0
    /\ Temp(c) \in IdsOf(pool) => calls[c].kind = "create" /\ (calls[c].waiting \/ calls[c].api = "none")
    /\ Persisted(c) \in Known => calls[c].kind \in {"create", "first"} /\ calls[c].api = "done"
    /\ Persisted(c) \in Named => Temp(c) \notin IdsOf(pool)

\* The three pieces of the view agree.
ViewFits ==
    /\ pool \in Seq(Row) /\ Distinct(pool)
    /\ openIds \in Seq(Id) /\ IsInjective(openIds) /\ ToSet(openIds) \subseteq IdsOf(pool)
    /\ activeId \in Id \cup {None} /\ (activeId # None => activeId \in ToSet(openIds))

\* A tabs of rows of the database.
RowsFit(rows) ==
    /\ rows \in Seq(Row) /\ Distinct(rows)
    /\ \A id \in IdsOf(rows) : ~IsLocal(id)

\* CallFits ties every call to the ids that are known: without it a late answer could
\* put a window into the view that is there already, and ViewFits would be lost.
WorkspaceIInv ==
    /\ ViewFits /\ RowsFit(windows) /\ RowsFit(server)
    /\ calls \in [Calls -> Call]
    /\ \A c \in Calls : CallFits(c)

\* Temporary ids, ids of the database and null are three kinds, one per call.
LEMMA Ids ==
    /\ None \notin Id
    /\ \A c \in Calls : /\ Temp(c) \in Id /\ IsLocal(Temp(c))
                        /\ Persisted(c) \in Id /\ ~IsLocal(Persisted(c))
    /\ \A c, d \in Calls : /\ Temp(c) # Persisted(d) /\ (Temp(c) = Temp(d) => c = d)
                           /\ (Persisted(c) = Persisted(d) => c = d)
BY WorkspaceStateAssumption DEF Id, None, Calls, Temp, Persisted, IsLocal

LEMMA RowIs ==
    ASSUME NEW id \in Id, NEW title \in Titles
    PROVE  [id |-> id, title |-> title] \in Row /\ [id |-> id, title |-> title].id = id
BY DEF Row

\* A tabs of rows by its places.
LEMMA Places ==
    ASSUME NEW rows \in Seq(Row)
    PROVE  /\ DOMAIN rows = 1..Len(rows) /\ Len(rows) \in Nat
           /\ \A i \in 1..Len(rows) : rows[i] \in Row /\ rows[i].id \in Id /\ rows[i].id \in IdsOf(rows)
           /\ \A id \in IdsOf(rows) : id \in Id /\ \E i \in 1..Len(rows) : rows[i].id = id
<1>1. DOMAIN rows = 1..Len(rows) /\ Len(rows) \in Nat
  OBVIOUS
<1>2. \A i \in 1..Len(rows) : rows[i] \in Row
  OBVIOUS
<1>3. \A i \in 1..Len(rows) : rows[i].id \in Id
  BY <1>2 DEF Row
<1>4. \A i \in 1..Len(rows) : rows[i].id \in IdsOf(rows)
  BY <1>1, Zenon DEF IdsOf
<1>5. \A id \in IdsOf(rows) : \E i \in 1..Len(rows) : rows[i].id = id
  BY <1>1, Zenon DEF IdsOf
<1> QED BY <1>1, <1>2, <1>3, <1>4, <1>5, Zenon

\* Distinct rows are as many as their ids.
LEMMA RowsCounted ==
    ASSUME NEW rows \in Seq(Row), Distinct(rows)
    PROVE  Cardinality(IdsOf(rows)) = Len(rows)
<1> DEFINE f == [i \in 1..Len(rows) |-> rows[i].id]
<1>1. DOMAIN rows = 1..Len(rows) /\ Len(rows) \in Nat
  BY Places
<1>2. f \in [1..Len(rows) -> IdsOf(rows)] /\ \A i \in 1..Len(rows) : f[i] = rows[i].id
  BY Places
<1> HIDE DEF f
<1>3. f \in Surjection(1..Len(rows), IdsOf(rows))
  BY <1>2, Places, Zenon DEF Surjection
<1>4. f \in Injection(1..Len(rows), IdsOf(rows))
  BY <1>1, <1>2, Zenon DEF Injection, IsInjective, Distinct
<1>5. IsFiniteSet(1..Len(rows)) /\ Cardinality(1..Len(rows)) = Len(rows)
  BY <1>1, FS_Interval
<1>6. Cardinality(IdsOf(rows)) = Cardinality(1..Len(rows))
  BY <1>3, <1>4, <1>5, FS_Surjection, Zenon
<1> QED BY <1>5, <1>6

\* The row of an id that is there.
LEMMA RowFound ==
    ASSUME NEW rows \in Seq(Row), NEW id \in IdsOf(rows)
    PROVE  RowOf(rows, id) \in Row /\ RowOf(rows, id).title \in Titles
<1>1. \E i \in DOMAIN rows : rows[i].id = id
  BY Places, Zenon
<1>2. (CHOOSE i \in DOMAIN rows : rows[i].id = id) \in DOMAIN rows
  BY <1>1, Zenon
<1>3. RowOf(rows, id) \in Row
  BY <1>2, Places, Zenon DEF RowOf
<1>4. \A r \in Row : r.title \in Titles
  BY DEF Row
<1> QED BY <1>3, <1>4

\* A window that is dropped from the list.
LEMMA RowsWithout ==
    ASSUME NEW rows \in Seq(Row), NEW id
    PROVE  /\ Without(rows, id) \in Seq(Row)
           /\ IdsOf(Without(rows, id)) = IdsOf(rows) \ {id}
           /\ Distinct(rows) => Distinct(Without(rows, id))
<1> DEFINE keep == {w \in Row : w.id # id}
           t == Filtered(rows, keep)
<1>1. t \in Seq(Row)
  BY Filtering
<1>2. PICK at : KeptAt(rows, keep, t, at)
  BY Filtering
<1>3. /\ at \in [1..Len(t) -> 1..Len(rows)]
      /\ \A n \in 1..Len(t) : t[n] = rows[at[n]] /\ rows[at[n]] \in keep
      /\ \A m, n \in 1..Len(t) : m < n => at[m] < at[n]
      /\ \A i \in 1..Len(rows) : rows[i] \in keep => \E n \in 1..Len(t) : at[n] = i
  BY <1>2, Zenon DEF KeptAt
<1>4. Without(rows, id) = t
  BY DEF Without
<1>5. \A w \in Row : w \in keep <=> w.id # id
  OBVIOUS
<1> HIDE DEF t, keep
<1>6. DOMAIN rows = 1..Len(rows) /\ Len(rows) \in Nat /\ DOMAIN t = 1..Len(t) /\ Len(t) \in Nat
  BY <1>1
<1>7. \A m, n \in 1..Len(t) : at[m] = at[n] => m = n
  BY <1>3, <1>6
<1>8. Distinct(rows) => Distinct(t)
  <2> SUFFICES ASSUME Distinct(rows), NEW i \in 1..Len(t), NEW j \in 1..Len(t), t[i].id = t[j].id
               PROVE  i = j
    BY <1>6, Zenon DEF Distinct
  <2>1. t[i] = rows[at[i]] /\ t[j] = rows[at[j]] /\ at[i] \in 1..Len(rows) /\ at[j] \in 1..Len(rows)
    BY <1>3
  <2>2. at[i] = at[j]
    BY <1>6, <2>1, Zenon DEF Distinct
  <2> QED BY <1>7, <2>2, Zenon
<1>9. IdsOf(t) = IdsOf(rows) \ {id}
  <2>1. ASSUME NEW x \in IdsOf(t) PROVE x \in IdsOf(rows) \ {id}
    <3>1. PICK n \in 1..Len(t) : t[n].id = x
      BY <1>1, Places, Zenon
    <3>2. t[n] = rows[at[n]] /\ rows[at[n]] \in keep /\ at[n] \in 1..Len(rows)
      BY <1>3
    <3>3. rows[at[n]] \in Row /\ rows[at[n]].id \in IdsOf(rows)
      BY <3>2, Places, Zenon
    <3> QED BY <1>5, <3>1, <3>2, <3>3
  <2>2. ASSUME NEW x \in IdsOf(rows), x # id PROVE x \in IdsOf(t)
    <3>1. PICK i \in 1..Len(rows) : rows[i].id = x /\ rows[i] \in Row
      BY Places, Zenon
    <3>2. PICK n \in 1..Len(t) : at[n] = i
      BY <1>3, <1>5, <2>2, <3>1, Zenon
    <3>3. t[n].id = x
      BY <1>3, <3>1, <3>2
    <3> QED BY <1>1, <3>3, Places, Zenon
  <2> QED BY <2>1, <2>2
<1> QED BY <1>1, <1>4, <1>8, <1>9

\* A row that is replaced, in its place.
LEMMA RowsReplaced ==
    ASSUME NEW rows \in Seq(Row), Distinct(rows), NEW id, NEW row \in Row,
           row.id = id \/ row.id \notin IdsOf(rows)
    PROVE  /\ Replaced(rows, id, row) \in Seq(Row)
           /\ Distinct(Replaced(rows, id, row))
           /\ IdsOf(Replaced(rows, id, row)) =
                 IF id \in IdsOf(rows) THEN (IdsOf(rows) \ {id}) \cup {row.id} ELSE IdsOf(rows)
<1> DEFINE t == Replaced(rows, id, row)
<1>1. DOMAIN rows = 1..Len(rows) /\ Len(rows) \in Nat /\ \A i \in 1..Len(rows) : rows[i] \in Row
  BY Places
<1>2. t = [i \in 1..Len(rows) |-> IF rows[i].id = id THEN row ELSE rows[i]]
  BY <1>1, Zenon DEF Replaced
<1> HIDE DEF t
<1>3. \A i \in 1..Len(rows) : /\ rows[i].id = id => t[i] = row
                              /\ rows[i].id # id => t[i] = rows[i]
  BY <1>2
<1>4. t \in Seq(Row) /\ Len(t) = Len(rows) /\ DOMAIN t = 1..Len(rows)
  <2>1. t \in [1..Len(rows) -> Row]
    BY <1>1, <1>2, <1>3
  <2> QED BY <1>1, <2>1
<1>5. \A i, j \in 1..Len(rows) : rows[i].id = rows[j].id => i = j
  BY <1>1 DEF Distinct
<1>6. \A i \in 1..Len(rows) : rows[i].id \in IdsOf(rows)
  BY Places
<1>7. Distinct(t)
  <2> SUFFICES ASSUME NEW i \in 1..Len(rows), NEW j \in 1..Len(rows), t[i].id = t[j].id
               PROVE  i = j
    BY <1>4 DEF Distinct
  <2>1. CASE rows[i].id = id /\ rows[j].id = id
    BY <1>5, <2>1, Zenon
  <2>2. CASE rows[i].id = id /\ rows[j].id # id
    <3>1. row.id = rows[j].id
      BY <1>3, <2>2
    <3> QED BY <1>6, <2>2, <3>1
  <2>3. CASE rows[i].id # id /\ rows[j].id = id
    <3>1. row.id = rows[i].id
      BY <1>3, <2>3
    <3> QED BY <1>6, <2>3, <3>1
  <2>4. CASE rows[i].id # id /\ rows[j].id # id
    BY <1>3, <1>5, <2>4
  <2> QED BY <2>1, <2>2, <2>3, <2>4
<1>8. ASSUME NEW x PROVE x \in IdsOf(t) <=> \E i \in 1..Len(rows) : t[i].id = x
  BY <1>4, Zenon DEF IdsOf
<1>9. ASSUME NEW x PROVE x \in IdsOf(rows) <=> \E i \in 1..Len(rows) : rows[i].id = x
  BY <1>1, Zenon DEF IdsOf
<1>10. CASE id \in IdsOf(rows)
  <2>1. PICK k \in 1..Len(rows) : rows[k].id = id
    BY <1>9, <1>10, Zenon
  <2>2. \A x : x \in IdsOf(t) <=> x \in (IdsOf(rows) \ {id}) \cup {row.id}
    <3> SUFFICES ASSUME NEW x PROVE x \in IdsOf(t) <=> x \in (IdsOf(rows) \ {id}) \cup {row.id}
      OBVIOUS
    <3>1. ASSUME x \in IdsOf(t) PROVE x \in (IdsOf(rows) \ {id}) \cup {row.id}
      <4>1. PICK i \in 1..Len(rows) : t[i].id = x
        BY <1>8, <3>1, Zenon
      <4> QED BY <1>3, <1>6, <4>1
    <3>2. ASSUME x \in IdsOf(rows), x # id PROVE x \in IdsOf(t)
      <4>1. PICK i \in 1..Len(rows) : rows[i].id = x
        BY <1>9, <3>2, Zenon
      <4>2. t[i].id = x
        BY <1>3, <3>2, <4>1
      <4> QED BY <1>8, <4>2, Zenon
    <3>3. row.id \in IdsOf(t)
      BY <1>3, <1>8, <2>1, Zenon
    <3> QED BY <3>1, <3>2, <3>3
  <2>3. IdsOf(t) = (IdsOf(rows) \ {id}) \cup {row.id}
    BY <2>2, Zenon
  <2> QED BY <1>4, <1>7, <1>10, <2>3, Zenon DEF t
<1>11. CASE id \notin IdsOf(rows)
  <2>1. \A i \in 1..Len(rows) : t[i] = rows[i]
    BY <1>3, <1>6, <1>11
  <2>2. \A x : x \in IdsOf(t) <=> x \in IdsOf(rows)
    BY <1>8, <1>9, <2>1, Zenon
  <2>3. IdsOf(t) = IdsOf(rows)
    BY <2>2, Zenon
  <2> QED BY <1>4, <1>7, <1>11, <2>3, Zenon DEF t
<1> QED BY <1>10, <1>11

\* A row that is appended.
LEMMA RowsAppended ==
    ASSUME NEW rows \in Seq(Row), Distinct(rows), NEW row \in Row, row.id \notin IdsOf(rows)
    PROVE  /\ Append(rows, row) \in Seq(Row) /\ Distinct(Append(rows, row))
           /\ IdsOf(Append(rows, row)) = IdsOf(rows) \cup {row.id}
<1> DEFINE t == Append(rows, row)
           n == Len(rows) + 1
<1>1. DOMAIN rows = 1..Len(rows) /\ Len(rows) \in Nat
  BY Places
<1>2. /\ t \in Seq(Row) /\ DOMAIN t = 1..n
      /\ t[n] = row /\ \A i \in 1..Len(rows) : t[i] = rows[i]
  OBVIOUS
<1> HIDE DEF t
<1>3. n \in 1..n /\ \A i \in 1..n : i = n \/ i \in 1..Len(rows)
  BY <1>1
<1>4. \A i \in 1..Len(rows) : i \in 1..n
  BY <1>1
<1> HIDE DEF n
<1>5. \A i \in 1..Len(rows) : rows[i].id \in IdsOf(rows)
  BY Places
<1>6. Distinct(t)
  <2> SUFFICES ASSUME NEW i \in 1..n, NEW j \in 1..n, t[i].id = t[j].id PROVE i = j
    BY <1>2 DEF Distinct
  <2>1. CASE i \in 1..Len(rows) /\ j \in 1..Len(rows)
    BY <1>1, <1>2, <2>1, Zenon DEF Distinct
  <2>2. CASE i = n /\ j \in 1..Len(rows)
    BY <1>2, <1>5, <2>2, Zenon
  <2>3. CASE i \in 1..Len(rows) /\ j = n
    BY <1>2, <1>5, <2>3, Zenon
  <2> QED BY <1>3, <2>1, <2>2, <2>3, Zenon
<1>7. \A x : x \in IdsOf(t) <=> x \in IdsOf(rows) \cup {row.id}
  <2> SUFFICES ASSUME NEW x PROVE x \in IdsOf(t) <=> x \in IdsOf(rows) \cup {row.id}
    OBVIOUS
  <2>1. x \in IdsOf(t) <=> \E i \in 1..n : t[i].id = x
    BY <1>2, Zenon DEF IdsOf
  <2>2. x \in IdsOf(rows) <=> \E i \in 1..Len(rows) : rows[i].id = x
    BY <1>1, Zenon DEF IdsOf
  <2>3. (\E i \in 1..n : t[i].id = x) <=> (row.id = x \/ \E i \in 1..Len(rows) : rows[i].id = x)
    BY <1>2, <1>3, <1>4, Zenon
  <2> QED BY <2>1, <2>2, <2>3, Zenon
<1>8. IdsOf(t) = IdsOf(rows) \cup {row.id}
  BY <1>7, Zenon
<1> QED BY <1>2, <1>6, <1>8 DEF t

\* The tabs of open windows, by what is done to it.
OpenFits(tabs) == tabs \in Seq(Id) /\ IsInjective(tabs)

\* The open windows by their places.
LEMMA OpenPlaces ==
    ASSUME NEW tabs, OpenFits(tabs)
    PROVE  /\ tabs \in Seq(Id) /\ DOMAIN tabs = 1..Len(tabs) /\ Len(tabs) \in Nat
           /\ \A i \in 1..Len(tabs) : tabs[i] \in Id /\ tabs[i] \in ToSet(tabs)
           /\ \A i, j \in 1..Len(tabs) : tabs[i] = tabs[j] => i = j
           /\ \A x : x \in ToSet(tabs) <=> \E i \in 1..Len(tabs) : tabs[i] = x
           /\ ToSet(tabs) \subseteq Id
<1>1. tabs \in Seq(Id) /\ DOMAIN tabs = 1..Len(tabs) /\ Len(tabs) \in Nat
  BY DEF OpenFits
<1>2. \A i \in 1..Len(tabs) : tabs[i] \in Id
  BY <1>1
<1>3. \A x : x \in ToSet(tabs) <=> \E i \in 1..Len(tabs) : tabs[i] = x
  BY <1>1, Zenon DEF ToSet
<1>4. \A i, j \in 1..Len(tabs) : tabs[i] = tabs[j] => i = j
  BY <1>1, Zenon DEF OpenFits, IsInjective
<1>5. \A i \in 1..Len(tabs) : tabs[i] \in ToSet(tabs)
  BY <1>3, Zenon
<1>6. ToSet(tabs) \subseteq Id
  BY <1>2, <1>3, Zenon
<1> QED BY <1>1, <1>2, <1>3, <1>4, <1>5, <1>6, Zenon

\* The open windows without one of them.
LEMMA OpenFiltered ==
    ASSUME NEW tabs, OpenFits(tabs), NEW id
    PROVE  /\ OpenFits(Filtered(tabs, Id \ {id}))
           /\ ToSet(Filtered(tabs, Id \ {id})) = ToSet(tabs) \ {id}
<1>1. ToSet(tabs) \subseteq Id /\ tabs \in Seq(Id) /\ IsInjective(tabs)
  BY OpenPlaces DEF OpenFits
<1>2. /\ Filtered(tabs, Id \ {id}) \in Seq(Id) /\ IsInjective(Filtered(tabs, Id \ {id}))
      /\ ToSet(Filtered(tabs, Id \ {id})) = ToSet(tabs) \cap (Id \ {id})
  BY <1>1, FilterKeeps
<1> QED BY <1>1, <1>2 DEF OpenFits

\* A sequence with one more element, at a place k.
LEMMA OpenInserted ==
    ASSUME NEW tabs, OpenFits(tabs), NEW id \in Id, id \notin ToSet(tabs),
           NEW k \in 1..(Len(tabs) + 1), NEW t, t \in Seq(Id), Len(t) = Len(tabs) + 1,
           \A i \in 1..Len(t) : t[i] = IF i < k THEN tabs[i] ELSE IF i = k THEN id ELSE tabs[i - 1]
    PROVE  OpenFits(t) /\ ToSet(t) = ToSet(tabs) \cup {id}
<1>1. /\ Len(tabs) \in Nat /\ \A i \in 1..Len(tabs) : tabs[i] \in ToSet(tabs)
      /\ \A i, j \in 1..Len(tabs) : tabs[i] = tabs[j] => i = j
      /\ \A x : x \in ToSet(tabs) <=> \E i \in 1..Len(tabs) : tabs[i] = x
  BY OpenPlaces
<1> DEFINE from(i) == IF i < k THEN i ELSE i - 1
<1>2. \A i \in 1..Len(t) : i # k => t[i] = tabs[from(i)] /\ from(i) \in 1..Len(tabs)
  BY <1>1
<1>3. t[k] = id /\ k \in 1..Len(t)
  BY <1>1
<1>4. \A i, j \in 1..Len(t) : i # k /\ j # k /\ from(i) = from(j) => i = j
  BY <1>1
<1>5. \A i \in 1..Len(tabs) : \E j \in 1..Len(t) : j # k /\ from(j) = i
  <2> SUFFICES ASSUME NEW i \in 1..Len(tabs) PROVE \E j \in 1..Len(t) : j # k /\ from(j) = i
    OBVIOUS
  <2>1. CASE i < k
    BY <1>1, <2>1
  <2>2. CASE ~(i < k)
    <3>1. i + 1 \in 1..Len(t) /\ i + 1 # k /\ from(i + 1) = i
      BY <1>1, <2>2
    <3> QED BY <3>1
  <2> QED BY <2>1, <2>2
<1> HIDE DEF from
<1>6. \A i, j \in 1..Len(t) : t[i] = t[j] => i = j
  <2> SUFFICES ASSUME NEW i \in 1..Len(t), NEW j \in 1..Len(t), t[i] = t[j] PROVE i = j
    OBVIOUS
  <2>1. CASE i # k /\ j # k
    <3>1. /\ from(i) \in 1..Len(tabs) /\ from(j) \in 1..Len(tabs)
          /\ tabs[from(i)] = tabs[from(j)]
      BY <1>2, <2>1, Zenon
    <3>2. from(i) = from(j)
      BY <1>1, <3>1, Zenon
    <3> QED BY <1>4, <2>1, <3>2, Zenon
  <2>2. CASE i = k /\ j # k
    BY <1>1, <1>2, <1>3, <2>2, Zenon
  <2>3. CASE i # k /\ j = k
    BY <1>1, <1>2, <1>3, <2>3, Zenon
  <2> QED BY <2>1, <2>2, <2>3, Zenon
<1>7. DOMAIN t = 1..Len(t)
  OBVIOUS
<1>8. \A x : x \in ToSet(t) <=> x \in ToSet(tabs) \cup {id}
  <2> SUFFICES ASSUME NEW x PROVE x \in ToSet(t) <=> x \in ToSet(tabs) \cup {id}
    OBVIOUS
  <2>1. x \in ToSet(t) <=> \E i \in 1..Len(t) : t[i] = x
    BY <1>7, Zenon DEF ToSet
  <2>2. ASSUME x \in ToSet(t) PROVE x \in ToSet(tabs) \cup {id}
    BY <1>1, <1>2, <1>3, <2>1, <2>2, Zenon
  <2>3. ASSUME x \in ToSet(tabs) PROVE x \in ToSet(t)
    <3>1. PICK i \in 1..Len(tabs) : tabs[i] = x
      BY <1>1, <2>3, Zenon
    <3>2. PICK j \in 1..Len(t) : j # k /\ from(j) = i
      BY <1>5
    <3>3. t[j] = x
      BY <1>2, <3>1, <3>2, Zenon
    <3> QED BY <2>1, <3>3, Zenon
  <2>4. id \in ToSet(t)
    BY <1>3, <1>7, Zenon DEF ToSet
  <2> QED BY <2>2, <2>3, <2>4
<1>9. ToSet(t) = ToSet(tabs) \cup {id}
  BY <1>8, Zenon
<1> QED BY <1>6, <1>7, <1>9, Zenon DEF OpenFits, IsInjective

\* A window that is opened last.
LEMMA OpenAppended ==
    ASSUME NEW tabs, OpenFits(tabs), NEW id \in Id, id \notin ToSet(tabs)
    PROVE  OpenFits(Append(tabs, id)) /\ ToSet(Append(tabs, id)) = ToSet(tabs) \cup {id}
<1> DEFINE t == Append(tabs, id)
           k == Len(tabs) + 1
<1>1. tabs \in Seq(Id) /\ Len(tabs) \in Nat
  BY OpenPlaces
<1>2. /\ t \in Seq(Id) /\ Len(t) = Len(tabs) + 1
      /\ \A i \in 1..Len(t) : t[i] = IF i < k THEN tabs[i] ELSE IF i = k THEN id ELSE tabs[i - 1]
  BY <1>1
<1>3. k \in 1..(Len(tabs) + 1)
  BY <1>1
<1> HIDE DEF t, k
<1>4. OpenFits(t) /\ ToSet(t) = ToSet(tabs) \cup {id}
  BY <1>2, <1>3, OpenInserted
<1> QED BY <1>4 DEF t

\* Two lists, one after the other.
LEMMA Chained ==
    ASSUME NEW S, NEW s \in Seq(S), NEW t \in Seq(S)
    PROVE  /\ s \o t \in Seq(S) /\ Len(s \o t) = Len(s) + Len(t)
           /\ \A i \in 1..(Len(s) + Len(t)) : (s \o t)[i] = IF i <= Len(s) THEN s[i] ELSE t[i - Len(s)]
OBVIOUS

\* A window that is opened at a place.
LEMMA OpenInsertedAt ==
    ASSUME NEW tabs, OpenFits(tabs), NEW id \in Id, id \notin ToSet(tabs), NEW k \in 1..(Len(tabs) + 1)
    PROVE  OpenFits(InsertAt(tabs, k, id)) /\ ToSet(InsertAt(tabs, k, id)) = ToSet(tabs) \cup {id}
<1> DEFINE before == SubSeq(tabs, 1, k - 1)
           after == SubSeq(tabs, k, Len(tabs))
           one == <<id>>
           t == before \o one \o after
<1>1. tabs \in Seq(Id) /\ Len(tabs) \in Nat /\ k \in Nat
  BY OpenPlaces
<1>2. /\ before \in Seq(Id) /\ Len(before) = k - 1
      /\ \A i \in 1..(k - 1) : before[i] = tabs[i]
  BY <1>1
<1>3. /\ after \in Seq(Id) /\ Len(after) = Len(tabs) + 1 - k
      /\ \A i \in 1..(Len(tabs) + 1 - k) : after[i] = tabs[k + i - 1]
  BY <1>1
<1>4. one \in Seq(Id) /\ Len(one) = 1 /\ one[1] = id
  OBVIOUS
<1> HIDE DEF before, one, after
<1> DEFINE begun == before \o one
<1>a. /\ begun \in Seq(Id) /\ Len(begun) = k
      /\ \A i \in 1..k : begun[i] = IF i < k THEN tabs[i] ELSE id
  <2>1. /\ begun \in Seq(Id) /\ Len(begun) = Len(before) + Len(one)
        /\ \A i \in 1..(Len(before) + Len(one)) :
              begun[i] = IF i <= Len(before) THEN before[i] ELSE one[i - Len(before)]
    BY <1>2, <1>4, Chained
  <2> HIDE DEF begun
  <2>2. Len(before) = k - 1 /\ Len(one) = 1 /\ k \in Nat
    BY <1>1, <1>2, <1>4
  <2>3. Len(begun) = k
    BY <2>1, <2>2
  <2>4. ASSUME NEW i \in 1..k PROVE begun[i] = IF i < k THEN tabs[i] ELSE id
    <3>1. CASE i < k
      BY <1>2, <2>1, <2>2, <2>4, <3>1
    <3>2. CASE i = k
      <4>1. i - Len(before) = 1 /\ ~(i <= Len(before)) /\ i \in 1..(Len(before) + Len(one))
        BY <2>2, <3>2
      <4> QED BY <1>4, <2>1, <3>2, <4>1, <2>2
    <3> QED BY <2>2, <3>1, <3>2
  <2> QED BY <2>1, <2>3, <2>4
<1>b. t = begun \o after
  OBVIOUS
<1> HIDE DEF begun, t
<1>5. t \in Seq(Id) /\ Len(t) = Len(tabs) + 1
  BY <1>1, <1>3, <1>a, <1>b, Chained
<1>6. \A i \in 1..Len(t) : t[i] = IF i < k THEN tabs[i] ELSE IF i = k THEN id ELSE tabs[i - 1]
  <2> SUFFICES ASSUME NEW i \in 1..Len(t)
               PROVE  t[i] = IF i < k THEN tabs[i] ELSE IF i = k THEN id ELSE tabs[i - 1]
    OBVIOUS
  <2>0. t[i] = IF i <= k THEN begun[i] ELSE after[i - k]
    <3>1. i \in 1..(Len(begun) + Len(after)) /\ Len(begun) = k
      BY <1>1, <1>3, <1>5, <1>a
    <3> QED BY <1>3, <1>a, <1>b, <3>1, Chained
  <2>1. CASE i <= k
    BY <1>1, <1>5, <1>a, <2>0, <2>1
  <2>2. CASE i > k
    <3>1. i - k \in 1..(Len(tabs) + 1 - k) /\ k + (i - k) - 1 = i - 1 /\ ~(i <= k) /\ ~(i < k) /\ i # k
      BY <1>1, <1>5, <2>2
    <3>2. t[i] = after[i - k]
      BY <2>0, <3>1
    <3>3. after[i - k] = tabs[k + (i - k) - 1]
      BY <1>3, <3>1
    <3>4. t[i] = tabs[i - 1]
      BY <3>1, <3>2, <3>3
    <3> QED BY <3>1, <3>4, Zenon
  <2> QED BY <1>1, <1>5, <2>1, <2>2
<1>7. InsertAt(tabs, k, id) = t
  BY DEF InsertAt, before, one, after, t
<1>8. OpenFits(t) /\ ToSet(t) = ToSet(tabs) \cup {id}
  BY <1>5, <1>6, OpenInserted, Zenon
<1> QED BY <1>7, <1>8, Zenon

\* A window that takes the place of another.
LEMMA OpenSwapped ==
    ASSUME NEW tabs, OpenFits(tabs), NEW old, NEW new \in Id, new \notin ToSet(tabs)
    PROVE  /\ OpenFits(Swapped(tabs, old, new))
           /\ ToSet(Swapped(tabs, old, new)) =
                 IF old \in ToSet(tabs) THEN (ToSet(tabs) \ {old}) \cup {new} ELSE ToSet(tabs)
<1> DEFINE t == Swapped(tabs, old, new)
<1>1. /\ tabs \in Seq(Id) /\ DOMAIN tabs = 1..Len(tabs) /\ Len(tabs) \in Nat
      /\ \A i \in 1..Len(tabs) : tabs[i] \in Id /\ tabs[i] \in ToSet(tabs)
      /\ \A i, j \in 1..Len(tabs) : tabs[i] = tabs[j] => i = j
      /\ \A x : x \in ToSet(tabs) <=> \E i \in 1..Len(tabs) : tabs[i] = x
  BY OpenPlaces
<1>2. t = [i \in 1..Len(tabs) |-> IF tabs[i] = old THEN new ELSE tabs[i]]
  BY <1>1, Zenon DEF Swapped
<1> HIDE DEF t
<1>3. \A i \in 1..Len(tabs) : /\ tabs[i] = old => t[i] = new
                              /\ tabs[i] # old => t[i] = tabs[i]
  BY <1>2
<1>4. t \in Seq(Id) /\ DOMAIN t = 1..Len(tabs)
  <2>1. t \in [1..Len(tabs) -> Id]
    BY <1>1, <1>2, <1>3
  <2> QED BY <1>1, <2>1
<1>5. \A i, j \in 1..Len(tabs) : t[i] = t[j] => i = j
  BY <1>1, <1>3, Zenon
<1>6. OpenFits(t)
  BY <1>4, <1>5, Zenon DEF OpenFits, IsInjective
<1>7. \A x : x \in ToSet(t) <=> \E i \in 1..Len(tabs) : t[i] = x
  BY <1>4, Zenon DEF ToSet
<1>8. CASE old \in ToSet(tabs)
  <2>1. PICK k \in 1..Len(tabs) : tabs[k] = old
    BY <1>1, <1>8, Zenon
  <2>2. \A x : x \in ToSet(t) <=> x \in (ToSet(tabs) \ {old}) \cup {new}
    <3> SUFFICES ASSUME NEW x PROVE x \in ToSet(t) <=> x \in (ToSet(tabs) \ {old}) \cup {new}
      OBVIOUS
    <3>1. ASSUME x \in ToSet(t) PROVE x \in (ToSet(tabs) \ {old}) \cup {new}
      <4>1. PICK i \in 1..Len(tabs) : t[i] = x
        BY <1>7, <3>1, Zenon
      <4> QED BY <1>1, <1>3, <4>1, Zenon
    <3>2. ASSUME x \in ToSet(tabs), x # old PROVE x \in ToSet(t)
      <4>1. PICK i \in 1..Len(tabs) : tabs[i] = x
        BY <1>1, <3>2, Zenon
      <4>2. t[i] = x
        BY <1>3, <3>2, <4>1, Zenon
      <4> QED BY <1>7, <4>2, Zenon
    <3>3. new \in ToSet(t)
      BY <1>3, <1>7, <2>1, Zenon
    <3> QED BY <3>1, <3>2, <3>3
  <2>3. ToSet(t) = (ToSet(tabs) \ {old}) \cup {new}
    BY <2>2, Zenon
  <2> QED BY <1>6, <1>8, <2>3, Zenon DEF t
<1>9. CASE old \notin ToSet(tabs)
  <2>1. \A i \in 1..Len(tabs) : t[i] = tabs[i]
    BY <1>1, <1>3, <1>9, Zenon
  <2>2. \A x : x \in ToSet(t) <=> x \in ToSet(tabs)
    BY <1>1, <1>7, <2>1, Zenon
  <2>3. ToSet(t) = ToSet(tabs)
    BY <2>2, Zenon
  <2> QED BY <1>6, <1>9, <2>3, Zenon DEF t
<1> QED BY <1>8, <1>9

\* The window that becomes active when the active one is closed.
LEMMA HeadIs ==
    ASSUME NEW tabs, OpenFits(tabs)
    PROVE  HeadOr(tabs, None) = None \/ HeadOr(tabs, None) \in ToSet(tabs)
<1>1. CASE tabs = <<>>
  BY <1>1, Zenon DEF HeadOr
<1>2. CASE tabs # <<>>
  <2>1. HeadOr(tabs, None) = Head(tabs)
    BY <1>2, Zenon DEF HeadOr
  <2>2. tabs \in Seq(Id)
    BY OpenPlaces
  <2>3. Head(tabs) = tabs[1] /\ 1 \in 1..Len(tabs)
    BY <1>2, <2>2
  <2> QED BY <2>1, <2>3, OpenPlaces, Zenon
<1> QED BY <1>1, <1>2

\* What does not tell of the creation c anything new.
Quiet(c) ==
    /\ Temp(c) \in IdsOf(pool') => Temp(c) \in IdsOf(pool) /\ (Persisted(c) \in Named' => Persisted(c) \in Named)
    /\ Persisted(c) \in Known' => Persisted(c) \in Known

\* A call that is as it was still fits, as long as none of its ids becomes known.
LEMMA CallUndisturbed ==
    ASSUME NEW c, CallFits(c), calls'[c] = calls[c], Quiet(c)
    PROVE  CallFits(c)'
BY Zenon DEF CallFits, Quiet

\* Every call stays as it is, and nobody learns of a window.
LEMMA CallsUndisturbed ==
    ASSUME WorkspaceIInv, UNCHANGED calls, \A c \in Calls : Quiet(c)
    PROVE  calls' \in [Calls -> Call] /\ \A c \in Calls : CallFits(c)'
<1>1. \A c \in Calls : CallFits(c)'
  <2> SUFFICES ASSUME NEW c \in Calls PROVE CallFits(c)'
    OBVIOUS
  <2>1. CallFits(c)
    BY DEF WorkspaceIInv
  <2> QED BY <2>1, CallUndisturbed, Zenon
<1> QED BY <1>1 DEF WorkspaceIInv

\* An unused call is not known to anyone.
LEMMA UnusedIsUnknown ==
    ASSUME WorkspaceIInv, NEW n \in Calls, calls[n].kind = "none"
    PROVE  Temp(n) \notin IdsOf(pool) /\ Persisted(n) \notin Known /\ Persisted(n) \notin Named
<1>1. CallFits(n)
  BY DEF WorkspaceIInv
<1>2. "none" # "create" /\ "none" # "first"
  OBVIOUS
<1>3. Named \subseteq Known
  BY DEF Known
<1> QED BY <1>1, <1>2, <1>3, Zenon DEF CallFits

\* The next call is one not made yet.
LEMMA NextIsUnused ==
    ASSUME Unused # {}
    PROVE  NextCall \in Calls /\ calls[NextCall].kind = "none"
<1>1. Unused \subseteq Nat
  BY WorkspaceStateAssumption DEF Unused, Calls
<1>2. NextCall \in Unused
  BY <1>1, Lowest DEF NextCall
<1> QED BY <1>2 DEF Unused

\* A call with an id that was named already is issued.
LEMMA Issuing ==
    ASSUME WorkspaceIInv, NEW n \in Calls, calls[n].kind = "none", NEW call \in Call, Issue(n, call),
           \A c \in Calls : Quiet(c),
           call.waiting => call.kind # "none", call.kind # "create",
           call.kind \in {"rename", "delete"} => call.id \in Id /\ ~IsLocal(call.id),
           call.kind = "delete" => call.at > 0
    PROVE  calls' \in [Calls -> Call] /\ \A c \in Calls : CallFits(c)'
<1>1. calls \in [Calls -> Call]
  BY DEF WorkspaceIInv
<1>2. /\ calls' \in [Calls -> Call] /\ calls'[n] = call
      /\ \A c \in Calls \ {n} : calls'[c] = calls[c]
  BY <1>1 DEF Issue
<1>3. ASSUME NEW c \in Calls PROVE CallFits(c)'
  <2>1. CallFits(c) /\ Quiet(c)
    BY DEF WorkspaceIInv
  <2>2. CASE c # n
    <3>1. calls'[c] = calls[c]
      BY <1>2, <2>2
    <3> QED BY <2>1, <3>1, CallUndisturbed, Zenon
  <2>3. CASE c = n
    <3>1. Temp(n) \notin IdsOf(pool) /\ Persisted(n) \notin Known /\ Persisted(n) \notin Named
      BY UnusedIsUnknown
    <3>2. Temp(n) \notin IdsOf(pool') /\ Persisted(n) \notin Known'
      BY <2>1, <2>3, <3>1, Zenon DEF Quiet
    <3> QED BY <1>2, <2>3, <3>2, Zenon DEF CallFits
  <2> QED BY <2>2, <2>3
<1> QED BY <1>2, <1>3

\* The record of a call.
CallWith(kind, id, title, was, at, api, waiting) ==
    [kind |-> kind, id |-> id, title |-> title, was |-> was, at |-> at, api |-> api, waiting |-> waiting]

\* What a call that is put together remembers.
LEMMA CallOf ==
    ASSUME NEW kind \in {"none", "create", "first", "rename", "delete"}, NEW id \in Id \cup {None},
           NEW title \in Titles, NEW was \in Titles, NEW at \in Nat,
           NEW api \in {"none", "pending", "done", "refused"}, NEW waiting \in BOOLEAN, NEW x,
           x = CallWith(kind, id, title, was, at, api, waiting)
    PROVE  /\ x \in Call
           /\ x.kind = kind /\ x.id = id /\ x.title = title /\ x.at = at /\ x.api = api /\ x.waiting = waiting
<1>1. x \in Call
  BY DEF Call, CallWith
<1>2. x.kind = kind /\ x.id = id /\ x.title = title /\ x.at = at /\ x.api = api
  BY DEF CallWith
<1>3. x.waiting = waiting
  BY DEF CallWith
<1> QED BY <1>1, <1>2, <1>3, Zenon

\* What a call that is made remembers.
LEMMA NewCallIs ==
    ASSUME NEW kind \in {"create", "first", "rename", "delete"}, NEW id \in Id \cup {None},
           NEW title \in Titles, NEW was \in Titles, NEW at \in Nat, NEW x,
           x = NewCall(kind, id, title, was, at)
    PROVE  /\ x \in Call
           /\ x.kind = kind /\ x.id = id /\ x.title = title /\ x.at = at /\ x.api = "pending" /\ x.waiting
<1>1. PICK t \in BOOLEAN : t = TRUE
  BY Zenon
<1>2. x = CallWith(kind, id, title, was, at, "pending", t)
  BY <1>1, Zenon DEF NewCall, CallWith
<1>3. kind \in {"none", "create", "first", "rename", "delete"} /\ "pending" \in {"none", "pending", "done", "refused"}
  OBVIOUS
<1>4. x \in Call /\ x.kind = kind /\ x.id = id /\ x.title = title /\ x.at = at /\ x.api = "pending"
  BY <1>2, <1>3, CallOf
<1>5. x.waiting = t
  BY <1>2, <1>3, CallOf
<1> QED BY <1>1, <1>4, <1>5, Zenon

\* What the API does with a call.
LEMMA CallHandled ==
    ASSUME calls \in [Calls -> Call], NEW c \in Calls, NEW outcome \in {"done", "refused"}, Handled(c, outcome)
    PROVE  /\ calls' \in [Calls -> Call]
           /\ \A d \in Calls \ {c} : calls'[d] = calls[d]
           /\ calls'[c].api = outcome /\ calls'[c].kind = calls[c].kind /\ calls'[c].id = calls[c].id
           /\ calls'[c].at = calls[c].at /\ calls'[c].waiting = calls[c].waiting
           /\ {calls'[d].id : d \in Calls} = {calls[d].id : d \in Calls}
<1> DEFINE x == [calls[c] EXCEPT !.api = outcome]
<1>1. calls[c] \in Call /\ outcome \in {"none", "pending", "done", "refused"}
  OBVIOUS
<1>2. x \in Call
  BY <1>1 DEF Call
<1>3. DOMAIN calls[c] = {"kind", "id", "title", "was", "at", "api", "waiting"}
  BY <1>1 DEF Call
<1>4. /\ x.api = outcome /\ x.kind = calls[c].kind /\ x.id = calls[c].id
      /\ x.at = calls[c].at /\ x.waiting = calls[c].waiting
  BY <1>3, Zenon
<1>5. calls' = [calls EXCEPT ![c] = x]
  BY Zenon DEF Handled
<1> HIDE DEF x
<1>6. /\ calls' \in [Calls -> Call] /\ calls'[c] = x
      /\ \A d \in Calls \ {c} : calls'[d] = calls[d]
  BY <1>2, <1>5
<1>7. \A d \in Calls : calls'[d].id = calls[d].id
  BY <1>4, <1>6, Zenon
<1> QED BY <1>4, <1>6, <1>7, Zenon

\* What the settlement of a call does with it.
LEMMA CallSettled ==
    ASSUME calls \in [Calls -> Call], NEW c \in Calls, Settled(c)
    PROVE  /\ calls' \in [Calls -> Call]
           /\ \A d \in Calls \ {c} : calls'[d] = calls[d]
           /\ calls'[c].api = calls[c].api /\ calls'[c].kind = calls[c].kind /\ calls'[c].id = calls[c].id
           /\ calls'[c].at = calls[c].at /\ ~calls'[c].waiting
           /\ {calls'[d].id : d \in Calls} = {calls[d].id : d \in Calls}
<1> DEFINE x == [calls[c] EXCEPT !.waiting = FALSE]
<1>1. calls[c] \in Call
  OBVIOUS
<1>0. PICK f \in BOOLEAN : f = FALSE
  BY Zenon
<1>2. x \in Call
  <2>1. x = [calls[c] EXCEPT !.waiting = f]
    BY <1>0, Zenon
  <2> HIDE DEF x
  <2> QED BY <1>1, <2>1 DEF Call
<1>3. DOMAIN calls[c] = {"kind", "id", "title", "was", "at", "api", "waiting"}
  BY <1>1 DEF Call
<1>4. /\ x.api = calls[c].api /\ x.kind = calls[c].kind /\ x.id = calls[c].id
      /\ x.at = calls[c].at /\ ~x.waiting
  BY <1>3, Zenon
<1>5. calls' = [calls EXCEPT ![c] = x]
  BY Zenon DEF Settled
<1> HIDE DEF x
<1>6. /\ calls' \in [Calls -> Call] /\ calls'[c] = x
      /\ \A d \in Calls \ {c} : calls'[d] = calls[d]
  BY <1>2, <1>5
<1>7. \A d \in Calls : calls'[d].id = calls[d].id
  BY <1>4, <1>6, Zenon
<1> QED BY <1>4, <1>6, <1>7, Zenon

\* What a call remembers is of its kind.
LEMMA CallIs ==
    ASSUME NEW x \in Call
    PROVE  x.id \in Id \cup {None} /\ x.title \in Titles /\ x.was \in Titles /\ x.at \in Nat
BY DEF Call

\* A window leaves the open tabs.
LEMMA Closing ==
    ASSUME ViewFits, NEW id \in Id, Closed(id), pool' \in Seq(Row), Distinct(pool'),
           IdsOf(pool) \ {id} \subseteq IdsOf(pool')
    PROVE  ViewFits'
<1> DEFINE next == Filtered(openIds, Id \ {id})
<1>1. OpenFits(openIds) /\ ToSet(openIds) \subseteq IdsOf(pool)
  BY DEF ViewFits, OpenFits
<1>2. OpenFits(next) /\ ToSet(next) = ToSet(openIds) \ {id}
  BY <1>1, OpenFiltered
<1>3. openIds' = next /\ activeId' = IF activeId = id THEN HeadOr(next, None) ELSE activeId
  BY Zenon DEF Closed
<1> HIDE DEF next
<1>4. ToSet(next) \subseteq Id /\ ToSet(next) \subseteq IdsOf(pool')
  BY <1>1, <1>2, OpenPlaces
<1>5. activeId' = None \/ activeId' \in ToSet(next)
  <2>1. CASE activeId = id
    BY <1>2, <1>3, <2>1, HeadIs, Zenon
  <2>2. CASE activeId # id
    <3>1. activeId' = activeId
      BY <1>3, <2>2, Zenon
    <3> QED BY <1>2, <2>2, <3>1 DEF ViewFits
  <2> QED BY <2>1, <2>2
<1> QED BY <1>2, <1>3, <1>4, <1>5, Zenon DEF ViewFits, OpenFits

LEMMA WorkspaceStart == WorkspaceInit => WorkspaceIInv
<1> SUFFICES ASSUME WorkspaceInit PROVE WorkspaceIInv
  OBVIOUS
<1>1. /\ windows = [i \in 1..Initial |-> [id |-> i, title |-> Untitled]]
      /\ pool = windows /\ openIds = [i \in 1..Initial |-> i]
      /\ activeId \in Picks(windows) /\ server = windows
  BY DEF WorkspaceInit
<1>2. calls = [c \in Calls |-> [kind |-> "none", id |-> None, title |-> Untitled,
                  was |-> Untitled, at |-> 0, api |-> "none", waiting |-> FALSE]]
  BY DEF WorkspaceInit
<1>3. Untitled \in Titles /\ Initial \in Nat
  BY WorkspaceStateAssumption DEF Untitled
<1>4. \A i \in 1..Initial : i \in Id /\ ~IsLocal(i)
  BY <1>3, WorkspaceStateAssumption DEF Id, IsLocal, None
<1>5. \A i \in 1..Initial : windows[i] \in Row /\ windows[i].id = i
  BY <1>1, <1>3, <1>4, RowIs
<1>6. windows \in Seq(Row) /\ DOMAIN windows = 1..Initial /\ Len(windows) = Initial
  <2>1. windows \in [1..Initial -> Row] /\ DOMAIN windows = 1..Initial
    BY <1>1, <1>5
  <2> QED BY <1>3, <2>1
<1>7. Distinct(windows)
  BY <1>5, <1>6 DEF Distinct
<1>8. \A x : x \in IdsOf(windows) <=> x \in 1..Initial
  BY <1>5, <1>6, Zenon DEF IdsOf
<1>9. RowsFit(windows)
  BY <1>4, <1>6, <1>7, <1>8, Zenon DEF RowsFit
<1>10. openIds \in Seq(Id) /\ IsInjective(openIds) /\ ToSet(openIds) = 1..Initial
  <2>1. openIds \in [1..Initial -> Id] /\ DOMAIN openIds = 1..Initial /\ \A i \in 1..Initial : openIds[i] = i
    BY <1>1, <1>4
  <2>2. openIds \in Seq(Id)
    BY <1>3, <2>1
  <2>3. ToSet(openIds) = 1..Initial
    BY <2>1 DEF ToSet
  <2> QED BY <2>1, <2>2, <2>3, Zenon DEF IsInjective
<1>11. activeId = None \/ activeId \in 1..Initial
  BY <1>1, <1>8 DEF Picks
<1>12. ViewFits
  <2>1. pool \in Seq(Row) /\ Distinct(pool) /\ ToSet(openIds) \subseteq IdsOf(pool)
    BY <1>1, <1>6, <1>7, <1>8, <1>10
  <2>2. activeId \in Id \cup {None} /\ (activeId # None => activeId \in ToSet(openIds))
    BY <1>4, <1>10, <1>11
  <2> QED BY <1>10, <2>1, <2>2, Zenon DEF ViewFits
<1>13. \A c \in Calls : calls[c] = [kind |-> "none", id |-> None, title |-> Untitled,
                  was |-> Untitled, at |-> 0, api |-> "none", waiting |-> FALSE]
  BY <1>2, Zenon
<1>14. \A c \in Calls : calls[c] \in Call /\ calls[c].kind = "none" /\ calls[c].id = None /\ ~calls[c].waiting
  <2> SUFFICES ASSUME NEW c \in Calls
               PROVE  calls[c] \in Call /\ calls[c].kind = "none" /\ calls[c].id = None /\ ~calls[c].waiting
    OBVIOUS
  <2>1. 0 \in Nat /\ "none" \in {"none", "create", "first", "rename", "delete"}
        /\ "none" \in {"none", "pending", "done", "refused"} /\ None \in Id \cup {None}
    OBVIOUS
  <2>2. PICK f \in BOOLEAN : f = FALSE
    BY Zenon
  <2>3. calls[c] = CallWith("none", None, Untitled, Untitled, 0, "none", f)
    BY <1>13, <2>2, Zenon DEF CallWith
  <2>4. calls[c] \in Call /\ calls[c].kind = "none" /\ calls[c].id = None
    BY <1>3, <2>1, <2>3, CallOf
  <2>5. calls[c].waiting = f
    BY <1>3, <2>1, <2>3, CallOf
  <2> QED BY <2>2, <2>4, <2>5, Zenon
<1>15. calls \in [Calls -> Call]
  BY <1>2, <1>14, Zenon
<1>16. ASSUME NEW c \in Calls PROVE CallFits(c)
  <2>1. Temp(c) \notin 1..Initial /\ Persisted(c) \notin 1..Initial /\ Persisted(c) # None
    BY <1>3 DEF Temp, Persisted, Calls, None
  <2>2. Temp(c) \notin IdsOf(pool) /\ Persisted(c) \notin Known
    BY <1>1, <1>8, <1>14, <2>1, Zenon DEF Known, Named
  <2>3. calls[c].kind \notin {"rename", "delete"} /\ calls[c].kind # "delete"
    BY <1>14
  <2> QED BY <1>14, <2>2, <2>3, Zenon DEF CallFits
<1> QED BY <1>1, <1>9, <1>12, <1>15, <1>16, Zenon DEF WorkspaceIInv

\* What the invariant says, with the facts about ids that follow.
LEMMA Facts ==
    ASSUME WorkspaceIInv
    PROVE  /\ ViewFits /\ RowsFit(windows) /\ RowsFit(server) /\ calls \in [Calls -> Call]
           /\ pool \in Seq(Row) /\ Distinct(pool) /\ windows \in Seq(Row) /\ Distinct(windows)
           /\ server \in Seq(Row) /\ Distinct(server)
           /\ OpenFits(openIds) /\ ToSet(openIds) \subseteq IdsOf(pool) /\ IdsOf(pool) \subseteq Id
           /\ activeId \in Id \cup {None} /\ (activeId # None => activeId \in ToSet(openIds))
           /\ \A c \in Calls : Temp(c) \notin IdsOf(windows) \cup IdsOf(server)
<1>1. /\ ViewFits /\ RowsFit(windows) /\ RowsFit(server) /\ calls \in [Calls -> Call]
  BY Zenon DEF WorkspaceIInv
<1>2. /\ pool \in Seq(Row) /\ Distinct(pool) /\ windows \in Seq(Row) /\ Distinct(windows)
      /\ server \in Seq(Row) /\ Distinct(server)
      /\ OpenFits(openIds) /\ ToSet(openIds) \subseteq IdsOf(pool)
      /\ activeId \in Id \cup {None} /\ (activeId # None => activeId \in ToSet(openIds))
      /\ \A id \in IdsOf(windows) : ~IsLocal(id)
      /\ \A id \in IdsOf(server) : ~IsLocal(id)
  BY <1>1, Zenon DEF ViewFits, RowsFit, OpenFits
<1>3. IdsOf(pool) \subseteq Id
  BY <1>2, Places, Zenon
<1>4. \A c \in Calls : Temp(c) \notin IdsOf(windows) \cup IdsOf(server)
  BY <1>2, Ids, Zenon
<1> QED BY <1>1, <1>2, <1>3, <1>4, Zenon

\* The view changes, by a row that leaves it or not; nothing else does.
LEMMA Viewing ==
    ASSUME WorkspaceIInv, ViewFits', IdsOf(pool') \subseteq IdsOf(pool), UNCHANGED <<windows, calls, server>>
    PROVE  WorkspaceIInv'
<1>1. \A c \in Calls : Quiet(c)
  BY DEF Quiet, Named, Known
<1>2. calls' \in [Calls -> Call] /\ \A c \in Calls : CallFits(c)'
  BY <1>1, CallsUndisturbed, Zenon
<1>3. RowsFit(windows)' /\ RowsFit(server)'
  BY Facts, Zenon DEF RowsFit
<1> QED BY <1>2, <1>3, Zenon DEF WorkspaceIInv

\* The steps of the view.
LEMMA ViewSteps ==
    ASSUME WorkspaceIInv,
           (\E id \in Id : Close(id) \/ Reopen(id) \/ Focus(id)) \/ Reset \/ Refresh
    PROVE  WorkspaceIInv'
<1>1. ASSUME NEW id \in Id, Close(id) PROVE WorkspaceIInv'
  <2>1. Closed(id) /\ UNCHANGED <<windows, pool, calls, server>> /\ pool' = pool
    BY <1>1, Zenon DEF Close
  <2>2. pool' \in Seq(Row) /\ Distinct(pool') /\ IdsOf(pool) \ {id} \subseteq IdsOf(pool') /\ ViewFits
    BY <2>1, Facts, Zenon
  <2>3. ViewFits'
    BY <2>1, <2>2, Closing, Zenon
  <2>4. IdsOf(pool') \subseteq IdsOf(pool)
    BY <2>1, Zenon
  <2> QED BY <2>1, <2>3, <2>4, Viewing, Zenon
<1>2. ASSUME NEW id \in Id, Reopen(id) PROVE WorkspaceIInv'
  <2>1. /\ id \in IdsOf(pool) \ ToSet(openIds) /\ openIds' = Append(openIds, id) /\ activeId' = id
        /\ pool' = pool /\ UNCHANGED <<windows, calls, server>>
    BY <1>2, Zenon DEF Reopen
  <2>2. OpenFits(openIds') /\ ToSet(openIds') = ToSet(openIds) \cup {id}
    BY <2>1, Facts, OpenAppended
  <2>3. pool' \in Seq(Row) /\ Distinct(pool') /\ IdsOf(pool') = IdsOf(pool) /\ ToSet(openIds) \subseteq IdsOf(pool)
    BY <2>1, Facts, Zenon
  <2>4. ToSet(openIds') \subseteq IdsOf(pool') /\ activeId' \in ToSet(openIds')
    BY <2>1, <2>2, <2>3
  <2>5. ViewFits'
    BY <2>1, <2>2, <2>3, <2>4, Zenon DEF ViewFits, OpenFits
  <2>6. IdsOf(pool') \subseteq IdsOf(pool)
    BY <2>3, Zenon
  <2> QED BY <2>1, <2>5, <2>6, Viewing, Zenon
<1>3. ASSUME NEW id \in Id, Focus(id) PROVE WorkspaceIInv'
  <2>1. id \in ToSet(openIds) /\ activeId' = id /\ UNCHANGED <<windows, pool, openIds, calls, server>>
    BY <1>3, Zenon DEF Focus
  <2>2. ViewFits'
    BY <2>1, Facts, Zenon DEF ViewFits
  <2>3. IdsOf(pool') \subseteq IdsOf(pool)
    BY <2>1, Zenon
  <2> QED BY <2>1, <2>2, <2>3, Viewing, Zenon
<1>4. CASE Reset
  <2>1. /\ pool' = windows /\ openIds' = [i \in DOMAIN windows |-> windows[i].id]
        /\ activeId' \in Picks(windows) /\ UNCHANGED <<windows, calls, server>>
    BY <1>4, Zenon DEF Reset
  <2>2. DOMAIN windows = 1..Len(windows) /\ Len(windows) \in Nat /\ \A i \in 1..Len(windows) : windows[i].id \in Id
    BY Facts, Places, Zenon
  <2>3. /\ openIds' \in [1..Len(windows) -> Id] /\ DOMAIN openIds' = DOMAIN windows
        /\ \A i \in DOMAIN windows : openIds'[i] = windows[i].id
    BY <2>1, <2>2
  <2>4. openIds' \in Seq(Id)
    BY <2>2, <2>3
  <2>5. IsInjective(openIds')
    BY <2>3, Facts, Zenon DEF IsInjective, Distinct
  <2>6. ToSet(openIds') = IdsOf(windows)
    BY <2>3 DEF ToSet, IdsOf
  <2>7. activeId' \in Id \cup {None} /\ (activeId' # None => activeId' \in ToSet(openIds'))
    <3>1. IdsOf(windows) \subseteq Id
      BY Facts, Places, Zenon
    <3>2. activeId' = None \/ activeId' \in IdsOf(windows)
      BY <2>1 DEF Picks
    <3> QED BY <2>6, <3>1, <3>2
  <2>8. ViewFits'
    BY <2>1, <2>4, <2>5, <2>6, <2>7, Facts, Zenon DEF ViewFits
  <2>9. \A c \in Calls : Quiet(c)
    <3>1. \A c \in Calls : Temp(c) \notin IdsOf(pool')
      BY <2>1, Facts, Zenon
    <3>2. Known' \subseteq Known
      BY <2>1 DEF Known, Named
    <3> QED BY <3>1, <3>2, Zenon DEF Quiet
  <2>10. calls' \in [Calls -> Call] /\ \A c \in Calls : CallFits(c)'
    BY <2>1, <2>9, CallsUndisturbed, Zenon
  <2>11. RowsFit(windows)' /\ RowsFit(server)'
    BY <2>1, Facts, Zenon DEF RowsFit
  <2> QED BY <2>8, <2>10, <2>11, Zenon DEF WorkspaceIInv
<1>5. CASE Refresh
  <2>1. windows' = server /\ pool' = pool /\ openIds' = openIds /\ activeId' = activeId
        /\ calls' = calls /\ server' = server
    BY <1>5, Zenon DEF Refresh, viewVars
  <2>2. \A c \in Calls : Quiet(c)
    BY <2>1 DEF Quiet, Known, Named
  <2>3. calls' \in [Calls -> Call] /\ \A c \in Calls : CallFits(c)'
    BY <2>1, <2>2, CallsUndisturbed, Zenon
  <2>4. RowsFit(windows)' /\ RowsFit(server)' /\ ViewFits'
    BY <2>1, Facts, Zenon DEF RowsFit, ViewFits
  <2> QED BY <2>3, <2>4, Zenon DEF WorkspaceIInv
<1> QED BY <1>1, <1>2, <1>3, <1>4, <1>5, Zenon

\* A creation: nothing knew the temporary window.
LEMMA CreateStep ==
    ASSUME WorkspaceIInv, NEW title \in Titles, Create(title) \/ CreateFirst(title)
    PROVE  WorkspaceIInv'
<1> DEFINE n == NextCall
<1>0. Unused # {}
  BY Zenon DEF Create, CreateFirst
<1>1. n \in Calls /\ calls[n].kind = "none"
  BY <1>0, NextIsUnused, Zenon
<1> HIDE DEF n
<1>2. Temp(n) \notin IdsOf(pool) /\ Persisted(n) \notin Known /\ Persisted(n) \notin Named
  BY <1>1, UnusedIsUnknown
<1>3. CASE CreateFirst(title)
  <2> DEFINE call == NewCall("first", None, title, title, 0)
  <2>1. Issue(n, call) /\ UNCHANGED <<windows, viewVars, server>>
    BY <1>3, Zenon DEF CreateFirst, n
  <2>2. call \in Call /\ call.kind = "first" /\ call.id = None
    <3>1. "first" \in {"create", "first", "rename", "delete"} /\ None \in Id \cup {None} /\ 0 \in Nat
      OBVIOUS
    <3> QED BY <3>1, NewCallIs
  <2>3. calls' = [calls EXCEPT ![n] = call]
    BY <2>1, Zenon DEF Issue
  <2> HIDE DEF call
  <2>4. \A c \in Calls : calls'[c].id = calls[c].id \/ calls'[c].id = None
    BY <1>1, <2>2, <2>3, Facts
  <2>5. \A c \in Calls : Quiet(c)
    <3>1. pool' = pool /\ windows' = windows /\ server' = server
      BY <2>1, Zenon DEF viewVars
    <3>2. \A c \in Calls : Persisted(c) # None
      BY Ids, Zenon
    <3>3. \A x : x \in {calls'[d].id : d \in Calls} => x = None \/ x \in {calls[d].id : d \in Calls}
      BY <2>4, Zenon
    <3> QED BY <3>1, <3>2, <3>3, Zenon DEF Quiet, Known, Named
  <2>6. calls' \in [Calls -> Call] /\ \A c \in Calls : CallFits(c)'
    <3>1. call.kind # "none" /\ call.kind # "create" /\ call.kind \notin {"rename", "delete"} /\ call.kind # "delete"
      BY <2>2
    <3> QED BY <1>1, <2>1, <2>2, <2>5, <3>1, Issuing, Zenon
  <2>7. RowsFit(windows)' /\ RowsFit(server)' /\ ViewFits'
    BY <2>1, Facts, Zenon DEF RowsFit, ViewFits, viewVars
  <2> QED BY <2>6, <2>7, Zenon DEF WorkspaceIInv
<1>4. CASE Create(title)
  <2> DEFINE call == NewCall("create", Temp(n), title, title, 0)
             x == IF windows # <<>> THEN call ELSE [call EXCEPT !.api = "none", !.waiting = FALSE]
             row == [id |-> Temp(n), title |-> title]
  <2>1. /\ Issue(n, x) /\ pool' = Append(pool, row) /\ openIds' = Append(openIds, Temp(n))
        /\ activeId' = Temp(n) /\ UNCHANGED <<windows, server>>
    BY <1>4, Zenon DEF Create, n
  <2>2. Temp(n) \in Id /\ row \in Row /\ row.id = Temp(n)
    BY <1>1, Ids, RowIs, Zenon
  <2>3. call \in Call /\ call.kind = "create" /\ call.id = Temp(n) /\ call.api = "pending" /\ call.waiting
    <3>1. "create" \in {"create", "first", "rename", "delete"} /\ 0 \in Nat /\ Temp(n) \in Id \cup {None}
      BY <2>2
    <3>2. call \in Call /\ call.kind = "create" /\ call.id = Temp(n) /\ call.api = "pending"
      BY <3>1, NewCallIs
    <3>3. call.waiting
      BY Zenon DEF NewCall
    <3> QED BY <3>2, <3>3, Zenon
  <2> HIDE DEF call
  <2>4. x \in Call /\ x.kind = "create" /\ x.id = Temp(n) /\ (x.waiting \/ x.api = "none")
    <3>1. CASE windows # <<>>
      <4>1. x = call
        BY <3>1, Zenon
      <4> QED BY <2>3, <4>1, Zenon
    <3>2. CASE windows = <<>>
      <4>1. PICK f \in BOOLEAN : f = FALSE
        BY Zenon
      <4>2. x = [call EXCEPT !.api = "none", !.waiting = f]
        BY <3>2, <4>1, Zenon
      <4> HIDE DEF x
      <4>3. x \in Call
        <5>1. call \in Call
          BY <2>3
        <5> QED BY <4>2, <5>1 DEF Call
      <4>4. x.kind = "create" /\ x.id = Temp(n) /\ x.api = "none"
        <5>1. call \in Call /\ call.kind = "create" /\ call.id = Temp(n)
          BY <2>3
        <5> QED BY <4>2, <5>1 DEF Call
      <4> QED BY <4>3, <4>4
    <3> QED BY <3>1, <3>2
  <2> HIDE DEF x, row
  <2>5. calls' = [calls EXCEPT ![n] = x]
    BY <2>1, Zenon DEF Issue
  <2>6. /\ calls' \in [Calls -> Call] /\ calls'[n] = x
        /\ \A c \in Calls \ {n} : calls'[c] = calls[c]
    BY <1>1, <2>4, <2>5, Facts
  <2>7. /\ pool' \in Seq(Row) /\ Distinct(pool') /\ IdsOf(pool') = IdsOf(pool) \cup {Temp(n)}
    BY <1>2, <2>1, <2>2, Facts, RowsAppended
  <2>8. Temp(n) \notin ToSet(openIds) /\ OpenFits(openIds) /\ ToSet(openIds) \subseteq IdsOf(pool)
    BY <1>2, Facts, Zenon
  <2>9. OpenFits(openIds') /\ ToSet(openIds') = ToSet(openIds) \cup {Temp(n)}
    BY <2>1, <2>2, <2>8, OpenAppended
  <2>10. ViewFits'
    <3>1. ToSet(openIds') \subseteq IdsOf(pool') /\ activeId' \in Id \cup {None} /\ activeId' \in ToSet(openIds')
      BY <2>1, <2>2, <2>7, <2>8, <2>9
    <3> QED BY <2>7, <2>9, <3>1, Zenon DEF ViewFits, OpenFits
  <2>11. \A y : y \in {calls'[d].id : d \in Calls} => y = Temp(n) \/ y \in {calls[d].id : d \in Calls}
    BY <2>4, <2>6, Zenon
  <2>12. ASSUME NEW c \in Calls
         PROVE  /\ Persisted(c) \in Named' => Persisted(c) \in Named
                /\ Persisted(c) \in Known' => Persisted(c) \in Known
                /\ Temp(c) \in IdsOf(pool') => c = n \/ Temp(c) \in IdsOf(pool)
    <3>1. Persisted(c) # Temp(n) /\ (Temp(c) = Temp(n) => c = n)
      BY <1>1, Ids, Zenon
    <3>2. windows' = windows /\ server' = server
      BY <2>1, Zenon
    <3> QED BY <2>7, <2>11, <3>1, <3>2, Zenon DEF Named, Known
  <2>13. ASSUME NEW c \in Calls PROVE CallFits(c)'
    <3>1. CASE c = n
      <4>1. Persisted(n) \notin Known' /\ Persisted(n) \notin Named'
        BY <1>1, <1>2, <2>12, Zenon
      <4>2. calls'[n].kind # "none" /\ calls'[n].kind \notin {"rename", "delete"} /\ calls'[n].kind # "delete"
        BY <2>4, <2>6
      <4> QED BY <2>4, <2>6, <3>1, <4>1, <4>2, Zenon DEF CallFits
    <3>2. CASE c # n
      <4>1. calls'[c] = calls[c] /\ Quiet(c) /\ CallFits(c)
        BY <2>6, <2>12, <3>2, Zenon DEF Quiet, WorkspaceIInv
      <4> QED BY <4>1, CallUndisturbed, Zenon
    <3> QED BY <3>1, <3>2
  <2>14. RowsFit(windows)' /\ RowsFit(server)'
    BY <2>1, Facts, Zenon DEF RowsFit
  <2> QED BY <2>6, <2>10, <2>13, <2>14, Zenon DEF WorkspaceIInv
<1> QED BY <1>3, <1>4

\* A renaming or a deletion names a window the view shows.
LEMMA RenameStep ==
    ASSUME WorkspaceIInv, NEW id \in Id, NEW title \in Titles, Rename(id, title)
    PROVE  WorkspaceIInv'
<1> DEFINE row == [id |-> id, title |-> title]
           was == RowOf(pool, id).title
           call == NewCall("rename", id, title, was, 0)
<1>1. /\ id \in IdsOf(pool) /\ Unused # {} /\ pool' = Replaced(pool, id, row)
      /\ UNCHANGED <<windows, openIds, activeId, server>>
      /\ (~IsLocal(id) /\ Issue(NextCall, call)) \/ UNCHANGED calls
  BY Zenon DEF Rename
<1>2. row \in Row /\ row.id = id
  BY RowIs
<1>3. was \in Titles
  BY <1>1, Facts, RowFound
<1> HIDE DEF row, was
<1>4. pool' \in Seq(Row) /\ Distinct(pool') /\ IdsOf(pool') = IdsOf(pool)
  <2>1. /\ pool' \in Seq(Row) /\ Distinct(pool')
        /\ IdsOf(pool') = IF id \in IdsOf(pool) THEN (IdsOf(pool) \ {id}) \cup {id} ELSE IdsOf(pool)
    BY <1>1, <1>2, Facts, RowsReplaced
  <2> QED BY <1>1, <2>1
<1>5. ViewFits'
  BY <1>1, <1>4, Facts, Zenon DEF ViewFits
<1>6. RowsFit(windows)' /\ RowsFit(server)'
  BY <1>1, Facts, Zenon DEF RowsFit
<1>7. CASE UNCHANGED calls
  <2>1. IdsOf(pool') \subseteq IdsOf(pool)
    BY <1>4, Zenon
  <2> QED BY <1>1, <1>5, <1>7, <2>1, Viewing, Zenon
<1>8. CASE ~IsLocal(id) /\ Issue(NextCall, call)
  <2>1. NextCall \in Calls /\ calls[NextCall].kind = "none"
    BY <1>1, NextIsUnused, Zenon
  <2>2. call \in Call /\ call.kind = "rename" /\ call.id = id
    <3>1. "rename" \in {"create", "first", "rename", "delete"} /\ id \in Id \cup {None} /\ 0 \in Nat
      OBVIOUS
    <3> QED BY <1>3, <3>1, NewCallIs
  <2> HIDE DEF call
  <2>3. calls' = [calls EXCEPT ![NextCall] = call]
    BY <1>8, Zenon DEF Issue
  <2>4. \A c \in Calls : calls'[c].id = calls[c].id \/ calls'[c].id = id
    BY <2>1, <2>2, <2>3, Facts
  <2>5. \A c \in Calls : Quiet(c)
    <3>1. \A x : x \in {calls'[d].id : d \in Calls} => x = id \/ x \in {calls[d].id : d \in Calls}
      BY <2>4, Zenon
    <3>2. windows' = windows /\ server' = server
      BY <1>1, Zenon
    <3> QED BY <1>1, <1>4, <3>1, <3>2, Zenon DEF Quiet, Named, Known
  <2>6. call.kind # "none" /\ call.kind # "create" /\ call.kind # "delete"
    BY <2>2
  <2>7. calls' \in [Calls -> Call] /\ \A c \in Calls : CallFits(c)'
    BY <1>8, <2>1, <2>2, <2>5, <2>6, Issuing, Zenon
  <2> QED BY <1>5, <1>6, <2>7, Zenon DEF WorkspaceIInv
<1> QED BY <1>1, <1>7, <1>8, Zenon

\* A window that is deleted is dropped before the API answers.
LEMMA DeleteStep ==
    ASSUME WorkspaceIInv, NEW id \in Id, Delete(id)
    PROVE  WorkspaceIInv'
<1> DEFINE title == RowOf(pool, id).title
           at == CHOOSE i \in DOMAIN openIds : openIds[i] = id
           call == NewCall("delete", id, title, title, at)
<1>1. /\ id \in ToSet(openIds) /\ Unused # {} /\ pool' = Without(pool, id) /\ Closed(id)
      /\ UNCHANGED <<windows, server>>
      /\ (~IsLocal(id) /\ Issue(NextCall, call)) \/ UNCHANGED calls
  BY Zenon DEF Delete
<1>2. id \in IdsOf(pool)
  BY <1>1, Facts
<1>3. title \in Titles
  BY <1>2, Facts, RowFound
<1>4. at \in Nat /\ at > 0
  <2>1. at \in DOMAIN openIds
    BY <1>1, Zenon DEF ToSet
  <2> HIDE DEF at
  <2>2. openIds \in Seq(Id)
    BY Facts, Zenon DEF OpenFits
  <2> QED BY <2>1, <2>2
<1> HIDE DEF title, at
<1>5. pool' \in Seq(Row) /\ Distinct(pool') /\ IdsOf(pool') = IdsOf(pool) \ {id}
  BY <1>1, Facts, RowsWithout
<1>6. ViewFits'
  <2>1. IdsOf(pool) \ {id} \subseteq IdsOf(pool')
    BY <1>5, Zenon
  <2> QED BY <1>1, <1>5, <2>1, Facts, Closing, Zenon
<1>7. RowsFit(windows)' /\ RowsFit(server)'
  BY <1>1, Facts, Zenon DEF RowsFit
<1>8. CASE UNCHANGED calls
  <2>1. IdsOf(pool') \subseteq IdsOf(pool)
    BY <1>5
  <2> QED BY <1>1, <1>6, <1>8, <2>1, Viewing, Zenon
<1>9. CASE ~IsLocal(id) /\ Issue(NextCall, call)
  <2>1. NextCall \in Calls /\ calls[NextCall].kind = "none"
    BY <1>1, NextIsUnused, Zenon
  <2>2. call \in Call /\ call.kind = "delete" /\ call.id = id /\ call.at = at
    <3>1. "delete" \in {"create", "first", "rename", "delete"} /\ id \in Id \cup {None}
      OBVIOUS
    <3> QED BY <1>3, <1>4, <3>1, NewCallIs
  <2> HIDE DEF call
  <2>3. calls' = [calls EXCEPT ![NextCall] = call]
    BY <1>9, Zenon DEF Issue
  <2>4. \A c \in Calls : calls'[c].id = calls[c].id \/ calls'[c].id = id
    BY <2>1, <2>2, <2>3, Facts
  <2>5. \A c \in Calls : Quiet(c)
    <3>1. \A x : x \in {calls'[d].id : d \in Calls} => x = id \/ x \in {calls[d].id : d \in Calls}
      BY <2>4, Zenon
    <3>2. windows' = windows /\ server' = server
      BY <1>1, Zenon
    <3>3. \A x : x \in IdsOf(pool') => x \in IdsOf(pool)
      BY <1>5
    <3> QED BY <1>2, <3>1, <3>2, <3>3, Zenon DEF Quiet, Named, Known
  <2>6. call.kind # "none" /\ call.kind # "create" /\ call.at > 0
    BY <1>4, <2>2
  <2>7. calls' \in [Calls -> Call] /\ \A c \in Calls : CallFits(c)'
    BY <1>9, <2>1, <2>2, <2>5, <2>6, Issuing, Zenon
  <2> QED BY <1>6, <1>7, <2>7, Zenon DEF WorkspaceIInv
<1> QED BY <1>1, <1>8, <1>9, Zenon

\* A call that is pending has not told of its window.
LEMMA PendingIsUnknown ==
    ASSUME WorkspaceIInv, NEW c \in Calls, calls[c].api = "pending"
    PROVE  /\ Persisted(c) \notin Known /\ Persisted(c) \notin Named
           /\ Temp(c) \in IdsOf(pool) => calls[c].kind = "create" /\ calls[c].waiting
<1>1. CallFits(c)
  BY DEF WorkspaceIInv
<1>2. "pending" # "done" /\ "pending" # "none"
  OBVIOUS
<1>3. Named \subseteq Known
  BY DEF Known
<1> QED BY <1>1, <1>2, <1>3, Zenon DEF CallFits

\* The API answers a call: of the others nothing is learned.
LEMMA Handling ==
    ASSUME WorkspaceIInv, NEW c \in Calls, calls[c].api = "pending", NEW outcome \in {"done", "refused"},
           Handled(c, outcome), UNCHANGED <<windows, pool, openIds, activeId>>, RowsFit(server'),
           \A d \in Calls \ {c} : Persisted(d) \in IdsOf(server') => Persisted(d) \in IdsOf(server),
           Persisted(c) \in IdsOf(server') => calls[c].kind \in {"create", "first"} /\ outcome = "done"
    PROVE  WorkspaceIInv'
<1>1. /\ calls' \in [Calls -> Call]
      /\ \A d \in Calls \ {c} : calls'[d] = calls[d]
      /\ calls'[c].api = outcome /\ calls'[c].kind = calls[c].kind /\ calls'[c].id = calls[c].id
      /\ calls'[c].at = calls[c].at /\ calls'[c].waiting = calls[c].waiting
      /\ {calls'[d].id : d \in Calls} = {calls[d].id : d \in Calls}
  BY CallHandled, Facts, Zenon
<1>2. Named' = Named /\ pool' = pool /\ windows' = windows
  BY <1>1 DEF Named
<1>3. ASSUME NEW d \in Calls PROVE CallFits(d)'
  <2>1. CallFits(d)
    BY DEF WorkspaceIInv
  <2>2. CASE d # c
    <3>1. calls'[d] = calls[d] /\ Quiet(d)
      BY <1>1, <1>2, <2>2, Zenon DEF Quiet, Known
    <3> QED BY <2>1, <3>1, CallUndisturbed, Zenon
  <2>3. CASE d = c
    <3>1. /\ Persisted(c) \notin Known /\ Persisted(c) \notin Named
          /\ Temp(c) \in IdsOf(pool) => calls[c].kind = "create" /\ calls[c].waiting
      BY PendingIsUnknown
    <3>2. Persisted(c) \in Known' => Persisted(c) \in IdsOf(server')
      BY <1>2, <3>1, Zenon DEF Known
    <3> QED BY <1>1, <1>2, <2>1, <2>3, <3>1, <3>2, Zenon DEF CallFits
  <2> QED BY <2>2, <2>3
<1>4. ViewFits' /\ RowsFit(windows)'
  BY Facts, Zenon DEF ViewFits, RowsFit
<1> QED BY <1>1, <1>3, <1>4, Zenon DEF WorkspaceIInv, RowsFit

\* The API carries a call out, or refuses it, whether it is waited for or not.
LEMMA ApiSteps ==
    ASSUME WorkspaceIInv, NEW c \in Calls, ApiApplies(c) \/ ApiRefuses(c)
    PROVE  WorkspaceIInv'
<1>1. calls[c].api = "pending" /\ UNCHANGED <<windows, pool, openIds, activeId>>
  BY Zenon DEF ApiApplies, ApiRefuses, viewVars
<1>2. /\ Persisted(c) \notin Known /\ server \in Seq(Row) /\ Distinct(server) /\ RowsFit(server)
      /\ calls[c] \in Call
  BY <1>1, PendingIsUnknown, Facts, Zenon
<1>3. Persisted(c) \notin IdsOf(server)
  BY <1>2 DEF Known
<1>0. "done" \in {"done", "refused"} /\ "refused" \in {"done", "refused"}
  OBVIOUS
<1>4. CASE ApiRefuses(c)
  <2>1. Handled(c, "refused") /\ server' = server
    BY <1>4, Zenon DEF ApiRefuses
  <2> QED BY <1>0, <1>1, <1>2, <1>3, <2>1, Handling, Zenon
<1>5. CASE ApiApplies(c)
  <2> DEFINE call == calls[c]
             row == [id |-> Persisted(c), title |-> call.title]
             named == [id |-> call.id, title |-> call.title]
  <2>1. \/ call.kind \in {"create", "first"} /\ server' = Append(server, row) /\ Handled(c, "done")
        \/ /\ call.kind = "rename" /\ call.id \in IdsOf(server)
           /\ server' = Replaced(server, call.id, named) /\ Handled(c, "done")
        \/ call.kind = "delete" /\ server' = Without(server, call.id) /\ Handled(c, "done")
    BY <1>5, Zenon DEF ApiApplies
  <2>2. call.title \in Titles
    BY <1>2, CallIs
  <2>3. CASE call.kind \in {"create", "first"} /\ server' = Append(server, row) /\ Handled(c, "done")
    <3>1. Persisted(c) \in Id /\ ~IsLocal(Persisted(c)) /\ row \in Row /\ row.id = Persisted(c)
      BY <2>2, Ids, RowIs
    <3> HIDE DEF row
    <3>2. server' \in Seq(Row) /\ Distinct(server') /\ IdsOf(server') = IdsOf(server) \cup {Persisted(c)}
      BY <1>2, <1>3, <2>3, <3>1, RowsAppended
    <3>3. RowsFit(server')
      BY <1>2, <3>1, <3>2, Zenon DEF RowsFit
    <3>4. \A d \in Calls \ {c} : Persisted(d) \in IdsOf(server') => Persisted(d) \in IdsOf(server)
      <4>1. \A d \in Calls \ {c} : Persisted(d) # Persisted(c)
        BY Ids, Zenon
      <4> QED BY <3>2, <4>1
    <3> QED BY <1>0, <1>1, <2>3, <3>3, <3>4, Handling, Zenon
  <2>4. CASE /\ call.kind = "rename" /\ call.id \in IdsOf(server)
             /\ server' = Replaced(server, call.id, named) /\ Handled(c, "done")
    <3>0. call.id \in Id
      BY <1>2, <2>4, Places, Zenon
    <3>1. named \in Row /\ named.id = call.id
      BY <2>2, <3>0, RowIs
    <3> HIDE DEF named, call
    <3>2. /\ server' \in Seq(Row) /\ Distinct(server')
          /\ IdsOf(server') = IF call.id \in IdsOf(server) THEN (IdsOf(server) \ {call.id}) \cup {call.id}
                              ELSE IdsOf(server)
      BY <1>2, <2>4, <3>1, RowsReplaced
    <3>3. IdsOf(server') = IdsOf(server)
      BY <2>4, <3>2
    <3>4. RowsFit(server')
      BY <1>2, <3>2, <3>3, Zenon DEF RowsFit
    <3> QED BY <1>0, <1>1, <1>3, <2>4, <3>3, <3>4, Handling, Zenon
  <2>5. CASE call.kind = "delete" /\ server' = Without(server, call.id) /\ Handled(c, "done")
    <3> HIDE DEF call
    <3>1. server' \in Seq(Row) /\ Distinct(server') /\ IdsOf(server') = IdsOf(server) \ {call.id}
      BY <1>2, <2>5, RowsWithout
    <3>2. \A x : x \in IdsOf(server') => x \in IdsOf(server)
      BY <3>1
    <3>3. RowsFit(server')
      BY <1>2, <3>1, <3>2, Zenon DEF RowsFit
    <3> QED BY <1>0, <1>1, <1>3, <2>5, <3>2, <3>3, Handling, Zenon
  <2> QED BY <2>1, <2>3, <2>4, <2>5, Zenon
<1> QED BY <1>4, <1>5

\* A call settles: its temporary window is gone, and what it puts back was named.
LEMMA Settling ==
    ASSUME WorkspaceIInv, NEW c \in Calls, Settled(c), UNCHANGED <<windows, server>>, ViewFits',
           Temp(c) \notin IdsOf(pool'),
           \A d \in Calls \ {c} : /\ Temp(d) \in IdsOf(pool') => Temp(d) \in IdsOf(pool)
                                  /\ Persisted(d) \in IdsOf(pool') => Persisted(d) \in Named,
           Persisted(c) \in IdsOf(pool') => \/ Persisted(c) \in Named
                                            \/ calls[c].kind \in {"create", "first"} /\ calls[c].api = "done"
    PROVE  WorkspaceIInv'
<1>1. /\ calls' \in [Calls -> Call]
      /\ \A d \in Calls \ {c} : calls'[d] = calls[d]
      /\ calls'[c].api = calls[c].api /\ calls'[c].kind = calls[c].kind /\ calls'[c].id = calls[c].id
      /\ calls'[c].at = calls[c].at /\ ~calls'[c].waiting
      /\ {calls'[d].id : d \in Calls} = {calls[d].id : d \in Calls}
  BY CallSettled, Facts, Zenon
<1>2. windows' = windows /\ server' = server
  OBVIOUS
<1>3. ASSUME NEW d \in Calls PROVE CallFits(d)'
  <2>1. CallFits(d)
    BY DEF WorkspaceIInv
  <2>2. CASE d # c
    <3>1. calls'[d] = calls[d]
      BY <1>1, <2>2, Zenon
    <3>2. Quiet(d)
      BY <1>1, <1>2, <2>2, Zenon DEF Quiet, Known, Named
    <3> QED BY <2>1, <3>1, <3>2, CallUndisturbed, Zenon
  <2>3. CASE d = c
    <3>1. Persisted(c) \in Known' => Persisted(c) \in Known \/ (calls[c].kind \in {"create", "first"} /\ calls[c].api = "done")
      BY <1>1, <1>2, Zenon DEF Known, Named
    <3> QED BY <1>1, <2>1, <2>3, <3>1, Zenon DEF CallFits
  <2> QED BY <2>2, <2>3
<1>4. RowsFit(windows)' /\ RowsFit(server)'
  BY Facts, Zenon DEF RowsFit
<1> QED BY <1>1, <1>3, <1>4, Zenon DEF WorkspaceIInv

\* A row that is not there is not replaced.
LEMMA NothingReplaced ==
    ASSUME NEW rows \in Seq(Row), NEW id, id \notin IdsOf(rows), NEW row
    PROVE  Replaced(rows, id, row) = rows
<1>1. DOMAIN rows = 1..Len(rows) /\ \A i \in 1..Len(rows) : rows[i].id \in IdsOf(rows)
  BY Places, Zenon
<1>2. \A i \in DOMAIN rows : rows[i].id # id
  BY <1>1, Zenon
<1>3. Replaced(rows, id, row) = [i \in DOMAIN rows |-> rows[i]]
  BY <1>2, Zenon DEF Replaced
<1> QED BY <1>3

\* A window that is not open is not swapped.
LEMMA NothingSwapped ==
    ASSUME NEW tabs, OpenFits(tabs), NEW old, old \notin ToSet(tabs), NEW new
    PROVE  Swapped(tabs, old, new) = tabs
<1>1. tabs \in Seq(Id) /\ DOMAIN tabs = 1..Len(tabs) /\ \A i \in 1..Len(tabs) : tabs[i] \in ToSet(tabs)
  BY OpenPlaces, Zenon
<1>2. \A i \in DOMAIN tabs : tabs[i] # old
  BY <1>1, Zenon
<1>3. Swapped(tabs, old, new) = [i \in DOMAIN tabs |-> tabs[i]]
  BY <1>2, Zenon DEF Swapped
<1> QED BY <1>1, <1>3

\* A window that gets another title is the same window.
LEMMA Retitling ==
    ASSUME WorkspaceIInv, NEW id \in Id, NEW title \in Titles,
           pool' = Replaced(pool, id, [id |-> id, title |-> title]), UNCHANGED <<openIds, activeId>>
    PROVE  ViewFits' /\ IdsOf(pool') = IdsOf(pool)
<1> DEFINE row == [id |-> id, title |-> title]
<1>1. row \in Row /\ row.id = id /\ pool' = Replaced(pool, id, row)
  BY RowIs
<1> HIDE DEF row
<1>2. /\ pool' \in Seq(Row) /\ Distinct(pool')
      /\ IdsOf(pool') = IF id \in IdsOf(pool) THEN (IdsOf(pool) \ {id}) \cup {id} ELSE IdsOf(pool)
  <2>1. pool \in Seq(Row) /\ Distinct(pool)
    BY Facts
  <2>a. row \in Row
    BY <1>1
  <2>b. row.id = id \/ row.id \notin IdsOf(pool)
    BY <1>1
  <2>2. /\ Replaced(pool, id, row) \in Seq(Row) /\ Distinct(Replaced(pool, id, row))
        /\ IdsOf(Replaced(pool, id, row)) =
              IF id \in IdsOf(pool) THEN (IdsOf(pool) \ {id}) \cup {row.id} ELSE IdsOf(pool)
    BY <2>1, <2>a, <2>b, RowsReplaced, Zenon
  <2> QED BY <1>1, <2>2, Zenon
<1>3. IdsOf(pool') = IdsOf(pool)
  BY <1>2
<1>4. ViewFits'
  BY <1>2, <1>3, Facts, Zenon DEF ViewFits
<1> QED BY <1>3, <1>4

\* The temporary window becomes the row, or is no longer shown.
LEMMA Creating ==
    ASSUME WorkspaceIInv, NEW c \in Calls, Created(c)
    PROVE  /\ ViewFits'
           /\ \/ Temp(c) \notin IdsOf(pool) /\ pool' = pool
              \/ Temp(c) \in IdsOf(pool) /\ IdsOf(pool') = (IdsOf(pool) \ {Temp(c)}) \cup {Persisted(c)}
<1> DEFINE row == [id |-> Persisted(c), title |-> calls[c].title]
           old == Temp(c)
           new == Persisted(c)
<1>1. /\ pool' = Replaced(pool, old, row) /\ openIds' = Swapped(openIds, old, new)
      /\ activeId' = IF activeId = old THEN new ELSE activeId
  BY Zenon DEF Created
<1>2. new \in Id /\ old # new /\ old # None
  BY Ids, Zenon
<1>3. row \in Row /\ row.id = new
  <2>1. calls[c].title \in Titles
    BY Facts, CallIs
  <2> QED BY <1>2, <2>1, RowIs
<1> HIDE DEF row, old, new
<1>4. CASE old \notin IdsOf(pool)
  <2>1. pool' = pool
    BY <1>1, <1>4, Facts, NothingReplaced, Zenon
  <2>2. openIds' = openIds
    BY <1>1, <1>4, Facts, NothingSwapped, Zenon
  <2>3. activeId' = activeId
    BY <1>1, <1>2, <1>4, Facts
  <2>4. ViewFits'
    BY <2>1, <2>2, <2>3, Facts, Zenon DEF ViewFits
  <2> QED BY <1>4, <2>1, <2>4 DEF old
<1>5. CASE old \in IdsOf(pool)
  <2>1. new \notin IdsOf(pool)
    <3>1. CallFits(c)
      BY DEF WorkspaceIInv
    <3> QED BY <1>5, <3>1, Zenon DEF CallFits, Named, old, new
  <2>2. /\ pool' \in Seq(Row) /\ Distinct(pool')
        /\ IdsOf(pool') = (IdsOf(pool) \ {old}) \cup {new}
    BY <1>1, <1>3, <1>5, <2>1, Facts, RowsReplaced
  <2>3. OpenFits(openIds) /\ ToSet(openIds) \subseteq IdsOf(pool) /\ new \notin ToSet(openIds)
    BY <2>1, Facts
  <2>4. /\ OpenFits(openIds')
        /\ ToSet(openIds') = IF old \in ToSet(openIds) THEN (ToSet(openIds) \ {old}) \cup {new} ELSE ToSet(openIds)
    BY <1>1, <1>2, <2>3, OpenSwapped
  <2>5. ToSet(openIds') \subseteq IdsOf(pool')
    BY <2>2, <2>3, <2>4
  <2>6. activeId' \in Id \cup {None} /\ (activeId' # None => activeId' \in ToSet(openIds'))
    <3>1. activeId \in Id \cup {None} /\ (activeId # None => activeId \in ToSet(openIds))
      BY Facts, Zenon
    <3>2. CASE activeId = old
      BY <1>1, <1>2, <2>4, <3>1, <3>2
    <3>3. CASE activeId # old
      BY <1>1, <2>4, <3>1, <3>3
    <3> QED BY <3>2, <3>3
  <2>7. ViewFits'
    BY <2>2, <2>4, <2>5, <2>6, Zenon DEF ViewFits, OpenFits
  <2> QED BY <1>5, <2>2, <2>7 DEF old, new
<1> QED BY <1>4, <1>5

\* The temporary window goes.
LEMMA CreateFailing ==
    ASSUME WorkspaceIInv, NEW c \in Calls, CreateFailed(c)
    PROVE  ViewFits' /\ IdsOf(pool') = IdsOf(pool) \ {Temp(c)}
<1> DEFINE old == Temp(c)
<1>1. /\ pool' = Without(pool, old) /\ openIds' = Filtered(openIds, Id \ {old})
      /\ activeId' = IF activeId = old THEN None ELSE activeId
  BY Zenon DEF CreateFailed
<1> HIDE DEF old
<1>2. pool' \in Seq(Row) /\ Distinct(pool') /\ IdsOf(pool') = IdsOf(pool) \ {old}
  BY <1>1, Facts, RowsWithout
<1>3. OpenFits(openIds') /\ ToSet(openIds') = ToSet(openIds) \ {old}
  BY <1>1, Facts, OpenFiltered
<1>4. ToSet(openIds') \subseteq IdsOf(pool')
  BY <1>2, <1>3, Facts
<1>5. activeId' \in Id \cup {None} /\ (activeId' # None => activeId' \in ToSet(openIds'))
  <2>1. activeId \in Id \cup {None} /\ (activeId # None => activeId \in ToSet(openIds))
    BY Facts, Zenon
  <2> QED BY <1>1, <1>3, <2>1
<1>6. ViewFits'
  BY <1>2, <1>3, <1>4, <1>5, Zenon DEF ViewFits, OpenFits
<1> QED BY <1>2, <1>6 DEF old

\* The deleted window is back, and open.
LEMMA DeleteFailing ==
    ASSUME WorkspaceIInv, NEW c \in Calls, calls[c].kind = "delete", DeleteFailed(c)
    PROVE  ViewFits' /\ IdsOf(pool') = IdsOf(pool) \cup {calls[c].id}
<1> DEFINE id == calls[c].id
           row == [id |-> id, title |-> calls[c].was]
           at == calls[c].at
           k == IF at <= Len(openIds) THEN at ELSE Len(openIds) + 1
<1>0. CallFits(c) /\ calls[c] \in Call
  BY Facts DEF WorkspaceIInv
<1>1. /\ pool' = IF id \in IdsOf(pool) THEN pool ELSE Append(pool, row)
      /\ openIds' = IF id \in ToSet(openIds) THEN openIds ELSE InsertAt(openIds, k, id)
      /\ activeId' = activeId
  BY Zenon DEF DeleteFailed
<1>2. id \in Id
  <2>1. calls[c].kind \in {"rename", "delete"}
    OBVIOUS
  <2> QED BY <1>0, <2>1, Zenon DEF CallFits
<1>3. row \in Row /\ row.id = id
  BY <1>0, <1>2, CallIs, RowIs
<1>4. at \in Nat /\ at > 0
  <2>1. at \in Nat
    BY <1>0, CallIs
  <2>2. calls[c].at > 0
    BY <1>0, Zenon DEF CallFits
  <2> QED BY <2>1, <2>2
<1> HIDE DEF id, row, at
<1>5. pool' \in Seq(Row) /\ Distinct(pool') /\ IdsOf(pool') = IdsOf(pool) \cup {id}
  <2>1. CASE id \in IdsOf(pool)
    <3>1. pool' = pool
      BY <1>1, <2>1, Zenon
    <3>2. IdsOf(pool) \cup {id} = IdsOf(pool)
      BY <2>1
    <3> QED BY <3>1, <3>2, Facts, Zenon
  <2>2. CASE id \notin IdsOf(pool)
    <3>1. pool' = Append(pool, row)
      BY <1>1, <2>2, Zenon
    <3> QED BY <1>3, <2>2, <3>1, Facts, RowsAppended
  <2> QED BY <2>1, <2>2
<1>6. OpenFits(openIds') /\ ToSet(openIds') = ToSet(openIds) \cup {id}
  <2>1. CASE id \in ToSet(openIds)
    <3>1. openIds' = openIds
      BY <1>1, <2>1, Zenon
    <3>2. ToSet(openIds) \cup {id} = ToSet(openIds)
      BY <2>1
    <3> QED BY <3>1, <3>2, Facts, Zenon
  <2>2. CASE id \notin ToSet(openIds)
    <3>1. openIds' = InsertAt(openIds, k, id)
      BY <1>1, <2>2, Zenon
    <3>2. Len(openIds) \in Nat
      BY Facts, OpenPlaces, Zenon
    <3>3. k \in 1..(Len(openIds) + 1)
      BY <1>4, <3>2
    <3> HIDE DEF k
    <3> QED BY <1>2, <2>2, <3>1, <3>3, Facts, OpenInsertedAt
  <2> QED BY <2>1, <2>2
<1>7. ToSet(openIds') \subseteq IdsOf(pool')
  BY <1>5, <1>6, Facts
<1>8. activeId' \in Id \cup {None} /\ (activeId' # None => activeId' \in ToSet(openIds'))
  BY <1>1, <1>6, Facts
<1>9. ViewFits'
  BY <1>5, <1>6, <1>7, <1>8, Zenon DEF ViewFits, OpenFits
<1> QED BY <1>5, <1>9 DEF id

\* Only a creation has a temporary window.
LEMMA NoTemp ==
    ASSUME WorkspaceIInv, NEW c \in Calls, calls[c].kind # "create"
    PROVE  Temp(c) \notin IdsOf(pool)
<1>1. CallFits(c)
  BY DEF WorkspaceIInv
<1> QED BY <1>1, Zenon DEF CallFits

\* What the settlement of a call does to the view.
Shown(c) ==
    \/ calls[c].kind = "create" /\ Created(c) /\ calls[c].api = "done"
    \/ calls[c].kind = "create" /\ CreateFailed(c)
    \/ calls[c].kind = "first" /\ UNCHANGED viewVars
    \/ calls[c].kind = "rename" /\ (Renamed(c) \/ RenameFailed(c))
    \/ calls[c].kind = "delete" /\ DeleteFailed(c)

\* A call that settles keeps the invariant, and brings back its own window at most.
LEMMA SettleStep ==
    ASSUME WorkspaceIInv, NEW c \in Calls, Settled(c), Shown(c), UNCHANGED <<windows, server>>
    PROVE  /\ WorkspaceIInv'
           /\ \A id \in Returning :
                \/ calls[c].kind = "delete" /\ calls[c].id = id
                \/ calls[c].kind = "create" /\ Persisted(c) = id /\ Temp(c) \in IdsOf(pool)
<1>0. IdsOf(pool) \subseteq Named /\ calls[c].id \in Named
  BY DEF Named
<1>a. /\ \A d \in Calls \ {c} : Temp(d) # Temp(c) /\ Persisted(d) # Persisted(c)
      /\ \A d \in Calls : Temp(d) # Persisted(c) /\ Temp(c) # Persisted(d)
  BY Ids, Zenon
<1>1. CASE calls[c].kind = "create" /\ Created(c) /\ calls[c].api = "done"
  <2>1. /\ ViewFits'
        /\ \/ Temp(c) \notin IdsOf(pool) /\ pool' = pool
           \/ Temp(c) \in IdsOf(pool) /\ IdsOf(pool') = (IdsOf(pool) \ {Temp(c)}) \cup {Persisted(c)}
    BY <1>1, Creating, Zenon
  <2>2. \A x : x \in IdsOf(pool') => (x \in IdsOf(pool) /\ x # Temp(c)) \/ (x = Persisted(c) /\ Temp(c) \in IdsOf(pool))
    BY <2>1
  <2>3. WorkspaceIInv'
    <3>1. Temp(c) \notin IdsOf(pool')
      BY <1>a, <2>2, Zenon
    <3>2. ASSUME NEW d \in Calls \ {c}
          PROVE  /\ Temp(d) \in IdsOf(pool') => Temp(d) \in IdsOf(pool)
                 /\ Persisted(d) \in IdsOf(pool') => Persisted(d) \in Named
      <4>1. d \in Calls
        OBVIOUS
      <4>2. Temp(d) # Persisted(c) /\ Persisted(d) # Persisted(c)
        BY <1>a, <4>1, Zenon
      <4>3. Temp(d) \in IdsOf(pool') => Temp(d) \in IdsOf(pool)
        BY <2>2, <4>2, Zenon
      <4>4. Persisted(d) \in IdsOf(pool') => Persisted(d) \in Named
        BY <1>0, <2>2, <4>2, Zenon
      <4> QED BY <4>3, <4>4
    <3>3. calls[c].kind \in {"create", "first"} /\ calls[c].api = "done"
      BY <1>1
    <3> QED BY <2>1, <3>1, <3>2, <3>3, Settling, Zenon
  <2> QED BY <1>1, <2>2, <2>3, Zenon DEF Returning
<1>2. CASE calls[c].kind = "create" /\ CreateFailed(c)
  <2>1. ViewFits' /\ IdsOf(pool') = IdsOf(pool) \ {Temp(c)}
    BY <1>2, CreateFailing, Zenon
  <2>2. Temp(c) \notin IdsOf(pool') /\ \A x : x \in IdsOf(pool') => x \in IdsOf(pool) /\ x \in Named
    BY <1>0, <2>1
  <2>3. WorkspaceIInv'
    BY <2>1, <2>2, Settling, Zenon
  <2> QED BY <2>2, <2>3, Zenon DEF Returning
<1>3. CASE calls[c].kind = "first" /\ UNCHANGED viewVars
  <2>1. ViewFits' /\ pool' = pool
    BY <1>3, Facts, Zenon DEF ViewFits, viewVars
  <2>2. Temp(c) \notin IdsOf(pool)
    <3>1. calls[c].kind # "create"
      BY <1>3
    <3> QED BY <3>1, NoTemp
  <2>3. \A x : x \in IdsOf(pool') => x \in IdsOf(pool) /\ x \in Named
    BY <1>0, <2>1
  <2>4. WorkspaceIInv'
    BY <2>1, <2>2, <2>3, Settling, Zenon
  <2> QED BY <2>3, <2>4, Zenon DEF Returning
<1>4. CASE calls[c].kind = "rename" /\ (Renamed(c) \/ RenameFailed(c))
  <2>1. calls[c].id \in Id /\ calls[c].title \in Titles /\ calls[c].was \in Titles
    <3>1. calls[c].kind \in {"rename", "delete"} /\ CallFits(c)
      BY <1>4 DEF WorkspaceIInv
    <3>2. calls[c] \in Call
      BY Facts
    <3>3. calls[c].id \in Id
      BY <3>1, Zenon DEF CallFits
    <3> QED BY <3>2, <3>3, CallIs, Zenon
  <2>2. ViewFits' /\ IdsOf(pool') = IdsOf(pool)
    <3>1. CASE Renamed(c)
      <4>1. /\ pool' = Replaced(pool, calls[c].id, [id |-> calls[c].id, title |-> calls[c].title])
            /\ UNCHANGED <<openIds, activeId>>
        BY <3>1, Zenon DEF Renamed
      <4> QED BY <2>1, <4>1, Retitling, Zenon
    <3>2. CASE RenameFailed(c)
      <4>1. /\ pool' = Replaced(pool, calls[c].id, [id |-> calls[c].id, title |-> calls[c].was])
            /\ UNCHANGED <<openIds, activeId>>
        BY <3>2, Zenon DEF RenameFailed
      <4> QED BY <2>1, <4>1, Retitling, Zenon
    <3> QED BY <1>4, <3>1, <3>2
  <2>3. Temp(c) \notin IdsOf(pool)
    <3>1. calls[c].kind # "create"
      BY <1>4
    <3> QED BY <3>1, NoTemp
  <2>4. \A x : x \in IdsOf(pool') => x \in IdsOf(pool) /\ x \in Named
    BY <1>0, <2>2
  <2>5. WorkspaceIInv'
    BY <2>2, <2>3, <2>4, Settling, Zenon
  <2> QED BY <2>4, <2>5, Zenon DEF Returning
<1>5. CASE calls[c].kind = "delete" /\ DeleteFailed(c)
  <2>1. ViewFits' /\ IdsOf(pool') = IdsOf(pool) \cup {calls[c].id}
    BY <1>5, DeleteFailing, Zenon
  <2>2. ~IsLocal(calls[c].id)
    <3>1. calls[c].kind \in {"rename", "delete"} /\ CallFits(c)
      BY <1>5 DEF WorkspaceIInv
    <3> QED BY <3>1, Zenon DEF CallFits
  <2>3. \A d \in Calls : Temp(d) # calls[c].id
    BY <2>2, Ids, Zenon
  <2>4. Temp(c) \notin IdsOf(pool)
    <3>1. calls[c].kind # "create"
      BY <1>5
    <3> QED BY <3>1, NoTemp
  <2>5. \A x : x \in IdsOf(pool') => x \in IdsOf(pool) \/ x = calls[c].id
    BY <2>1
  <2>6. WorkspaceIInv'
    <3>1. Temp(c) \notin IdsOf(pool')
      BY <2>3, <2>4, <2>5, Zenon
    <3>2. \A x : x \in IdsOf(pool') => x \in Named
      BY <1>0, <2>5
    <3> QED BY <2>1, <2>3, <2>5, <3>1, <3>2, Settling, Zenon
  <2> QED BY <1>5, <2>5, <2>6, Zenon DEF Returning
<1> QED BY <1>1, <1>2, <1>3, <1>4, <1>5, Zenon DEF Shown

\* Both ways a call settles are such a step.
LEMMA AnswerSteps ==
    ASSUME WorkspaceIInv, NEW c \in Calls, Answered(c) \/ Rejected(c)
    PROVE  calls[c].waiting /\ Settled(c) /\ Shown(c) /\ UNCHANGED <<windows, server>>
<1>1. CASE Answered(c)
  BY <1>1, Zenon DEF Answered, Shown
<1>2. CASE Rejected(c)
  BY <1>2, Zenon DEF Rejected, Shown
<1> QED BY <1>1, <1>2

LEMMA WorkspaceKept == WorkspaceIInv /\ WorkspaceNext => WorkspaceIInv'
<1> SUFFICES ASSUME WorkspaceIInv, WorkspaceNext PROVE WorkspaceIInv'
  OBVIOUS
<1>1. ASSUME NEW c \in Calls, Answered(c) \/ Rejected(c) PROVE WorkspaceIInv'
  BY <1>1, AnswerSteps, SettleStep, Zenon
<1> QED BY <1>1, ViewSteps, CreateStep, RenameStep, DeleteStep, ApiSteps, ZenonT(60) DEF WorkspaceNext

LEMMA WorkspaceIsSafe == WorkspaceIInv => WorkspaceTypeOK /\ ViewIsConsistent /\ TempsAreInFlight
<1> SUFFICES ASSUME WorkspaceIInv PROVE WorkspaceTypeOK /\ ViewIsConsistent /\ TempsAreInFlight
  OBVIOUS
<1>1. WorkspaceTypeOK
  BY Facts, Zenon DEF WorkspaceTypeOK, OpenFits
<1>2. ViewIsConsistent
  BY Facts, RowsCounted, Zenon DEF ViewIsConsistent, OpenFits
<1>3. TempsAreInFlight
  <2> SUFFICES ASSUME NEW c \in Calls, calls[c].kind = "create", calls[c].api # "none", ~calls[c].waiting
               PROVE  Temp(c) \notin IdsOf(pool) \cup ToSet(openIds) \cup {activeId}
    BY Zenon DEF TempsAreInFlight
  <2>1. Temp(c) \notin IdsOf(pool)
    BY Zenon DEF WorkspaceIInv, CallFits
  <2>2. Temp(c) # None
    BY Ids, Zenon
  <2> QED BY <2>1, <2>2, Facts
<1> QED BY <1>1, <1>2, <1>3

\* What OwnSettlementRestores says of a step.
OwnRestores ==
    \A id \in Returning :
        \/ IsLocal(id)
        \/ pool' = windows
        \/ \E c \in Calls :
              /\ calls[c].waiting /\ ~calls'[c].waiting
              /\ \/ calls[c].kind = "delete" /\ calls[c].id = id
                 \/ calls[c].kind = "create" /\ Persisted(c) = id /\ Temp(c) \in IdsOf(pool)

\* No step brings a window back but the settlement of its own call.
LEMMA RestoreStep == WorkspaceIInv /\ WorkspaceNext => OwnRestores
<1> SUFFICES ASSUME WorkspaceIInv, WorkspaceNext PROVE OwnRestores
  OBVIOUS
<1>1. ASSUME NEW c \in Calls, Answered(c) \/ Rejected(c) PROVE OwnRestores
  <2>1. calls[c].waiting /\ Settled(c) /\ Shown(c) /\ UNCHANGED <<windows, server>>
    BY <1>1, AnswerSteps
  <2>2. \A id \in Returning :
          \/ calls[c].kind = "delete" /\ calls[c].id = id
          \/ calls[c].kind = "create" /\ Persisted(c) = id /\ Temp(c) \in IdsOf(pool)
    BY <2>1, SettleStep, Zenon
  <2>3. ~calls'[c].waiting
    BY <2>1, CallSettled, Facts, Zenon
  <2> QED BY <2>1, <2>2, <2>3, Zenon DEF OwnRestores
<1>2. ASSUME pool' = pool PROVE OwnRestores
  BY <1>2 DEF OwnRestores, Returning
<1>3. ASSUME NEW id \in Id, NEW title \in Titles, Rename(id, title) PROVE OwnRestores
  <2>1. pool' = Replaced(pool, id, [id |-> id, title |-> title]) /\ UNCHANGED <<openIds, activeId>>
    BY <1>3, Zenon DEF Rename
  <2>2. IdsOf(pool') = IdsOf(pool)
    BY <2>1, Retitling, Zenon
  <2> QED BY <2>2 DEF OwnRestores, Returning
<1>4. ASSUME NEW id \in Id, Delete(id) PROVE OwnRestores
  <2>1. pool' = Without(pool, id)
    BY <1>4, Zenon DEF Delete
  <2>2. IdsOf(pool') = IdsOf(pool) \ {id}
    BY <2>1, Facts, RowsWithout
  <2> QED BY <2>2 DEF OwnRestores, Returning
<1>5. ASSUME NEW title \in Titles, Create(title) PROVE OwnRestores
  <2> DEFINE n == NextCall
             row == [id |-> Temp(n), title |-> title]
  <2>1. pool' = Append(pool, row) /\ Unused # {}
    BY <1>5, Zenon DEF Create
  <2>2. n \in Calls /\ calls[n].kind = "none"
    BY <2>1, NextIsUnused, Zenon
  <2> HIDE DEF n
  <2>3. Temp(n) \in Id /\ IsLocal(Temp(n)) /\ Temp(n) \notin IdsOf(pool)
    BY <2>2, Ids, UnusedIsUnknown, Zenon
  <2>4. row \in Row /\ row.id = Temp(n)
    BY <2>3, RowIs
  <2> HIDE DEF row
  <2>5. IdsOf(pool') = IdsOf(pool) \cup {Temp(n)}
    BY <2>1, <2>3, <2>4, Facts, RowsAppended
  <2>6. \A id \in Returning : id = Temp(n)
    BY <2>5 DEF Returning
  <2> QED BY <2>3, <2>6, Zenon DEF OwnRestores
<1>6. ASSUME Reset PROVE OwnRestores
  BY <1>6, Zenon DEF Reset, OwnRestores
<1>7. ASSUME (\E id \in Id : Close(id) \/ Reopen(id) \/ Focus(id)) \/ (\E t \in Titles : CreateFirst(t)) \/ Refresh
             \/ (\E c \in Calls : ApiApplies(c) \/ ApiRefuses(c))
      PROVE  pool' = pool
  BY <1>7, ZenonT(30) DEF Close, Reopen, Focus, CreateFirst, Refresh, ApiApplies, ApiRefuses, viewVars
<1> QED BY <1>1, <1>2, <1>3, <1>4, <1>5, <1>6, <1>7, ZenonT(60) DEF WorkspaceNext

-----------------------------------------------------------------------------
(* The page.                                                               *)

\* The invariants of the parts together.
ShellIInv ==
    /\ ComposerIInv /\ MenuIInv /\ NothingMissed /\ ConversationIInv
    /\ StarsIInv /\ OverlaysIInv /\ WorkspaceIInv

\* Each part starts on its own.
LEMMA PartsStart ==
    ASSUME ShellInit
    PROVE  /\ WorkspaceInit /\ ComposerInit /\ MenuInit
           /\ ConversationInit /\ StarsInit /\ OverlaysInit
BY Zenon DEF ShellInit

\* A step of the page is a step of one part, and each other stays as it is.
LEMMA PartsStep ==
    ASSUME [ShellNext]_shellVars
    PROVE  /\ [WorkspaceNext]_workspaceVars /\ [ComposerNext]_composerVars
           /\ [MenuNext]_menuVars /\ [ConversationNext]_conversationVars
           /\ [StarsNext]_starVars /\ [OverlaysNext]_overlayVars
<1>1. CASE UNCHANGED shellVars
  BY <1>1, Zenon DEF shellVars
<1>2. CASE ShellNext
  BY <1>2, ZenonT(120) DEF ShellNext
<1> QED BY <1>1, <1>2

\* The parts that were treated without their stuttering steps.
LEMMA PartsRest ==
    /\ ConversationIInv /\ UNCHANGED conversationVars => ConversationIInv'
    /\ OverlaysIInv /\ UNCHANGED overlayVars => OverlaysIInv'
    /\ WorkspaceIInv /\ UNCHANGED workspaceVars => WorkspaceIInv'
<1>1. ASSUME ConversationIInv, UNCHANGED conversationVars PROVE ConversationIInv'
  BY <1>1, Zenon DEF conversationVars, ConversationIInv, WindowFits
<1>2. ASSUME OverlaysIInv, UNCHANGED overlayVars PROVE OverlaysIInv'
  BY <1>2, Zenon DEF overlayVars, pageVars, paletteVars, toastVars,
                     OverlaysIInv, RecentsFit, PaletteFits, NoticesFit
<1>3. ASSUME WorkspaceIInv, UNCHANGED workspaceVars PROVE WorkspaceIInv'
  BY <1>3, Zenon DEF workspaceVars, viewVars, WorkspaceIInv, ViewFits, RowsFit, CallFits, Known, Named
<1> QED BY <1>1, <1>2, <1>3

LEMMA ShellStart == ShellInit => ShellIInv
<1> SUFFICES ASSUME ShellInit PROVE ShellIInv
  OBVIOUS
<1>1. /\ WorkspaceInit /\ ComposerInit /\ MenuInit
      /\ ConversationInit /\ StarsInit /\ OverlaysInit
  BY PartsStart
<1>2. NothingMissed
  <2>1. missed = [m \in Panes |-> FALSE] /\ list = [m \in Panes |-> {}] /\ templates = {}
    BY <1>1, Zenon DEF MenuInit
  <2> QED BY <2>1 DEF NothingMissed
<1> QED BY <1>1, <1>2, ComposerStart, ComposerAssumption, MenuStart, TemplateMenuAssumption, ConversationStart,
           StarsStart, OverlaysStart, WorkspaceStart DEF ShellIInv

LEMMA ShellKept == ShellIInv /\ [ShellNext]_shellVars => ShellIInv'
<1> SUFFICES ASSUME ShellIInv, [ShellNext]_shellVars PROVE ShellIInv'
  OBVIOUS
<1>1. /\ [WorkspaceNext]_workspaceVars /\ [ComposerNext]_composerVars
      /\ [MenuNext]_menuVars /\ [ConversationNext]_conversationVars
      /\ [StarsNext]_starVars /\ [OverlaysNext]_overlayVars
  BY PartsStep
<1>2. /\ ComposerIInv /\ MenuIInv /\ NothingMissed /\ ConversationIInv
      /\ StarsIInv /\ OverlaysIInv /\ WorkspaceIInv
  BY DEF ShellIInv
<1>3. ComposerIInv' /\ MenuIInv' /\ NothingMissed' /\ StarsIInv'
  BY <1>1, <1>2, ComposerKept, ComposerAssumption, MenuKept, MissedKept, TemplateMenuAssumption, StarsKept
<1>4. ConversationIInv' /\ OverlaysIInv' /\ WorkspaceIInv'
  BY <1>1, <1>2, ConversationKept, OverlaysKept, WorkspaceKept, PartsRest
<1> QED BY <1>3, <1>4 DEF ShellIInv

LEMMA ShellIsSafe == ShellIInv => ShellInv
<1> SUFFICES ASSUME ShellIInv PROVE ShellInv
  OBVIOUS
<1>1. /\ ComposerIInv /\ MenuIInv /\ ConversationIInv
      /\ StarsIInv /\ OverlaysIInv /\ WorkspaceIInv
  BY DEF ShellIInv
<1>2. ComposerInv /\ MenuInv /\ ConversationInv /\ OverlaysInv
  BY <1>1, ComposerIsSafe, ComposerAssumption, MenuIsSafe, ConversationIsSafe, OverlaysAreSafe
<1>3. StarsInv
  BY <1>1 DEF StarsIInv
<1>4. WorkspaceTypeOK /\ ViewIsConsistent /\ TempsAreInFlight
  BY <1>1, WorkspaceIsSafe
<1> QED BY <1>2, <1>3, <1>4 DEF ShellInv

\* The invariant holds in every state of the page.
LEMMA ShellInductive == ShellSpec => []ShellIInv
BY ShellStart, ShellKept, PTL DEF ShellSpec

\* However the page is used, and whenever calls fail, time out or are carried out
\* late: what a window shows is what a reload will show, of its draft, its templates
\* and its stars; the windows, the open ones and the active one agree, and no
\* temporary window outlives its creation; the counts of unread answers agree with
\* the lists behind them; the palette agrees with what is remembered.
THEOREM ThePageIsTrue == ShellSpec => []ShellInv
BY ShellInductive, ShellIsSafe, PTL

\* Text typed into a window that is stored leaves the storage only by a gesture that
\* empties the field of that window: no call, no recall and no closing takes it.
THEOREM DraftsAreKept == ShellSpec => DraftsSurvive
<1>1. ASSUME ShellIInv, [ShellNext]_shellVars
      PROVE  [\A w \in Drafting :
                 ~temporary[w] /\ "typed" \in Saved(w) /\ "typed" \notin Saved(w)' =>
                    w \in shown /\ w \in shown' /\ draft'[w] = {}]_composerVars
  <2>1. ComposerIInv /\ [ComposerNext]_composerVars
    BY <1>1, PartsStep DEF ShellIInv
  <2> QED BY <2>1, DraftsStay, ComposerAssumption, Zenon
<1> QED BY <1>1, ShellInductive, PTL DEF ShellSpec, DraftsSurvive

\* Stars leave the storage of a window one at a time, by a click on a message of it
\* that is shown, or all at once by the palette, which lists one of them.
THEOREM StarsAreKept == ShellSpec => StarsStay
<1>1. ASSUME ShellIInv, [ShellNext]_shellVars
      PROVE  [\A w \in Panes :
                 \/ starStore[w] \subseteq starStore'[w]
                 \/ w \in onCanvas /\ \E m \in bubbles[w] : starStore'[w] = starStore[w] \ {m}
                 \/ paletteShown /\ \E s \in starredAll : s[1] = w]_starVars
  <2>1. StarsIInv /\ [StarsNext]_starVars
    BY <1>1, PartsStep DEF ShellIInv
  <2> QED BY <2>1, StarsRemain, Zenon
<1> QED BY <1>1, ShellInductive, PTL DEF ShellSpec, StarsStay

\* Whatever the menus do, a menu that was not written behind while it was closed
\* saves, changes or deletes one template and leaves every other as it is, though
\* it writes its whole list.
THEOREM TemplatesAreKept == ShellSpec => OneTemplateAtATime
<1>1. ASSUME ShellIInv, [ShellNext]_shellVars
      PROVE  [\A m \in Panes :
                 (SaveNew(m) \/ SaveEdit(m) \/ DeleteTemplate(m)) /\ ~missed[m]
                 => \E id \in 1..MaxTemplates : \A t \in Template :
                       t.id # id => (t \in templates' <=> t \in templates)]_menuVars
  <2>1. MenuIInv /\ NothingMissed
    BY <1>1, Zenon DEF ShellIInv
  <2>2. ASSUME NEW m \in Panes, SaveNew(m) \/ SaveEdit(m) \/ DeleteTemplate(m), ~missed[m]
        PROVE  \E id \in 1..MaxTemplates : \A t \in Template :
                  t.id # id => (t \in templates' <=> t \in templates)
    BY <2>1, <2>2, OneChanges, TemplateMenuAssumption
  <2> QED BY <2>2, Zenon
<1>2. QED BY <1>1, ShellInductive, PTL DEF ShellSpec, OneTemplateAtATime

\* A window that is given the focus counts as new at least what the sidebar counted
\* for it, and exactly that unless it was marked as read from outside.
THEOREM FocusIsTrue == ShellSpec => FocusShowsUnread
<1>1. ASSUME ShellIInv, [ShellNext]_shellVars
      PROVE  [~ReloadPage =>
                 \A w \in canvas : w # active /\ active' = w =>
                    /\ reader'[w].badge >= SidebarCount(w)
                    /\ w \notin marked => reader'[w].badge = SidebarCount(w)]_conversationVars
  <2>1. ConversationIInv /\ [ConversationNext]_conversationVars
    BY <1>1, PartsStep DEF ShellIInv
  <2> QED BY <2>1, UnreadStep, Zenon DEF UnreadIsShown
<1> QED BY <1>1, ShellInductive, PTL DEF ShellSpec, FocusShowsUnread

\* A window that comes into the view is temporary, or is of the rows just loaded, or
\* is put there by the settlement of the call that made it or could not delete it: no
\* other call that settles late brings a window back.
THEOREM SettlementsAreOwn == ShellSpec => OwnSettlementRestores
<1>1. ASSUME ShellIInv, [ShellNext]_shellVars
      PROVE  [OwnRestores]_workspaceVars
  <2>1. WorkspaceIInv /\ [WorkspaceNext]_workspaceVars
    BY <1>1, PartsStep DEF ShellIInv
  <2> QED BY <2>1, RestoreStep, Zenon
<1>2. [OwnRestores]_workspaceVars =>
      [\A id \in Returning :
          \/ IsLocal(id)
          \/ pool' = windows
          \/ \E c \in Calls :
                /\ calls[c].waiting /\ ~calls'[c].waiting
                /\ \/ calls[c].kind = "delete" /\ calls[c].id = id
                   \/ calls[c].kind = "create" /\ Persisted(c) = id /\ Temp(c) \in IdsOf(pool)]_workspaceVars
  BY DEF OwnRestores
<1> QED BY <1>1, <1>2, ShellInductive, PTL DEF ShellSpec, OwnSettlementRestores
=============================================================================
