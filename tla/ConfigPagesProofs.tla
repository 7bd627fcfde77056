---------------------------- MODULE ConfigPagesProofs ---------------------------
(***************************************************************************)
(* Theorems about the configuration pages of the web interface, for any    *)
(* finite set of items and every bound: an edited pane is not left, only   *)
(* the panes of deleted items go, and a page at rest shows the server's    *)
(* configuration.                                                          *)
(***************************************************************************)
EXTENDS UserInterface, FiniteSetTheorems, SequenceTheorems, WellFoundedInduction, TLAPS

(***************************************************************************)
(* The state of a page, whatever the user does: children are panes, each   *)
(* there once, one of them is selected if there is any, and what is to be  *)
(* removed is a placeholder.                                               *)
(***************************************************************************)
Pane == [item : Items, initialized : BOOLEAN, config_item : Nat, shows : Items,
         form : Nat, unsaved_changes : BOOLEAN, typed : Nat]

Timers == {"added", "select", "revert", "unflag"}

Page == [children : Seq(Nat), selected : Nat, selected_pane : Nat,
         pendingSelection : Nat, pendingRemoval : Nat,
         timers : Seq(Timers \X Nat), panes : Seq(Pane)]

Panes(a) == DOMAIN a.panes

Shows(a, p) == Contains(a.children, p)

PageShape(a) ==
    /\ a \in Page
    /\ ToSet(a.children) \subseteq Panes(a)
    /\ IsInjective(a.children)
    /\ \A i \in DOMAIN a.timers : a.timers[i][2] \in Panes(a)
    /\ {a.selected_pane, a.pendingSelection, a.pendingRemoval} \subseteq Panes(a) \cup {NoPane}
    /\ a.pendingRemoval # NoPane => ~a.panes[a.pendingRemoval].initialized

PageOK(a) ==
    /\ PageShape(a)
    /\ IF a.children = <<>> THEN a.selected = NoPane ELSE Shows(a, a.selected)

Values == Nat \cup {Absent}

Request == [type : {"load", "put", "reload", "delete", "post", "create"}, pane : Nat,
            item : Items, value : Values, phase : {"sent", "done", "refused"}]

RequestOK(r) ==
    /\ r \in Request
    /\ r.type \in {"load", "put", "delete"} => r.pane \in Panes(page)
    /\ r.type \in {"put", "post"} => r.value \in Nat
    /\ r.type \in {"put", "reload"} /\ kind # "vocabulary" => this \in Panes(page)
    /\ r.type = "delete" => this \in Panes(page)
    /\ r.type = "reload" => kind # "vocabulary"

UserOK(u) ==
    /\ {u.clicks, u.edits, u.writes, u.haste} \subseteq Nat
    /\ u.left \in BOOLEAN
    /\ u = [clicks |-> u.clicks, edits |-> u.edits, writes |-> u.writes,
            haste |-> u.haste, unsure |-> u.unsure, left |-> u.left]

PagesTyped ==
    /\ PageOK(page)
    /\ \A r \in requests : RequestOK(r)
    /\ config \in [Items -> Values]
    /\ this \in Panes(page) \cup {NoPane}
    /\ UserOK(user)

(***************************************************************************)
(* The page of a user who waits is in one of four phases.                  *)
(***************************************************************************)
IsMove(timer) == timer[1] \in {"select", "revert"}

NoMove(timers) == \A i \in DOMAIN timers : ~IsMove(timers[i])

OneMove(timers, name, p) ==
    \E i \in DOMAIN timers :
        /\ timers[i] = <<name, p>>
        /\ \A j \in DOMAIN timers : j # i => ~IsMove(timers[j])

HasAdded(timers) == \E i \in DOMAIN timers : timers[i][1] = "added"

\* n has been made to take the place of the pane that is to be removed.
Replaces(a, n) ==
    LET old == a.pendingRemoval
    IN  /\ Shows(a, old) /\ Shows(a, n) /\ n # old
        /\ a.panes[n].initialized
        /\ a.panes[n].item = a.panes[old].item

Resting(a) ==
    /\ NoMove(a.timers)
    /\ a.pendingSelection = NoPane /\ a.pendingRemoval = NoPane
    /\ a.children # <<>> => a.selected = a.selected_pane /\ a.panes[a.selected].initialized

\* Another pane has been selected and will be shown.
Leaving(a) ==
    /\ OneMove(a.timers, "select", a.selected)
    /\ a.selected # NoPane /\ a.selected # a.selected_pane
    /\ ~Unsaved(a, a.selected_pane)
    /\ a.pendingSelection = NoPane
    /\ a.pendingRemoval # NoPane => Replaces(a, a.selected)

\* A pane with a form has been put beside the selected placeholder.
Replacing(a) ==
    /\ NoMove(a.timers) /\ HasAdded(a.timers)
    /\ a.selected # NoPane /\ a.selected = a.pendingRemoval
    /\ a.pendingSelection \notin {NoPane, a.selected_pane}
    /\ ~Unsaved(a, a.selected_pane)
    /\ Replaces(a, a.pendingSelection)

\* Another pane has been selected, and the one with unsaved changes will be again.
Returning(a) ==
    /\ OneMove(a.timers, "revert", a.selected_pane)
    /\ Shows(a, a.selected_pane) /\ a.selected # a.selected_pane
    /\ a.panes[a.selected_pane].initialized
    /\ a.pendingSelection = NoPane /\ a.pendingRemoval = NoPane

PhaseOK(a) ==
    /\ Resting(a) \/ Leaving(a) \/ Replacing(a) \/ Returning(a)
    /\ Unsaved(a, a.selected_pane) => Shows(a, a.selected_pane)
    /\ \A p \in Panes(a) : a.panes[p].shows = a.panes[p].item

(***************************************************************************)
(* A request of a user who waits is alone, about the shown pane, and for   *)
(* the item that the handler of the answer will take it to be for.         *)
(***************************************************************************)
Known(item) == item \in Items \ user.unsure

Requested(r) ==
    /\ r.type \in {"load", "put", "delete"} =>
         /\ r.pane = page.selected /\ r.pane # NoPane
         /\ r.item = page.panes[r.pane].item
    /\ (r.type = "put" /\ kind # "vocabulary") \/ r.type = "delete" => this = r.pane
    /\ r.type = "reload" =>
         this = page.selected /\ this # NoPane /\ r.item = page.panes[this].item
    /\ r.type = "delete" => ~Unsaved(page, page.selected_pane)

OneRequest ==
    requests # {} => Resting(page) /\ \E r \in requests : requests = {r} /\ Requested(r)

\* What is asked of the server about an item, and the panes for it.
Asked(item) == {r.type : r \in {x \in requests : x.item = item}}

Free(types, item) == types \cap Asked(item) = {}

PanesFor(item) == {p \in ToSet(page.children) : page.panes[p].item = item}

\* An item has a pane if and only if the server has the item.
ItemShown(item) ==
    /\ Free({"post", "create", "delete"}, item) => (PanesFor(item) # {} <=> config[item] # Absent)
    /\ ~Free({"post", "create"}, item) => PanesFor(item) = {}
    /\ \A p, q \in PanesFor(item) : p = q \/ page.pendingRemoval \in {p, q}

FormAgrees(p, item) ==
    /\ page.panes[p].initialized /\ Free({"put", "delete"}, item) =>
         page.panes[p].form \in {config[item], page.panes[p].typed}
    /\ kind # "vocabulary" /\ Free({"put", "reload", "delete"}, item) =>
         page.panes[p].config_item = config[item]

ItemAgrees(item) ==
    /\ ItemShown(item)
    /\ \A p \in PanesFor(item) : FormAgrees(p, item)

\* What has been answered is still so, and what is saved is in the form.
RequestAgrees(r) ==
    /\ r.type \in {"load", "reload", "create", "put", "post"} /\ r.phase = "done" =>
         r.value = config[r.item]
    /\ r.type = "create" => config[r.item] # Absent
    /\ r.type = "delete" => (r.phase = "done" <=> config[r.item] = Absent)
    /\ r.type = "put" => page.panes[r.pane].form \in {r.value, page.panes[r.pane].typed}

Agreement ==
    /\ \A item \in Items : Known(item) => ItemAgrees(item)
    /\ \A r \in requests : Known(r.item) => RequestAgrees(r)

PhaseInv ==
    Patient /\ ~user.left => PhaseOK(page) /\ OneRequest

AgreeInv ==
    Patient /\ ~user.left => Agreement

PagesInv == PagesTyped /\ PhaseInv /\ AgreeInv

--------------------------------------------------------------------------------
(* Sequences *)

\* The least-number principle, and induction, for sets.
LEMMA LeastNat ==
    ASSUME NEW T \in SUBSET Nat, T # {}
    PROVE  \E m \in T : \A k \in T : m <= k
<1> DEFINE R == OpToRel(<, Nat)
<1>1. IsWellFoundedOn(R, Nat)  BY NatLessThanWellFounded
<1>2. PICK m \in T : \A k \in T : ~ (<<k, m>> \in R)  BY <1>1, WFMin
<1>3. \A k \in T : ~(k < m)  BY <1>2 DEF OpToRel
<1> QED  BY <1>3

\* A sequence contains what is in its range.
LEMMA ContainsIn ==
    ASSUME NEW S, NEW s \in Seq(S), NEW e
    PROVE  /\ Contains(s, e) <=> e \in ToSet(s)
           /\ ToSet(s) \subseteq S
           /\ s = <<>> <=> ToSet(s) = {}
<1>1. DOMAIN s = 1..Len(s) /\ Len(s) \in Nat /\ \A i \in 1..Len(s) : s[i] \in S  OBVIOUS
<1>2. s = <<>> <=> Len(s) = 0  OBVIOUS
<1>3. Contains(s, e) <=> e \in ToSet(s)  BY <1>1 DEF Contains, ToSet
<1>4. ToSet(s) \subseteq S  BY <1>1 DEF ToSet
<1>5. ASSUME s # <<>> PROVE s[1] \in ToSet(s)  BY <1>1, <1>2, <1>5 DEF ToSet
<1>6. s = <<>> => ToSet(s) = {}  BY <1>1, <1>2 DEF ToSet
<1> QED  BY <1>3, <1>4, <1>5, <1>6

\* The first place of an element.
LEMMA FirstPlace ==
    ASSUME NEW S, NEW s \in Seq(S), NEW e, Contains(s, e)
    PROVE  /\ SelectInSeq(s, LAMBDA v : v = e) \in 1..Len(s)
           /\ s[SelectInSeq(s, LAMBDA v : v = e)] = e
<1> DEFINE I == {j \in 1..Len(s) : s[j] = e}
<1>1. I \in SUBSET Nat /\ I # {}  BY DEF Contains
<1>2. PICK m \in I : \A k \in I : m <= k  BY <1>1, LeastNat
<1>3. SelectInSeq(s, LAMBDA v : v = e) = Min(I)  BY <1>1 DEF SelectInSeq
<1>4. Min(I) \in I  BY <1>2 DEF Min
<1> QED  BY <1>3, <1>4

\* The place of a pane in the accordion.
LEMMA IndexOfPane ==
    ASSUME NEW a, a.children \in Seq(Nat), NEW p, Contains(a.children, p)
    PROVE  /\ IndexOf(a, p) \in 1..Len(a.children)
           /\ a.children[IndexOf(a, p)] = p
<1> DEFINE I == {j \in 1..Len(a.children) : a.children[j] = p}
<1>1. I \in SUBSET Nat /\ I # {}  BY DEF Contains
<1>2. PICK m \in I : \A k \in I : m <= k  BY <1>1, LeastNat
<1>3. IndexOf(a, p) = Min(I)  BY <1>1 DEF IndexOf, SelectInSeq
<1>4. Min(I) \in I  BY <1>2 DEF Min
<1> QED  BY <1>3, <1>4

\* Taking out one element.
LEMMA RemoveAtEntries ==
    ASSUME NEW S, NEW s \in Seq(S), NEW i \in 1..Len(s)
    PROVE  LET u == RemoveAt(s, i)
           IN  /\ u \in Seq(S) /\ Len(u) = Len(s) - 1
               /\ \A j \in 1..Len(u) : u[j] = IF j < i THEN s[j] ELSE s[j + 1]
<1> DEFINE l == SubSeq(s, 1, i - 1)
           r == SubSeq(s, i + 1, Len(s))
<1>1. l \in Seq(S) /\ Len(l) = i - 1 /\ \A j \in 1..(i - 1) : l[j] = s[j]  OBVIOUS
<1>2. /\ r \in Seq(S) /\ Len(r) = Len(s) - i
      /\ \A j \in 1..(Len(s) - i) : r[j] = s[i + j]
  OBVIOUS
<1> HIDE DEF l, r
<1>3. RemoveAt(s, i) = l \o r  BY DEF RemoveAt, l, r
<1>4. l \o r \in Seq(S) /\ Len(l \o r) = Len(s) - 1
  <2>1. l \in Seq(S) /\ r \in Seq(S)  BY <1>1, <1>2
  <2>2. l \o r \in Seq(S) /\ Len(l \o r) = Len(l) + Len(r)  BY ONLY <2>1, ConcatProperties
  <2> QED  BY <1>1, <1>2, <2>2
<1>5. ASSUME NEW j \in 1..(Len(s) - 1)
      PROVE  (l \o r)[j] = IF j < i THEN s[j] ELSE s[j + 1]
  <2>1. CASE j < i  BY <1>1, <1>2, <2>1
  <2>2. CASE ~(j < i)
    <3>1. j - (i - 1) \in 1..(Len(s) - i) /\ i + (j - (i - 1)) = j + 1  BY <2>2
    <3>2. (l \o r)[j] = r[j - (i - 1)]  BY <1>1, <1>2, <2>2
    <3> QED  BY <1>2, <2>2, <3>1, <3>2
  <2> QED  BY <2>1, <2>2
<1> QED  BY <1>3, <1>4, <1>5

\* Putting one in.
LEMMA InsertAtEntries ==
    ASSUME NEW S, NEW s \in Seq(S), NEW i \in 1..(Len(s) + 1), NEW e \in S
    PROVE  LET u == InsertAt(s, i, e)
           IN  /\ u \in Seq(S) /\ Len(u) = Len(s) + 1
               /\ \A j \in 1..(Len(s) + 1) :
                    u[j] = IF j < i THEN s[j] ELSE IF j = i THEN e ELSE s[j - 1]
<1> DEFINE l == SubSeq(s, 1, i - 1)
           r == SubSeq(s, i, Len(s))
           m == l \o <<e>>
<1>1. l \in Seq(S) /\ Len(l) = i - 1 /\ \A j \in 1..(i - 1) : l[j] = s[j]  OBVIOUS
<1>2. /\ r \in Seq(S) /\ Len(r) = Len(s) - i + 1
      /\ \A j \in 1..(Len(s) - i + 1) : r[j] = s[i + j - 1]
  OBVIOUS
<1> HIDE DEF l, r
<1>3. m \in Seq(S) /\ Len(m) = i /\ m[i] = e /\ \A j \in 1..(i - 1) : m[j] = s[j]
  BY <1>1
<1>4. InsertAt(s, i, e) = m \o r  BY DEF InsertAt, l, r
<1> HIDE DEF m
<1>5. m \o r \in Seq(S) /\ Len(m \o r) = Len(s) + 1
  <2>1. m \in Seq(S) /\ r \in Seq(S)  BY <1>2, <1>3
  <2>2. m \o r \in Seq(S) /\ Len(m \o r) = Len(m) + Len(r)  BY ONLY <2>1, ConcatProperties
  <2> QED  BY <1>2, <1>3, <2>2
<1>6. ASSUME NEW j \in 1..(Len(s) + 1)
      PROVE  (m \o r)[j] = IF j < i THEN s[j] ELSE IF j = i THEN e ELSE s[j - 1]
  <2>1. CASE j <= i  BY <1>2, <1>3, <2>1
  <2>2. CASE ~(j <= i)
    <3>1. j - i \in 1..(Len(s) - i + 1) /\ i + (j - i) - 1 = j - 1  BY <2>2
    <3>2. (m \o r)[j] = r[j - i]  BY <1>2, <1>3, <2>2
    <3> QED  BY <1>2, <2>2, <3>1, <3>2
  <2> QED  BY <2>1, <2>2
<1> QED  BY <1>4, <1>5, <1>6

\* A new element put into a list without repetitions.
LEMMA InsertNew ==
    ASSUME NEW S, NEW s \in Seq(S), IsInjective(s), NEW i \in 1..(Len(s) + 1),
           NEW e \in S, e \notin ToSet(s)
    PROVE  /\ InsertAt(s, i, e) \in Seq(S)
           /\ IsInjective(InsertAt(s, i, e))
           /\ ToSet(InsertAt(s, i, e)) = ToSet(s) \cup {e}
<1> DEFINE u == InsertAt(s, i, e)
<1>1. /\ u \in Seq(S) /\ Len(u) = Len(s) + 1 /\ Len(s) \in Nat
      /\ \A j \in 1..(Len(s) + 1) :
           u[j] = IF j < i THEN s[j] ELSE IF j = i THEN e ELSE s[j - 1]
  <2>1. Len(s) \in Nat  OBVIOUS
  <2> QED  BY <2>1, InsertAtEntries
<1> HIDE DEF u
<1>2. DOMAIN u = 1..(Len(s) + 1) /\ DOMAIN s = 1..Len(s)  BY <1>1
<1>3. \A j, k \in 1..Len(s) : s[j] = s[k] => j = k  BY <1>2 DEF IsInjective
<1>4. \A j \in 1..Len(s) : s[j] # e  BY <1>2 DEF ToSet
<1>5. ASSUME NEW j \in 1..(Len(s) + 1), NEW k \in 1..(Len(s) + 1), u[j] = u[k]
      PROVE  j = k
  <2> PICK n \in Nat : n = Len(s)  BY <1>1
  <2>1. j \in 1..(n + 1) /\ k \in 1..(n + 1) /\ i \in 1..(n + 1)  OBVIOUS
  <2>2. \A x, y \in 1..n : s[x] = s[y] => x = y  BY <1>3
  <2>3. \A x \in 1..n : s[x] # e  BY <1>4
  <2>4. \A x \in 1..(n + 1) : u[x] = IF x < i THEN s[x] ELSE IF x = i THEN e ELSE s[x - 1]
    BY <1>1
  <2> QED  BY <1>5, <2>1, <2>2, <2>3, <2>4
<1>6. ASSUME NEW j \in 1..(Len(s) + 1) PROVE u[j] \in ToSet(s) \cup {e}
  BY <1>1, <1>2 DEF ToSet
<1>7. ASSUME NEW j \in 1..Len(s) PROVE \E k \in 1..(Len(s) + 1) : u[k] = s[j]
  <2>1. CASE j < i  BY <1>1, <2>1
  <2>2. CASE ~(j < i)
    <3>1. j + 1 \in 1..(Len(s) + 1) /\ ~(j + 1 < i) /\ j + 1 # i /\ (j + 1) - 1 = j  BY <2>2
    <3>2. u[j + 1] = s[j]  BY <1>1, <3>1
    <3> QED  BY <3>1, <3>2
  <2> QED  BY <2>1, <2>2
<1>8. u[i] = e  BY <1>1
<1>9. ToSet(u) = ToSet(s) \cup {e}  BY <1>2, <1>6, <1>7, <1>8 DEF ToSet
<1> QED  BY <1>1, <1>2, <1>5, <1>9 DEF u, IsInjective

\* An element taken out of a list without repetitions.
LEMMA RemoveFound ==
    ASSUME NEW S, NEW s \in Seq(S), IsInjective(s), NEW e
    PROVE  /\ RemoveFirst(s, e) \in Seq(S)
           /\ IsInjective(RemoveFirst(s, e))
           /\ ToSet(RemoveFirst(s, e)) = ToSet(s) \ {e}
<1>1. CASE ~Contains(s, e)
  <2>1. RemoveFirst(s, e) = s  BY <1>1 DEF RemoveFirst, Contains
  <2>2. e \notin ToSet(s)  BY <1>1, ContainsIn
  <2> QED  BY <2>1, <2>2
<1>2. CASE Contains(s, e)
  <2> DEFINE i == SelectInSeq(s, LAMBDA v : v = e)
             u == RemoveAt(s, i)
  <2>1. i \in 1..Len(s) /\ s[i] = e  BY <1>2, FirstPlace
  <2>2. RemoveFirst(s, e) = u  BY <1>2 DEF RemoveFirst, Contains
  <2> HIDE DEF i
  <2>3. /\ u \in Seq(S) /\ Len(u) = Len(s) - 1 /\ Len(s) \in Nat
        /\ \A j \in 1..Len(u) : u[j] = IF j < i THEN s[j] ELSE s[j + 1]
    BY <2>1, RemoveAtEntries
  <2> HIDE DEF u
  <2>4. DOMAIN u = 1..(Len(s) - 1) /\ DOMAIN s = 1..Len(s)  BY <2>3
  <2>5. \A j, k \in 1..Len(s) : s[j] = s[k] => j = k  BY <2>4 DEF IsInjective
  <2>6. ASSUME NEW j \in 1..(Len(s) - 1), NEW k \in 1..(Len(s) - 1), u[j] = u[k]
        PROVE  j = k
    <3> PICK n \in Nat : n = Len(s)  BY <2>3
    <3>1. j \in 1..(n - 1) /\ k \in 1..(n - 1) /\ i \in 1..n  BY <2>1
    <3>2. \A x, y \in 1..n : s[x] = s[y] => x = y  BY <2>5
    <3>3. \A x \in 1..(n - 1) : u[x] = IF x < i THEN s[x] ELSE s[x + 1]  BY <2>3
    <3> QED  BY <2>6, <3>1, <3>2, <3>3
  <2>7. ASSUME NEW j \in 1..(Len(s) - 1) PROVE u[j] \in ToSet(s) \ {e}
    <3>1. CASE j < i
      <4>1. u[j] = s[j] /\ j \in 1..Len(s) /\ j # i  BY <2>1, <2>3, <3>1
      <4> QED  BY <2>1, <2>4, <2>5, <4>1 DEF ToSet
    <3>2. CASE ~(j < i)
      <4>1. u[j] = s[j + 1] /\ j + 1 \in 1..Len(s) /\ j + 1 # i  BY <2>1, <2>3, <3>2
      <4> QED  BY <2>1, <2>4, <2>5, <4>1 DEF ToSet
    <3> QED  BY <3>1, <3>2
  <2>8. ASSUME NEW j \in 1..Len(s), s[j] # e PROVE \E k \in 1..(Len(s) - 1) : u[k] = s[j]
    <3>1. CASE j < i
      <4>1. j \in 1..(Len(s) - 1) /\ u[j] = s[j]  BY <2>1, <2>3, <3>1
      <4> QED  BY <4>1
    <3>2. CASE ~(j < i)
      <4>1. j # i  BY <2>1, <2>8
      <4>2. j - 1 \in 1..(Len(s) - 1) /\ ~(j - 1 < i) /\ (j - 1) + 1 = j  BY <2>1, <3>2, <4>1
      <4>3. u[j - 1] = s[j]  BY <2>3, <4>2
      <4> QED  BY <4>2, <4>3
    <3> QED  BY <3>1, <3>2
  <2>9. ToSet(u) \subseteq ToSet(s) \ {e}  BY <2>4, <2>7 DEF ToSet
  <2>10. ToSet(s) \ {e} \subseteq ToSet(u)  BY <2>4, <2>8 DEF ToSet
  <2>11. IsInjective(u)  BY <2>4, <2>6 DEF IsInjective
  <2> QED  BY <2>2, <2>3, <2>9, <2>10, <2>11
<1> QED  BY <1>1, <1>2

\* One more timer.
TimerSet(t, u, timer, p) ==
    /\ u \in Seq(Timers \X Nat)
    /\ \A P : (\A i \in DOMAIN t : t[i][2] \in P) /\ p \in P => \A i \in DOMAIN u : u[i][2] \in P
    /\ NoMove(t) /\ timer \notin {"select", "revert"} => NoMove(u)
    /\ NoMove(t) /\ timer \in {"select", "revert"} => OneMove(u, timer, p)
    /\ \A n, q : OneMove(t, n, q) /\ timer \notin {"select", "revert"} => OneMove(u, n, q)
    /\ HasAdded(t) \/ timer = "added" => HasAdded(u)

\* A timer is set, behind those there are.
LEMMA AppendTimer ==
    ASSUME NEW t \in Seq(Timers \X Nat), NEW timer, timer \in Timers, NEW p, p \in Nat
    PROVE  TimerSet(t, Append(t, <<timer, p>>), timer, p)
<1> DEFINE x == <<timer, p>>
           u == Append(t, x)
<1>1. x \in Timers \X Nat /\ x[1] = timer /\ x[2] = p  OBVIOUS
<1> HIDE DEF x
<1>2. PICK n \in Nat : n = Len(t)  OBVIOUS
<1>3. u \in Seq(Timers \X Nat)  BY <1>1
<1>4. DOMAIN t = 1..n /\ DOMAIN u = 1..(n + 1) /\ u[n + 1] = x /\ \A i \in 1..n : u[i] = t[i]
  BY <1>1, <1>2
<1>5. \A i \in 1..(n + 1) : i \in 1..n \/ i = n + 1  OBVIOUS
<1>6. n + 1 \in 1..(n + 1) /\ n + 1 \notin 1..n /\ 1..n \subseteq 1..(n + 1)  OBVIOUS
<1> HIDE DEF u
<1>7. \A P : (\A i \in DOMAIN t : t[i][2] \in P) /\ p \in P => \A i \in DOMAIN u : u[i][2] \in P
  BY <1>1, <1>4, <1>5
<1>8. NoMove(t) /\ timer \notin {"select", "revert"} => NoMove(u)
  BY <1>1, <1>4, <1>5 DEF NoMove, IsMove
<1>9. ASSUME NoMove(t) PROVE OneMove(u, timer, p)
  <2>1. u[n + 1] = <<timer, p>>  BY <1>4 DEF x
  <2>2. \A j \in 1..(n + 1) : j # n + 1 => ~IsMove(u[j])  BY <1>4, <1>5, <1>9 DEF NoMove
  <2> QED  BY <1>4, <1>6, <2>1, <2>2 DEF OneMove
<1>10. ASSUME NEW m, NEW q, OneMove(t, m, q), timer \notin {"select", "revert"}
       PROVE  OneMove(u, m, q)
  <2>1. PICK i \in 1..n : t[i] = <<m, q>> /\ \A j \in 1..n : j # i => ~IsMove(t[j])
    BY <1>4, <1>10 DEF OneMove
  <2>2. ~IsMove(x)  BY <1>1, <1>10 DEF IsMove
  <2>3. \A j \in 1..(n + 1) : j # i => ~IsMove(u[j])  BY <1>4, <1>5, <2>1, <2>2
  <2> QED  BY <1>4, <1>6, <2>1, <2>3 DEF OneMove
<1>11. HasAdded(t) \/ timer = "added" => HasAdded(u)  BY <1>1, <1>4, <1>6 DEF HasAdded
<1> QED  BY <1>3, <1>7, <1>8, <1>9, <1>10, <1>11 DEF TimerSet, u, x

\* One timer less.
TimerGone(t, u, timer) ==
    /\ u \in Seq(Timers \X Nat)
    /\ \A P : (\A j \in DOMAIN t : t[j][2] \in P) => \A j \in DOMAIN u : u[j][2] \in P
    /\ NoMove(t) => NoMove(u)
    /\ \A n \in {"select", "revert"} : \A q : OneMove(t, n, q) /\ ~IsMove(timer) => OneMove(u, n, q)
    /\ \A n, q : OneMove(t, n, q) /\ IsMove(timer) => timer = <<n, q>> /\ NoMove(u)
    /\ HasAdded(t) /\ timer[1] # "added" => HasAdded(u)

\* A timer fires, and those behind it move up.
LEMMA RemoveTimer ==
    ASSUME NEW t \in Seq(Timers \X Nat), NEW i \in DOMAIN t
    PROVE  TimerGone(t, RemoveAt(t, i), t[i])
<1> DEFINE u == RemoveAt(t, i)
           Old(j) == IF j < i THEN j ELSE j + 1
<1>1. PICK n \in Nat : n = Len(t)  OBVIOUS
<1>2. DOMAIN t = 1..n /\ i \in 1..n  BY <1>1
<1>3. /\ u \in Seq(Timers \X Nat) /\ Len(u) = n - 1
      /\ \A j \in 1..Len(u) : u[j] = IF j < i THEN t[j] ELSE t[j + 1]
  BY <1>1, <1>2, RemoveAtEntries
<1>4. DOMAIN u = 1..(n - 1)  BY <1>3
<1> HIDE DEF u
<1>5. ASSUME NEW j \in 1..(n - 1) PROVE Old(j) \in 1..n /\ Old(j) # i /\ u[j] = t[Old(j)]
  <2>1. Old(j) \in 1..n /\ Old(j) # i  BY <1>2
  <2>2. u[j] = t[Old(j)]  BY <1>3
  <2> QED  BY <2>1, <2>2
<1>6. ASSUME NEW k \in 1..n, k # i PROVE \E j \in 1..(n - 1) : Old(j) = k
  <2>1. CASE k < i
    <3>1. k \in 1..(n - 1) /\ Old(k) = k  BY <1>2, <2>1
    <3> QED  BY <3>1
  <2>2. CASE ~(k < i)
    <3>1. k - 1 \in 1..(n - 1) /\ Old(k - 1) = k  BY <1>2, <1>6, <2>2
    <3> QED  BY <3>1
  <2> QED  BY <2>1, <2>2
<1>7. \A j, k \in 1..(n - 1) : Old(j) = Old(k) => j = k  BY <1>2
<1> HIDE DEF Old
<1>8. \A P : (\A j \in DOMAIN t : t[j][2] \in P) => \A j \in DOMAIN u : u[j][2] \in P
  BY <1>2, <1>4, <1>5
<1>9. NoMove(t) => NoMove(u)  BY <1>2, <1>4, <1>5 DEF NoMove
<1>10. ASSUME NEW m, NEW q, OneMove(t, m, q)
       PROVE  /\ m \in {"select", "revert"} /\ ~IsMove(t[i]) => OneMove(u, m, q)
              /\ IsMove(t[i]) => t[i] = <<m, q>> /\ NoMove(u)
  <2>1. PICK k \in 1..n : t[k] = <<m, q>> /\ \A j \in 1..n : j # k => ~IsMove(t[j])
    BY <1>2, <1>10 DEF OneMove
  <2>2. CASE k = i
    <3>1. \A j \in 1..(n - 1) : ~IsMove(u[j])  BY <1>5, <2>1, <2>2
    <3>2. NoMove(u)  BY <1>4, <3>1 DEF NoMove
    <3>3. m \in {"select", "revert"} => IsMove(t[i])  BY <2>1, <2>2 DEF IsMove
    <3> QED  BY <2>1, <2>2, <3>2, <3>3
  <2>3. CASE k # i
    <3>1. PICK j \in 1..(n - 1) : Old(j) = k  BY <1>6, <2>3
    <3>2. u[j] = <<m, q>>  BY <1>5, <2>1, <3>1
    <3>3. \A l \in 1..(n - 1) : l # j => ~IsMove(u[l])  BY <1>5, <1>7, <2>1, <3>1
    <3>4. ~IsMove(t[i])  BY <1>2, <2>1, <2>3
    <3> QED  BY <1>4, <3>2, <3>3, <3>4 DEF OneMove
  <2> QED  BY <2>2, <2>3
<1>11. ASSUME HasAdded(t), t[i][1] # "added" PROVE HasAdded(u)
  <2>1. PICK k \in 1..n : t[k][1] = "added"  BY <1>2, <1>11 DEF HasAdded
  <2>2. PICK j \in 1..(n - 1) : Old(j) = k  BY <1>6, <1>11, <2>1
  <2> QED  BY <1>4, <1>5, <2>1, <2>2 DEF HasAdded
<1> QED  BY <1>3, <1>8, <1>9, <1>10, <1>11 DEF TimerGone, u

--------------------------------------------------------------------------------
(* The accordion *)

Kept(a, b) ==
    /\ b.panes = a.panes
    /\ b.selected_pane = a.selected_pane
    /\ b.pendingSelection = a.pendingSelection
    /\ b.pendingRemoval = a.pendingRemoval

\* A timer, set or fired, changes nothing else.
LEMMA TimersOnly ==
    ASSUME NEW a, PageShape(a), NEW t \in Seq(Timers \X Nat),
           \A i \in DOMAIN t : t[i][2] \in Panes(a)
    PROVE  LET b == [a EXCEPT !.timers = t]
           IN  /\ PageShape(b) /\ (PageOK(a) => PageOK(b))
               /\ Kept(a, b) /\ b.children = a.children /\ b.selected = a.selected
               /\ b.timers = t
<1> DEFINE b == [a EXCEPT !.timers = t]
<1>1. a \in Page  BY DEF PageShape
<1>2. /\ b \in Page /\ b.children = a.children /\ b.selected = a.selected /\ b.panes = a.panes
      /\ b.selected_pane = a.selected_pane /\ b.pendingSelection = a.pendingSelection
      /\ b.pendingRemoval = a.pendingRemoval /\ b.timers = t
  BY <1>1 DEF Page
<1> HIDE DEF b
<1>3. PageShape(b)  BY <1>2 DEF PageShape, Panes
<1>4. PageOK(a) => PageOK(b)  BY <1>2, <1>3 DEF PageOK, Shows
<1> QED  BY <1>2, <1>3, <1>4 DEF b, Kept

\* What selecting a pane does.
ChildSelected(a, b, p) ==
    /\ PageShape(b) /\ (PageOK(a) => PageOK(b))
    /\ Kept(a, b) /\ b.children = a.children
    /\ b.selected = IF Shows(a, p) THEN p ELSE a.selected
    /\ b.timers = IF p = a.selected \/ ~Shows(a, p) \/ p = a.selected_pane
                    THEN a.timers
                  ELSE IF Unsaved(a, a.selected_pane)
                    THEN Append(a.timers, <<"revert", a.selected_pane>>)
                    ELSE Append(a.timers, <<"select", p>>)

\* The timer that it sets is to show the pane, or to return to the shown one.
LEMMA SelectChildPage ==
    ASSUME NEW a, PageShape(a), NEW p
    PROVE  ChildSelected(a, SelectChild(a, p), p)
<1>1. a \in Page /\ a.timers \in Seq(Timers \X Nat)  BY DEF PageShape, Page
<1>2. CASE p = a.selected \/ ~Shows(a, p)
  <2>1. SelectChild(a, p) = a  BY <1>2 DEF SelectChild, Shows
  <2> QED  BY <1>2, <2>1 DEF Kept, ChildSelected
<1>3. CASE ~(p = a.selected \/ ~Shows(a, p))
  <2> DEFINE c == [a EXCEPT !.selected = p]
  <2>1. SelectChild(a, p) = PaneSelected(c, p)  BY <1>3 DEF SelectChild, Shows
  <2>2. p \in ToSet(a.children) /\ p \in Panes(a) /\ p \in Nat
    <3>1. p \in ToSet(a.children)  BY <1>1, <1>3, ContainsIn DEF Shows, Page
    <3>2. Panes(a) \subseteq Nat  BY <1>1 DEF Panes, Page
    <3> QED  BY <3>1, <3>2 DEF PageShape
  <2>3. /\ c \in Page /\ c.children = a.children /\ c.panes = a.panes /\ c.selected = p
        /\ c.selected_pane = a.selected_pane /\ c.pendingSelection = a.pendingSelection
        /\ c.pendingRemoval = a.pendingRemoval /\ c.timers = a.timers
    BY <1>1, <2>2 DEF Page
  <2> HIDE DEF c
  <2>4. PageShape(c) /\ PageOK(c) /\ Kept(a, c)
    <3>1. PageShape(c)  BY <2>3 DEF PageShape, Panes
    <3>2. a.children # <<>>  BY <1>1, <2>2, ContainsIn DEF Page
    <3> QED  BY <1>3, <2>3, <3>1, <3>2 DEF PageOK, Shows, Kept
  <2>5. Unsaved(c, c.selected_pane) <=> Unsaved(a, a.selected_pane)  BY <2>3 DEF Unsaved
  <2>6. CASE p = a.selected_pane
    <3>1. PaneSelected(c, p) = c  BY <2>3, <2>6 DEF PaneSelected
    <3> QED  BY <1>3, <2>1, <2>3, <2>4, <2>6, <3>1 DEF ChildSelected
  <2>7. CASE p # a.selected_pane
    <3> DEFINE timer == IF Unsaved(a, a.selected_pane) THEN "revert" ELSE "select"
               q == IF Unsaved(a, a.selected_pane) THEN a.selected_pane ELSE p
               t == Append(a.timers, <<timer, q>>)
    <3>1. PaneSelected(c, p) = [c EXCEPT !.timers = t]
      <4>1. CASE Unsaved(a, a.selected_pane)
        BY <2>3, <2>5, <2>7, <4>1 DEF PaneSelected, SetTimeout
      <4>2. CASE ~Unsaved(a, a.selected_pane)
        BY <2>3, <2>5, <2>7, <4>2 DEF PaneSelected, SetTimeout
      <4> QED  BY <4>1, <4>2
    <3>2. q \in Panes(a) /\ timer \in Timers
      <4>1. Unsaved(a, a.selected_pane) => a.selected_pane \in Panes(a)
        BY DEF PageShape, Unsaved
      <4> QED  BY <2>2, <4>1 DEF Timers
    <3>3. q \in Nat  BY <1>1, <3>2 DEF Panes, Page
    <3>4. t = IF Unsaved(a, a.selected_pane) THEN Append(a.timers, <<"revert", a.selected_pane>>)
              ELSE Append(a.timers, <<"select", p>>)
      OBVIOUS
    <3> HIDE DEF q, timer
    <3>5. t \in Seq(Timers \X Nat) /\ \A i \in DOMAIN t : t[i][2] \in Panes(c)
      <4>1. \A i \in DOMAIN a.timers : a.timers[i][2] \in Panes(a)  BY DEF PageShape
      <4>2. Panes(c) = Panes(a)  BY <2>3 DEF Panes
      <4> QED  BY <1>1, <3>2, <3>3, <4>1, <4>2, AppendTimer DEF TimerSet
    <3> HIDE DEF t
    <3>6. LET b == [c EXCEPT !.timers = t]
          IN  PageOK(b) /\ PageShape(b) /\ Kept(c, b) /\ b.children = c.children
              /\ b.selected = c.selected /\ b.timers = t
      BY <2>4, <3>5, TimersOnly
    <3> QED  BY <1>3, <2>1, <2>3, <2>7, <3>1, <3>4, <3>6 DEF Kept, ChildSelected
  <2> QED  BY <2>6, <2>7
<1> QED  BY <1>2, <1>3

\* What removing a pane does.
LEMMA RemoveChildPage ==
    ASSUME NEW a, PageOK(a), NEW p \in Panes(a)
    PROVE  LET b == RemoveChild(a, p)
           IN  /\ PageOK(b) /\ Kept(a, b)
               /\ ToSet(b.children) = ToSet(a.children) \ {p}
               /\ p # a.selected => b.selected = a.selected /\ b.timers = a.timers
               /\ ToSet(a.children) = {p} => b.timers = a.timers
<1> DEFINE b == [a EXCEPT !.children = RemoveFirst(@, p)]
           c == [b EXCEPT !.selected = NoPane]
<1>1. PageShape(a) /\ a \in Page /\ a.children \in Seq(Nat) /\ IsInjective(a.children)
  BY DEF PageOK, PageShape, Page
<1>2. /\ b.children \in Seq(Nat) /\ IsInjective(b.children)
      /\ ToSet(b.children) = ToSet(a.children) \ {p}
  BY <1>1, RemoveFound DEF Page
<1>3. /\ b \in Page /\ b.selected = a.selected /\ b.panes = a.panes
      /\ b.selected_pane = a.selected_pane /\ b.pendingSelection = a.pendingSelection
      /\ b.pendingRemoval = a.pendingRemoval /\ b.timers = a.timers
  BY <1>1, <1>2 DEF Page
<1>4. c = [a EXCEPT !.children = RemoveFirst(@, p), !.selected = NoPane]  BY <1>1 DEF Page
<1> HIDE DEF b
<1>5. PageShape(b) /\ Kept(a, b)
  BY <1>1, <1>2, <1>3 DEF PageShape, Panes, Kept
<1>6. CASE a.selected # p
  <2>1. RemoveChild(a, p) = b  BY <1>6 DEF RemoveChild, b
  <2>2. a.children # <<>> => Shows(b, a.selected)
    <3>1. a.children # <<>> => a.selected \in ToSet(a.children)
      BY <1>1, ContainsIn DEF PageOK, Shows
    <3> QED  BY <1>2, <1>6, <3>1, ContainsIn DEF Shows
  <2>3. a.children = <<>> => a.selected = NoPane /\ b.children = <<>>
    BY <1>1, <1>2, ContainsIn DEF PageOK
  <2>4. b.children = <<>> => a.children = <<>>
    BY <1>2, <2>2, ContainsIn DEF Shows
  <2>5. PageOK(b)  BY <1>3, <1>5, <2>2, <2>3, <2>4 DEF PageOK
  <2> QED  BY <1>2, <1>3, <1>5, <1>6, <2>1, <2>5
<1>7. CASE a.selected = p
  <2>1. /\ c \in Page /\ c.selected = NoPane /\ c.panes = a.panes
        /\ c.selected_pane = a.selected_pane /\ c.pendingSelection = a.pendingSelection
        /\ c.pendingRemoval = a.pendingRemoval /\ c.timers = a.timers
        /\ c.children = b.children
    BY <1>3 DEF Page, NoPane
  <2>2. RemoveChild(a, p) = IF b.children = <<>> THEN c ELSE SelectChild(c, Head(b.children))
    BY <1>7 DEF RemoveChild, b
  <2> HIDE DEF c
  <2>3. PageShape(c) /\ Kept(a, c)
    BY <1>5, <2>1, <1>3 DEF PageShape, Panes, Kept
  <2>4. CASE b.children = <<>>
    BY <1>2, <1>7, <2>1, <2>2, <2>3, <2>4 DEF PageOK
  <2>5. CASE b.children # <<>>
    <3> DEFINE q == Head(b.children)
    <3>1. q \in ToSet(b.children)
      <4>1. 1 \in DOMAIN b.children /\ q = b.children[1]  BY <1>2, <2>5
      <4> QED  BY <4>1 DEF ToSet
    <3> HIDE DEF q
    <3>2. Shows(c, q)  BY <1>2, <2>1, <3>1, ContainsIn DEF Shows
    <3> DEFINE d == SelectChild(c, q)
    <3>3. PageShape(d) /\ Kept(c, d) /\ d.children = c.children /\ d.selected = q
      BY <2>3, <3>2, SelectChildPage DEF ChildSelected
    <3>4. RemoveChild(a, p) = d  BY <2>2, <2>5 DEF q
    <3> HIDE DEF d
    <3>5. PageOK(d) /\ Kept(a, d)
      BY <2>1, <2>3, <2>5, <3>2, <3>3 DEF PageOK, Shows, Kept
    <3>6. ToSet(a.children) # {p}  BY <1>2, <3>1
    <3> QED  BY <1>2, <1>7, <2>1, <3>3, <3>4, <3>5, <3>6
  <2> QED  BY <2>4, <2>5
<1> QED  BY <1>6, <1>7

\* What adding a pane does.
LEMMA AddChildPage ==
    ASSUME NEW a, PageOK(a), NEW p \in Panes(a), p \notin ToSet(a.children),
           NEW idx \in 1..(Len(a.children) + 1)
    PROVE  LET b == AddChild(a, p, idx)
               t == Append(a.timers, <<"added", p>>)
           IN  /\ PageOK(b) /\ Kept(a, b)
               /\ ToSet(b.children) = ToSet(a.children) \cup {p}
               /\ b.selected = IF a.selected = NoPane THEN p ELSE a.selected
               /\ b.timers = IF a.selected # NoPane \/ p = a.selected_pane THEN t
                             ELSE IF Unsaved(a, a.selected_pane)
                               THEN Append(t, <<"revert", a.selected_pane>>)
                               ELSE Append(t, <<"select", p>>)
<1> DEFINE c == [a EXCEPT !.children = InsertAt(@, idx, p)]
           t == Append(a.timers, <<"added", p>>)
           d == [c EXCEPT !.timers = t]
<1>1. /\ PageShape(a) /\ a \in Page /\ a.children \in Seq(Nat) /\ IsInjective(a.children)
      /\ p \in Nat /\ p # NoPane /\ a.timers \in Seq(Timers \X Nat)
  <2>1. PageShape(a) /\ a \in Page  BY DEF PageOK, PageShape
  <2>2. p \in Nat /\ p # NoPane  BY <2>1 DEF Panes, Page, NoPane
  <2> QED  BY <2>1, <2>2 DEF PageShape, Page
<1>2. /\ c.children \in Seq(Nat) /\ IsInjective(c.children)
      /\ ToSet(c.children) = ToSet(a.children) \cup {p}
  <2>1. c.children = InsertAt(a.children, idx, p)  BY <1>1 DEF Page
  <2> HIDE DEF c
  <2> QED  BY <1>1, <2>1, InsertNew
<1>3. /\ c \in Page /\ c.selected = a.selected /\ c.panes = a.panes
      /\ c.selected_pane = a.selected_pane /\ c.pendingSelection = a.pendingSelection
      /\ c.pendingRemoval = a.pendingRemoval /\ c.timers = a.timers
  BY <1>1, <1>2 DEF Page
<1>4. AddChild(a, p, idx) = IF d.selected = NoPane THEN SelectChild(d, p) ELSE d
  BY <1>3 DEF AddChild, SetTimeout
<1> HIDE DEF c
<1>5. PageShape(c) /\ Kept(a, c)
  BY <1>1, <1>2, <1>3 DEF PageShape, Panes, Kept
<1>6. t \in Seq(Timers \X Nat) /\ \A i \in DOMAIN t : t[i][2] \in Panes(c)
  <2>1. \A i \in DOMAIN a.timers : a.timers[i][2] \in Panes(a)  BY <1>1 DEF PageShape
  <2>2. "added" \in Timers /\ Panes(c) = Panes(a)  BY <1>3 DEF Timers, Panes
  <2> QED  BY <1>1, <2>1, <2>2, AppendTimer DEF TimerSet
<1> HIDE DEF t
<1>7. /\ PageShape(d) /\ Kept(c, d) /\ d.children = c.children /\ d.selected = c.selected
      /\ d.timers = t
  BY <1>5, <1>6, TimersOnly
<1> HIDE DEF d
<1>8. Shows(d, p)  BY <1>2, <1>7, ContainsIn DEF Shows
<1>9. d.children # <<>>  BY <1>2, <1>7, ContainsIn
<1>10. CASE a.selected # NoPane
  <2>1. AddChild(a, p, idx) = d  BY <1>3, <1>4, <1>7, <1>10
  <2>2. a.selected \in ToSet(a.children)  BY <1>1, <1>10, ContainsIn DEF PageOK, Shows
  <2>3. Shows(d, d.selected)  BY <1>2, <1>3, <1>7, <2>2, ContainsIn DEF Shows
  <2>4. PageOK(d)  BY <1>7, <1>9, <2>3 DEF PageOK
  <2> QED  BY <1>2, <1>3, <1>5, <1>7, <1>10, <2>1, <2>4 DEF Kept, t
<1>11. CASE a.selected = NoPane
  <2> DEFINE e == SelectChild(d, p)
  <2>1. AddChild(a, p, idx) = e  BY <1>3, <1>4, <1>7, <1>11
  <2>2. /\ PageShape(e) /\ Kept(d, e) /\ e.children = d.children /\ e.selected = p
        /\ e.timers = IF p = a.selected_pane THEN t
                      ELSE IF Unsaved(a, a.selected_pane)
                        THEN Append(t, <<"revert", a.selected_pane>>)
                        ELSE Append(t, <<"select", p>>)
    <3>1. d.selected_pane = a.selected_pane /\ d.timers = t /\ d.selected = NoPane
      BY <1>3, <1>7, <1>11 DEF Kept
    <3>2. Unsaved(d, a.selected_pane) <=> Unsaved(a, a.selected_pane)
      BY <1>3, <1>7 DEF Unsaved, Kept
    <3>3. /\ PageShape(e) /\ Kept(d, e) /\ e.children = d.children
          /\ e.selected = IF Shows(d, p) THEN p ELSE d.selected
          /\ e.timers = IF p = d.selected \/ ~Shows(d, p) \/ p = d.selected_pane
                               THEN d.timers
                             ELSE IF Unsaved(d, d.selected_pane)
                               THEN Append(d.timers, <<"revert", d.selected_pane>>)
                               ELSE Append(d.timers, <<"select", p>>)
      BY <1>7, SelectChildPage DEF ChildSelected
    <3> HIDE DEF e
    <3> QED  BY <1>1, <1>8, <3>1, <3>2, <3>3
  <2> HIDE DEF e
  <2>3. PageOK(e)  BY <1>8, <1>9, <2>2 DEF PageOK, Shows
  <2> QED  BY <1>2, <1>5, <1>7, <1>11, <2>1, <2>2, <2>3 DEF Kept, t
<1> QED  BY <1>10, <1>11

\* One more pane, which is not yet in the accordion.
LEMMA NewPanePage ==
    ASSUME NEW a, PageOK(a), NEW x \in Pane
    PROVE  LET b == [a EXCEPT !.panes = Append(@, x)]
               new == Len(a.panes) + 1
           IN  /\ PageOK(b)
               /\ b.children = a.children /\ b.selected = a.selected /\ b.timers = a.timers
               /\ b.selected_pane = a.selected_pane
               /\ b.pendingSelection = a.pendingSelection /\ b.pendingRemoval = a.pendingRemoval
               /\ Panes(b) = Panes(a) \cup {new} /\ new \notin Panes(a) /\ new \in Nat
               /\ b.panes[new] = x /\ \A p \in Panes(a) : b.panes[p] = a.panes[p]
<1> DEFINE b == [a EXCEPT !.panes = Append(@, x)]
           new == Len(a.panes) + 1
           s == Append(a.panes, x)
<1>1. PageShape(a) /\ a \in Page /\ a.panes \in Seq(Pane)  BY DEF PageOK, PageShape, Page
<1>2. /\ s \in Seq(Pane) /\ DOMAIN s = DOMAIN a.panes \cup {new} /\ new \notin DOMAIN a.panes
      /\ s[new] = x /\ new \in Nat
  <2>1. PICK n \in Nat : n = Len(a.panes)  BY <1>1
  <2>2. DOMAIN a.panes = 1..n /\ DOMAIN s = 1..(n + 1)  BY <1>1, <2>1
  <2>3. 1..(n + 1) = (1..n) \cup {n + 1} /\ n + 1 \notin 1..n  OBVIOUS
  <2> QED  BY <1>1, <2>1, <2>2, <2>3
<1>3. \A p \in DOMAIN a.panes : s[p] = a.panes[p]  BY <1>1
<1> HIDE DEF s, new
<1>4. /\ b \in Page /\ b.children = a.children /\ b.selected = a.selected /\ b.timers = a.timers
      /\ b.selected_pane = a.selected_pane /\ b.pendingSelection = a.pendingSelection
      /\ b.pendingRemoval = a.pendingRemoval /\ b.panes = s
  BY <1>1, <1>2 DEF Page, s
<1> HIDE DEF b
<1>5. PageShape(b)
  <2>1. Panes(a) \subseteq Panes(b)  BY <1>2, <1>4 DEF Panes
  <2>2. a.pendingRemoval # NoPane => ~b.panes[a.pendingRemoval].initialized
    BY <1>1, <1>3, <1>4 DEF PageShape, Panes
  <2> QED  BY <1>1, <1>4, <2>1, <2>2 DEF PageShape
<1>6. PageOK(b)  BY <1>4, <1>5 DEF PageOK, Shows
<1> QED  BY <1>2, <1>3, <1>4, <1>6 DEF b, new, Panes

\* The item of a pane does not change, and no pane is forgotten.
Grown(a, b) ==
    /\ Panes(a) \subseteq Panes(b)
    /\ \A p \in Panes(a) : b.panes[p].item = a.panes[p].item

\* What the arrival of a new item does.
PaneCreated(a, b, new, item, value) ==
    /\ PageOK(b) /\ Grown(a, b)
    /\ b.selected_pane = a.selected_pane
    /\ b.pendingSelection = a.pendingSelection /\ b.pendingRemoval = a.pendingRemoval
    /\ Panes(b) = Panes(a) \cup {new} /\ new \notin Panes(a) /\ new \in Nat
    /\ Len(b.panes) = new
    /\ b.panes[new] = NewPane(item, value, FALSE)
    /\ \A p \in Panes(a) : b.panes[p] = a.panes[p]
    /\ ToSet(b.children) = ToSet(a.children) \cup {new}
    /\ b.selected = IF a.selected = NoPane THEN new ELSE a.selected
    /\ LET t == Append(a.timers, <<"added", new>>)
       IN  b.timers = IF a.selected # NoPane \/ new = a.selected_pane THEN t
                      ELSE IF Unsaved(a, a.selected_pane)
                        THEN Append(t, <<"revert", a.selected_pane>>)
                        ELSE Append(t, <<"select", new>>)

\* A placeholder is put last, and is selected if it is the only pane.
LEMMA CreateNewPanePage ==
    ASSUME NEW a, PageOK(a), NEW item \in Items, NEW value, value \in Nat
    PROVE  PaneCreated(a, CreateNewPaneFromItem(a, item, value), Len(a.panes) + 1, item, value)
<1>1. PICK x \in Pane : x = NewPane(item, value, FALSE)  BY DEF NewPane, Pane, Blank
<1> DEFINE new == Len(a.panes) + 1
           c == [a EXCEPT !.panes = Append(@, x)]
           b == AddChild(c, new, Len(a.children) + 1)
           t == Append(a.timers, <<"added", new>>)
<1>2. CreateNewPaneFromItem(a, item, value) = b  BY <1>1 DEF CreateNewPaneFromItem
<1>3. PageShape(a) /\ a \in Page /\ a.children \in Seq(Nat) /\ a.panes \in Seq(Pane)
  BY DEF PageOK, PageShape, Page
<1>4. Len(c.panes) = new
  <2>1. c.panes = Append(a.panes, x)  BY <1>3 DEF Page
  <2> QED  BY <1>1, <1>3, <2>1, AppendProperties
<1>5. /\ PageOK(c)
      /\ c.children = a.children /\ c.selected = a.selected /\ c.timers = a.timers
      /\ c.selected_pane = a.selected_pane
      /\ c.pendingSelection = a.pendingSelection /\ c.pendingRemoval = a.pendingRemoval
      /\ Panes(c) = Panes(a) \cup {new} /\ new \notin Panes(a) /\ new \in Nat
      /\ c.panes[new] = x /\ \A p \in Panes(a) : c.panes[p] = a.panes[p]
  <2>1. c.pendingSelection = a.pendingSelection /\ c.pendingRemoval = a.pendingRemoval
    BY <1>3 DEF Page
  <2>2. /\ PageOK(c)
        /\ c.children = a.children /\ c.selected = a.selected /\ c.timers = a.timers
        /\ c.selected_pane = a.selected_pane
    BY <1>1, NewPanePage
  <2>3. Panes(c) = Panes(a) \cup {new}
    BY <1>1, NewPanePage
  <2>6. new \notin Panes(a) /\ new \in Nat
    BY <1>3 DEF Panes
  <2>4. c.panes[new] = x
    BY <1>1, NewPanePage
  <2>5. \A p \in Panes(a) : c.panes[p] = a.panes[p]
    <3>1. c.panes = Append(a.panes, x)  BY <1>3 DEF Page
    <3> HIDE DEF c
    <3> QED  BY <1>3, <3>1 DEF Panes
  <2> HIDE DEF c, new
  <2> QED  BY <2>1, <2>2, <2>3, <2>4, <2>5, <2>6
<1> HIDE DEF c, new
<1>6. new \notin ToSet(c.children)  BY <1>3, <1>5 DEF PageShape
<1>7. Len(a.children) + 1 \in 1..(Len(c.children) + 1)
  <2>1. Len(a.children) \in Nat  BY <1>3
  <2> QED  BY <1>5, <2>1
<1>8. Unsaved(c, a.selected_pane) <=> Unsaved(a, a.selected_pane)
  BY <1>3, <1>5 DEF Unsaved, PageShape
<1>9. /\ PageOK(b) /\ Kept(c, b)
      /\ ToSet(b.children) = ToSet(c.children) \cup {new}
      /\ b.selected = IF c.selected = NoPane THEN new ELSE c.selected
      /\ b.timers = IF c.selected # NoPane \/ new = c.selected_pane
                      THEN Append(c.timers, <<"added", new>>)
                    ELSE IF Unsaved(c, c.selected_pane)
                      THEN Append(Append(c.timers, <<"added", new>>),
                                  <<"revert", c.selected_pane>>)
                      ELSE Append(Append(c.timers, <<"added", new>>), <<"select", new>>)
  BY <1>5, <1>6, <1>7, AddChildPage
<1> HIDE DEF b
<1>10. Panes(b) = Panes(c) /\ b.panes = c.panes  BY <1>9 DEF Kept, Panes
<1>11. Grown(a, b)  BY <1>5, <1>10 DEF Grown
<1> QED  BY <1>1, <1>2, <1>4, <1>5, <1>8, <1>9, <1>10, <1>11 DEF new, t, Kept, PaneCreated

\* What putting a pane with a form beside a placeholder does.
PaneReplaced(a, b, old, new) ==
    /\ PageOK(b) /\ Grown(a, b)
    /\ b.selected_pane = a.selected_pane
    /\ b.pendingSelection = new /\ b.pendingRemoval = old
    /\ Panes(b) = Panes(a) \cup {new} /\ new \notin Panes(a) /\ new \in Nat
    /\ b.panes[new] = NewPane(a.panes[old].item, a.panes[old].config_item, TRUE)
    /\ \A p \in Panes(a) : b.panes[p] = a.panes[p]
    /\ ToSet(b.children) = ToSet(a.children) \cup {new}
    /\ b.selected = IF a.selected = NoPane THEN new ELSE a.selected
    /\ a.selected # NoPane => b.timers = Append(a.timers, <<"added", new>>)

\* What a placeholder that has been selected makes way for.
LEMMA ReplacePage ==
    ASSUME NEW a, PageOK(a), NEW old \in Panes(a), ~a.panes[old].initialized
    PROVE  PaneReplaced(a, ReplaceAccordionPane(a, old), old, Len(a.panes) + 1)
<1> DEFINE x == NewPane(a.panes[old].item, a.panes[old].config_item, TRUE)
           new == Len(a.panes) + 1
           idx == IF Contains(a.children, old) THEN IndexOf(a, old) ELSE 1
           c == [a EXCEPT !.panes = Append(@, x)]
           d == [c EXCEPT !.pendingSelection = new, !.pendingRemoval = old]
           b == AddChild(d, new, idx)
<1>1. PageShape(a) /\ a \in Page /\ a.children \in Seq(Nat) /\ a.panes \in Seq(Pane)
  BY DEF PageOK, PageShape, Page
<1>2. x \in Pane
  <2>1. a.panes[old] \in Pane  BY <1>1 DEF Panes
  <2> QED  BY <2>1 DEF NewPane, Pane, Blank
<1>3. ReplaceAccordionPane(a, old) = b
  <2>1. d = [a EXCEPT !.panes = Append(@, x), !.pendingSelection = new, !.pendingRemoval = old]
    BY <1>1 DEF Page
  <2> QED  BY <2>1 DEF ReplaceAccordionPane
<1> HIDE DEF x
<1>4. /\ PageOK(c)
      /\ c.children = a.children /\ c.selected = a.selected /\ c.timers = a.timers
      /\ c.selected_pane = a.selected_pane
      /\ Panes(c) = Panes(a) \cup {new} /\ new \notin Panes(a) /\ new \in Nat
      /\ c.panes[new] = x /\ \A p \in Panes(a) : c.panes[p] = a.panes[p]
  BY <1>2, NewPanePage
<1> HIDE DEF c, new
<1>5. PageShape(c) /\ c \in Page  BY <1>4 DEF PageOK, PageShape
<1>6. old \in Nat /\ new \in Nat /\ {old, new} \subseteq Panes(c)
  BY <1>1, <1>4 DEF Panes, Page
<1>7. /\ d \in Page /\ d.children = a.children /\ d.selected = a.selected /\ d.timers = a.timers
      /\ d.selected_pane = a.selected_pane /\ d.panes = c.panes
      /\ d.pendingSelection = new /\ d.pendingRemoval = old
  BY <1>4, <1>5, <1>6 DEF Page
<1> HIDE DEF d
<1>8. PageOK(d)
  <2>1. Panes(d) = Panes(c)  BY <1>7 DEF Panes
  <2>2. ~d.panes[old].initialized  BY <1>4, <1>7
  <2>3. PageShape(d)  BY <1>4, <1>5, <1>6, <1>7, <2>1, <2>2 DEF PageShape
  <2> QED  BY <1>4, <1>7, <2>3 DEF PageOK, Shows
<1>9. idx \in 1..(Len(d.children) + 1)
  <2>1. PICK n \in Nat : n = Len(a.children)  BY <1>1
  <2>2. Contains(a.children, old) => IndexOf(a, old) \in 1..Len(a.children)
    BY <1>1, IndexOfPane
  <2> HIDE DEF idx
  <2>3. idx = 1 \/ idx \in 1..n  BY <2>1, <2>2 DEF idx
  <2>4. idx \in 1..(n + 1)  BY <2>3
  <2> QED  BY <1>7, <2>1, <2>4
<1> HIDE DEF idx
<1>10. new \notin ToSet(d.children)  BY <1>1, <1>4, <1>7 DEF PageShape
<1>11. new \in Panes(d)  BY <1>6, <1>7 DEF Panes
<1>12. /\ PageOK(b) /\ Kept(d, b)
       /\ ToSet(b.children) = ToSet(d.children) \cup {new}
       /\ b.selected = IF d.selected = NoPane THEN new ELSE d.selected
       /\ d.selected # NoPane => b.timers = Append(d.timers, <<"added", new>>)
  BY <1>8, <1>9, <1>10, <1>11, AddChildPage
<1> HIDE DEF b
<1>13. Panes(b) = Panes(c) /\ b.panes = c.panes  BY <1>7, <1>12 DEF Kept, Panes
<1>14. Grown(a, b)  BY <1>4, <1>13 DEF Grown
<1> QED  BY <1>3, <1>4, <1>7, <1>12, <1>13, <1>14 DEF PaneReplaced, new, x, Kept

\* The pane after the selected one is another, unless it is the only one.
LEMMA ForwardPage ==
    ASSUME NEW a, PageOK(a), a.children # <<>>
    PROVE  \E q \in ToSet(a.children) :
             /\ Forward(a) = SelectChild(a, q)
             /\ q = a.selected => ToSet(a.children) = {q}
<1> DEFINE s == a.children
           i == IndexOf(a, a.selected)
           k == (i % Len(s)) + 1
<1>1. s \in Seq(Nat) /\ IsInjective(s) /\ Contains(s, a.selected)
  BY DEF PageOK, PageShape, Page, Shows
<1>2. PICK n \in Nat : n = Len(s)  BY <1>1
<1>3. DOMAIN s = 1..n  BY <1>1, <1>2
<1>4. i \in 1..n /\ s[i] = a.selected  BY <1>1, <1>2, IndexOfPane
<1>5. Forward(a) = SelectChild(a, s[k])  BY DEF Forward
<1> HIDE DEF i, s
<1>6. k = (i % n) + 1  BY <1>2
<1>7. k \in 1..n /\ (k = i => n = 1)
  <2>1. CASE i = n
    <3>1. i % n = 0 /\ n >= 1  BY <1>4, <2>1
    <3>2. k = 1  BY <1>6, <3>1
    <3> QED  BY <2>1, <3>1, <3>2
  <2>2. CASE i # n
    <3>1. i \in 0..(n - 1)  BY <1>4, <2>2
    <3>2. i % n = i  BY <3>1
    <3> QED  BY <1>4, <1>6, <2>2, <3>2
  <2> QED  BY <2>1, <2>2
<1> HIDE DEF k
<1>8. s[k] \in ToSet(s)  BY <1>3, <1>7 DEF ToSet
<1>9. ASSUME s[k] = a.selected PROVE ToSet(s) = {s[k]}
  <2>1. k = i  BY <1>1, <1>3, <1>4, <1>7, <1>9 DEF IsInjective
  <2>2. \A j \in 1..n : j = k  BY <1>7, <2>1
  <2> QED  BY <1>3, <1>7, <2>2 DEF ToSet
<1> QED  BY <1>5, <1>8, <1>9 DEF s

\* Nothing but the content of one pane, which keeps its item, and timers differ.
PaneOnly(a, b, p) ==
    /\ PageOK(b) /\ Grown(a, b) /\ Panes(b) = Panes(a)
    /\ b.children = a.children /\ b.selected = a.selected
    /\ b.selected_pane = a.selected_pane
    /\ b.pendingSelection = a.pendingSelection /\ b.pendingRemoval = a.pendingRemoval
    /\ \A q \in Panes(a) : q # p => b.panes[q] = a.panes[q]

\* A pane gets another content.
LEMMA PaneChanged ==
    ASSUME NEW a, PageOK(a), NEW p \in Panes(a), NEW x \in Pane,
           x.item = a.panes[p].item, x.initialized = a.panes[p].initialized
    PROVE  LET b == [a EXCEPT !.panes = [@ EXCEPT ![p] = x]]
           IN  PaneOnly(a, b, p) /\ b.timers = a.timers /\ b.panes[p] = x
<1> DEFINE s == [a.panes EXCEPT ![p] = x]
           b == [a EXCEPT !.panes = [@ EXCEPT ![p] = x]]
<1>1. PageShape(a) /\ a \in Page /\ a.panes \in Seq(Pane)  BY DEF PageOK, PageShape, Page
<1>2. /\ s \in Seq(Pane) /\ DOMAIN s = DOMAIN a.panes /\ s[p] = x
      /\ \A q \in DOMAIN a.panes : q # p => s[q] = a.panes[q]
  <2>1. p \in 1..Len(a.panes)  BY <1>1 DEF Panes
  <2> QED  BY <1>1, <2>1, ExceptSeq DEF Panes
<1> HIDE DEF s
<1>3. /\ b \in Page /\ b.children = a.children /\ b.selected = a.selected /\ b.timers = a.timers
      /\ b.selected_pane = a.selected_pane /\ b.pendingSelection = a.pendingSelection
      /\ b.pendingRemoval = a.pendingRemoval /\ b.panes = s
  BY <1>1, <1>2 DEF Page, s
<1> HIDE DEF b
<1>4. Panes(b) = Panes(a)  BY <1>2, <1>3 DEF Panes
<1>5. a.pendingRemoval # NoPane => ~b.panes[a.pendingRemoval].initialized
  BY <1>1, <1>2, <1>3 DEF PageShape, Panes
<1>6. PageShape(b)  BY <1>1, <1>3, <1>4, <1>5 DEF PageShape
<1>7. PageOK(b)  BY <1>3, <1>6 DEF PageOK, Shows
<1>8. Grown(a, b)  BY <1>2, <1>3, <1>4 DEF Grown, Panes
<1> QED  BY <1>2, <1>3, <1>4, <1>7, <1>8 DEF PaneOnly, b, Panes

\* The content of a form that has been filled.
Filled(old, new, item, value) ==
    new = [old EXCEPT !.shows = item, !.form = value]

\* What filling a form does.
LEMMA PopulatePage ==
    ASSUME NEW a, PageOK(a), NEW p \in Panes(a), NEW item \in Items,
           NEW value, value \in Nat
    PROVE  LET b == PopulateFromConfigItem(a, p, item, value)
           IN  /\ PaneOnly(a, b, p)
               /\ b.timers = Append(a.timers, <<"unflag", p>>)
               /\ Filled(a.panes[p], b.panes[p], item, value)
<1> DEFINE x == [a.panes[p] EXCEPT !.shows = item, !.form = value]
           c == [a EXCEPT !.panes = [@ EXCEPT ![p] = x]]
           t == Append(a.timers, <<"unflag", p>>)
           b == PopulateFromConfigItem(a, p, item, value)
<1>1. PageShape(a) /\ a \in Page /\ a.panes[p] \in Pane /\ p \in Nat
  <2>1. PageShape(a) /\ a \in Page  BY DEF PageOK, PageShape
  <2> QED  BY <2>1 DEF Page, Panes
<1>2. x \in Pane /\ x.item = a.panes[p].item /\ x.initialized = a.panes[p].initialized
  BY <1>1 DEF Pane
<1>3. b = [c EXCEPT !.timers = t]
  <2>1. c.timers = a.timers  BY <1>1 DEF Page
  <2>2. [a EXCEPT !.panes[p].shows = item, !.panes[p].form = value] = c
    BY <1>1 DEF Page, Pane, Panes
  <2> QED  BY <2>1, <2>2 DEF PopulateFromConfigItem, SetTimeout
<1> HIDE DEF x, b
<1>4. PaneOnly(a, c, p) /\ c.panes[p] = x  BY <1>2, PaneChanged
<1> HIDE DEF c
<1>5. t \in Seq(Timers \X Nat) /\ \A i \in DOMAIN t : t[i][2] \in Panes(c)
  <2>1. a.timers \in Seq(Timers \X Nat) /\ \A i \in DOMAIN a.timers : a.timers[i][2] \in Panes(a)
    BY <1>1 DEF PageShape, Page
  <2>2. "unflag" \in Timers  BY DEF Timers
  <2> QED  BY <1>1, <1>4, <2>1, <2>2, AppendTimer DEF TimerSet, PaneOnly
<1> HIDE DEF t
<1>6. /\ PageOK(b) /\ Kept(c, b) /\ b.children = c.children /\ b.selected = c.selected
      /\ b.timers = t
  <2>1. PageShape(c)  BY <1>4 DEF PaneOnly, PageOK
  <2> QED  BY <1>3, <1>4, <1>5, <2>1, TimersOnly DEF PaneOnly
<1>7. Panes(b) = Panes(a) /\ b.panes = c.panes  BY <1>4, <1>6 DEF PaneOnly, Kept, Panes
<1>8. Grown(a, b)  BY <1>4, <1>7 DEF PaneOnly, Grown
<1>9. Filled(a.panes[p], b.panes[p], item, value)  BY <1>4, <1>7 DEF Filled, x
<1> QED  BY <1>4, <1>6, <1>7, <1>8, <1>9 DEF PaneOnly, Kept, b, t

\* What is left when a timer fires.
LEMMA FiredPage ==
    ASSUME PageOK(page), NEW i \in DOMAIN page.timers
    PROVE  LET b == Fired(i)
               p == page.timers[i][2]
           IN  /\ PageOK(b) /\ Kept(page, b) /\ Panes(b) = Panes(page)
               /\ b.children = page.children /\ b.selected = page.selected
               /\ b.timers = RemoveAt(page.timers, i)
               /\ p \in Panes(page) /\ p \in Nat /\ p # NoPane
<1> DEFINE b == Fired(i)
           t == RemoveAt(page.timers, i)
<1>1. /\ PageShape(page) /\ page \in Page /\ page.timers \in Seq(Timers \X Nat)
      /\ \A j \in DOMAIN page.timers : page.timers[j][2] \in Panes(page)
  BY DEF PageOK, PageShape, Page
<1>2. t \in Seq(Timers \X Nat) /\ \A j \in DOMAIN t : t[j][2] \in Panes(page)
  BY <1>1, RemoveTimer DEF TimerGone
<1>3. b = [page EXCEPT !.timers = t]  BY DEF Fired
<1> HIDE DEF b, t
<1>4. /\ PageOK(b) /\ Kept(page, b) /\ b.children = page.children /\ b.selected = page.selected
      /\ b.timers = t
  BY <1>1, <1>2, <1>3, TimersOnly
<1>5. Panes(b) = Panes(page)  BY <1>4 DEF Kept, Panes
<1>6. \A p \in Panes(page) : p \in Nat /\ p # NoPane
  BY <1>1 DEF Panes, Page, NoPane
<1> QED  BY <1>1, <1>4, <1>5, <1>6 DEF b, t

\* Fields that a timer sets or clears.
FieldsSet(a, b, selected_pane, pendingSelection, pendingRemoval) ==
    /\ PageOK(b) /\ b.panes = a.panes /\ b.children = a.children
    /\ b.selected = a.selected /\ b.timers = a.timers
    /\ b.selected_pane = selected_pane
    /\ b.pendingSelection = pendingSelection /\ b.pendingRemoval = pendingRemoval

\* Each of the three is set by itself when a timer fires.
LEMMA FieldsPage ==
    ASSUME NEW a, PageOK(a), NEW p \in Panes(a)
    PROVE  /\ FieldsSet(a, [a EXCEPT !.selected_pane = p],
                        p, a.pendingSelection, a.pendingRemoval)
           /\ FieldsSet(a, [a EXCEPT !.pendingSelection = NoPane],
                        a.selected_pane, NoPane, a.pendingRemoval)
           /\ FieldsSet(a, [a EXCEPT !.pendingRemoval = NoPane],
                        a.selected_pane, a.pendingSelection, NoPane)
<1>1. PageShape(a) /\ a \in Page  BY DEF PageOK, PageShape
<1>2. p \in Nat /\ NoPane \in Nat  BY <1>1 DEF Page, Panes, NoPane
<1>3. ASSUME NEW b \in Page, b.panes = a.panes, b.children = a.children,
             b.selected = a.selected, b.timers = a.timers,
             {b.selected_pane, b.pendingSelection, b.pendingRemoval} \subseteq Panes(a) \cup {NoPane},
             b.pendingRemoval \in {a.pendingRemoval, NoPane}
      PROVE  PageOK(b)
  <2>1. PageShape(b)  BY <1>1, <1>3 DEF PageShape, Panes
  <2> QED  BY <1>3, <2>1 DEF PageOK, Shows
<1>4. {a.selected_pane, a.pendingSelection, a.pendingRemoval} \subseteq Panes(a) \cup {NoPane}
  BY <1>1 DEF PageShape
<1>5. LET b == [a EXCEPT !.selected_pane = p]
      IN  /\ b \in Page /\ b.panes = a.panes /\ b.children = a.children
          /\ b.selected = a.selected /\ b.timers = a.timers /\ b.selected_pane = p
          /\ b.pendingSelection = a.pendingSelection /\ b.pendingRemoval = a.pendingRemoval
  BY <1>1, <1>2 DEF Page
<1>6. LET b == [a EXCEPT !.pendingSelection = NoPane]
      IN  /\ b \in Page /\ b.panes = a.panes /\ b.children = a.children
          /\ b.selected = a.selected /\ b.timers = a.timers /\ b.selected_pane = a.selected_pane
          /\ b.pendingSelection = NoPane /\ b.pendingRemoval = a.pendingRemoval
  BY <1>1, <1>2 DEF Page
<1>7. LET b == [a EXCEPT !.pendingRemoval = NoPane]
      IN  /\ b \in Page /\ b.panes = a.panes /\ b.children = a.children
          /\ b.selected = a.selected /\ b.timers = a.timers /\ b.selected_pane = a.selected_pane
          /\ b.pendingSelection = a.pendingSelection /\ b.pendingRemoval = NoPane
  BY <1>1, <1>2 DEF Page
<1>8. PageOK([a EXCEPT !.selected_pane = p])  BY <1>3, <1>4, <1>5
<1>9. PageOK([a EXCEPT !.pendingSelection = NoPane])  BY <1>3, <1>4, <1>6
<1>10. PageOK([a EXCEPT !.pendingRemoval = NoPane])  BY <1>3, <1>4, <1>7
<1>11. FieldsSet(a, [a EXCEPT !.selected_pane = p], p, a.pendingSelection, a.pendingRemoval)
  BY <1>5, <1>8 DEF FieldsSet
<1>12. FieldsSet(a, [a EXCEPT !.pendingSelection = NoPane],
                 a.selected_pane, NoPane, a.pendingRemoval)
  BY <1>6, <1>9 DEF FieldsSet
<1>13. FieldsSet(a, [a EXCEPT !.pendingRemoval = NoPane],
                 a.selected_pane, a.pendingSelection, NoPane)
  BY <1>7, <1>10 DEF FieldsSet
<1> QED  BY <1>11, <1>12, <1>13

\* The page of a selection's timer, before the selected pane is shown.
Removed(i) ==
    IF page.pendingRemoval = NoPane THEN Fired(i)
    ELSE [RemoveChild(Fired(i), page.pendingRemoval) EXCEPT !.pendingRemoval = NoPane]

\* It lacks the placeholder that was to be removed.
LEMMA RemovedPage ==
    ASSUME PageOK(page), NEW i \in DOMAIN page.timers
    PROVE  LET a == Removed(i)
           IN  /\ PageOK(a) /\ a.panes = page.panes /\ Panes(a) = Panes(page)
               /\ ToSet(a.children) = ToSet(page.children) \ {page.pendingRemoval}
               /\ a.selected_pane = page.selected_pane
               /\ a.pendingSelection = page.pendingSelection /\ a.pendingRemoval = NoPane
               /\ page.pendingRemoval = NoPane \/ page.pendingRemoval # page.selected
                    => a.selected = page.selected /\ a.timers = RemoveAt(page.timers, i)
<1> DEFINE f == Fired(i)
           r == page.pendingRemoval
           b == RemoveChild(f, r)
           a == [b EXCEPT !.pendingRemoval = NoPane]
<1>1. /\ PageOK(f) /\ Kept(page, f) /\ Panes(f) = Panes(page)
      /\ f.children = page.children /\ f.selected = page.selected
      /\ f.timers = RemoveAt(page.timers, i)
  BY FiredPage
<1>2. PageShape(page) /\ page \in Page  BY DEF PageOK, PageShape
<1>3. NoPane \notin ToSet(page.children)
  BY <1>2 DEF PageShape, Panes, Page, NoPane
<1>4. CASE r = NoPane
  <2>1. Removed(i) = f  BY <1>4 DEF Removed
  <2> HIDE DEF f
  <2> QED  BY <1>1, <1>3, <1>4, <2>1 DEF Kept
<1>5. CASE r # NoPane
  <2>1. Removed(i) = a  BY <1>5 DEF Removed
  <2>2. r \in Panes(f)  BY <1>1, <1>2, <1>5 DEF PageShape
  <2> HIDE DEF f
  <2>3. /\ PageOK(b) /\ Kept(f, b) /\ ToSet(b.children) = ToSet(f.children) \ {r}
        /\ r # f.selected => b.selected = f.selected /\ b.timers = f.timers
    BY <1>1, <2>2, RemoveChildPage
  <2> HIDE DEF b
  <2>4. r \in Panes(b)  BY <2>2, <2>3 DEF Kept, Panes
  <2>5. /\ PageOK(a) /\ a.panes = b.panes /\ a.children = b.children
        /\ a.selected = b.selected /\ a.timers = b.timers
        /\ a.selected_pane = b.selected_pane
        /\ a.pendingSelection = b.pendingSelection /\ a.pendingRemoval = NoPane
    BY <2>3, <2>4, FieldsPage DEF FieldsSet
  <2> HIDE DEF a
  <2>6. Panes(a) = Panes(page)  BY <1>1, <2>3, <2>5 DEF Kept, Panes
  <2> QED  BY <1>1, <1>5, <2>1, <2>3, <2>5, <2>6 DEF Kept
<1> QED  BY <1>4, <1>5

--------------------------------------------------------------------------------
(* Every step keeps the type of the state and takes out no edited pane *)

\* The action of OnlyDeletedPanesLeave.
GoneIsDeleted ==
    \A p \in ToSet(page.children) \ ToSet(page'.children) :
        page.panes[p].initialized => \E r \in requests \ requests' : r.type = "delete"

\* What a step has to show of the page, the requests and the user.
LEMMA TypedStep ==
    ASSUME PagesTyped, PageOK(page'), Panes(page) \subseteq Panes(page'), UNCHANGED kind,
           this' \in {this} \cup Panes(page'), config' \in [Items -> Values], UserOK(user'),
           \A r \in requests' \ requests : RequestOK(r)'
    PROVE  PagesTyped'
<1>1. this' \in Panes(page') \cup {NoPane}  BY DEF PagesTyped
<1>2. ASSUME NEW r \in requests' PROVE RequestOK(r)'
  <2>1. CASE r \in requests
    <3>1. RequestOK(r)  BY <2>1 DEF PagesTyped
    <3>2. this \in Panes(page) => this' \in Panes(page')  OBVIOUS
    <3> QED  BY <3>1, <3>2 DEF RequestOK
  <2> QED  BY <1>2, <2>1
<1> QED  BY <1>1, <1>2 DEF PagesTyped

\* The timers.  The only one that removes a pane removes a placeholder.
LEMMA TimersTyped ==
    ASSUME PagesTyped, NEW i \in DOMAIN page.timers,
           SelectTimer(i) \/ AddedTimer(i) \/ RevertTimer(i) \/ UnflagTimer(i)
    PROVE  PagesTyped' /\ GoneIsDeleted
<1> DEFINE p == page.timers[i][2]
           f == Fired(i)
<1>1. PageOK(page) /\ PageShape(page) /\ page \in Page  BY DEF PagesTyped, PageOK, PageShape
<1>2. /\ PageOK(f) /\ Kept(page, f) /\ Panes(f) = Panes(page)
      /\ f.children = page.children /\ f.selected = page.selected
      /\ p \in Panes(page) /\ p \in Nat
  BY <1>1, FiredPage
<1>3. PageShape(f)  BY <1>2 DEF PageOK
<1>4. UNCHANGED <<kind, config, this, user>>
  BY DEF SelectTimer, AddedTimer, RevertTimer, UnflagTimer
<1>5. /\ PageOK(page') /\ Panes(page) \subseteq Panes(page')
      /\ \A q \in ToSet(page.children) : q \in ToSet(page'.children) \/ ~page.panes[q].initialized
      /\ \A r \in requests' \ requests : RequestOK(r)'
  <2>1. CASE SelectTimer(i)
    <3> DEFINE a == Removed(i)
    <3>1. /\ PageOK(a) /\ a.panes = page.panes /\ Panes(a) = Panes(page)
          /\ ToSet(a.children) = ToSet(page.children) \ {page.pendingRemoval}
      BY <1>1, RemovedPage
    <3>2. \A q \in ToSet(page.children) : q \in ToSet(a.children) \/ ~page.panes[q].initialized
      <4>1. page.pendingRemoval \notin ToSet(page.children)
               \/ ~page.panes[page.pendingRemoval].initialized
        BY <1>1 DEF PageShape, Panes, Page, NoPane
      <4> QED  BY <3>1, <4>1
    <3>3. IF page.panes[p].initialized
             THEN /\ page' = [a EXCEPT !.selected_pane = p]
                  /\ requests' = requests \cup {Send("load", p, page.panes[p].item, Blank)}
             ELSE /\ page' = ReplaceAccordionPane(a, p)
                  /\ UNCHANGED requests
      BY <2>1 DEF SelectTimer, Removed
    <3> HIDE DEF a
    <3>4. CASE page.panes[p].initialized
      <4> DEFINE m == Send("load", p, page.panes[p].item, Blank)
      <4>1. page' = [a EXCEPT !.selected_pane = p] /\ requests' = requests \cup {m}
        BY <3>3, <3>4
      <4> DEFINE b == [a EXCEPT !.selected_pane = p]
      <4>6. FieldsSet(a, b, p, a.pendingSelection, a.pendingRemoval)
        BY <1>2, <3>1, FieldsPage
      <4> HIDE DEF b
      <4>2. PageOK(b) /\ b.panes = a.panes /\ b.children = a.children
        BY <4>6 DEF FieldsSet
      <4>3. PageOK(page') /\ Panes(page') = Panes(page) /\ page'.children = a.children
        BY <3>1, <4>1, <4>2 DEF Panes, b
      <4>4. page.panes[p] \in Pane  BY <1>1, <1>2 DEF Page, Panes
      <4>5. ASSUME NEW r, r = m PROVE RequestOK(r)'
        BY <1>2, <4>3, <4>4, <4>5 DEF RequestOK, Request, Send, Pane, Values, Blank
      <4> HIDE DEF m
      <4> QED  BY <3>2, <4>1, <4>3, <4>5
    <3>5. CASE ~page.panes[p].initialized
      <4>1. p \in Panes(a) /\ ~a.panes[p].initialized  BY <1>2, <3>1, <3>5
      <4> DEFINE b == ReplaceAccordionPane(a, p)
      <4>2. /\ PageOK(b) /\ Grown(a, b)
            /\ ToSet(b.children) = ToSet(a.children) \cup {Len(a.panes) + 1}
        BY <3>1, <4>1, ReplacePage DEF PaneReplaced
      <4>3. page' = b /\ UNCHANGED requests  BY <3>3, <3>5
      <4> HIDE DEF b
      <4> QED  BY <3>1, <3>2, <4>2, <4>3 DEF Grown
    <3> QED  BY <3>4, <3>5
  <2>2. CASE AddedTimer(i)
    <3> DEFINE q == page.pendingSelection
               c == SelectChild(f, q)
    <3>1. PageOK(c) /\ Kept(f, c) /\ c.children = f.children  BY <1>2, <1>3, SelectChildPage DEF ChildSelected
    <3>2. page' = IF q # NoPane /\ Contains(page.children, q)
                    THEN [c EXCEPT !.pendingSelection = NoPane] ELSE f
      BY <2>2 DEF AddedTimer
    <3>3. UNCHANGED requests  BY <2>2 DEF AddedTimer
    <3> HIDE DEF c, f
    <3>4. Panes(c) = Panes(page)  BY <1>2, <3>1 DEF Kept, Panes
    <3>5. LET b == [c EXCEPT !.pendingSelection = NoPane]
          IN  PageOK(b) /\ Panes(b) = Panes(page) /\ b.children = page.children
      BY <1>2, <3>1, <3>4, FieldsPage DEF Panes, FieldsSet
    <3> QED  BY <1>2, <3>2, <3>3, <3>5
  <2>3. CASE RevertTimer(i)
    <3> DEFINE c == SelectChild(f, p)
    <3>1. PageOK(c) /\ Kept(f, c) /\ c.children = f.children  BY <1>2, <1>3, SelectChildPage DEF ChildSelected
    <3>2. page' = c /\ UNCHANGED requests  BY <2>3 DEF RevertTimer
    <3> HIDE DEF c, f
    <3>3. Panes(c) = Panes(page)  BY <1>2, <3>1 DEF Kept, Panes
    <3> QED  BY <1>2, <3>1, <3>2, <3>3
  <2>4. CASE UnflagTimer(i)
    <3> DEFINE x == [f.panes[p] EXCEPT !.unsaved_changes = FALSE]
               b == [f EXCEPT !.panes = [@ EXCEPT ![p] = x]]
    <3>1. f \in Page /\ p \in Panes(f) /\ f.panes[p] \in Pane
      BY <1>2, <1>3 DEF PageShape, Page, Panes
    <3>2. page' = b /\ UNCHANGED requests
      <4>1. page' = [f EXCEPT !.panes[p].unsaved_changes = FALSE] /\ UNCHANGED requests
        BY <2>4 DEF UnflagTimer
      <4> HIDE DEF f
      <4> QED  BY <3>1, <4>1
    <3> HIDE DEF f
    <3>3. x \in Pane /\ x.item = f.panes[p].item /\ x.initialized = f.panes[p].initialized
      BY <3>1 DEF Pane
    <3> HIDE DEF x
    <3>4. PageOK(b) /\ Panes(b) = Panes(f) /\ b.children = f.children
      BY <1>2, <3>1, <3>3, PaneChanged DEF PaneOnly
    <3> QED  BY <1>2, <3>2, <3>4
  <2> QED  BY <2>1, <2>2, <2>3, <2>4
<1>6. PagesTyped'  BY <1>4, <1>5, TypedStep DEF PagesTyped
<1>7. GoneIsDeleted  BY <1>5 DEF GoneIsDeleted
<1> QED  BY <1>6, <1>7

\* The server and its answers.  Only the answer to a deletion removes a pane.
LEMMA AnswersTyped ==
    ASSUME PagesTyped, NEW r \in requests,
           \/ Serve(r) \/ Loaded(r) \/ PutDone(r) \/ Reloaded(r)
           \/ Deleted(r) \/ Posted(r) \/ CreateNewPaneFromStore(r) \/ Error(r)
    PROVE  PagesTyped' /\ GoneIsDeleted
<1>1. PageOK(page) /\ PageShape(page) /\ page \in Page  BY DEF PagesTyped, PageOK, PageShape
<1>2. RequestOK(r) /\ r \in Request  BY DEF PagesTyped, RequestOK
<1>3. r.item \in Items /\ r.value \in Values  BY <1>2 DEF Request
<1>4. config \in [Items -> Values] /\ UserOK(user)  BY DEF PagesTyped
<1>5. UNCHANGED <<kind, this>> /\ config' \in [Items -> Values] /\ UserOK(user')
  <2>1. CASE Serve(r)
    <3>1. r.type \in {"put", "post"} => r.value \in Values  BY <1>3
    <3> QED  BY <1>3, <1>4, <2>1, <3>1 DEF Serve, Values
  <2>2. CASE PutDone(r)
    BY <1>4, <2>2 DEF PutDone, UserOK
  <2>3. CASE Error(r)
    BY <1>4, <2>3 DEF Error, UserOK
  <2>4. CASE Loaded(r) \/ Reloaded(r) \/ Deleted(r) \/ Posted(r) \/ CreateNewPaneFromStore(r)
    BY <1>4, <2>4 DEF Loaded, Reloaded, Deleted, Posted, CreateNewPaneFromStore
  <2> QED  BY <2>1, <2>2, <2>3, <2>4
<1>6. /\ PageOK(page') /\ Panes(page) \subseteq Panes(page')
      /\ ~Deleted(r) => ToSet(page.children) \subseteq ToSet(page'.children)
  <2>1. CASE Serve(r) \/ PutDone(r) \/ Posted(r) \/ Error(r)
    <3>1. page' = page  BY <2>1 DEF Serve, PutDone, Posted, Error
    <3> QED  BY <1>1, <3>1
  <2>2. CASE Loaded(r)
    <3> DEFINE b == PopulateFromConfigItem(page, r.pane, r.item, r.value)
    <3>2. CASE r.value = Absent
      <4>1. page' = page  BY <2>2, <3>2 DEF Loaded
      <4> QED  BY <1>1, <4>1
    <3>3. CASE r.value # Absent
      <4>1. r.pane \in Panes(page) /\ r.value \in Nat
        BY <1>2, <1>3, <2>2, <3>3 DEF RequestOK, Values, Loaded, Answer
      <4>2. PageOK(b) /\ Panes(b) = Panes(page) /\ b.children = page.children
        BY <1>1, <1>3, <4>1, PopulatePage DEF PaneOnly
      <4>3. page' = b  BY <2>2, <3>3 DEF Loaded
      <4> QED  BY <4>2, <4>3
    <3> QED  BY <3>2, <3>3
  <2>3. CASE Reloaded(r)
    <3>1. CASE r.value = Absent
      <4>1. page' = page  BY <2>3, <3>1 DEF Reloaded
      <4> QED  BY <1>1, <4>1
    <3>2. CASE r.value # Absent
      <4> DEFINE x == [page.panes[this] EXCEPT !.config_item = r.value]
                 a == [page EXCEPT !.panes = [@ EXCEPT ![this] = x]]
                 b == PopulateFromConfigItem(a, this, r.item, r.value)
      <4>1. r.value \in Nat /\ this \in Panes(page)
        BY <1>2, <1>3, <2>3, <3>2 DEF RequestOK, Values, Reloaded, Answer
      <4>2. page.panes[this] \in Pane  BY <1>1, <4>1 DEF Page, Panes
      <4>3. x \in Pane /\ x.item = page.panes[this].item
            /\ x.initialized = page.panes[this].initialized
        BY <4>1, <4>2 DEF Pane
      <4>4. [page EXCEPT !.panes[this].config_item = r.value] = a  BY <1>1, <4>1, <4>2
      <4>5. page' = b  BY <2>3, <3>2, <4>4 DEF Reloaded
      <4> HIDE DEF x
      <4>6. PageOK(a) /\ Panes(a) = Panes(page) /\ a.children = page.children
        BY <1>1, <4>1, <4>3, PaneChanged DEF PaneOnly
      <4> HIDE DEF a
      <4>7. PageOK(b) /\ Panes(b) = Panes(a) /\ b.children = a.children
        BY <1>3, <4>1, <4>6, PopulatePage DEF PaneOnly
      <4> HIDE DEF b
      <4> QED  BY <4>5, <4>6, <4>7
    <3> QED  BY <3>1, <3>2
  <2>4. CASE Deleted(r)
    <3> DEFINE a == Forward(page)
               b == RemoveChild(a, this)
    <3>1. this \in Panes(page)  BY <1>2, <2>4 DEF RequestOK, Deleted, Answer
    <3>2. PageOK(a) /\ Kept(page, a)
      <4>1. CASE page.children = <<>>
        <5>1. a = page  BY <4>1 DEF Forward
        <5> QED  BY <1>1, <5>1 DEF Kept
      <4>2. CASE page.children # <<>>
        <5>1. PICK q \in ToSet(page.children) : a = SelectChild(page, q)
          BY <1>1, <4>2, ForwardPage
        <5> QED  BY <1>1, <5>1, SelectChildPage DEF ChildSelected
      <4> QED  BY <4>1, <4>2
    <3>3. page' = b  BY <2>4 DEF Deleted
    <3> HIDE DEF a
    <3>4. this \in Panes(a) /\ Panes(a) = Panes(page)  BY <3>1, <3>2 DEF Kept, Panes
    <3>5. PageOK(b) /\ Kept(a, b)  BY <3>2, <3>4, RemoveChildPage
    <3>6. Panes(b) = Panes(page)  BY <3>4, <3>5 DEF Kept, Panes
    <3> QED  BY <2>4, <3>3, <3>5, <3>6
  <2>5. CASE CreateNewPaneFromStore(r)
    <3>1. CASE r.value = Absent
      <4>1. page' = page  BY <2>5, <3>1 DEF CreateNewPaneFromStore
      <4> QED  BY <1>1, <4>1
    <3>2. CASE r.value # Absent
      <4> DEFINE a == CreateNewPaneFromItem(page, r.item, r.value)
                 new == Len(page.panes) + 1
                 b == SelectChild(a, Len(a.panes))
      <4>1. r.value \in Nat  BY <1>3, <3>2 DEF Values
      <4>2. /\ PageOK(a) /\ Panes(a) = Panes(page) \cup {new}
            /\ ToSet(a.children) = ToSet(page.children) \cup {new}
        BY <1>1, <1>3, <4>1, CreateNewPanePage DEF PaneCreated
      <4>3. page' = a \/ page' = b  BY <2>5, <3>2 DEF CreateNewPaneFromStore
      <4> HIDE DEF a
      <4>4. PageOK(b) /\ Kept(a, b) /\ b.children = a.children
        <5>1. PageShape(a)  BY <4>2 DEF PageOK
        <5>2. \A q : ChildSelected(a, SelectChild(a, q), q)  BY ONLY <5>1, SelectChildPage
        <5> QED  BY <4>2, <5>2 DEF ChildSelected
      <4>5. Panes(b) = Panes(a)  BY <4>4 DEF Kept, Panes
      <4> HIDE DEF b
      <4> QED  BY <4>2, <4>3, <4>4, <4>5
    <3> QED  BY <3>1, <3>2
  <2> QED  BY <2>1, <2>2, <2>3, <2>4, <2>5
<1>7. ASSUME NEW m \in requests' \ requests PROVE RequestOK(m)'
  <2>1. CASE Serve(r)
    <3>1. PICK value \in Values, phase \in {"done", "refused"} :
            /\ m = [r EXCEPT !.value = value, !.phase = phase]
            /\ r.type \in {"put", "post"} => value = r.value
      BY <1>3, <1>4, <1>7, <2>1 DEF Serve, Served
    <3>2. page' = page  BY <2>1 DEF Serve
    <3> QED  BY <1>2, <1>5, <3>1, <3>2 DEF RequestOK, Request
  <2>2. CASE PutDone(r)
    <3>1. r.type = "put" /\ r.pane \in Panes(page) /\ page' = page
          /\ (kind # "vocabulary" => this \in Panes(page))
      BY <1>2, <2>2 DEF RequestOK, PutDone, Answer
    <3>2. CASE kind = "vocabulary"
      <4>1. m = Send("load", r.pane, r.item, Blank)  BY <1>7, <2>2, <3>2 DEF PutDone
      <4> QED  BY <1>2, <1>5, <3>1, <3>2, <4>1 DEF RequestOK, Request, Send, Values, Blank
    <3>3. CASE kind # "vocabulary"
      <4>1. m = Send("reload", NoPane, page.panes[this].item, Blank)
        BY <1>7, <2>2, <3>3 DEF PutDone
      <4>2. page.panes[this].item \in Items
        <5>1. page.panes[this] \in Pane  BY <1>1, <3>1, <3>3 DEF Page, Panes
        <5> QED  BY <5>1 DEF Pane
      <4> QED  BY <1>5, <3>1, <3>3, <4>1, <4>2 DEF RequestOK, Request, Send, Values, Blank, NoPane
    <3> QED  BY <3>2, <3>3
  <2>3. CASE Posted(r)
    <3>1. m = Send("create", NoPane, r.item, Blank)  BY <1>7, <2>3 DEF Posted
    <3> QED  BY <1>3, <3>1 DEF RequestOK, Request, Send, Values, Blank, NoPane
  <2>4. CASE ~Serve(r) /\ ~PutDone(r) /\ ~Posted(r)
    BY <1>7, <2>4 DEF Loaded, Reloaded, Deleted, CreateNewPaneFromStore, Error
  <2> QED  BY <2>1, <2>2, <2>3, <2>4
<1>8. PagesTyped'  BY <1>5, <1>6, <1>7, TypedStep
<1>9. Deleted(r) => r.type = "delete" /\ r \in requests \ requests'
  BY DEF Deleted, Answer
<1>10. GoneIsDeleted  BY <1>6, <1>9 DEF GoneIsDeleted
<1> QED  BY <1>8, <1>10

\* The fields that "Act" counts in.
LEMMA ActTyped ==
    ASSUME UserOK(user), NEW field \in {"clicks", "edits", "writes"}, NEW hasty, Act(field, hasty)
    PROVE  /\ UserOK(user')
           /\ user'.haste = IF hasty THEN user.haste + 1 ELSE user.haste
           /\ user'.unsure = user.unsure /\ user'.left = user.left /\ ~user.left
<1>1. /\ user' = [user EXCEPT ![field] = @ + 1, !.haste = IF hasty THEN @ + 1 ELSE @]
      /\ ~user.left
  BY DEF Act
<1>2. PICK haste \in Nat : haste = IF hasty THEN user.haste + 1 ELSE user.haste  BY DEF UserOK
<1>3. UserOK(user)  OBVIOUS
<1>4. UserOK(user') /\ user'.haste = haste /\ user'.unsure = user.unsure /\ user'.left = user.left
  <2>1. CASE field = "clicks"
    <3>1. user' = [user EXCEPT !.clicks = @ + 1, !.haste = haste]  BY <1>1, <1>2, <2>1
    <3>2. user' = [clicks |-> user.clicks + 1, edits |-> user.edits, writes |-> user.writes,
                   haste |-> haste, unsure |-> user.unsure, left |-> user.left]
      BY <3>1 DEF UserOK
    <3> QED  BY ONLY <1>3, <3>2, haste \in Nat DEF UserOK
  <2>2. CASE field = "edits"
    <3>1. user' = [user EXCEPT !.edits = @ + 1, !.haste = haste]  BY <1>1, <1>2, <2>2
    <3>2. user' = [clicks |-> user.clicks, edits |-> user.edits + 1, writes |-> user.writes,
                   haste |-> haste, unsure |-> user.unsure, left |-> user.left]
      BY <3>1 DEF UserOK
    <3> QED  BY ONLY <1>3, <3>2, haste \in Nat DEF UserOK
  <2>3. CASE field = "writes"
    <3>1. user' = [user EXCEPT !.writes = @ + 1, !.haste = haste]  BY <1>1, <1>2, <2>3
    <3>2. user' = [clicks |-> user.clicks, edits |-> user.edits, writes |-> user.writes + 1,
                   haste |-> haste, unsure |-> user.unsure, left |-> user.left]
      BY <3>1 DEF UserOK
    <3> QED  BY ONLY <1>3, <3>2, haste \in Nat DEF UserOK
  <2> QED  BY <2>1, <2>2, <2>3
<1> QED  BY <1>1, <1>2, <1>4

\* A pane that is marked, edited, or neither.
Marked(old, new, flagged) ==
    new = [old EXCEPT !.unsaved_changes = flagged]

\* Only the mark differs.
LEMMA MarkedFields ==
    ASSUME NEW x \in Pane, NEW y, NEW flagged, Marked(x, y, flagged)
    PROVE  /\ y.initialized = x.initialized /\ y.item = x.item /\ y.shows = x.shows
           /\ y.form = x.form /\ y.config_item = x.config_item /\ y.typed = x.typed
           /\ y.unsaved_changes = flagged
BY DEF Marked, Pane

MarkedPage(a, p, flagged) ==
    [a EXCEPT !.panes[p].unsaved_changes = flagged]

\* What a save, a deletion and a Cancel do to the pane.
LEMMA MarkPage ==
    ASSUME NEW a, PageOK(a), NEW p \in Panes(a), NEW flagged \in BOOLEAN
    PROVE  LET b == MarkedPage(a, p, flagged)
           IN  PaneOnly(a, b, p) /\ b.timers = a.timers /\ Marked(a.panes[p], b.panes[p], flagged)
<1> DEFINE x == [a.panes[p] EXCEPT !.unsaved_changes = flagged]
           b == MarkedPage(a, p, flagged)
           c == [a EXCEPT !.panes = [@ EXCEPT ![p] = x]]
<1>1. a \in Page /\ a.panes[p] \in Pane  BY DEF PageOK, PageShape, Page, Panes
<1>2. x \in Pane /\ x.item = a.panes[p].item /\ x.initialized = a.panes[p].initialized
  BY <1>1 DEF Pane
<1>3. b = c  BY <1>1 DEF Page, Pane, Panes, MarkedPage
<1>4. Marked(a.panes[p], x, flagged)  BY DEF Marked
<1> HIDE DEF x, b
<1>5. PaneOnly(a, c, p) /\ c.timers = a.timers /\ c.panes[p] = x  BY <1>2, PaneChanged
<1> HIDE DEF c
<1> QED  BY <1>3, <1>4, <1>5 DEF b

\* What an edit does to it.
Edited(old, new, value) ==
    new = [old EXCEPT !.form = value, !.typed = value, !.unsaved_changes = TRUE]

EditedPage(a, p, value) ==
    [a EXCEPT !.panes[p].form = value, !.panes[p].typed = value,
              !.panes[p].unsaved_changes = TRUE]

\* What an edit does.
LEMMA EditPage ==
    ASSUME NEW a, PageOK(a), NEW p \in Panes(a), NEW value, value \in Nat
    PROVE  LET b == EditedPage(a, p, value)
           IN  PaneOnly(a, b, p) /\ b.timers = a.timers /\ Edited(a.panes[p], b.panes[p], value)
<1> DEFINE x == [a.panes[p] EXCEPT !.form = value, !.typed = value, !.unsaved_changes = TRUE]
           b == EditedPage(a, p, value)
           c == [a EXCEPT !.panes = [@ EXCEPT ![p] = x]]
<1>1. a \in Page /\ a.panes[p] \in Pane  BY DEF PageOK, PageShape, Page, Panes
<1>2. x \in Pane /\ x.item = a.panes[p].item /\ x.initialized = a.panes[p].initialized
  BY <1>1 DEF Pane
<1>3. b = c  BY <1>1 DEF Page, Pane, Panes, EditedPage
<1>4. Edited(a.panes[p], x, value)  BY DEF Edited
<1> HIDE DEF x, b
<1>5. PaneOnly(a, c, p) /\ c.timers = a.timers /\ c.panes[p] = x  BY <1>2, PaneChanged
<1> HIDE DEF c
<1> QED  BY <1>3, <1>4, <1>5 DEF b

\* A save, of whichever kind of page.
Saved(p) ==
    \E flagged \in {FALSE, page.panes[p].unsaved_changes} :
        /\ PutRequest(p, flagged)
        /\ this' = IF kind = "vocabulary" THEN this ELSE p

\* The five kinds of page save in the same way, but for "this" and for the mark.
LEMMA SaveIsPut ==
    ASSUME NEW p,
           SaveCodec(p) \/ SaveDatabase(p) \/ SaveProtocol(p) \/ SaveUser(p) \/ SaveVocabulary(p)
    PROVE  Saved(p)
<1>1. ASSUME PutRequest(p, FALSE), this' = IF kind = "vocabulary" THEN this ELSE p
      PROVE  Saved(p)
  BY <1>1 DEF Saved
<1>2. CASE SaveCodec(p)  BY <1>1, <1>2 DEF SaveCodec
<1>3. CASE SaveDatabase(p)  BY <1>1, <1>3 DEF SaveDatabase
<1>4. CASE SaveProtocol(p)
  <2>1. kind = "protocol" /\ this' = p  BY <1>4 DEF SaveProtocol
  <2>2. PutRequest(p, FALSE) \/ PutRequest(p, page.panes[p].unsaved_changes)
    BY <1>4 DEF SaveProtocol
  <2> QED  BY <1>1, <2>1, <2>2 DEF Saved
<1>5. CASE SaveUser(p)  BY <1>1, <1>5 DEF SaveUser
<1>6. CASE SaveVocabulary(p)  BY <1>1, <1>6 DEF SaveVocabulary
<1> QED  BY <1>2, <1>3, <1>4, <1>5, <1>6

\* What the user does removes no pane.
LEMMA UserTyped ==
    ASSUME PagesTyped, UserActs
    PROVE  PagesTyped' /\ GoneIsDeleted
<1>1. PageOK(page) /\ PageShape(page) /\ page \in Page  BY DEF PagesTyped, PageOK, PageShape
<1>2. config \in [Items -> Values] /\ UserOK(user)  BY DEF PagesTyped
<1>3. ASSUME NEW p \in Panes(page) PROVE page.panes[p] \in Pane
  BY <1>1, <1>3 DEF Page, Panes
<1>4. ASSUME NEW p \in Panes(page), NEW type \in {"load", "put", "delete"}, NEW value \in Nat,
             NEW m \in Request, m = Send(type, p, page.panes[p].item, value),
             Panes(page') = Panes(page), UNCHANGED kind,
             type = "put" /\ kind # "vocabulary" => this' = p,
             type = "delete" => this' = p
      PROVE  RequestOK(m)'
  BY <1>4 DEF RequestOK, Send
<1>5. ASSUME NEW p \in Panes(page), NEW type \in {"load", "put", "delete"}, NEW value \in Nat
      PROVE  Send(type, p, page.panes[p].item, value) \in Request
  <2>1. p \in Nat  BY <1>1, <1>5 DEF Panes, Page
  <2>2. page.panes[p].item \in Items  BY <1>3, <1>5 DEF Pane
  <2> QED  BY <1>5, <2>1, <2>2 DEF Send, Request, Values
<1>6. ASSUME NEW p \in Panes(page), Click(p) PROVE PagesTyped' /\ GoneIsDeleted
  <2> DEFINE b == SelectChild(page, p)
  <2>1. PageOK(b) /\ Kept(page, b) /\ b.children = page.children  BY <1>1, SelectChildPage DEF ChildSelected
  <2>2. page' = b /\ UNCHANGED <<kind, config, requests, this>>  BY <1>6 DEF Click
  <2>3. UserOK(user')  BY <1>2, <1>6, ActTyped DEF Click
  <2> HIDE DEF b
  <2>4. Panes(page') = Panes(page)  BY <2>1, <2>2 DEF Kept, Panes
  <2>5. PagesTyped'  BY <1>2, <2>1, <2>2, <2>3, <2>4, TypedStep
  <2>6. GoneIsDeleted  BY <2>1, <2>2 DEF GoneIsDeleted
  <2> QED  BY <2>5, <2>6
<1>7. ASSUME NEW p \in Panes(page), MarkAsChanged(p) PROVE PagesTyped' /\ GoneIsDeleted
  <2> DEFINE v == 2 + user.edits
             b == EditedPage(page, p, v)
  <2>1. v \in Nat  BY <1>2 DEF UserOK
  <2>2. page' = b /\ UNCHANGED <<kind, config, requests, this>>  BY <1>7 DEF MarkAsChanged, EditedPage
  <2> HIDE DEF v
  <2>3. PageOK(b) /\ Panes(b) = Panes(page) /\ b.children = page.children
    BY <1>1, <2>1, EditPage DEF PaneOnly
  <2>4. UserOK(user')  BY <1>2, <1>7, ActTyped DEF MarkAsChanged
  <2> HIDE DEF b
  <2>5. PagesTyped'  BY <1>2, <2>2, <2>3, <2>4, TypedStep
  <2>6. GoneIsDeleted  BY <2>2, <2>3 DEF GoneIsDeleted
  <2> QED  BY <2>5, <2>6
<1>8. ASSUME NEW p \in Panes(page), Cancel(p) PROVE PagesTyped' /\ GoneIsDeleted
  <2> DEFINE a == MarkedPage(page, p, FALSE)
             b == PopulateFromConfigItem(a, p, page.panes[p].item, page.panes[p].config_item)
             m == Send("load", p, page.panes[p].item, Blank)
  <2>1. page' = IF kind = "vocabulary" THEN a ELSE b  BY <1>8 DEF Cancel, MarkedPage
  <2>2. UNCHANGED <<kind, config, this>> /\ UserOK(user')
    BY <1>2, <1>8, ActTyped DEF Cancel
  <2>3. requests' \subseteq requests \cup {m}  BY <1>8 DEF Cancel
  <2>4. page.panes[p].item \in Items /\ page.panes[p].config_item \in Nat
    BY <1>3 DEF Pane
  <2>5. PageOK(a) /\ Panes(a) = Panes(page) /\ a.children = page.children
    BY <1>1, MarkPage DEF PaneOnly
  <2> HIDE DEF a
  <2>6. PageOK(b) /\ Panes(b) = Panes(a) /\ b.children = a.children
    BY <2>4, <2>5, PopulatePage DEF PaneOnly
  <2> HIDE DEF b
  <2>7. PageOK(page') /\ Panes(page') = Panes(page) /\ page'.children = page.children
    BY <2>1, <2>5, <2>6
  <2>8. m \in Request  BY <1>5 DEF Blank
  <2>9. ASSUME NEW r \in requests' \ requests PROVE RequestOK(r)'
    BY <1>4, <2>2, <2>3, <2>7, <2>8 DEF Blank
  <2> HIDE DEF m
  <2>10. PagesTyped'  BY <1>2, <2>2, <2>7, <2>9, TypedStep
  <2>11. GoneIsDeleted  BY <2>7 DEF GoneIsDeleted
  <2> QED  BY <2>10, <2>11
<1>9. ASSUME NEW p \in Panes(page), Delete2(p) PROVE PagesTyped' /\ GoneIsDeleted
  <2> DEFINE a == MarkedPage(page, p, FALSE)
             m == Send("delete", p, page.panes[p].item, Blank)
  <2>1. page' = a /\ this' = p /\ requests' = requests \cup {m} /\ UNCHANGED <<kind, config>>
    BY <1>9 DEF Delete2, MarkedPage
  <2>2. UserOK(user')  BY <1>2, <1>9, ActTyped DEF Delete2
  <2>3. PageOK(a) /\ Panes(a) = Panes(page) /\ a.children = page.children
    BY <1>1, MarkPage DEF PaneOnly
  <2> HIDE DEF a
  <2>4. m \in Request  BY <1>5 DEF Blank
  <2>5. ASSUME NEW r \in requests' \ requests PROVE RequestOK(r)'
    BY <1>4, <2>1, <2>3, <2>4 DEF Blank
  <2> HIDE DEF m
  <2>6. PagesTyped'  BY <1>2, <2>1, <2>2, <2>3, <2>5, TypedStep
  <2>7. GoneIsDeleted  BY <2>1, <2>3 DEF GoneIsDeleted
  <2> QED  BY <2>6, <2>7
<1>10. ASSUME NEW p \in Panes(page), Saved(p) PROVE PagesTyped' /\ GoneIsDeleted
  <2>1. PICK flagged \in {FALSE, page.panes[p].unsaved_changes} :
          PutRequest(p, flagged) /\ this' = IF kind = "vocabulary" THEN this ELSE p
    BY <1>10 DEF Saved
  <2> DEFINE a == MarkedPage(page, p, flagged)
             m == Send("put", p, page.panes[p].item, page.panes[p].form)
  <2>2. page' = a /\ requests' = requests \cup {m} /\ UNCHANGED <<kind, config>>
    BY <2>1 DEF PutRequest, MarkedPage
  <2>3. UserOK(user')  BY <1>2, <2>1, ActTyped DEF PutRequest
  <2>4. flagged \in BOOLEAN /\ page.panes[p].form \in Nat  BY <1>3 DEF Pane
  <2>5. PageOK(a) /\ Panes(a) = Panes(page) /\ a.children = page.children
    BY <1>1, <2>4, MarkPage DEF PaneOnly
  <2> HIDE DEF a
  <2>6. m \in Request  BY <1>5, <2>4
  <2>7. ASSUME NEW r \in requests' \ requests PROVE RequestOK(r)'
    BY <1>4, <2>1, <2>2, <2>4, <2>5, <2>6
  <2> HIDE DEF m
  <2>8. PagesTyped'  BY <1>2, <2>1, <2>2, <2>3, <2>5, <2>7, TypedStep
  <2>9. GoneIsDeleted  BY <2>2, <2>5 DEF GoneIsDeleted
  <2> QED  BY <2>8, <2>9
<1>11. ASSUME NEW item \in Items, AddNew(item) PROVE PagesTyped' /\ GoneIsDeleted
  <2> DEFINE m == Send("post", NoPane, item, 1)
  <2>1. requests' = requests \cup {m} /\ UNCHANGED <<kind, page, config, this>>
    BY <1>11 DEF AddNew
  <2>2. UserOK(user')  BY <1>2, <1>11, ActTyped DEF AddNew
  <2>3. ASSUME NEW r \in requests' \ requests PROVE RequestOK(r)'
    BY <1>11, <2>1, <2>3 DEF RequestOK, Request, Send, Values, NoPane
  <2> HIDE DEF m
  <2>4. PagesTyped'  BY <1>1, <1>2, <2>1, <2>2, <2>3, TypedStep
  <2>5. GoneIsDeleted  BY <2>1 DEF GoneIsDeleted
  <2> QED  BY <2>4, <2>5
<1>12. ASSUME NEW p \in DOMAIN page.panes,
              \/ Click(p) \/ MarkAsChanged(p) \/ Cancel(p) \/ Delete2(p)
              \/ SaveCodec(p) \/ SaveDatabase(p) \/ SaveProtocol(p)
              \/ SaveUser(p) \/ SaveVocabulary(p)
       PROVE  PagesTyped' /\ GoneIsDeleted
  <2>1. p \in Panes(page)  BY DEF Panes
  <2> QED  BY <1>6, <1>7, <1>8, <1>9, <1>10, <1>12, <2>1, SaveIsPut
<1> QED  BY <1>11, <1>12 DEF UserActs

\* The items the page is opened with, in the order of their placeholders.
LEMMA ConfiguredItems ==
    \E n \in Nat \ {0} :
        /\ SetToSeq(Configured) \in [1..n -> Configured]
        /\ \A i, j \in 1..n : SetToSeq(Configured)[i] = SetToSeq(Configured)[j] => i = j
        /\ \A item \in Configured : \E i \in 1..n : SetToSeq(Configured)[i] = item
<1> DEFINE n == Cardinality(Configured)
           items == SetToSeq(Configured)
<1>1. IsFiniteSet(Configured)  BY PagesAssumption, FS_Subset
<1>2. n \in Nat /\ ExistsBijection(1..n, Configured)  BY <1>1, FS_CardinalityType
<1>3. n # 0  BY <1>1, PagesAssumption, FS_EmptySet
<1>4. \E f \in [1..n -> Configured] : IsInjective(f)
  BY <1>2 DEF ExistsBijection, Bijection, Injection
<1>5. items \in [1..n -> Configured] /\ IsInjective(items)  BY <1>4 DEF SetToSeq
<1> HIDE DEF items
<1>6. items \in Injection(1..n, Configured)  BY <1>5 DEF Injection
<1>7. Cardinality(1..n) = n  BY <1>2, FS_Interval
<1> HIDE DEF n
<1>8. items \in Surjection(1..n, Configured)
  <2>1. Cardinality(1..n) = Cardinality(Configured)  BY <1>7 DEF n
  <2> QED  BY <1>1, <1>6, <2>1, FS_Injection
<1>9. \A item \in Configured : \E i \in 1..n : items[i] = item  BY <1>8 DEF Surjection
<1>10. \A i, j \in 1..n : items[i] = items[j] => i = j  BY <1>5 DEF IsInjective
<1> QED  BY <1>2, <1>3, <1>5, <1>9, <1>10 DEF items

\* The page as it has been opened.
LEMMA OpenedPage ==
    LET a == CreatePanesFromAllItems
    IN  /\ PageOK(a)
        /\ Panes(a) # {} /\ ToSet(a.children) = Panes(a)
        /\ a.selected = 1 /\ a.selected_pane = NoPane
        /\ a.pendingSelection = NoPane /\ a.pendingRemoval = NoPane
        /\ a.timers = << <<"select", 1>> >>
        /\ \A p \in Panes(a) : \E item \in Configured : a.panes[p] = NewPane(item, 1, FALSE)
        /\ \A p, q \in Panes(a) : a.panes[p].item = a.panes[q].item => p = q
        /\ \A item \in Configured : \E p \in Panes(a) : a.panes[p].item = item
<1> DEFINE items == SetToSeq(Configured)
           a == CreatePanesFromAllItems
           t == << <<"select", 1>> >>
           ids == [i \in DOMAIN items |-> i]
           panes == [i \in DOMAIN items |-> NewPane(items[i], 1, FALSE)]
<1>1. PICK n \in Nat \ {0} :
        /\ items \in [1..n -> Configured]
        /\ \A i, j \in 1..n : items[i] = items[j] => i = j
        /\ \A item \in Configured : \E i \in 1..n : items[i] = item
  BY ConfiguredItems
<1> HIDE DEF items
<1>2. DOMAIN items = 1..n /\ \A i \in 1..n : items[i] \in Configured  BY <1>1
<1>3. \A item \in Configured : NewPane(item, 1, FALSE) \in Pane
  BY PagesAssumption DEF NewPane, Pane, Blank
<1>4. /\ ids \in Seq(Nat) /\ DOMAIN ids = 1..n /\ \A i \in 1..n : ids[i] = i
  <2>1. ids \in [1..n -> Nat]  BY <1>2
  <2> QED  BY <1>2, <2>1, IsASeq
<1>5. /\ panes \in Seq(Pane) /\ DOMAIN panes = 1..n
      /\ \A i \in 1..n : panes[i] = NewPane(items[i], 1, FALSE)
  <2>1. panes \in [1..n -> Pane]  BY <1>2, <1>3
  <2>2. \A i \in 1..n : panes[i] = NewPane(items[i], 1, FALSE)  BY <1>2
  <2> HIDE DEF panes
  <2>3. panes \in Seq(Pane)  BY <2>1, IsASeq
  <2>4. DOMAIN panes = 1..n  BY <2>1
  <2> QED  BY <2>2, <2>3, <2>4
<1>6. t \in Seq(Timers \X Nat) /\ DOMAIN t = 1..1 /\ t[1] = <<"select", 1>>
  <2>1. <<"select", 1>> \in Timers \X Nat  BY DEF Timers
  <2> QED  BY <2>1
<1>7. a = [children |-> ids, selected |-> 1, selected_pane |-> NoPane,
           pendingSelection |-> NoPane, pendingRemoval |-> NoPane,
           timers |-> t, panes |-> panes]
  BY DEF CreatePanesFromAllItems, items
<1> HIDE DEF ids, panes, t, a
<1>8. a \in Page  BY <1>4, <1>5, <1>6, <1>7 DEF Page, NoPane
<1>9. Panes(a) = 1..n /\ ToSet(ids) = 1..n /\ 1 \in 1..n
  <2>1. Panes(a) = 1..n  BY <1>5, <1>7 DEF Panes
  <2>2. ToSet(ids) = 1..n  BY <1>4 DEF ToSet
  <2> QED  BY <1>1, <2>1, <2>2
<1>10. IsInjective(ids)  BY <1>4 DEF IsInjective
<1>11. \A i \in DOMAIN t : t[i][2] = 1  BY <1>6
<1>12. PageShape(a)  BY <1>7, <1>8, <1>9, <1>10, <1>11 DEF PageShape
<1>13. Shows(a, 1)  BY <1>4, <1>7, <1>9, ContainsIn DEF Shows
<1>14. PageOK(a)  BY <1>7, <1>12, <1>13 DEF PageOK, Shows, Contains
<1>15. \A p \in 1..n : a.panes[p] = NewPane(items[p], 1, FALSE)  BY <1>5, <1>7
<1>16. \A p \in 1..n : a.panes[p].item = items[p]
  <2>1. \A item : NewPane(item, 1, FALSE).item = item  BY DEF NewPane
  <2> QED  BY <1>15, <2>1
<1>17. \A p \in 1..n : \E item \in Configured : a.panes[p] = NewPane(item, 1, FALSE)
  BY <1>2, <1>15
<1>18. /\ \A p, q \in 1..n : a.panes[p].item = a.panes[q].item => p = q
       /\ \A item \in Configured : \E p \in 1..n : a.panes[p].item = item
  BY <1>1, <1>16
<1>19. /\ a.children = ids /\ a.selected = 1 /\ a.selected_pane = NoPane
       /\ a.pendingSelection = NoPane /\ a.pendingRemoval = NoPane
       /\ a.timers = << <<"select", 1>> >>
  BY <1>7 DEF t
<1> QED  BY <1>9, <1>14, <1>17, <1>18, <1>19 DEF a

\* Whichever page is opened first.
LEMMA InitTyped ==
    ASSUME ConfigPageSelected
    PROVE  PagesTyped
<1>1. UserOK(user) /\ requests = {} /\ this = NoPane
  <2>1. NoRequests  BY DEF ConfigPageSelected, PagesInit
  <2> QED  BY <2>1 DEF NoRequests, UserOK
<1>2. config \in [Items -> Values]
  BY PagesAssumption DEF ConfigPageSelected, PagesInit, Values
<1>3. PageOK(page)
  <2>1. CASE PagesInit  BY <2>1, OpenedPage DEF PagesInit
  <2>2. CASE page = [CreatePanesFromAllItems EXCEPT !.children = <<>>, !.panes = <<>>,
                                                    !.selected = NoPane, !.timers = <<>>]
    <3>1. /\ page \in Page /\ page.children = <<>> /\ page.panes = <<>>
          /\ page.selected = NoPane /\ page.timers = <<>> /\ page.selected_pane = NoPane
          /\ page.pendingSelection = NoPane /\ page.pendingRemoval = NoPane
      <4>1. CreatePanesFromAllItems \in Page  BY OpenedPage DEF PageOK, PageShape
      <4>2. LET a == CreatePanesFromAllItems
            IN  a.selected_pane = NoPane /\ a.pendingSelection = NoPane /\ a.pendingRemoval = NoPane
        BY OpenedPage
      <4>3. PICK a \in Page : a = CreatePanesFromAllItems  BY <4>1
      <4>4. page = [a EXCEPT !.children = <<>>, !.panes = <<>>, !.selected = NoPane, !.timers = <<>>]
        BY <2>2, <4>3
      <4>5. page = [children |-> <<>>, selected |-> NoPane, selected_pane |-> NoPane,
                    pendingSelection |-> NoPane, pendingRemoval |-> NoPane,
                    timers |-> <<>>, panes |-> <<>>]
        BY <4>2, <4>3, <4>4 DEF Page
      <4>6. <<>> \in Seq(Nat) /\ <<>> \in Seq(Timers \X Nat) /\ <<>> \in Seq(Pane)  OBVIOUS
      <4> QED  BY <4>5, <4>6 DEF Page, NoPane
    <3>2. ToSet(page.children) = {} /\ IsInjective(page.children) /\ DOMAIN page.timers = {}
      BY <3>1 DEF ToSet, IsInjective
    <3>3. PageShape(page)  BY <3>1, <3>2 DEF PageShape
    <3> QED  BY <3>1, <3>3 DEF PageOK
  <2> QED  BY <2>1, <2>2 DEF ConfigPageSelected
<1> QED  BY <1>1, <1>2, <1>3 DEF PagesTyped

\* Every step of the page keeps its shape and the panes of items that are there.
LEMMA NextTyped ==
    ASSUME PagesTyped, PagesNext
    PROVE  PagesTyped' /\ GoneIsDeleted
<1>1. CASE TimerFires  BY <1>1, TimersTyped DEF TimerFires
<1>2. CASE ServerAnswers  BY <1>2, AnswersTyped DEF ServerAnswers
<1>3. CASE RequestFails  BY <1>3, AnswersTyped DEF RequestFails
<1>4. CASE UserActs  BY <1>4, UserTyped
<1> QED  BY <1>1, <1>2, <1>3, <1>4 DEF PagesNext

\* A pane with a form leaves the accordion only with its item, on whichever
\* page, for any set of items and whatever the user and the server do.
THEOREM EditedPanesStay ==
    Spec => OnlyDeletedPanesLeave
<1>1. Init => PagesTyped  BY InitTyped DEF Init
<1>2. PagesTyped /\ [Next]_interfaceVars => PagesTyped' /\ [GoneIsDeleted]_pagesVars
  <2> SUFFICES ASSUME PagesTyped, [Next]_interfaceVars
               PROVE  PagesTyped' /\ [GoneIsDeleted]_pagesVars
    OBVIOUS
  <2>1. CASE PagesNext  BY <2>1, NextTyped
  <2>2. CASE UNCHANGED pagesVars
    <3>1. UNCHANGED <<kind, page, config, requests, this, user>>  BY <2>2 DEF pagesVars
    <3>2. PagesTyped'
      BY <3>1 DEF PagesTyped, PageOK, PageShape, RequestOK, Panes, Shows
    <3> QED  BY <2>2, <3>2
  <2> QED  BY <2>1, <2>2 DEF Next, interfaceVars
<1>3. [GoneIsDeleted]_pagesVars =>
        [\A p \in ToSet(page.children) \ ToSet(page'.children) :
            page.panes[p].initialized =>
               \E r \in requests \ requests' : r.type = "delete"]_pagesVars
  BY DEF GoneIsDeleted
<1> QED  BY <1>1, <1>2, <1>3, PTL DEF Spec, OnlyDeletedPanesLeave

--------------------------------------------------------------------------------
(* The phases of the page of a user who waits *)

\* A step that moves nothing in the accordion leaves the page in its phase.
LEMMA PhaseKept ==
    ASSUME NEW a, NEW b, PageOK(a), PhaseOK(a), Panes(b) = Panes(a),
           b.children = a.children, b.selected = a.selected, b.selected_pane = a.selected_pane,
           b.pendingSelection = a.pendingSelection, b.pendingRemoval = a.pendingRemoval,
           \A p \in Panes(a) : /\ b.panes[p].initialized = a.panes[p].initialized
                               /\ b.panes[p].item = a.panes[p].item
                               /\ b.panes[p].shows = a.panes[p].shows,
           NoMove(a.timers) => NoMove(b.timers),
           \A n \in {"select", "revert"} : \A q : OneMove(a.timers, n, q) => OneMove(b.timers, n, q),
           Replacing(a) => HasAdded(b.timers),
           Unsaved(b, a.selected_pane) => Unsaved(a, a.selected_pane)
                                            \/ (Resting(a) /\ Shows(a, a.selected_pane))
    PROVE  PhaseOK(b) /\ (Resting(a) => Resting(b))
<1>1. PageShape(a) /\ a \in Page  BY DEF PageOK, PageShape
<1>2. /\ a.children = <<>> \/ a.selected \in Panes(a)
      /\ a.pendingRemoval # NoPane => a.pendingRemoval \in Panes(a)
      /\ a.pendingSelection # NoPane => a.pendingSelection \in Panes(a)
      /\ \A p : Shows(a, p) => p \in Panes(a)
  <2>1. \A p : Shows(a, p) => p \in Panes(a)
    BY <1>1, ContainsIn DEF Shows, PageShape, Page
  <2> QED  BY <1>1, <2>1 DEF PageOK, PageShape
<1>3. \A p : Shows(b, p) <=> Shows(a, p)  BY DEF Shows
<1>4. Resting(a) => Resting(b)  BY <1>2 DEF Resting
<1>5. ASSUME NEW n, Replaces(a, n) PROVE Replaces(b, n)
  BY <1>2, <1>3, <1>5 DEF Replaces
<1>6. Leaving(a) /\ ~Resting(a) => Leaving(b)  BY <1>5 DEF Leaving
<1>7. Replacing(a) /\ ~Resting(a) => Replacing(b)  BY <1>5 DEF Replacing
<1>8. Returning(a) => Returning(b)  BY <1>2, <1>3 DEF Returning
<1>9. Unsaved(b, b.selected_pane) => Shows(b, b.selected_pane)  BY <1>3 DEF PhaseOK
<1>10. \A p \in Panes(b) : b.panes[p].shows = b.panes[p].item  BY DEF PhaseOK
<1> QED  BY <1>4, <1>6, <1>7, <1>8, <1>9, <1>10 DEF PhaseOK

\* A page that moves is not at rest, and one with a pane beside a placeholder
\* has a timer left.
LEMMA PhasesDiffer ==
    ASSUME NEW t, NEW n \in {"select", "revert"}, NEW p, OneMove(t, n, p)
    PROVE  ~NoMove(t)
BY DEF OneMove, NoMove, IsMove

\* A patient user acts when the page is at rest.
LEMMA QuietIsResting ==
    ASSUME PhaseOK(page), ~Busy
    PROVE  Resting(page) /\ requests = {}
<1>1. requests = {} /\ \A i \in DOMAIN page.timers : page.timers[i][1] = "unflag"
  BY DEF Busy
<1>2. NoMove(page.timers) /\ ~HasAdded(page.timers)  BY <1>1 DEF NoMove, IsMove, HasAdded
<1>3. ~Leaving(page) /\ ~Returning(page)  BY <1>2, PhasesDiffer DEF Leaving, Returning
<1>4. ~Replacing(page)  BY <1>2 DEF Replacing
<1> QED  BY <1>1, <1>3, <1>4 DEF PhaseOK

\* The request that is under way stays what it is.
LEMMA RequestKept ==
    ASSUME PagesTyped, OneRequest, UNCHANGED <<kind, requests, this>>,
           Resting(page) => Resting(page'), page'.selected = page.selected,
           Grown(page, page'),
           Unsaved(page', page'.selected_pane) =>
               Unsaved(page, page.selected_pane) \/ \A r \in requests : r.type # "delete"
    PROVE  OneRequest'
<1>1. ASSUME NEW r \in requests, Requested(r) PROVE Requested(r)'
  <2>1. RequestOK(r)  BY DEF PagesTyped
  <2>2. r.type \in {"load", "put", "delete"} =>
          r.pane \in Panes(page) /\ page'.panes[r.pane].item = page.panes[r.pane].item
    BY <2>1 DEF RequestOK, Grown
  <2>3. r.type = "reload" => this \in Panes(page) /\ page'.panes[this].item = page.panes[this].item
    BY <2>1 DEF RequestOK, Grown
  <2> QED  BY <1>1, <2>2, <2>3 DEF Requested
<1> QED  BY <1>1 DEF OneRequest

\* A selection's timer fires for the pane that has been selected.
LEMMA SelectPhase ==
    ASSUME PagesTyped, PhaseOK(page), NEW i \in DOMAIN page.timers,
           page.timers[i][1] = "select"
    PROVE  /\ Leaving(page) /\ ~Resting(page)
           /\ page.timers[i][2] = page.selected
           /\ NoMove(RemoveAt(page.timers, i))
<1>1. page.timers \in Seq(Timers \X Nat)  BY DEF PagesTyped, PageOK, PageShape, Page
<1>2. IsMove(page.timers[i])  BY DEF IsMove
<1>3. ~NoMove(page.timers)  BY <1>2 DEF NoMove
<1>4. ~Resting(page) /\ ~Replacing(page)  BY <1>3 DEF Resting, Replacing
<1>5. ~Returning(page)
  <2>1. ASSUME OneMove(page.timers, "revert", page.selected_pane) PROVE FALSE
    <3>1. page.timers[i] = <<"revert", page.selected_pane>>  BY <1>1, <1>2, <2>1, RemoveTimer DEF TimerGone
    <3> QED  BY <3>1
  <2> QED  BY <2>1 DEF Returning
<1>6. Leaving(page)  BY <1>4, <1>5 DEF PhaseOK
<1>7. OneMove(page.timers, "select", page.selected)  BY <1>6 DEF Leaving
<1>8. page.timers[i] = <<"select", page.selected>> /\ NoMove(RemoveAt(page.timers, i))
  BY <1>1, <1>2, <1>7, RemoveTimer DEF TimerGone
<1> QED  BY <1>4, <1>6, <1>8

\* The handler of a selection: the page comes to rest with the pane shown, or
\* puts one with a form beside the placeholder.
LEMMA SelectTimerPhase ==
    ASSUME PagesTyped, PhaseOK(page), OneRequest, NEW i \in DOMAIN page.timers, SelectTimer(i)
    PROVE  PhaseOK(page') /\ OneRequest'
<1> DEFINE p == page.timers[i][2]
           old == page.pendingRemoval
           a == Removed(i)
<1>1. PageOK(page) /\ PageShape(page) /\ page \in Page  BY DEF PagesTyped, PageOK, PageShape
<1>2. /\ Leaving(page) /\ ~Resting(page) /\ p = page.selected
      /\ NoMove(RemoveAt(page.timers, i))
  BY SelectPhase DEF SelectTimer, Fire
<1>3. requests = {}  BY <1>2 DEF OneRequest
<1>4. /\ PageOK(a) /\ a.panes = page.panes /\ Panes(a) = Panes(page)
      /\ ToSet(a.children) = ToSet(page.children) \ {old}
      /\ a.selected_pane = page.selected_pane
      /\ a.pendingSelection = page.pendingSelection /\ a.pendingRemoval = NoPane
      /\ old = NoPane \/ old # page.selected
           => a.selected = page.selected /\ a.timers = RemoveAt(page.timers, i)
  BY <1>1, RemovedPage
<1>5. old = NoPane \/ old # page.selected  BY <1>2 DEF Leaving, Replaces
<1>6. IF page.panes[p].initialized
        THEN /\ page' = [a EXCEPT !.selected_pane = p]
             /\ requests' = requests \cup {Send("load", p, page.panes[p].item, Blank)}
        ELSE /\ page' = ReplaceAccordionPane(a, p)
             /\ UNCHANGED requests
  BY DEF SelectTimer, Removed
<1> HIDE DEF a
<1>7. p # NoPane /\ p \in ToSet(page.children) /\ p \in Panes(page)
  <2>1. p # NoPane /\ page.children # <<>>  BY <1>1, <1>2 DEF Leaving, PageOK
  <2>2. Contains(page.children, p)  BY <1>1, <1>2, <2>1 DEF PageOK, Shows
  <2>3. p \in ToSet(page.children)  BY <1>1, <2>2, ContainsIn DEF Page
  <2> QED  BY <1>1, <2>1, <2>3 DEF PageShape
<1>8. p \in ToSet(a.children) /\ Shows(a, p)
  <2>1. p # old  BY <1>2, <1>5, <1>7
  <2>2. p \in ToSet(a.children)  BY <1>4, <1>7, <2>1
  <2>3. a.children \in Seq(Nat)  BY <1>4 DEF PageOK, PageShape, Page
  <2> QED  BY <2>2, <2>3, ContainsIn DEF Shows
<1>9. CASE page.panes[p].initialized
  <2> DEFINE m == Send("load", p, page.panes[p].item, Blank)
  <2>1. page' = [a EXCEPT !.selected_pane = p] /\ requests' = {m}  BY <1>3, <1>6, <1>9
  <2>2. p \in Panes(a)  BY <1>4, <1>7
  <2>3. FieldsSet(a, page', p, a.pendingSelection, a.pendingRemoval)
    BY <1>4, <2>1, <2>2, FieldsPage
  <2>4. /\ page'.panes = page.panes /\ page'.selected = p /\ page'.selected_pane = p
        /\ NoMove(page'.timers) /\ page'.pendingSelection = NoPane
        /\ page'.pendingRemoval = NoPane /\ Shows(page', p)
    <3>1. page.pendingSelection = NoPane  BY <1>2 DEF Leaving
    <3> QED  BY <1>2, <1>4, <1>5, <1>8, <2>3, <3>1 DEF Shows, FieldsSet
  <2>5. Resting(page')  BY <1>9, <2>4 DEF Resting
  <2>6. \A q \in Panes(page') : page'.panes[q].shows = page'.panes[q].item
    BY <2>4 DEF PhaseOK, Panes
  <2>7. PhaseOK(page')  BY <2>4, <2>5, <2>6 DEF PhaseOK
  <2>8. ASSUME NEW r, r = m PROVE Requested(r)'
    BY <1>7, <2>4, <2>8 DEF Requested, Send
  <2>9. OneRequest'
    <3>1. PICK r : r = m  OBVIOUS
    <3> HIDE DEF m
    <3>2. r \in requests' /\ requests' = {r} /\ Requested(r)'  BY <2>1, <2>8, <3>1
    <3> QED  BY <2>5, <3>2 DEF OneRequest
  <2> QED  BY <2>7, <2>9
<1>10. CASE ~page.panes[p].initialized
  <2> DEFINE b == ReplaceAccordionPane(a, p)
             new == Len(a.panes) + 1
  <2>1. old = NoPane  BY <1>2, <1>10 DEF Leaving, Replaces
  <2>2. page' = b /\ UNCHANGED requests  BY <1>6, <1>10
  <2>3. p \in Panes(a) /\ ~a.panes[p].initialized  BY <1>4, <1>7, <1>10
  <2>20. PaneReplaced(a, b, p, new)  BY <1>4, <2>3, ReplacePage
  <2>4. /\ PageOK(b) /\ Grown(a, b) /\ b.selected_pane = a.selected_pane
        /\ b.pendingSelection = new /\ b.pendingRemoval = p
        /\ Panes(b) = Panes(a) \cup {new} /\ new \notin Panes(a) /\ new \in Nat
        /\ b.panes[new] = NewPane(a.panes[p].item, a.panes[p].config_item, TRUE)
        /\ \A q \in Panes(a) : b.panes[q] = a.panes[q]
        /\ ToSet(b.children) = ToSet(a.children) \cup {new}
        /\ b.selected = IF a.selected = NoPane THEN new ELSE a.selected
        /\ a.selected # NoPane => b.timers = Append(a.timers, <<"added", new>>)
    BY <2>20 DEF PaneReplaced
  <2> HIDE DEF b, new
  <2>5. a.selected = p  BY <1>2, <1>4, <1>5
  <2>6. a.timers \in Seq(Timers \X Nat) /\ NoMove(a.timers)
    BY <1>2, <1>4, <1>5 DEF PageOK, PageShape, Page
  <2>7. NoMove(b.timers) /\ HasAdded(b.timers)
    <3>1. b.timers = Append(a.timers, <<"added", new>>)  BY <1>7, <2>4, <2>5
    <3>2. "added" \in Timers  BY DEF Timers
    <3>3. new \in Nat /\ a.timers \in Seq(Timers \X Nat)  BY <2>4, <2>6
    <3>4. TimerSet(a.timers, Append(a.timers, <<"added", new>>), "added", new)
      BY ONLY <3>2, <3>3, AppendTimer
    <3> QED  BY <2>6, <3>1, <3>4 DEF TimerSet
  <2>8. new # NoPane /\ new # p /\ new # b.selected_pane
    <3>1. new \in Panes(b) /\ b \in Page  BY <2>4 DEF PageOK, PageShape
    <3>2. new # NoPane  BY <3>1 DEF Panes, Page, NoPane
    <3>3. a.selected_pane \in Panes(a) \cup {NoPane}  BY <1>4 DEF PageOK, PageShape
    <3> QED  BY <2>3, <2>4, <3>2, <3>3
  <2>9. Shows(b, p) /\ Shows(b, new)
    <3>1. b.children \in Seq(Nat)  BY <2>4 DEF PageOK, PageShape, Page
    <3> QED  BY <1>8, <2>4, <3>1, ContainsIn DEF Shows
  <2>10. Replaces(b, new)
    <3>1. b.panes[new].initialized /\ b.panes[new].item = a.panes[p].item
      BY <2>4 DEF NewPane
    <3> QED  BY <2>3, <2>4, <2>8, <2>9, <3>1 DEF Replaces
  <2>11. ~Unsaved(b, b.selected_pane)
    <3>1. ~Unsaved(page, page.selected_pane)  BY <1>2 DEF Leaving
    <3>2. page.selected_pane \in Panes(page) \cup {NoPane}  BY <1>1 DEF PageShape
    <3> QED  BY <1>4, <2>4, <3>1, <3>2 DEF Unsaved
  <2>12. Replacing(b)
    BY <1>7, <2>4, <2>5, <2>7, <2>8, <2>10, <2>11 DEF Replacing
  <2>13. ASSUME NEW q \in Panes(b) PROVE b.panes[q].shows = b.panes[q].item
    <3>1. CASE q = new  BY <2>4, <3>1 DEF NewPane
    <3>2. CASE q # new
      <4>1. q \in Panes(a)  BY <2>4, <3>2
      <4> QED  BY <1>4, <2>4, <4>1 DEF PhaseOK
    <3> QED  BY <3>1, <3>2
  <2>14. PhaseOK(b)  BY <2>11, <2>12, <2>13 DEF PhaseOK
  <2> QED  BY <1>3, <2>2, <2>14 DEF OneRequest
<1> QED  BY <1>9, <1>10

\* The pane with a form is selected, and is on its way to be shown.
LEMMA AddedTimerPhase ==
    ASSUME PagesTyped, PhaseOK(page), OneRequest, NEW i \in DOMAIN page.timers, AddedTimer(i)
    PROVE  PhaseOK(page') /\ OneRequest'
<1> DEFINE f == Fired(i)
           q == page.pendingSelection
<1>1. PageOK(page) /\ PageShape(page) /\ page \in Page  BY DEF PagesTyped, PageOK, PageShape
<1>2. /\ PageOK(f) /\ Kept(page, f) /\ Panes(f) = Panes(page)
      /\ f.children = page.children /\ f.selected = page.selected
      /\ f.timers = RemoveAt(page.timers, i)
  BY <1>1, FiredPage
<1>3. page.timers \in Seq(Timers \X Nat) /\ page.timers[i][1] = "added"
  BY <1>1 DEF Page, AddedTimer, Fire
<1>4. ~IsMove(page.timers[i])  BY <1>3 DEF IsMove
<1>5. TimerGone(page.timers, f.timers, page.timers[i])  BY <1>2, <1>3, RemoveTimer
<1>6. page' = IF q # NoPane /\ Contains(page.children, q)
                THEN [SelectChild(f, q) EXCEPT !.pendingSelection = NoPane] ELSE f
  BY DEF AddedTimer
<1>7. UNCHANGED <<kind, requests, this>>  BY DEF AddedTimer
<1> HIDE DEF f
<1>8. CASE Replacing(page)
  <2> DEFINE c == SelectChild(f, q)
  <2>1. /\ q # NoPane /\ q # page.selected_pane /\ Shows(page, q) /\ q # page.selected
        /\ NoMove(page.timers) /\ ~Unsaved(page, page.selected_pane)
        /\ page.pendingRemoval = page.selected /\ Replaces(page, q)
    BY <1>8 DEF Replacing, Replaces
  <2>2. page' = [c EXCEPT !.pendingSelection = NoPane]  BY <1>6, <2>1 DEF Shows
  <2>3. /\ PageOK(c) /\ Kept(f, c) /\ c.children = f.children
        /\ c.selected = IF Shows(f, q) THEN q ELSE f.selected
        /\ c.timers = IF q = f.selected \/ ~Shows(f, q) \/ q = f.selected_pane
                               THEN f.timers
                             ELSE IF Unsaved(f, f.selected_pane)
                               THEN Append(f.timers, <<"revert", f.selected_pane>>)
                               ELSE Append(f.timers, <<"select", q>>)
    <3>1. PageShape(f)  BY <1>2 DEF PageOK
    <3>2. ChildSelected(f, c, q)  BY ONLY <3>1, SelectChildPage
    <3> QED  BY ONLY <1>2, <3>2 DEF ChildSelected
  <2> HIDE DEF c
  <2>4. Shows(f, q) /\ q # f.selected /\ q # f.selected_pane /\ ~Unsaved(f, f.selected_pane)
    BY <1>2, <2>1 DEF Kept, Shows, Unsaved
  <2>5. c.selected = q /\ c.timers = Append(f.timers, <<"select", q>>)  BY <2>3, <2>4
  <2>6. OneMove(c.timers, "select", q)
    <3>1. NoMove(f.timers)  BY <1>5, <2>1 DEF TimerGone
    <3>2. q \in Nat /\ f.timers \in Seq(Timers \X Nat) /\ "select" \in Timers
      BY <1>1, <1>5 DEF TimerGone, Timers, Page
    <3>3. TimerSet(f.timers, Append(f.timers, <<"select", q>>), "select", q)
      BY ONLY <3>2, AppendTimer
    <3> QED  BY <2>5, <3>1, <3>3 DEF TimerSet
  <2>7. q \in Panes(c)
    <3>1. q \in Panes(page)  BY <1>1, <2>1 DEF PageShape
    <3> QED  BY <1>2, <2>3, <3>1 DEF Kept, Panes
  <2>8. FieldsSet(c, page', c.selected_pane, NoPane, c.pendingRemoval)
    BY <2>2, <2>3, <2>7, FieldsPage
  <2>9. /\ page'.panes = page.panes /\ page'.children = page.children /\ page'.selected = q
        /\ page'.timers = c.timers /\ page'.selected_pane = page.selected_pane
        /\ page'.pendingSelection = NoPane /\ page'.pendingRemoval = page.selected
    BY <1>2, <2>1, <2>3, <2>5, <2>8 DEF FieldsSet, Kept
  <2>10. Replaces(page', q)  BY <2>1, <2>9 DEF Replaces, Shows
  <2>11. ~Unsaved(page', page'.selected_pane)  BY <2>1, <2>9 DEF Unsaved
  <2>12. Leaving(page')  BY <2>1, <2>6, <2>9, <2>10, <2>11 DEF Leaving
  <2>13. PhaseOK(page')  BY <2>9, <2>11, <2>12 DEF PhaseOK, Panes
  <2>14. requests = {}
    <3>1. ~Resting(page)  BY <2>1 DEF Resting, Replaces
    <3> QED  BY <3>1 DEF OneRequest
  <2> QED  BY <1>7, <2>13, <2>14 DEF OneRequest
<1>9. CASE ~Replacing(page)
  <2>1. q = NoPane  BY <1>9 DEF PhaseOK, Resting, Leaving, Returning
  <2>2. page' = f  BY <1>6, <2>1
  <2>3. /\ NoMove(page.timers) => NoMove(f.timers)
        /\ \A n \in {"select", "revert"} : \A x : OneMove(page.timers, n, x) => OneMove(f.timers, n, x)
    BY <1>4, <1>5 DEF TimerGone
  <2>4. PhaseOK(f) /\ (Resting(page) => Resting(f))
    BY <1>1, <1>2, <1>9, <2>3, PhaseKept DEF Kept, Unsaved
  <2>5. Grown(page, f)  BY <1>2 DEF Grown, Kept
  <2>6. Unsaved(f, f.selected_pane) => Unsaved(page, page.selected_pane)
    BY <1>2 DEF Kept, Unsaved
  <2>7. OneRequest'  BY <1>2, <1>7, <2>2, <2>4, <2>5, <2>6, RequestKept
  <2> QED  BY <2>2, <2>4, <2>7
<1> QED  BY <1>8, <1>9

\* The shown pane is selected again, and the page is at rest.
LEMMA RevertTimerPhase ==
    ASSUME PagesTyped, PhaseOK(page), OneRequest, NEW i \in DOMAIN page.timers, RevertTimer(i)
    PROVE  PhaseOK(page') /\ OneRequest'
<1> DEFINE f == Fired(i)
           p == page.selected_pane
           c == SelectChild(f, p)
<1>1. PageOK(page) /\ PageShape(page) /\ page \in Page  BY DEF PagesTyped, PageOK, PageShape
<1>2. /\ PageOK(f) /\ Kept(page, f) /\ Panes(f) = Panes(page)
      /\ f.children = page.children /\ f.selected = page.selected
      /\ f.timers = RemoveAt(page.timers, i)
  BY <1>1, FiredPage
<1>3. page.timers \in Seq(Timers \X Nat) /\ page.timers[i][1] = "revert"
  BY <1>1 DEF Page, RevertTimer, Fire
<1>4. IsMove(page.timers[i])  BY <1>3 DEF IsMove
<1>5. ~NoMove(page.timers)  BY <1>4 DEF NoMove
<1>6. TimerGone(page.timers, f.timers, page.timers[i])  BY <1>2, <1>3, RemoveTimer
<1>7. Returning(page)
  <2>1. ~Resting(page) /\ ~Replacing(page)  BY <1>5 DEF Resting, Replacing
  <2>2. ASSUME OneMove(page.timers, "select", page.selected) PROVE FALSE
    <3>1. page.timers[i] = <<"select", page.selected>>  BY <1>4, <1>6, <2>2 DEF TimerGone
    <3> QED  BY <1>3, <3>1
  <2> QED  BY <2>1, <2>2 DEF PhaseOK, Leaving
<1>8. page.timers[i] = <<"revert", p>> /\ NoMove(f.timers)
  BY <1>4, <1>6, <1>7 DEF TimerGone, Returning
<1>9. page' = c /\ UNCHANGED <<kind, requests, this>>  BY <1>8 DEF RevertTimer
<1> HIDE DEF f
<1>10. /\ Kept(f, c) /\ c.children = f.children
       /\ c.selected = IF Shows(f, p) THEN p ELSE f.selected
       /\ p = f.selected_pane => c.timers = f.timers
  <2>1. PageShape(f)  BY <1>2 DEF PageOK
  <2>2. ChildSelected(f, c, p)  BY ONLY <2>1, SelectChildPage
  <2> QED  BY ONLY <2>2 DEF ChildSelected
<1> HIDE DEF c
<1>11. /\ c.panes = page.panes /\ c.children = page.children /\ c.selected = p
       /\ c.selected_pane = p /\ NoMove(c.timers)
       /\ c.pendingSelection = NoPane /\ c.pendingRemoval = NoPane
       /\ page.panes[p].initialized /\ Shows(c, p)
  BY <1>2, <1>7, <1>8, <1>10 DEF Kept, Returning, Shows
<1>12. Resting(c)  BY <1>11 DEF Resting
<1>13. PhaseOK(c)  BY <1>11, <1>12 DEF PhaseOK, Panes
<1>14. requests = {}
  <2>1. ~Resting(page)  BY <1>5 DEF Resting
  <2> QED  BY <2>1 DEF OneRequest
<1> QED  BY <1>9, <1>13, <1>14 DEF OneRequest

\* The mark of a pane that has been populated is taken off.
LEMMA UnflagTimerPhase ==
    ASSUME PagesTyped, PhaseOK(page), OneRequest, NEW i \in DOMAIN page.timers, UnflagTimer(i)
    PROVE  PhaseOK(page') /\ OneRequest'
<1> DEFINE f == Fired(i)
           p == page.timers[i][2]
           b == MarkedPage(f, p, FALSE)
<1>1. PageOK(page) /\ PageShape(page) /\ page \in Page  BY DEF PagesTyped, PageOK, PageShape
<1>2. /\ PageOK(f) /\ Kept(page, f) /\ Panes(f) = Panes(page)
      /\ f.children = page.children /\ f.selected = page.selected
      /\ f.timers = RemoveAt(page.timers, i) /\ p \in Panes(page)
  BY <1>1, FiredPage
<1>3. page.timers \in Seq(Timers \X Nat) /\ page.timers[i][1] = "unflag"
  BY <1>1 DEF Page, UnflagTimer, Fire
<1>4. ~IsMove(page.timers[i])  BY <1>3 DEF IsMove
<1>5. TimerGone(page.timers, f.timers, page.timers[i])  BY <1>2, <1>3, RemoveTimer
<1>6. page' = b /\ UNCHANGED <<kind, requests, this>>
  BY DEF UnflagTimer, MarkedPage
<1> HIDE DEF f
<1>7. PaneOnly(f, b, p) /\ b.timers = f.timers /\ Marked(f.panes[p], b.panes[p], FALSE)
  BY <1>2, MarkPage
<1> HIDE DEF b, p
<1>8. f.panes = page.panes /\ page.panes[p] \in Pane  BY <1>1, <1>2 DEF Kept, Page, Panes, p
<1>9. /\ \A q \in Panes(page) : /\ b.panes[q].initialized = page.panes[q].initialized
                                /\ b.panes[q].item = page.panes[q].item
                                /\ b.panes[q].shows = page.panes[q].shows
      /\ Unsaved(b, page.selected_pane) => Unsaved(page, page.selected_pane)
  <2>1. ~Unsaved(b, p)  BY <1>7, <1>8, MarkedFields DEF Unsaved
  <2>2. ASSUME NEW q \in Panes(page), q # p PROVE b.panes[q] = page.panes[q]
    BY <1>2, <1>7, <1>8, <2>2 DEF PaneOnly
  <2>3. page.selected_pane \in Panes(page) \cup {NoPane}  BY <1>1 DEF PageShape
  <2>4. Unsaved(b, page.selected_pane) => Unsaved(page, page.selected_pane)
    BY <2>1, <2>2, <2>3 DEF Unsaved
  <2>5. ASSUME NEW q \in Panes(page)
        PROVE  /\ b.panes[q].initialized = page.panes[q].initialized
               /\ b.panes[q].item = page.panes[q].item
               /\ b.panes[q].shows = page.panes[q].shows
    <3>1. CASE q = p
      <4>1. /\ b.panes[p].initialized = f.panes[p].initialized
            /\ b.panes[p].item = f.panes[p].item
            /\ b.panes[p].shows = f.panes[p].shows
        BY <1>7, <1>8, MarkedFields
      <4> QED  BY <1>8, <3>1, <4>1
    <3>2. CASE q # p  BY <2>2, <3>2
    <3> QED  BY <3>1, <3>2
  <2> QED  BY <2>4, <2>5
<1>10. /\ NoMove(page.timers) => NoMove(b.timers)
       /\ \A n \in {"select", "revert"} : \A x : OneMove(page.timers, n, x) => OneMove(b.timers, n, x)
       /\ HasAdded(page.timers) => HasAdded(b.timers)
  BY <1>3, <1>4, <1>5, <1>7 DEF TimerGone
<1>11. PhaseOK(b) /\ (Resting(page) => Resting(b))
  <2>1. Replacing(page) => HasAdded(b.timers)  BY <1>10 DEF Replacing
  <2>2. /\ Panes(b) = Panes(page) /\ b.children = page.children
        /\ b.selected = page.selected /\ b.selected_pane = page.selected_pane
        /\ b.pendingSelection = page.pendingSelection
        /\ b.pendingRemoval = page.pendingRemoval
    BY <1>2, <1>7 DEF PaneOnly, Kept
  <2> QED  BY <1>1, <1>9, <1>10, <2>1, <2>2, PhaseKept
<1>12. Grown(page, b)  BY <1>2, <1>7, <1>9 DEF PaneOnly, Grown
<1>13. OneRequest'
  <2>1. b.selected = page.selected /\ b.selected_pane = page.selected_pane
    BY <1>2, <1>7 DEF PaneOnly, Kept
  <2> QED  BY <1>6, <1>9, <1>11, <1>12, <2>1, RequestKept
<1> QED  BY <1>6, <1>11, <1>13

\* Only the content of a form differs.
LEMMA FilledFields ==
    ASSUME NEW x \in Pane, NEW y, NEW item, NEW value, Filled(x, y, item, value)
    PROVE  /\ y.initialized = x.initialized /\ y.item = x.item /\ y.shows = item
           /\ y.form = value /\ y.config_item = x.config_item /\ y.typed = x.typed
           /\ y.unsaved_changes = x.unsaved_changes
BY DEF Filled, Pane

\* Two changes of a pane are one.
LEMMA PaneOnlyTwice ==
    ASSUME NEW a, NEW b, NEW c, NEW p, PaneOnly(a, b, p), PaneOnly(b, c, p)
    PROVE  PaneOnly(a, c, p)
BY DEF PaneOnly, Grown

\* A pane that is filled or marked leaves the page in its phase.
LEMMA PaneOnlyPhase ==
    ASSUME NEW a, NEW b, NEW p \in Panes(a), PageOK(a), PhaseOK(a), PaneOnly(a, b, p),
           b.timers = a.timers \/ b.timers = Append(a.timers, <<"unflag", p>>),
           b.panes[p].initialized = a.panes[p].initialized,
           b.panes[p].shows = a.panes[p].item,
           Unsaved(b, p) => Unsaved(a, p)
                              \/ p # a.selected_pane
                              \/ (Resting(a) /\ Shows(a, a.selected_pane))
    PROVE  PhaseOK(b) /\ (Resting(a) => Resting(b))
<1>1. PageShape(a) /\ a \in Page  BY DEF PageOK, PageShape
<1>2. a.timers \in Seq(Timers \X Nat) /\ p \in Nat  BY <1>1 DEF Page, Panes
<1>3. /\ NoMove(a.timers) => NoMove(b.timers)
      /\ \A n \in {"select", "revert"} : \A q : OneMove(a.timers, n, q) => OneMove(b.timers, n, q)
      /\ HasAdded(a.timers) => HasAdded(b.timers)
  <2>1. "unflag" \in Timers /\ "unflag" \notin {"select", "revert"}  BY DEF Timers
  <2>2. TimerSet(a.timers, Append(a.timers, <<"unflag", p>>), "unflag", p)
    BY ONLY <1>2, <2>1, AppendTimer
  <2>3. CASE b.timers = a.timers  BY <2>3
  <2>4. CASE b.timers = Append(a.timers, <<"unflag", p>>)  BY <2>1, <2>2, <2>4 DEF TimerSet
  <2> QED  BY <2>3, <2>4
<1>4. ASSUME NEW q \in Panes(a)
      PROVE  /\ b.panes[q].initialized = a.panes[q].initialized
             /\ b.panes[q].item = a.panes[q].item
             /\ b.panes[q].shows = a.panes[q].shows
  <2>1. a.panes[p].shows = a.panes[p].item  BY DEF PhaseOK
  <2>2. CASE q = p  BY <2>1, <2>2 DEF PaneOnly, Grown
  <2>3. CASE q # p  BY <2>3 DEF PaneOnly
  <2> QED  BY <2>2, <2>3
<1>5. Unsaved(b, a.selected_pane) => Unsaved(a, a.selected_pane)
                                       \/ (Resting(a) /\ Shows(a, a.selected_pane))
  <2>1. CASE a.selected_pane = p  BY <2>1
  <2>2. CASE a.selected_pane # p
    <3>1. a.selected_pane \in Panes(a) \cup {NoPane}  BY <1>1 DEF PageShape
    <3> QED  BY <2>2, <3>1 DEF Unsaved, PaneOnly
  <2> QED  BY <2>1, <2>2
<1>6. Replacing(a) => HasAdded(b.timers)  BY <1>3 DEF Replacing
<1> QED  BY <1>3, <1>4, <1>5, <1>6, PhaseKept DEF PaneOnly

\* Removing the selected pane of a page at rest, when the next has been selected.
LEMMA DeletedPhase ==
    ASSUME PagesTyped, PhaseOK(page), OneRequest, NEW r \in requests, Deleted(r)
    PROVE  PhaseOK(page')
<1> DEFINE a == Forward(page)
           b == RemoveChild(a, this)
           sp == page.selected_pane
<1>1. PageOK(page) /\ PageShape(page) /\ page \in Page  BY DEF PagesTyped, PageOK, PageShape
<1>2. /\ Resting(page) /\ this = page.selected /\ this # NoPane /\ ~Unsaved(page, sp)
      /\ this \in Panes(page)
  <2>1. r.type = "delete" /\ Requested(r) /\ Resting(page) /\ RequestOK(r)
    BY DEF Deleted, Answer, OneRequest, PagesTyped
  <2> QED  BY <2>1 DEF Requested, RequestOK
<1>3. page.children # <<>> /\ sp = this  BY <1>1, <1>2 DEF PageOK, Resting
<1>4. PICK q \in ToSet(page.children) :
        a = SelectChild(page, q) /\ (q = page.selected => ToSet(page.children) = {q})
  BY <1>1, <1>3, ForwardPage
<1>5. page' = b  BY DEF Deleted
<1>6. page.timers \in Seq(Timers \X Nat) /\ NoMove(page.timers)
  BY <1>1, <1>2 DEF Page, Resting
<1> HIDE DEF a
<1>7. CASE q = page.selected
  <2>1. a = page  BY <1>4, <1>7 DEF SelectChild
  <2>2. /\ PageOK(b) /\ Kept(a, b) /\ ToSet(b.children) = ToSet(a.children) \ {this}
        /\ ToSet(a.children) = {this} => b.timers = a.timers
    BY <1>1, <1>2, <2>1, RemoveChildPage
  <2> HIDE DEF b
  <2>3. ToSet(b.children) = {} /\ b.timers = page.timers  BY <1>2, <1>4, <1>7, <2>1, <2>2
  <2>4. b.children = <<>>
    <3>1. b.children \in Seq(Nat)  BY <2>2 DEF PageOK, PageShape, Page
    <3> QED  BY <2>3, <3>1, ContainsIn
  <2>5. Resting(b)  BY <1>2, <1>6, <2>1, <2>2, <2>3, <2>4 DEF Resting, Kept
  <2>6. ~Unsaved(b, b.selected_pane)  BY <1>2, <2>1, <2>2 DEF Kept, Unsaved
  <2>7. \A p \in Panes(b) : b.panes[p].shows = b.panes[p].item
    BY <2>1, <2>2 DEF PhaseOK, Kept, Panes
  <2> QED  BY <1>5, <2>5, <2>6, <2>7 DEF PhaseOK
<1>8. CASE q # page.selected
  <2>1. Shows(page, q) /\ q \in Panes(page) /\ q # NoPane /\ q \in Nat
    BY <1>1, ContainsIn DEF Shows, PageShape, Page, Panes, NoPane
  <2>2. /\ PageOK(a) /\ Kept(page, a) /\ a.selected = q
        /\ a.timers = Append(page.timers, <<"select", q>>)
    <3>1. /\ PageOK(a) /\ Kept(page, a)
          /\ a.selected = IF Shows(page, q) THEN q ELSE page.selected
          /\ a.timers = IF q = page.selected \/ ~Shows(page, q) \/ q = sp
                               THEN page.timers
                             ELSE IF Unsaved(page, sp)
                               THEN Append(page.timers, <<"revert", sp>>)
                               ELSE Append(page.timers, <<"select", q>>)
      <4>1. ChildSelected(page, SelectChild(page, q), q)  BY <1>1, SelectChildPage
      <4>2. PageOK(page) /\ a = SelectChild(page, q) /\ sp = page.selected_pane  BY <1>1, <1>4
      <4> QED  BY ONLY <4>1, <4>2 DEF ChildSelected
    <3> QED  BY <1>2, <1>3, <1>8, <2>1, <3>1
  <2>3. this \in Panes(a) /\ this # a.selected  BY <1>2, <1>8, <2>2 DEF Kept, Panes
  <2>4. /\ PageOK(b) /\ Kept(a, b)
        /\ this # a.selected => b.selected = a.selected /\ b.timers = a.timers
    BY <2>2, <2>3, RemoveChildPage
  <2> HIDE DEF b
  <2>5. /\ b.panes = page.panes /\ b.selected_pane = sp /\ b.selected = q
        /\ b.timers = Append(page.timers, <<"select", q>>)
        /\ b.pendingSelection = NoPane /\ b.pendingRemoval = NoPane
    BY <1>2, <2>2, <2>3, <2>4 DEF Kept, Resting
  <2>6. OneMove(b.timers, "select", q)
    <3>1. "select" \in Timers  BY DEF Timers
    <3>2. TimerSet(page.timers, Append(page.timers, <<"select", q>>), "select", q)
      BY <1>6, <2>1, <3>1, AppendTimer
    <3> QED  BY <1>6, <2>5, <3>2 DEF TimerSet
  <2>7. ~Unsaved(b, b.selected_pane)  BY <1>2, <2>5 DEF Unsaved
  <2>8. Leaving(b)  BY <1>2, <1>3, <1>8, <2>1, <2>5, <2>6, <2>7 DEF Leaving
  <2>9. \A p \in Panes(b) : b.panes[p].shows = b.panes[p].item
    BY <2>5 DEF PhaseOK, Panes
  <2> QED  BY <1>5, <2>7, <2>8, <2>9 DEF PhaseOK
<1> QED  BY <1>7, <1>8
\* What the answer to a load or a reload does to the pane it is for.
Target(r) == IF r.type = "load" THEN r.pane ELSE this

Refilled(old, new, r) ==
    /\ new.initialized = old.initialized /\ new.item = old.item /\ new.shows = r.item
    /\ new.form = r.value /\ new.typed = old.typed
    /\ new.unsaved_changes = old.unsaved_changes
    /\ new.config_item = IF r.type = "reload" THEN r.value ELSE old.config_item

\* The pane is filled; its mark, if any, will be removed by a timer.
LEMMA LoadedPage ==
    ASSUME PagesTyped, NEW r \in requests, Loaded(r) \/ Reloaded(r), r.value # Absent
    PROVE  /\ Target(r) \in Panes(page) /\ PaneOnly(page, page', Target(r))
           /\ page'.timers = Append(page.timers, <<"unflag", Target(r)>>)
           /\ Refilled(page.panes[Target(r)], page'.panes[Target(r)], r)
<1>1. PageOK(page) /\ PageShape(page) /\ page \in Page  BY DEF PagesTyped, PageOK, PageShape
<1>2. RequestOK(r) /\ r \in Request  BY DEF PagesTyped, RequestOK
<1>3. r.item \in Items /\ r.value \in Nat  BY <1>2 DEF Request, Values
<1>4. CASE Loaded(r)
  <2> DEFINE b == PopulateFromConfigItem(page, r.pane, r.item, r.value)
  <2>1. r.type = "load" /\ r.pane \in Panes(page)
    BY <1>2, <1>4 DEF RequestOK, Loaded, Answer
  <2>2. page' = b  BY <1>4 DEF Loaded
  <2>3. /\ PaneOnly(page, b, r.pane) /\ b.timers = Append(page.timers, <<"unflag", r.pane>>)
        /\ Filled(page.panes[r.pane], b.panes[r.pane], r.item, r.value)
    BY <1>1, <1>3, <2>1, PopulatePage
  <2> HIDE DEF b
  <2>4. page.panes[r.pane] \in Pane  BY <1>1, <2>1 DEF Page, Panes
  <2>5. Refilled(page.panes[r.pane], b.panes[r.pane], r)
    BY <2>1, <2>3, <2>4, FilledFields DEF Refilled
  <2> QED  BY <2>1, <2>2, <2>3, <2>5 DEF Target
<1>5. CASE Reloaded(r)
  <2> DEFINE x == [page.panes[this] EXCEPT !.config_item = r.value]
             a == [page EXCEPT !.panes = [@ EXCEPT ![this] = x]]
             b == PopulateFromConfigItem(a, this, r.item, r.value)
  <2>1. r.type = "reload" /\ this \in Panes(page)
    BY <1>2, <1>5 DEF RequestOK, Reloaded, Answer
  <2>2. page.panes[this] \in Pane  BY <1>1, <2>1 DEF Page, Panes
  <2>3. /\ x \in Pane /\ x.item = page.panes[this].item /\ x.config_item = r.value
        /\ x.initialized = page.panes[this].initialized /\ x.typed = page.panes[this].typed
        /\ x.unsaved_changes = page.panes[this].unsaved_changes
    BY <1>3, <2>2 DEF Pane
  <2>4. [page EXCEPT !.panes[this].config_item = r.value] = a  BY <1>1, <2>1, <2>2
  <2>5. page' = b  BY <1>5, <2>4 DEF Reloaded
  <2> HIDE DEF x
  <2>6. PaneOnly(page, a, this) /\ a.timers = page.timers /\ a.panes[this] = x
    BY <1>1, <2>1, <2>3, PaneChanged
  <2> HIDE DEF a
  <2>7. PageOK(a) /\ this \in Panes(a)  BY <2>1, <2>6 DEF PaneOnly
  <2>8. /\ PaneOnly(a, b, this) /\ b.timers = Append(a.timers, <<"unflag", this>>)
        /\ Filled(a.panes[this], b.panes[this], r.item, r.value)
    BY <1>3, <2>7, PopulatePage
  <2> HIDE DEF b
  <2>9. PaneOnly(page, b, this)  BY <2>6, <2>8, PaneOnlyTwice
  <2>10. Refilled(page.panes[this], b.panes[this], r)
    BY <2>1, <2>3, <2>6, <2>8, FilledFields DEF Refilled
  <2> QED  BY <2>1, <2>5, <2>6, <2>8, <2>9, <2>10 DEF Target
<1> QED  BY <1>4, <1>5

\* The pane for a new item is put last and selected; a page at rest then moves,
\* to it or back to the pane with unsaved changes.
CreatedOnPage(a, b, new, item, value) ==
    /\ PageOK(b) /\ b.selected_pane = a.selected_pane
    /\ b.pendingSelection = a.pendingSelection /\ b.pendingRemoval = a.pendingRemoval
    /\ Panes(b) = Panes(a) \cup {new} /\ new \notin Panes(a) /\ new \in Nat \ {NoPane}
    /\ b.panes[new] = NewPane(item, value, FALSE)
    /\ \A p \in Panes(a) : b.panes[p] = a.panes[p]
    /\ ToSet(b.children) = ToSet(a.children) \cup {new}
    /\ b.selected = new
    /\ LET t == Append(a.timers, <<"added", new>>)
       IN  b.timers = IF Unsaved(a, a.selected_pane)
                        THEN Append(t, <<"revert", a.selected_pane>>)
                        ELSE Append(t, <<"select", new>>)

\* What the arrival of a new item does to a page at rest.
LEMMA CreatedPage ==
    ASSUME PagesTyped, PhaseOK(page), Resting(page), NEW r \in requests,
           CreateNewPaneFromStore(r), r.value # Absent
    PROVE  CreatedOnPage(page, page', Len(page.panes) + 1, r.item, r.value)
<1> DEFINE a == CreateNewPaneFromItem(page, r.item, r.value)
           new == Len(page.panes) + 1
           b == SelectChild(a, Len(a.panes))
           sp == page.selected_pane
           t == Append(page.timers, <<"added", new>>)
           u == IF Unsaved(page, sp) THEN Append(t, <<"revert", sp>>)
                ELSE Append(t, <<"select", new>>)
<1>1. PageOK(page) /\ PageShape(page) /\ page \in Page  BY DEF PagesTyped, PageOK, PageShape
<1>2. RequestOK(r) /\ r \in Request  BY DEF PagesTyped, RequestOK
<1>3. r.item \in Items /\ r.value \in Nat  BY <1>2 DEF Request, Values
<1>4. page' = IF sp = NoPane THEN a ELSE b  BY DEF CreateNewPaneFromStore
<1>5. /\ PageOK(a) /\ a.selected_pane = sp
      /\ a.pendingSelection = page.pendingSelection
      /\ a.pendingRemoval = page.pendingRemoval
      /\ Panes(a) = Panes(page) \cup {new} /\ new \notin Panes(page) /\ new \in Nat
      /\ Len(a.panes) = new
      /\ a.panes[new] = NewPane(r.item, r.value, FALSE)
      /\ \A p \in Panes(page) : a.panes[p] = page.panes[p]
      /\ ToSet(a.children) = ToSet(page.children) \cup {new}
      /\ a.selected = IF page.selected = NoPane THEN new ELSE page.selected
      /\ a.timers = IF page.selected # NoPane \/ new = sp THEN t
                    ELSE IF Unsaved(page, sp) THEN Append(t, <<"revert", sp>>)
                         ELSE Append(t, <<"select", new>>)
  <2>1. PaneCreated(page, a, new, r.item, r.value)  BY <1>1, <1>3, CreateNewPanePage
  <2> HIDE DEF a, new
  <2> QED  BY <2>1 DEF PaneCreated
<1> HIDE DEF a
<1>6. /\ PageOK(b) /\ Kept(a, b) /\ b.children = a.children
      /\ b.selected = IF Shows(a, new) THEN new ELSE a.selected
      /\ b.timers = IF new = a.selected \/ ~Shows(a, new) \/ new = a.selected_pane
                      THEN a.timers
                    ELSE IF Unsaved(a, a.selected_pane)
                      THEN Append(a.timers, <<"revert", a.selected_pane>>)
                      ELSE Append(a.timers, <<"select", new>>)
  <2>1. ChildSelected(a, b, new)
    <3>1. PageShape(a) /\ Len(a.panes) = new  BY <1>5 DEF PageOK
    <3> QED  BY <3>1, SelectChildPage
  <2> HIDE DEF b, new
  <2> QED  BY <1>5, <2>1 DEF ChildSelected
<1> HIDE DEF b
<1>7. new # NoPane /\ new # sp
  <2>1. sp \in Panes(page) \cup {NoPane} /\ 1..Len(page.panes) = Panes(page)
    BY <1>1 DEF PageShape, Page, Panes
  <2>2. Len(page.panes) \in Nat  BY <1>1 DEF Page
  <2>3. new # NoPane  BY <2>2 DEF NoPane
  <2> QED  BY <1>5, <2>1, <2>3
<1>8. Shows(a, new)
  <2>1. a.children \in Seq(Nat)  BY <1>5 DEF PageOK, PageShape, Page
  <2> QED  BY <1>5, <2>1, ContainsIn DEF Shows
<1>9. CASE page.selected = NoPane
  <2>1. a.selected = new /\ a.timers = u  BY <1>5, <1>7, <1>9
  <2> HIDE DEF u
  <2>2. b.selected = new /\ b.timers = u
    <3>1. b.timers = a.timers  BY <1>6, <2>1
    <3> QED  BY <1>6, <1>8, <2>1, <3>1
  <2>3. b.panes = a.panes /\ Panes(b) = Panes(a) /\ b.selected_pane = sp
        /\ b.pendingSelection = page.pendingSelection
        /\ b.pendingRemoval = page.pendingRemoval
    BY <1>5, <1>6 DEF Kept, Panes
  <2> QED  BY <1>4, <1>5, <1>6, <1>7, <2>1, <2>2, <2>3 DEF CreatedOnPage, u, t
<1>10. CASE page.selected # NoPane
  <2>1. page.children # <<>>  BY <1>1, <1>10 DEF PageOK
  <2>2. sp = page.selected  BY <2>1 DEF Resting
  <2>3. page' = b  BY <1>4, <1>10, <2>2
  <2>4. a.selected = sp /\ a.timers = t  BY <1>5, <1>10, <2>2
  <2>5. sp \in Panes(page)  BY <1>1, <1>10, <2>2 DEF PageShape
  <2>6. Unsaved(a, sp) <=> Unsaved(page, sp)  BY <1>5, <2>5 DEF Unsaved
  <2>7. b.selected = new /\ b.timers = u
    <3> HIDE DEF t
    <3>1. b.selected = new  BY <1>6, <1>8
    <3>2. a.selected_pane = sp /\ new # a.selected  BY <1>5, <1>7, <2>4
    <3>3. CASE Unsaved(page, sp)  BY <1>6, <1>7, <1>8, <2>4, <2>6, <3>1, <3>2, <3>3
    <3>4. CASE ~Unsaved(page, sp)  BY <1>6, <1>7, <1>8, <2>4, <2>6, <3>1, <3>2, <3>4
    <3> QED  BY <3>3, <3>4
  <2>8. b.panes = a.panes /\ Panes(b) = Panes(a) /\ b.selected_pane = sp
        /\ b.pendingSelection = page.pendingSelection
        /\ b.pendingRemoval = page.pendingRemoval
    BY <1>5, <1>6 DEF Kept, Panes
  <2> QED  BY <1>5, <1>6, <1>7, <2>3, <2>7, <2>8 DEF CreatedOnPage, u, t
<1> QED  BY <1>9, <1>10
\* A pane has been selected on a page at rest.
LEMMA MovesOn ==
    ASSUME NEW b, NEW sp, sp \in Nat, NEW p, p \in Nat, p # NoPane, p # sp,
           NEW t \in Seq(Timers \X Nat), NoMove(t),
           b.selected = p, b.selected_pane = sp,
           b.pendingSelection = NoPane, b.pendingRemoval = NoPane,
           \A q \in Panes(b) : b.panes[q].shows = b.panes[q].item,
           Unsaved(b, sp) => /\ b.timers = Append(t, <<"revert", sp>>)
                             /\ Shows(b, sp) /\ b.panes[sp].initialized,
           ~Unsaved(b, sp) => b.timers = Append(t, <<"select", p>>)
    PROVE  PhaseOK(b)
<1>1. CASE Unsaved(b, sp)
  <2>1. "revert" \in Timers  BY DEF Timers
  <2>2. TimerSet(t, Append(t, <<"revert", sp>>), "revert", sp)  BY ONLY <2>1, sp \in Nat, AppendTimer
  <2>3. OneMove(b.timers, "revert", sp)  BY <1>1, <2>2 DEF TimerSet
  <2>4. Returning(b)  BY <1>1, <2>3 DEF Returning
  <2> QED  BY <1>1, <2>4 DEF PhaseOK
<1>2. CASE ~Unsaved(b, sp)
  <2>1. "select" \in Timers  BY DEF Timers
  <2>2. TimerSet(t, Append(t, <<"select", p>>), "select", p)  BY ONLY <2>1, p \in Nat, AppendTimer
  <2>3. OneMove(b.timers, "select", p)  BY <1>2, <2>2 DEF TimerSet
  <2>4. Leaving(b)  BY <1>2, <2>3 DEF Leaving
  <2> QED  BY <1>2, <2>4 DEF PhaseOK
<1> QED  BY <1>1, <1>2

\* What an answer finds: a page at rest, and no other request.
LEMMA AnswerFinds ==
    ASSUME PagesTyped, OneRequest, NEW r \in requests
    PROVE  /\ PageOK(page) /\ Resting(page) /\ requests = {r} /\ Requested(r) /\ RequestOK(r)
           /\ requests \ {r} = {}
BY DEF OneRequest, PagesTyped

\* The page and the request of a user who waits, after the server has taken the
\* request or answered it, or has failed to.
LEMMA AnswersPhase ==
    ASSUME PagesTyped, PhaseOK(page), OneRequest, NEW r \in requests,
           \/ Serve(r) \/ Loaded(r) \/ PutDone(r) \/ Reloaded(r)
           \/ Deleted(r) \/ Posted(r) \/ CreateNewPaneFromStore(r) \/ Error(r)
    PROVE  PhaseOK(page') /\ OneRequest'
<1>1. /\ PageOK(page) /\ Resting(page) /\ requests = {r} /\ Requested(r) /\ RequestOK(r)
      /\ requests \ {r} = {} /\ PageShape(page) /\ page \in Page
  BY AnswerFinds DEF PageOK, PageShape
<1>2. ASSUME page' = page, NEW m, requests' = {m}, Requested(m)'
      PROVE  PhaseOK(page') /\ OneRequest'
  BY <1>1, <1>2 DEF OneRequest
<1>3. ASSUME PhaseOK(page'), requests' = {} PROVE PhaseOK(page') /\ OneRequest'
  BY <1>3 DEF OneRequest
<1>4. CASE Serve(r)
  <2>1. /\ page' = page /\ UNCHANGED <<kind, this>>
        /\ \E value, phase : Served(r, value, phase)
    BY <1>4 DEF Serve
  <2>2. PICK value, phase : Served(r, value, phase)  BY <2>1
  <2>3. PICK m : m = [r EXCEPT !.value = value, !.phase = phase]  OBVIOUS
  <2>4. requests' = {m}  BY <1>1, <2>2, <2>3 DEF Served
  <2>5. m.type = r.type /\ m.pane = r.pane /\ m.item = r.item
    BY <1>1, <2>3 DEF RequestOK, Request
  <2>6. Requested(m)'  BY <1>1, <2>1, <2>5 DEF Requested
  <2> QED  BY <1>2, <2>1, <2>4, <2>6
<1>5. CASE PutDone(r)
  <2>1. page' = page /\ UNCHANGED <<kind, this>> /\ r.type = "put"
    BY <1>5 DEF PutDone, Answer
  <2>2. CASE kind = "vocabulary"
    <3>1. PICK m : m = Send("load", r.pane, r.item, Blank)  OBVIOUS
    <3>2. requests' = {m}  BY <1>1, <1>5, <2>2, <3>1 DEF PutDone
    <3>3. Requested(m)'  BY <1>1, <2>1, <3>1 DEF Requested, Send
    <3> QED  BY <1>2, <2>1, <3>2, <3>3
  <2>3. CASE kind # "vocabulary"
    <3>1. PICK m : m = Send("reload", NoPane, page.panes[this].item, Blank)  OBVIOUS
    <3>2. requests' = {m}  BY <1>1, <1>5, <2>3, <3>1 DEF PutDone
    <3>3. Requested(m)'  BY <1>1, <2>1, <2>3, <3>1 DEF Requested, Send
    <3> QED  BY <1>2, <2>1, <3>2, <3>3
  <2> QED  BY <2>2, <2>3
<1>6. CASE Posted(r)
  <2>1. page' = page /\ UNCHANGED <<kind, this>>  BY <1>6 DEF Posted
  <2>2. PICK m : m = Send("create", NoPane, r.item, Blank)  OBVIOUS
  <2>3. requests' = {m}  BY <1>1, <1>6, <2>2 DEF Posted
  <2>4. Requested(m)'  BY <2>2 DEF Requested, Send
  <2> QED  BY <1>2, <2>1, <2>3, <2>4
<1>7. CASE Error(r)
  <2>1. page' = page /\ requests' = {}  BY <1>1, <1>7 DEF Error
  <2> QED  BY <1>3, <2>1
<1>8. CASE Loaded(r) \/ Reloaded(r)
  <2>1. requests' = {}  BY <1>1, <1>8 DEF Loaded, Reloaded
  <2>2. CASE r.value = Absent
    <3>1. page' = page  BY <1>8, <2>2 DEF Loaded, Reloaded
    <3> QED  BY <1>3, <2>1, <3>1
  <2>3. CASE r.value # Absent
    <3>1. PICK p : p = Target(r)  OBVIOUS
    <3>2. /\ p \in Panes(page) /\ PaneOnly(page, page', p)
          /\ page'.timers = Append(page.timers, <<"unflag", p>>)
          /\ Refilled(page.panes[p], page'.panes[p], r)
      BY <1>8, <2>3, <3>1, LoadedPage
    <3>3. r.type \in {"load", "reload"}  BY <1>8 DEF Loaded, Reloaded, Answer
    <3>4. r.item = page.panes[p].item  BY <1>1, <3>1, <3>3 DEF Requested, Target
    <3>5. PhaseOK(page')
      <4>1. /\ page'.panes[p].initialized = page.panes[p].initialized
            /\ page'.panes[p].shows = page.panes[p].item
            /\ Unsaved(page', p) => Unsaved(page, p)
        BY <3>2, <3>4 DEF Refilled, Unsaved
      <4> QED  BY <1>1, <3>2, <4>1, PaneOnlyPhase
    <3> QED  BY <1>3, <2>1, <3>5
  <2> QED  BY <2>2, <2>3
<1>9. CASE Deleted(r)
  <2>1. requests' = {}  BY <1>1, <1>9 DEF Deleted
  <2> QED  BY <1>3, <1>9, <2>1, DeletedPhase
<1>10. CASE CreateNewPaneFromStore(r)
  <2>1. requests' = {}  BY <1>1, <1>10 DEF CreateNewPaneFromStore
  <2>2. CASE r.value = Absent
    <3>1. page' = page  BY <1>10, <2>2 DEF CreateNewPaneFromStore
    <3> QED  BY <1>3, <2>1, <3>1
  <2>3. CASE r.value # Absent
    <3> DEFINE new == Len(page.panes) + 1
               sp == page.selected_pane
               t == Append(page.timers, <<"added", new>>)
    <3>1. CreatedOnPage(page, page', new, r.item, r.value)
      BY <1>1, <1>10, <2>3, CreatedPage
    <3> HIDE DEF new
    <3>2. new \in Nat /\ new # NoPane /\ new \notin Panes(page) /\ page'.selected = new
          /\ page'.selected_pane = sp
          /\ page'.pendingSelection = NoPane /\ page'.pendingRemoval = NoPane
      BY <1>1, <3>1 DEF CreatedOnPage, Resting
    <3>3. sp \in Panes(page) \cup {NoPane} /\ new # sp  BY <1>1, <3>2 DEF PageShape
    <3>4. page.timers \in Seq(Timers \X Nat) /\ NoMove(page.timers)
      BY <1>1 DEF Page, Resting
    <3>5. t \in Seq(Timers \X Nat) /\ NoMove(t)
      <4>1. "added" \in Timers /\ "added" \notin {"select", "revert"}  BY DEF Timers
      <4>2. TimerSet(page.timers, t, "added", new)  BY ONLY <3>2, <3>4, <4>1, AppendTimer
      <4> QED  BY <3>4, <4>1, <4>2 DEF TimerSet
    <3> HIDE DEF t
    <3>6. \A p \in Panes(page') : page'.panes[p].shows = page'.panes[p].item
      <4>1. page'.panes[new].shows = page'.panes[new].item  BY <3>1 DEF CreatedOnPage, NewPane
      <4> QED  BY <3>1, <4>1 DEF CreatedOnPage, PhaseOK
    <3>7. Unsaved(page', sp) <=> Unsaved(page, sp)
      BY <3>1, <3>3 DEF CreatedOnPage, Unsaved
    <3>8. \A p : Shows(page, p) => Shows(page', p)
      <4>1. page.children \in Seq(Nat) /\ page'.children \in Seq(Nat)
        BY <1>1, <3>1 DEF CreatedOnPage, PageOK, PageShape, Page
      <4> QED  BY <3>1, <4>1, ContainsIn DEF CreatedOnPage, Shows
    <3>9. Unsaved(page, sp) => /\ page'.timers = Append(t, <<"revert", sp>>)
                               /\ Shows(page', sp) /\ page'.panes[sp].initialized
      <4> SUFFICES ASSUME Unsaved(page, sp)
                   PROVE  /\ page'.timers = Append(t, <<"revert", sp>>)
                          /\ Shows(page', sp) /\ page'.panes[sp].initialized
        OBVIOUS
      <4>1. page'.timers = Append(t, <<"revert", sp>>)  BY <3>1 DEF CreatedOnPage, t
      <4>2. sp \in Panes(page) /\ Shows(page, sp)  BY <3>3 DEF PhaseOK, Unsaved
      <4>3. page.children # <<>>
        <5>1. page.children \in Seq(Nat)  BY <1>1 DEF Page
        <5> QED  BY <4>2, <5>1, ContainsIn DEF Shows
      <4>4. page.panes[sp].initialized  BY <1>1, <4>3 DEF Resting
      <4>5. page'.panes[sp].initialized  BY <3>1, <4>2, <4>4 DEF CreatedOnPage
      <4> QED  BY <3>8, <4>1, <4>2, <4>5
    <3>10. ~Unsaved(page, sp) => page'.timers = Append(t, <<"select", new>>)
      BY <3>1 DEF CreatedOnPage, t
    <3>11. sp \in Nat  BY <1>1 DEF Page
    <3>12. PhaseOK(page')
      BY <3>2, <3>3, <3>5, <3>6, <3>7, <3>9, <3>10, <3>11, MovesOn
    <3> QED  BY <1>3, <2>1, <3>12
  <2> QED  BY <2>2, <2>3
<1> QED  BY <1>4, <1>5, <1>6, <1>7, <1>8, <1>9, <1>10
\* An act that is not counted as hasty.
LEMMA NotHasty ==
    ASSUME UserOK(user), NEW field \in {"clicks", "edits", "writes"}, NEW hasty,
           Act(field, hasty), Patient'
    PROVE  ~hasty /\ Patient
<1>1. user'.haste = IF hasty THEN user.haste + 1 ELSE user.haste  BY ActTyped
<1>2. user.haste \in Nat  BY DEF UserOK
<1> QED  BY <1>1, <1>2 DEF Patient

\* The page and the request of a user who waits, after what the user does.
LEMMA UserPhase ==
    ASSUME PagesTyped, PhaseOK(page), OneRequest, UserActs, Patient'
    PROVE  PhaseOK(page') /\ OneRequest' /\ Patient
<1>1. /\ PageOK(page) /\ PageShape(page) /\ page \in Page /\ UserOK(user)
      /\ \A q \in Panes(page) : page.panes[q].shows = page.panes[q].item
  BY DEF PagesTyped, PageOK, PageShape, PhaseOK
<1>2. ASSUME ~Busy, NEW m, requests' \subseteq requests \cup {m}, Resting(page'), PhaseOK(page'),
             Requested(m)'
      PROVE  PhaseOK(page') /\ OneRequest'
  <2>1. requests = {}  BY <1>2 DEF Busy
  <2> QED  BY <1>2, <2>1 DEF OneRequest
<1>3. ASSUME NEW p \in Panes(page), Shown(p), ~Busy
      PROVE  /\ Resting(page) /\ requests = {} /\ Shows(page, page.selected_pane)
             /\ p = page.selected /\ p = page.selected_pane /\ p # NoPane
  <2>1. Resting(page) /\ requests = {} /\ p = page.selected /\ p # NoPane
    BY <1>3, QuietIsResting DEF Shown
  <2> QED  BY <1>1, <2>1 DEF Resting, PageOK
<1>4. ASSUME NEW p \in Panes(page), Click(p) PROVE PhaseOK(page') /\ OneRequest' /\ Patient
  <2> DEFINE b == SelectChild(page, p)
             sp == page.selected_pane
  <2>1. ~Busy /\ Patient
    <3>1. Act("clicks", Busy)  BY <1>4 DEF Click
    <3> QED  BY <1>1, <3>1, NotHasty
  <2>2. Resting(page) /\ requests = {}  BY <2>1, QuietIsResting
  <2>3. Shows(page, p) /\ p # page.selected /\ page' = b /\ requests' = requests
    BY <1>4 DEF Click, Shows
  <2>4. ChildSelected(page, b, p)  BY <1>1, SelectChildPage
  <2> HIDE DEF b
  <2>5. sp = page.selected /\ page.children # <<>>
    <3>1. page.children # <<>>
      <4>1. page.children \in Seq(Nat)  BY <1>1 DEF Page
      <4> QED  BY <2>3, <4>1, ContainsIn DEF Shows
    <3> QED  BY <2>2, <3>1 DEF Resting
  <2>6. /\ b.panes = page.panes /\ b.children = page.children /\ b.selected = p
        /\ b.selected_pane = sp /\ b.pendingSelection = NoPane /\ b.pendingRemoval = NoPane
    BY <2>2, <2>3, <2>4 DEF ChildSelected, Kept, Resting
  <2>7. Unsaved(b, sp) <=> Unsaved(page, sp)  BY <2>6 DEF Unsaved
  <2>8. Unsaved(b, sp) => /\ b.timers = Append(page.timers, <<"revert", sp>>)
                          /\ Shows(b, sp) /\ b.panes[sp].initialized
    <3>1. Shows(page, sp) /\ page.panes[sp].initialized
      BY <1>1, <2>2, <2>5 DEF Resting, PageOK
    <3>2. Shows(b, sp)  BY <2>6, <3>1 DEF Shows
    <3>3. Unsaved(page, sp) => b.timers = Append(page.timers, <<"revert", sp>>)
      BY <2>3, <2>4, <2>5 DEF ChildSelected
    <3> QED  BY <2>6, <2>7, <3>1, <3>2, <3>3
  <2>9. ~Unsaved(b, sp) => b.timers = Append(page.timers, <<"select", p>>)
    BY <2>3, <2>4, <2>5, <2>7 DEF ChildSelected
  <2>10. \A q \in Panes(b) : b.panes[q].shows = b.panes[q].item  BY <1>1, <2>6 DEF Panes
  <2>11. /\ p \in Nat /\ p # NoPane /\ sp \in Nat
         /\ page.timers \in Seq(Timers \X Nat) /\ NoMove(page.timers)
    BY <1>1, <2>2 DEF Panes, Page, Resting, NoPane
  <2>12. PhaseOK(b)
    BY <2>3, <2>5, <2>6, <2>8, <2>9, <2>10, <2>11, MovesOn
  <2>13. requests' = {}  BY <2>2, <2>3
  <2> QED  BY <2>1, <2>3, <2>12, <2>13 DEF OneRequest
<1>5. ASSUME NEW p \in Panes(page), MarkAsChanged(p)
      PROVE  PhaseOK(page') /\ OneRequest' /\ Patient
  <2> DEFINE v == 2 + user.edits
             b == EditedPage(page, p, v)
  <2>1. ~Deleting(p) /\ Patient
    <3>1. Act("edits", Deleting(p))  BY <1>5 DEF MarkAsChanged
    <3> QED  BY <1>1, <3>1, NotHasty
  <2>2. v \in Nat  BY <1>1 DEF UserOK
  <2>3. page' = b /\ UNCHANGED <<kind, requests, this>>  BY <1>5 DEF MarkAsChanged, EditedPage
  <2> HIDE DEF v
  <2>4. PaneOnly(page, b, p) /\ b.timers = page.timers /\ Edited(page.panes[p], b.panes[p], v)
    BY <1>1, <2>2, EditPage
  <2> HIDE DEF b
  <2>5. p = page.selected /\ p # NoPane /\ page.panes[p].initialized
    BY <1>5 DEF MarkAsChanged, Shown
  <2>6. p # page.selected_pane \/ (Resting(page) /\ Shows(page, page.selected_pane))
    <3> SUFFICES ASSUME p = page.selected_pane PROVE Resting(page) /\ Shows(page, p)
      OBVIOUS
    <3>1. ~Leaving(page) /\ ~Returning(page)  BY <2>5 DEF Leaving, Returning
    <3>2. ~Replacing(page)  BY <1>1, <2>5 DEF Replacing, PageShape
    <3>3. Resting(page)  BY <3>1, <3>2 DEF PhaseOK
    <3> QED  BY <1>1, <2>5, <3>3 DEF PageOK
  <2>7. b.panes[p].initialized = page.panes[p].initialized
        /\ b.panes[p].shows = page.panes[p].item
    <3>1. page.panes[p] \in Pane  BY <1>1 DEF Page, Panes
    <3> QED  BY <1>1, <2>4, <3>1 DEF Edited, Pane
  <2>8. PhaseOK(b) /\ (Resting(page) => Resting(b))
    BY <1>1, <2>4, <2>6, <2>7, PaneOnlyPhase
  <2>9. \A r \in requests : r.type # "delete"
    BY <2>1, <2>5 DEF OneRequest, Requested, Deleting
  <2>10. Grown(page, b) /\ b.selected = page.selected  BY <2>4 DEF PaneOnly
  <2>11. OneRequest'  BY <2>3, <2>8, <2>9, <2>10, RequestKept
  <2> QED  BY <2>1, <2>3, <2>8, <2>11
<1>6. ASSUME NEW p \in Panes(page), NEW flagged \in BOOLEAN,
             flagged => page.panes[p].unsaved_changes = TRUE, Shown(p), ~Busy
      PROVE  LET b == MarkedPage(page, p, flagged)
             IN  /\ PaneOnly(page, b, p) /\ b.timers = page.timers
                 /\ Marked(page.panes[p], b.panes[p], flagged)
                 /\ PhaseOK(b) /\ Resting(b)
                 /\ b.selected = p /\ b.selected_pane = p /\ b.panes[p].item = page.panes[p].item
  <2> DEFINE b == MarkedPage(page, p, flagged)
  <2>1. /\ PaneOnly(page, b, p) /\ b.timers = page.timers
        /\ Marked(page.panes[p], b.panes[p], flagged)
    BY <1>1, MarkPage
  <2> HIDE DEF b
  <2>2. page.panes[p] \in Pane  BY <1>1 DEF Page, Panes
  <2>3. /\ b.panes[p].initialized = page.panes[p].initialized
        /\ b.panes[p].shows = page.panes[p].item /\ b.panes[p].item = page.panes[p].item
    BY <1>1, <2>1, <2>2, MarkedFields
  <2>4. /\ Resting(page) /\ Shows(page, page.selected_pane)
        /\ page.selected = p /\ page.selected_pane = p
    BY <1>3, <1>6
  <2>5. PhaseOK(b) /\ Resting(b)  BY <1>1, <2>1, <2>3, <2>4, PaneOnlyPhase
  <2> QED  BY <2>1, <2>3, <2>4, <2>5 DEF b, PaneOnly
<1>7. ASSUME NEW p \in Panes(page), Cancel(p) PROVE PhaseOK(page') /\ OneRequest' /\ Patient
  <2> DEFINE a == MarkedPage(page, p, FALSE)
             b == PopulateFromConfigItem(a, p, page.panes[p].item, page.panes[p].config_item)
  <2>1. ~Busy /\ Patient
    <3>1. Act("clicks", Busy)  BY <1>7 DEF Cancel
    <3> QED  BY <1>1, <3>1, NotHasty
  <2>2. Shown(p) /\ UNCHANGED <<kind, this>>  BY <1>7 DEF Cancel
  <2>3. page' = IF kind = "vocabulary" THEN a ELSE b  BY <1>7 DEF Cancel, MarkedPage
  <2>4. PICK m : m = Send("load", p, page.panes[p].item, Blank)  OBVIOUS
  <2>5. requests' \subseteq requests \cup {m}  BY <1>7, <2>4 DEF Cancel
  <2>6. /\ PaneOnly(page, a, p) /\ PhaseOK(a) /\ Resting(a)
        /\ a.selected = p /\ a.selected_pane = p /\ a.panes[p].item = page.panes[p].item
    BY <1>6, <2>1, <2>2
  <2> HIDE DEF a
  <2>7. PageOK(a) /\ p \in Panes(a)  BY <2>6 DEF PaneOnly
  <2>8. page.panes[p].item \in Items /\ page.panes[p].config_item \in Nat
        /\ a.panes[p] \in Pane
    <3>1. page.panes[p] \in Pane  BY <1>1 DEF Page, Panes
    <3>2. a.panes[p] \in Pane  BY <2>7 DEF PageOK, PageShape, Page, Panes
    <3> QED  BY <3>1, <3>2 DEF Pane
  <2>9. /\ PaneOnly(a, b, p) /\ b.timers = Append(a.timers, <<"unflag", p>>)
        /\ Filled(a.panes[p], b.panes[p], page.panes[p].item, page.panes[p].config_item)
    BY <2>7, <2>8, PopulatePage
  <2> HIDE DEF b
  <2>10. /\ b.panes[p].initialized = a.panes[p].initialized
         /\ b.panes[p].shows = a.panes[p].item /\ b.panes[p].item = a.panes[p].item
         /\ Unsaved(b, p) => Unsaved(a, p)
    BY <2>6, <2>8, <2>9, FilledFields DEF Unsaved
  <2>11. PhaseOK(b) /\ Resting(b)  BY <2>6, <2>7, <2>9, <2>10, PaneOnlyPhase
  <2>12. b.selected = p /\ b.panes[p].item = page.panes[p].item  BY <2>6, <2>9, <2>10 DEF PaneOnly
  <2>13. Requested(m)'
    <3>1. page'.selected = p /\ page'.panes[p].item = page.panes[p].item
      BY <2>3, <2>6, <2>12
    <3>2. p # NoPane  BY <2>2 DEF Shown
    <3> QED  BY <2>4, <3>1, <3>2 DEF Requested, Send
  <2>14. PhaseOK(page') /\ Resting(page')  BY <2>3, <2>6, <2>11
  <2> QED  BY <1>2, <2>1, <2>5, <2>13, <2>14
<1>8. ASSUME NEW p \in Panes(page), Delete2(p) PROVE PhaseOK(page') /\ OneRequest' /\ Patient
  <2> DEFINE a == MarkedPage(page, p, FALSE)
  <2>1. ~Busy /\ Patient
    <3>1. Act("writes", Busy)  BY <1>8 DEF Delete2
    <3> QED  BY <1>1, <3>1, NotHasty
  <2>2. Shown(p) /\ UNCHANGED kind /\ this' = p /\ page' = a
    BY <1>8 DEF Delete2, MarkedPage
  <2>3. PICK m : m = Send("delete", p, page.panes[p].item, Blank)  OBVIOUS
  <2>4. requests' \subseteq requests \cup {m}  BY <1>8, <2>3 DEF Delete2
  <2>5. /\ Marked(page.panes[p], a.panes[p], FALSE) /\ PhaseOK(a) /\ Resting(a)
        /\ a.selected = p /\ a.selected_pane = p /\ a.panes[p].item = page.panes[p].item
    BY <1>6, <2>1, <2>2
  <2> HIDE DEF a
  <2>6. ~Unsaved(a, p)
    <3>1. page.panes[p] \in Pane  BY <1>1 DEF Page, Panes
    <3> QED  BY <2>5, <3>1, MarkedFields DEF Unsaved
  <2>7. Requested(m)'
    <3>1. p # NoPane  BY <2>2 DEF Shown
    <3> QED  BY <2>2, <2>3, <2>5, <2>6, <3>1 DEF Requested, Send
  <2> QED  BY <1>2, <2>1, <2>2, <2>4, <2>5, <2>7
<1>9. ASSUME NEW p \in Panes(page), Saved(p) PROVE PhaseOK(page') /\ OneRequest' /\ Patient
  <2>1. PICK flagged \in {FALSE, page.panes[p].unsaved_changes} :
          PutRequest(p, flagged) /\ this' = IF kind = "vocabulary" THEN this ELSE p
    BY <1>9 DEF Saved
  <2> DEFINE a == MarkedPage(page, p, flagged)
  <2>2. ~Busy /\ Patient
    <3>1. Act("writes", Busy)  BY <2>1 DEF PutRequest
    <3> QED  BY <1>1, <3>1, NotHasty
  <2>3. Shown(p) /\ UNCHANGED kind /\ page' = a  BY <2>1 DEF PutRequest, MarkedPage
  <2>4. PICK m : m = Send("put", p, page.panes[p].item, page.panes[p].form)  OBVIOUS
  <2>5. requests' \subseteq requests \cup {m}  BY <2>1, <2>4 DEF PutRequest
  <2>6. flagged \in BOOLEAN /\ (flagged => page.panes[p].unsaved_changes = TRUE)
    <3>1. page.panes[p] \in Pane  BY <1>1 DEF Page, Panes
    <3>2. page.panes[p].unsaved_changes \in BOOLEAN  BY <3>1 DEF Pane
    <3> QED  BY <2>1, <3>2
  <2>7. /\ PhaseOK(a) /\ Resting(a)
        /\ a.selected = p /\ a.selected_pane = p /\ a.panes[p].item = page.panes[p].item
    BY <1>6, <2>2, <2>3, <2>6
  <2> HIDE DEF a
  <2>8. Requested(m)'
    <3>1. p # NoPane  BY <2>3 DEF Shown
    <3> QED  BY <2>1, <2>3, <2>4, <2>7, <3>1 DEF Requested, Send
  <2> QED  BY <1>2, <2>2, <2>3, <2>5, <2>7, <2>8
<1>10. ASSUME NEW item \in Items, AddNew(item) PROVE PhaseOK(page') /\ OneRequest' /\ Patient
  <2>1. ~Busy /\ Patient
    <3>1. Act("writes", Busy)  BY <1>10 DEF AddNew
    <3> QED  BY <1>1, <3>1, NotHasty
  <2>2. PICK m : m = Send("post", NoPane, item, 1)  OBVIOUS
  <2>3. requests' \subseteq requests \cup {m} /\ page' = page  BY <1>10, <2>2 DEF AddNew
  <2>4. Requested(m)'  BY <2>2 DEF Requested, Send
  <2>5. Resting(page)  BY <2>1, QuietIsResting
  <2> QED  BY <1>2, <2>1, <2>3, <2>4, <2>5
<1>11. ASSUME NEW p \in DOMAIN page.panes,
              \/ Click(p) \/ MarkAsChanged(p) \/ Cancel(p) \/ Delete2(p)
              \/ SaveCodec(p) \/ SaveDatabase(p) \/ SaveProtocol(p)
              \/ SaveUser(p) \/ SaveVocabulary(p)
       PROVE  PhaseOK(page') /\ OneRequest' /\ Patient
  <2>1. p \in Panes(page)  BY DEF Panes
  <2> QED  BY <1>4, <1>5, <1>7, <1>8, <1>9, <1>11, <2>1, SaveIsPut
<1> QED  BY <1>10, <1>11 DEF UserActs
\* Only the timer of a selection changes which pane is shown.
LEMMA ShownChanges ==
    ASSUME PagesTyped, PagesNext, page'.selected_pane # page.selected_pane
    PROVE  \E i \in DOMAIN page.timers : SelectTimer(i) /\ ~user.left
<1>1. PageOK(page) /\ PageShape(page) /\ page \in Page /\ UserOK(user)
  BY DEF PagesTyped, PageOK, PageShape
<1>2. ASSUME NEW i \in DOMAIN page.timers, AddedTimer(i) PROVE FALSE
  <2> DEFINE f == Fired(i)
             p == page.pendingSelection
             c == SelectChild(f, p)
             d == [c EXCEPT !.pendingSelection = NoPane]
  <2>1. PageOK(f) /\ PageShape(f) /\ f.selected_pane = page.selected_pane
    BY <1>1, FiredPage DEF Kept, PageOK
  <2>2. page' = d \/ page' = f  BY <1>2 DEF AddedTimer
  <2> HIDE DEF f
  <2>3. ChildSelected(f, c, p)  BY <2>1, SelectChildPage
  <2> HIDE DEF c
  <2>4. c.selected_pane = page.selected_pane /\ c \in Page
    BY <2>1, <2>3 DEF ChildSelected, Kept, PageShape
  <2>5. d.selected_pane = page.selected_pane  BY <2>4 DEF Page
  <2> QED  BY <2>1, <2>2, <2>5
<1>3. ASSUME NEW i \in DOMAIN page.timers, RevertTimer(i) PROVE FALSE
  <2> DEFINE f == Fired(i)
             p == page.timers[i][2]
             c == SelectChild(f, p)
  <2>1. PageOK(f) /\ PageShape(f) /\ f.selected_pane = page.selected_pane
    BY <1>1, FiredPage DEF Kept, PageOK
  <2>2. page' = c  BY <1>3 DEF RevertTimer
  <2> HIDE DEF f, p
  <2>3. ChildSelected(f, c, p)  BY <2>1, SelectChildPage
  <2> QED  BY <2>1, <2>2, <2>3 DEF ChildSelected, Kept
<1>4. ASSUME NEW i \in DOMAIN page.timers, UnflagTimer(i) PROVE FALSE
  <2> DEFINE f == Fired(i)
             p == page.timers[i][2]
             b == MarkedPage(f, p, FALSE)
  <2>1. PageOK(f) /\ p \in Panes(f) /\ f.selected_pane = page.selected_pane
    BY <1>1, FiredPage DEF Kept
  <2>2. page' = b  BY <1>4 DEF UnflagTimer, MarkedPage
  <2> HIDE DEF f, p
  <2>3. PaneOnly(f, b, p)  BY <2>1, MarkPage
  <2> QED  BY <2>1, <2>2, <2>3 DEF PaneOnly
<1>5. ASSUME NEW r \in requests, ServerAnswers \/ Error(r),
             \/ Serve(r) \/ Loaded(r) \/ PutDone(r) \/ Reloaded(r)
             \/ Deleted(r) \/ Posted(r) \/ CreateNewPaneFromStore(r) \/ Error(r)
      PROVE  FALSE
  <2>1. RequestOK(r) /\ r.item \in Items /\ r.value \in Values
    BY DEF PagesTyped, RequestOK, Request
  <2>2. page' # page  OBVIOUS
  <2>3. CASE Loaded(r) \/ Reloaded(r)
    <3>1. r.value # Absent  BY <2>2, <2>3 DEF Loaded, Reloaded
    <3>2. PaneOnly(page, page', Target(r))  BY <2>3, <3>1, LoadedPage
    <3> QED  BY <3>2 DEF PaneOnly
  <2>4. CASE Deleted(r)
    <3> DEFINE a == Forward(page)
    <3>1. this \in Panes(page)  BY <2>1, <2>4 DEF RequestOK, Deleted, Answer
    <3>2. PageOK(a) /\ Kept(page, a)
      <4>1. CASE page.children = <<>>
        <5>1. a = page  BY <4>1 DEF Forward
        <5> QED  BY <1>1, <5>1 DEF Kept
      <4>2. CASE page.children # <<>>
        <5>1. PICK q \in ToSet(page.children) : a = SelectChild(page, q)
          BY <1>1, <4>2, ForwardPage
        <5> QED  BY <1>1, <5>1, SelectChildPage DEF ChildSelected
      <4> QED  BY <4>1, <4>2
    <3>3. page' = RemoveChild(a, this)  BY <2>4 DEF Deleted
    <3> HIDE DEF a
    <3>4. this \in Panes(a)  BY <3>1, <3>2 DEF Kept, Panes
    <3> QED  BY <3>2, <3>3, <3>4, RemoveChildPage DEF Kept
  <2>5. CASE CreateNewPaneFromStore(r)
    <3> DEFINE a == CreateNewPaneFromItem(page, r.item, r.value)
               b == SelectChild(a, Len(a.panes))
    <3>1. r.value \in Nat  BY <2>1, <2>2, <2>5 DEF CreateNewPaneFromStore, Values
    <3>2. PageOK(a) /\ a.selected_pane = page.selected_pane
      BY <1>1, <2>1, <3>1, CreateNewPanePage DEF PaneCreated
    <3>3. page' = a \/ page' = b  BY <2>2, <2>5 DEF CreateNewPaneFromStore
    <3> HIDE DEF a
    <3>4. b.selected_pane = a.selected_pane
      <4>1. PageShape(a)  BY <3>2 DEF PageOK
      <4>2. \A q : ChildSelected(a, SelectChild(a, q), q)  BY ONLY <4>1, SelectChildPage
      <4> QED  BY <3>2, <4>2 DEF ChildSelected, Kept
    <3> QED  BY <3>2, <3>3, <3>4
  <2> QED  BY <1>5, <2>2, <2>3, <2>4, <2>5 DEF Serve, PutDone, Posted, Error
<1>6. ASSUME UserActs PROVE FALSE
  <2>1. ASSUME NEW p \in Panes(page), NEW a, NEW b, page' \in {a, b},
               PaneOnly(page, a, p), PaneOnly(page, b, p)
        PROVE  FALSE
    BY <2>1 DEF PaneOnly
  <2>2. ASSUME NEW p \in Panes(page) PROVE page.panes[p] \in Pane
    BY <1>1, <2>2 DEF Page, Panes
  <2>3. ASSUME NEW p \in Panes(page), Click(p) PROVE FALSE
    <3>1. page' = SelectChild(page, p)  BY <2>3 DEF Click
    <3> QED  BY <1>1, <3>1, SelectChildPage DEF ChildSelected, Kept
  <2>4. ASSUME NEW p \in Panes(page), MarkAsChanged(p) PROVE FALSE
    <3>1. PICK v : v = 2 + user.edits  OBVIOUS
    <3>2. page' = EditedPage(page, p, v)  BY <2>4, <3>1 DEF MarkAsChanged, EditedPage
    <3>3. v \in Nat  BY <1>1, <3>1 DEF UserOK
    <3> QED  BY <1>1, <2>1, <3>2, <3>3, EditPage
  <2>5. ASSUME NEW p \in Panes(page), Cancel(p) PROVE FALSE
    <3> DEFINE a == MarkedPage(page, p, FALSE)
               b == PopulateFromConfigItem(a, p, page.panes[p].item, page.panes[p].config_item)
    <3>1. page' = IF kind = "vocabulary" THEN a ELSE b  BY <2>5 DEF Cancel, MarkedPage
    <3>2. PaneOnly(page, a, p)  BY <1>1, MarkPage
    <3> HIDE DEF a
    <3>3. PageOK(a) /\ p \in Panes(a)  BY <3>2 DEF PaneOnly
    <3>4. page.panes[p].item \in Items /\ page.panes[p].config_item \in Nat
      BY <2>2 DEF Pane
    <3>5. PaneOnly(a, b, p)  BY <3>3, <3>4, PopulatePage
    <3> HIDE DEF b
    <3> QED  BY <2>1, <3>1, <3>2, <3>5, PaneOnlyTwice
  <2>6. ASSUME NEW p \in Panes(page), Delete2(p) PROVE FALSE
    <3>1. page' = MarkedPage(page, p, FALSE)  BY <2>6 DEF Delete2, MarkedPage
    <3> QED  BY <1>1, <2>1, <3>1, MarkPage
  <2>7. ASSUME NEW p \in Panes(page), Saved(p) PROVE FALSE
    <3>1. PICK flagged \in {FALSE, page.panes[p].unsaved_changes} :
            page' = MarkedPage(page, p, flagged)
      BY <2>7 DEF Saved, PutRequest, MarkedPage
    <3>2. flagged \in BOOLEAN  BY <2>2, <3>1 DEF Pane
    <3> QED  BY <1>1, <2>1, <3>1, <3>2, MarkPage
  <2>8. ASSUME NEW p \in DOMAIN page.panes,
               \/ Click(p) \/ MarkAsChanged(p) \/ Cancel(p) \/ Delete2(p)
               \/ SaveCodec(p) \/ SaveDatabase(p) \/ SaveProtocol(p)
               \/ SaveUser(p) \/ SaveVocabulary(p)
        PROVE  FALSE
    <3>1. p \in Panes(page)  BY DEF Panes
    <3> QED  BY <2>3, <2>4, <2>5, <2>6, <2>7, <2>8, <3>1, SaveIsPut
  <2>9. ASSUME NEW item \in Items, AddNew(item) PROVE FALSE
    BY <2>9 DEF AddNew
  <2> QED  BY <1>6, <2>8, <2>9 DEF UserActs
<1>7. CASE TimerFires
  BY <1>2, <1>3, <1>4, <1>7 DEF TimerFires, SelectTimer, Fire
<1>8. CASE ServerAnswers  BY <1>5, <1>8 DEF ServerAnswers
<1>9. CASE RequestFails  BY <1>5, <1>9 DEF RequestFails
<1> QED  BY <1>6, <1>7, <1>8, <1>9 DEF PagesNext

\* A user who waits has waited, and one who has not left was there.
LEMMA StillWaits ==
    ASSUME PagesTyped, PagesNext, Patient', ~user'.left
    PROVE  Patient /\ ~user.left
<1>1. UserOK(user)  BY DEF PagesTyped
<1>2. CASE TimerFires
  <2>1. user' = user
    BY <1>2 DEF TimerFires, SelectTimer, AddedTimer, RevertTimer, UnflagTimer
  <2> QED  BY <2>1 DEF Patient
<1>3. ASSUME NEW r \in requests,
             \/ Serve(r) \/ Loaded(r) \/ PutDone(r) \/ Reloaded(r)
             \/ Deleted(r) \/ Posted(r) \/ CreateNewPaneFromStore(r) \/ Error(r)
      PROVE  Patient /\ ~user.left
  <2>1. CASE PutDone(r)  BY <1>1, <2>1 DEF PutDone, Answer, UserOK, Patient
  <2>2. CASE Error(r)  BY <1>1, <2>2 DEF Error, UserOK, Patient
  <2>3. CASE ~PutDone(r) /\ ~Error(r)
    BY <1>3, <2>3 DEF Serve, Loaded, Reloaded, Deleted, Posted, CreateNewPaneFromStore, Patient
  <2> QED  BY <2>1, <2>2, <2>3
<1>4. CASE UserActs
  <2>1. \E field \in {"clicks", "edits", "writes"}, hasty \in BOOLEAN : Act(field, hasty)
    BY <1>4 DEF UserActs, Click, MarkAsChanged, Cancel, Delete2, SaveCodec, SaveDatabase,
                SaveProtocol, SaveUser, SaveVocabulary, PutRequest, AddNew, Busy, Deleting
  <2> QED  BY <1>1, <2>1, NotHasty DEF Act
<1> QED  BY <1>2, <1>3, <1>4 DEF PagesNext, ServerAnswers, RequestFails

\* A step from a state in which the page is in one of the phases.
LEMMA NextPhase ==
    ASSUME PagesTyped, PhaseInv, PagesNext
    PROVE  /\ PhaseInv'
           /\ Patient /\ Unsaved(page, page.selected_pane)
                => page'.selected_pane = page.selected_pane
<1>2. ASSUME Patient', ~user'.left PROVE PhaseOK(page') /\ OneRequest'
  <2>1. PhaseOK(page) /\ OneRequest  BY <1>2, StillWaits DEF PhaseInv
  <2>2. CASE TimerFires
    BY <2>1, <2>2, SelectTimerPhase, AddedTimerPhase, RevertTimerPhase, UnflagTimerPhase
    DEF TimerFires
  <2>3. CASE ServerAnswers \/ RequestFails
    BY <2>1, <2>3, AnswersPhase DEF ServerAnswers, RequestFails
  <2>4. CASE UserActs  BY <1>2, <2>1, <2>4, UserPhase
  <2> QED  BY <2>2, <2>3, <2>4 DEF PagesNext
<1>3. ASSUME Patient, Unsaved(page, page.selected_pane),
             page'.selected_pane # page.selected_pane
      PROVE  FALSE
  <2>1. PICK i \in DOMAIN page.timers : SelectTimer(i) /\ ~user.left
    BY <1>3, ShownChanges
  <2>2. PhaseOK(page)  BY <1>3, <2>1 DEF PhaseInv
  <2>3. page.timers[i][1] = "select"  BY <2>1 DEF SelectTimer, Fire
  <2>4. Leaving(page)  BY <2>2, <2>3, SelectPhase
  <2> QED  BY <1>3, <2>4 DEF Leaving
<1> QED  BY <1>2, <1>3 DEF PhaseInv

\* The page is in one of its phases when it is opened.
LEMMA InitPhase ==
    ASSUME ConfigPageSelected
    PROVE  PhaseInv
<1>1. requests = {}  BY DEF ConfigPageSelected, PagesInit, NoRequests
<1>2. CASE PagesInit
  <2> DEFINE a == CreatePanesFromAllItems
  <2>1. page = a  BY <1>2 DEF PagesInit
  <2>2. /\ a.selected = 1 /\ a.selected_pane = NoPane
        /\ a.pendingSelection = NoPane /\ a.pendingRemoval = NoPane
        /\ a.timers = << <<"select", 1>> >>
        /\ \A p \in Panes(a) : \E item \in Configured : a.panes[p] = NewPane(item, 1, FALSE)
    BY OpenedPage
  <2> HIDE DEF a
  <2>3. OneMove(a.timers, "select", 1)
    <3>1. DOMAIN a.timers = {1} /\ a.timers[1] = <<"select", 1>>  BY <2>2
    <3> QED  BY <3>1 DEF OneMove
  <2>4. Leaving(a)  BY <2>2, <2>3 DEF Leaving, Unsaved, NoPane
  <2>5. ASSUME NEW p \in Panes(a) PROVE a.panes[p].shows = a.panes[p].item
    <3>1. PICK item \in Configured : a.panes[p] = NewPane(item, 1, FALSE)  BY <2>2
    <3> QED  BY <3>1 DEF NewPane
  <2>6. PhaseOK(a)  BY <2>2, <2>4, <2>5 DEF PhaseOK, Unsaved
  <2> QED  BY <1>1, <2>1, <2>6 DEF PhaseInv, OneRequest
<1>3. CASE ~PagesInit
  <2> DEFINE c == CreatePanesFromAllItems
  <2>1. page = [c EXCEPT !.children = <<>>, !.panes = <<>>, !.selected = NoPane, !.timers = <<>>]
    BY <1>3 DEF ConfigPageSelected
  <2>2. c \in Page /\ c.selected_pane = NoPane
        /\ c.pendingSelection = NoPane /\ c.pendingRemoval = NoPane
    BY OpenedPage DEF PageOK, PageShape
  <2> HIDE DEF c
  <2>3. /\ page.children = <<>> /\ page.panes = <<>> /\ page.timers = <<>>
        /\ page.selected_pane = NoPane /\ page.pendingSelection = NoPane
        /\ page.pendingRemoval = NoPane
    BY <2>1, <2>2 DEF Page
  <2>4. Resting(page)  BY <2>3 DEF Resting, NoMove
  <2>5. PhaseOK(page)  BY <2>3, <2>4 DEF PhaseOK, Unsaved, Panes
  <2> QED  BY <1>1, <2>5 DEF PhaseInv, OneRequest
<1> QED  BY <1>2, <1>3

\* A pane with unsaved changes is not left for another: the user who waits is
\* brought back to it (codecs.js 147-163).
THEOREM UnsavedPanesAreKept ==
    Spec => UnsavedIsNotLeft
<1>1. Init => PagesTyped /\ PhaseInv  BY InitTyped, InitPhase DEF Init
<1>2. PagesTyped /\ PhaseInv /\ [Next]_interfaceVars =>
        /\ PagesTyped' /\ PhaseInv'
        /\ [Patient /\ Unsaved(page, page.selected_pane)
              => page'.selected_pane = page.selected_pane]_pagesVars
  <2> SUFFICES ASSUME PagesTyped, PhaseInv, [Next]_interfaceVars
               PROVE  /\ PagesTyped' /\ PhaseInv'
                      /\ [Patient /\ Unsaved(page, page.selected_pane)
                            => page'.selected_pane = page.selected_pane]_pagesVars
    OBVIOUS
  <2>1. CASE PagesNext  BY <2>1, NextTyped, NextPhase
  <2>2. CASE UNCHANGED pagesVars
    <3>1. UNCHANGED <<kind, page, config, requests, this, user>>  BY <2>2 DEF pagesVars
    <3>2. PagesTyped'
      BY <3>1 DEF PagesTyped, PageOK, PageShape, RequestOK, Panes, Shows
    <3>3. OneRequest => OneRequest'  BY <3>1 DEF OneRequest, Requested
    <3>4. PhaseInv'  BY <3>1, <3>3 DEF PhaseInv, Patient
    <3> QED  BY <2>2, <3>2, <3>4
  <2> QED  BY <2>1, <2>2 DEF Next, interfaceVars
<1> QED  BY <1>1, <1>2, PTL DEF Spec, UnsavedIsNotLeft
--------------------------------------------------------------------------------
(* The page of a user who waits and the server's configuration *)

\* One request asks one thing about one item.
LEMMA AskedOne ==
    ASSUME NEW r, requests = {r}, NEW item
    PROVE  Asked(item) = IF r.item = item THEN {r.type} ELSE {}
BY DEF Asked

\* The same, in the state that a step leads to.
LEMMA AskedNext ==
    ASSUME NEW r, requests' = {r}, NEW item
    PROVE  Asked(item)' = IF r.item = item THEN {r.type} ELSE {}
BY DEF Asked

\* No request asks nothing.
LEMMA AskedNone ==
    ASSUME NEW item
    PROVE  /\ requests = {} => Asked(item) = {}
           /\ requests' = {} => Asked(item)' = {}
BY DEF Asked

\* The panes for an item are those of the accordion.
LEMMA PanesForKept ==
    ASSUME PagesTyped, ToSet(page'.children) = ToSet(page.children), Grown(page, page'), NEW item
    PROVE  PanesFor(item)' = PanesFor(item) /\ PanesFor(item) \subseteq Panes(page)
<1>1. ToSet(page.children) \subseteq Panes(page)  BY DEF PagesTyped, PageOK, PageShape
<1> QED  BY <1>1 DEF PanesFor, Grown

\* The fields of a pane that the server's configuration is compared with.
ContentKept(x, y) ==
    /\ y.initialized = x.initialized /\ y.config_item = x.config_item
    /\ (y.form = x.form /\ y.typed = x.typed) \/ y.form = y.typed

\* An item that a step does not concern.
LEMMA ItemKept ==
    ASSUME NEW item, ItemAgrees(item), UNCHANGED kind, config'[item] = config[item],
           Asked(item)' = Asked(item), PanesFor(item)' = PanesFor(item),
           page'.pendingRemoval = page.pendingRemoval,
           \A p \in PanesFor(item) : ContentKept(page.panes[p], page'.panes[p])
    PROVE  ItemAgrees(item)'
<1>1. ItemShown(item)'  BY DEF ItemAgrees, ItemShown, Free
<1>2. ASSUME NEW p \in PanesFor(item) PROVE FormAgrees(p, item)'
  <2>1. FormAgrees(p, item) /\ ContentKept(page.panes[p], page'.panes[p])
    BY <1>2 DEF ItemAgrees
  <2> QED  BY <2>1 DEF FormAgrees, ContentKept, Free
<1> QED  BY <1>1, <1>2 DEF ItemAgrees

\* A step that changes neither requests nor what the panes hold.
LEMMA ContentStep ==
    ASSUME PagesTyped, Agreement, UNCHANGED <<kind, requests, config>>,
           user'.unsure = user.unsure, ToSet(page'.children) = ToSet(page.children),
           Grown(page, page'), page'.pendingRemoval = page.pendingRemoval,
           \A p \in Panes(page) : ContentKept(page.panes[p], page'.panes[p])
    PROVE  Agreement'
<1>1. ASSUME NEW item \in Items, Known(item)' PROVE ItemAgrees(item)'
  <2>1. ItemAgrees(item)  BY <1>1 DEF Agreement, Known
  <2>2. Asked(item)' = Asked(item)  BY DEF Asked
  <2>3. PanesFor(item)' = PanesFor(item) /\ PanesFor(item) \subseteq Panes(page)
    BY PanesForKept
  <2>4. \A p \in PanesFor(item) : ContentKept(page.panes[p], page'.panes[p])  BY <2>3
  <2> QED  BY <2>1, <2>2, <2>3, <2>4, ItemKept
<1>2. ASSUME NEW r \in requests, Known(r.item)' PROVE RequestAgrees(r)'
  <2>1. RequestAgrees(r) /\ RequestOK(r)  BY <1>2 DEF Agreement, Known, PagesTyped
  <2>2. r.type = "put" => ContentKept(page.panes[r.pane], page'.panes[r.pane])
    BY <2>1 DEF RequestOK
  <2> QED  BY <2>1, <2>2 DEF RequestAgrees, ContentKept
<1> QED  BY <1>1, <1>2 DEF Agreement
\* What other pages do leaves the page as it is.
LEMMA PagesStutter ==
    ASSUME PagesInv, UNCHANGED pagesVars
    PROVE  PagesInv'
<1>1. UNCHANGED <<kind, page, config, requests, this, user>>  BY DEF pagesVars
<1>2. PagesTyped'
  BY <1>1 DEF PagesInv, PagesTyped, PageOK, PageShape, RequestOK, Panes, Shows
<1>3. OneRequest => OneRequest'  BY <1>1 DEF OneRequest, Requested
<1>4. PhaseInv'  BY <1>1, <1>3 DEF PagesInv, PhaseInv, Patient
<1>5. \A p \in Panes(page) : ContentKept(page.panes[p], page'.panes[p])
  BY <1>1 DEF ContentKept
<1>6. Grown(page, page')  BY <1>1 DEF Grown, Panes
<1>7. Agreement => Agreement'  BY <1>1, <1>5, <1>6, ContentStep DEF PagesInv
<1>8. AgreeInv'  BY <1>1, <1>7 DEF PagesInv, AgreeInv, Patient
<1> QED  BY <1>2, <1>4, <1>8 DEF PagesInv

\* The timers that only move the accordion, or remove a mark.
LEMMA MovesAgree ==
    ASSUME PagesTyped, Agreement, NEW i \in DOMAIN page.timers,
           AddedTimer(i) \/ RevertTimer(i) \/ UnflagTimer(i)
    PROVE  Agreement'
<1> DEFINE f == Fired(i)
<1>1. PageOK(page) /\ PageShape(page) /\ page \in Page  BY DEF PagesTyped, PageOK, PageShape
<1>2. UNCHANGED <<kind, requests, config, user>>
  BY DEF AddedTimer, RevertTimer, UnflagTimer
<1>3. /\ PageOK(f) /\ PageShape(f) /\ Kept(page, f) /\ Panes(f) = Panes(page)
      /\ f.children = page.children /\ page.timers[i][2] \in Panes(page)
  BY <1>1, FiredPage DEF PageOK
<1>4. ASSUME page'.panes = page.panes, page'.children = page.children,
             page'.pendingRemoval = page.pendingRemoval
      PROVE  Agreement'
  <2>1. Grown(page, page')  BY <1>4 DEF Grown, Panes
  <2>2. \A p \in Panes(page) : ContentKept(page.panes[p], page'.panes[p])
    BY <1>4 DEF ContentKept
  <2> QED  BY <1>2, <1>4, <2>1, <2>2, ContentStep
<1>5. CASE AddedTimer(i)
  <2> DEFINE p == page.pendingSelection
             c == SelectChild(f, p)
             d == [c EXCEPT !.pendingSelection = NoPane]
  <2>1. page' = d \/ page' = f  BY <1>5 DEF AddedTimer
  <2> HIDE DEF f
  <2>2. ChildSelected(f, c, p)  BY <1>3, SelectChildPage
  <2> HIDE DEF c
  <2>3. /\ c.panes = page.panes /\ c.children = page.children
        /\ c.pendingRemoval = page.pendingRemoval /\ c \in Page
    BY <1>3, <2>2 DEF ChildSelected, Kept, PageShape
  <2>4. /\ d.panes = page.panes /\ d.children = page.children
        /\ d.pendingRemoval = page.pendingRemoval
    BY <2>3 DEF Page
  <2> QED  BY <1>3, <1>4, <2>1, <2>4 DEF Kept
<1>6. CASE RevertTimer(i)
  <2> DEFINE p == page.timers[i][2]
             c == SelectChild(f, p)
  <2>1. page' = c  BY <1>6 DEF RevertTimer
  <2> HIDE DEF f, p
  <2>2. ChildSelected(f, c, p)  BY <1>3, SelectChildPage
  <2> QED  BY <1>3, <1>4, <2>1, <2>2 DEF ChildSelected, Kept
<1>7. CASE UnflagTimer(i)
  <2> DEFINE p == page.timers[i][2]
             b == MarkedPage(f, p, FALSE)
  <2>1. page' = b  BY <1>7 DEF UnflagTimer, MarkedPage
  <2>2. p \in Panes(page) /\ p \in Panes(f)  BY <1>3
  <2> HIDE DEF f, p
  <2>3. PaneOnly(f, b, p) /\ Marked(f.panes[p], b.panes[p], FALSE)  BY <1>3, <2>2, MarkPage
  <2>4. f.panes = page.panes  BY <1>3 DEF Kept
  <2>5. ASSUME NEW q \in Panes(page) PROVE ContentKept(page.panes[q], b.panes[q])
    <3>1. page.panes[q] \in Pane  BY <1>1, <2>5 DEF Page, Panes
    <3>2. CASE q = p  BY <2>3, <2>4, <3>1, <3>2, MarkedFields DEF ContentKept
    <3>3. CASE q # p
      <4>1. b.panes[q] = page.panes[q]  BY <1>3, <2>3, <2>4, <2>5, <3>3 DEF PaneOnly
      <4> QED  BY <4>1 DEF ContentKept
    <3> QED  BY <3>2, <3>3
  <2>6. Grown(page, b) /\ b.children = page.children /\ b.pendingRemoval = page.pendingRemoval
    BY <1>3, <2>3, <2>4 DEF PaneOnly, Grown, Kept
  <2> QED  BY <1>2, <2>1, <2>5, <2>6, ContentStep
<1> QED  BY <1>5, <1>6, <1>7

\* An item whose panes have changed, when nothing is asked of the server.
LEMMA UnaskedAgrees ==
    ASSUME NEW item, Asked(item)' = {},
           PanesFor(item)' # {} <=> config'[item] # Absent,
           \A p, q \in PanesFor(item)' : p = q \/ page'.pendingRemoval \in {p, q},
           \A p \in PanesFor(item)' : FormAgrees(p, item)'
    PROVE  ItemAgrees(item)'
BY DEF ItemAgrees, ItemShown, Free

\* A placeholder goes once another pane for its item is shown; a pane with a form
\* is put beside the placeholder that is to be shown.
LEMMA SelectTimerAgrees ==
    ASSUME PagesTyped, PhaseOK(page), OneRequest, Agreement,
           NEW i \in DOMAIN page.timers, SelectTimer(i)
    PROVE  Agreement'
<1> DEFINE p == page.timers[i][2]
           old == page.pendingRemoval
           a == Removed(i)
<1>1. PageOK(page) /\ PageShape(page) /\ page \in Page  BY DEF PagesTyped, PageOK, PageShape
<1>2. Leaving(page) /\ ~Resting(page) /\ p = page.selected
  BY SelectPhase DEF SelectTimer, Fire
<1>3. requests = {} /\ UNCHANGED <<kind, config, this, user>>
  BY <1>2 DEF OneRequest, SelectTimer
<1>4. /\ PageOK(a) /\ a.panes = page.panes /\ Panes(a) = Panes(page)
      /\ ToSet(a.children) = ToSet(page.children) \ {old}
      /\ a.pendingRemoval = NoPane
  BY <1>1, RemovedPage
<1>5. IF page.panes[p].initialized
        THEN /\ page' = [a EXCEPT !.selected_pane = p]
             /\ requests' = requests \cup {Send("load", p, page.panes[p].item, Blank)}
        ELSE /\ page' = ReplaceAccordionPane(a, p)
             /\ UNCHANGED requests
  BY DEF SelectTimer, Removed
<1> HIDE DEF a
<1>6. p # NoPane /\ p \in ToSet(page.children) /\ p \in Panes(page)
  <2>1. p # NoPane /\ page.children # <<>>  BY <1>1, <1>2 DEF Leaving, PageOK
  <2>2. Contains(page.children, p)  BY <1>1, <1>2, <2>1 DEF PageOK, Shows
  <2>3. p \in ToSet(page.children)  BY <1>1, <2>2, ContainsIn DEF Page
  <2> QED  BY <1>1, <2>1, <2>3 DEF PageShape
<1>7. old # NoPane => /\ old # p /\ page.panes[p].initialized
                      /\ page.panes[old].item = page.panes[p].item
  BY <1>2 DEF Leaving, Replaces
<1>8. ToSet(page.children) \subseteq Panes(page) /\ NoPane \notin Panes(page)
  BY <1>1 DEF PageShape, Page, Panes, NoPane
<1>9. ASSUME NEW item \in Items, Known(item)
      PROVE  /\ Asked(item) = {}
             /\ PanesFor(item) # {} <=> config[item] # Absent
             /\ \A x, y \in PanesFor(item) : x = y \/ old \in {x, y}
             /\ \A x \in PanesFor(item) : FormAgrees(x, item)
  <2>1. ItemAgrees(item)  BY <1>9 DEF Agreement
  <2>2. Asked(item) = {}  BY <1>3, AskedNone
  <2> QED  BY <2>1, <2>2 DEF ItemAgrees, ItemShown, Free
<1>10. CASE page.panes[p].initialized
  <2> DEFINE m == Send("load", p, page.panes[p].item, Blank)
  <2>1. page' = [a EXCEPT !.selected_pane = p] /\ requests' = {m}  BY <1>3, <1>5, <1>10
  <2>2. p \in Panes(a)  BY <1>4, <1>6
  <2>3. FieldsSet(a, page', p, a.pendingSelection, a.pendingRemoval)
    BY <1>4, <2>1, <2>2, FieldsPage
  <2>4. /\ page'.panes = page.panes /\ page'.pendingRemoval = NoPane
        /\ ToSet(page'.children) = ToSet(page.children) \ {old}
    BY <1>4, <2>3 DEF FieldsSet
  <2>5. ASSUME NEW item \in Items, Known(item)' PROVE ItemAgrees(item)'
    <3>1. Known(item)  BY <1>3, <2>5 DEF Known
    <3>2. PanesFor(item)' = PanesFor(item) \ {old}  BY <2>4 DEF PanesFor
    <3>3. PanesFor(item) # {} => PanesFor(item)' # {}
      <4>1. CASE p \in PanesFor(item)
        <5>1. p # old  BY <1>6, <1>7
        <5> QED  BY <3>2, <4>1, <5>1
      <4>2. CASE p \notin PanesFor(item)
        <5>1. old \notin PanesFor(item)  BY <1>6, <1>7, <1>8, <4>2 DEF PanesFor
        <5> QED  BY <3>2, <5>1
      <4> QED  BY <4>1, <4>2
    <3>4. Asked(item)' \subseteq {"load"}
      <4>1. m.type = "load"  BY DEF Send
      <4> HIDE DEF m
      <4> QED  BY <2>1, <4>1 DEF Asked
    <3>5. ItemShown(item)'
      <4>1. PanesFor(item)' # {} <=> config'[item] # Absent  BY <1>3, <1>9, <3>1, <3>2, <3>3
      <4>2. \A x, y \in PanesFor(item)' : x = y  BY <1>9, <3>1, <3>2
      <4> QED  BY <3>4, <4>1, <4>2 DEF ItemShown, Free
    <3>6. ASSUME NEW x \in PanesFor(item)' PROVE FormAgrees(x, item)'
      <4>1. FormAgrees(x, item)  BY <1>9, <3>1, <3>2
      <4>2. Asked(item) = {}  BY <1>9, <3>1
      <4> QED  BY <1>3, <2>4, <4>1, <4>2 DEF FormAgrees, Free
    <3> QED  BY <3>5, <3>6 DEF ItemAgrees
  <2>6. ASSUME NEW r \in requests' PROVE RequestAgrees(r)'
    <3>1. r.type = "load" /\ r.phase = "sent"  BY <2>1 DEF Send
    <3> QED  BY <3>1 DEF RequestAgrees
  <2> QED  BY <2>5, <2>6 DEF Agreement
<1>11. CASE ~page.panes[p].initialized
  <2> DEFINE b == ReplaceAccordionPane(a, p)
             new == Len(a.panes) + 1
  <2>1. old = NoPane /\ ToSet(a.children) = ToSet(page.children)
    BY <1>4, <1>7, <1>8, <1>11
  <2>2. page' = b /\ requests' = {}  BY <1>3, <1>5, <1>11
  <2>3. p \in Panes(a) /\ ~a.panes[p].initialized  BY <1>4, <1>6, <1>11
  <2>4. PaneReplaced(a, b, p, new)  BY <1>4, <2>3, ReplacePage
  <2> HIDE DEF b, new
  <2>5. /\ page'.pendingRemoval = p
        /\ new \notin Panes(page)
        /\ page'.panes[new] = NewPane(page.panes[p].item, page.panes[p].config_item, TRUE)
        /\ \A q \in Panes(page) : page'.panes[q] = page.panes[q]
        /\ ToSet(page'.children) = ToSet(page.children) \cup {new}
    BY <1>4, <2>1, <2>2, <2>4 DEF PaneReplaced
  <2>6. /\ page'.panes[new].item = page.panes[p].item
        /\ page'.panes[new].config_item = page.panes[p].config_item
        /\ page'.panes[new].form = page'.panes[new].typed
    BY <2>5 DEF NewPane
  <2>7. ASSUME NEW item \in Items, Known(item)' PROVE ItemAgrees(item)'
    <3>1. Known(item)  BY <1>3, <2>7 DEF Known
    <3>2. Asked(item)' = {}  BY <2>2, AskedNone
    <3>3. PanesFor(item)' = IF p \in PanesFor(item) THEN PanesFor(item) \cup {new}
                            ELSE PanesFor(item)
      BY <1>6, <1>8, <2>5, <2>6 DEF PanesFor
    <3>4. \A x, y \in PanesFor(item) : x = y
      <4>1. PanesFor(item) \subseteq Panes(page)  BY <1>8 DEF PanesFor
      <4> QED  BY <1>8, <1>9, <2>1, <3>1, <4>1
    <3>5. ASSUME NEW x \in PanesFor(item)' PROVE FormAgrees(x, item)'
      <4>1. CASE x \in PanesFor(item)
        <5>1. FormAgrees(x, item) /\ Asked(item) = {} /\ x \in Panes(page)
          BY <1>8, <1>9, <3>1, <4>1 DEF PanesFor
        <5> QED  BY <1>3, <2>5, <5>1 DEF FormAgrees, Free
      <4>2. CASE x \notin PanesFor(item)
        <5>1. x = new /\ p \in PanesFor(item)  BY <3>3, <4>2
        <5>2. FormAgrees(p, item) /\ Asked(item) = {}  BY <1>9, <3>1, <5>1
        <5> QED  BY <1>3, <2>6, <5>1, <5>2 DEF FormAgrees, Free
      <4> QED  BY <4>1, <4>2
    <3>6. PanesFor(item)' # {} <=> config'[item] # Absent  BY <1>3, <1>9, <3>1, <3>3
    <3>7. \A x, y \in PanesFor(item)' : x = y \/ page'.pendingRemoval \in {x, y}
      BY <2>5, <3>3, <3>4
    <3> QED  BY <3>2, <3>5, <3>6, <3>7, UnaskedAgrees
  <2> QED  BY <2>2, <2>7 DEF Agreement
<1> QED  BY <1>10, <1>11
\* The panes for an item, when none of them is a placeholder to be removed.
LEMMA OnePane ==
    ASSUME PagesTyped, Resting(page), NEW item, ItemAgrees(item)
    PROVE  /\ \A p, q \in PanesFor(item) : p = q
           /\ PanesFor(item) \subseteq Panes(page)
<1>1. ToSet(page.children) \subseteq Panes(page) /\ page \in Page
  BY DEF PagesTyped, PageOK, PageShape
<1>2. PanesFor(item) \subseteq Panes(page) /\ NoPane \notin Panes(page)
  BY <1>1 DEF PanesFor, Page, Panes, NoPane
<1> QED  BY <1>2 DEF ItemAgrees, ItemShown, Resting

\* The deletion of the shown pane of a page at rest.
LEMMA DeletedContent ==
    ASSUME PagesTyped, OneRequest, NEW r \in requests, Deleted(r)
    PROVE  /\ page'.panes = page.panes /\ page'.pendingRemoval = page.pendingRemoval
           /\ ToSet(page'.children) = ToSet(page.children) \ {this}
           /\ this \in Panes(page)
<1> DEFINE a == Forward(page)
           b == RemoveChild(a, this)
<1>1. PageOK(page) /\ PageShape(page)  BY DEF PagesTyped, PageOK
<1>2. this \in Panes(page)  BY DEF PagesTyped, RequestOK, Deleted, Answer
<1>3. PageOK(a) /\ Kept(page, a) /\ a.children = page.children
  <2>1. CASE page.children = <<>>
    <3>1. a = page  BY <2>1 DEF Forward
    <3> QED  BY <1>1, <3>1 DEF Kept
  <2>2. CASE page.children # <<>>
    <3>1. PICK q \in ToSet(page.children) : a = SelectChild(page, q)
      BY <1>1, <2>2, ForwardPage
    <3> QED  BY <1>1, <3>1, SelectChildPage DEF ChildSelected
  <2> QED  BY <2>1, <2>2
<1>4. page' = b  BY DEF Deleted
<1> HIDE DEF a
<1>5. this \in Panes(a)  BY <1>2, <1>3 DEF Kept, Panes
<1>6. Kept(a, b) /\ ToSet(b.children) = ToSet(a.children) \ {this}
  BY <1>3, <1>5, RemoveChildPage
<1> QED  BY <1>2, <1>3, <1>4, <1>6 DEF Kept

\* The server and its answers keep the page in agreement.
LEMMA AnswersAgree ==
    ASSUME PagesTyped, PhaseOK(page), OneRequest, Agreement, NEW r \in requests,
           \/ Serve(r) \/ Loaded(r) \/ PutDone(r) \/ Reloaded(r)
           \/ Deleted(r) \/ Posted(r) \/ CreateNewPaneFromStore(r) \/ Error(r)
    PROVE  Agreement'
<1>1. /\ PageOK(page) /\ Resting(page) /\ requests = {r} /\ Requested(r) /\ RequestOK(r)
      /\ requests \ {r} = {} /\ PageShape(page) /\ page \in Page
  BY AnswerFinds DEF PageOK, PageShape
<1>2. r \in Request /\ r.item \in Items /\ r.value \in Values
  BY <1>1 DEF RequestOK, Request
<1>3. config \in [Items -> Values] /\ UserOK(user)  BY DEF PagesTyped
<1>4. page.pendingRemoval = NoPane /\ ToSet(page.children) \subseteq Panes(page)
      /\ NoPane \notin Panes(page)
  BY <1>1 DEF Resting, PageShape, Page, Panes, NoPane
<1>5. ASSUME NEW item \in Items PROVE Asked(item) = IF r.item = item THEN {r.type} ELSE {}
  BY <1>1, AskedOne
<1>6. ASSUME NEW item \in Items, Known(item)
      PROVE  ItemAgrees(item) /\ \A p, q \in PanesFor(item) : p = q
  BY <1>1, <1>6, OnePane DEF Agreement
<1>7. Known(r.item) => RequestAgrees(r)  BY DEF Agreement
<1>8. r.pane = page.selected /\ r.pane # NoPane =>
        r.pane \in ToSet(page.children) /\ r.pane \in Panes(page)
  <2> SUFFICES ASSUME r.pane = page.selected, r.pane # NoPane
               PROVE  r.pane \in ToSet(page.children)
    BY <1>4
  <2>1. page.children # <<>>  BY <1>1 DEF PageOK
  <2> QED  BY <1>1, <2>1, ContainsIn DEF PageOK, Shows, Page
\* An item that the request is not about.
<1>9. ASSUME NEW item \in Items, Known(item), item # r.item, UNCHANGED <<page, kind>>,
             config'[item] = config[item], Asked(item)' = {}
      PROVE  ItemAgrees(item)'
  <2>1. ItemAgrees(item) /\ Asked(item) = {}  BY <1>5, <1>6, <1>9
  <2>2. PanesFor(item)' = PanesFor(item)  BY <1>9 DEF PanesFor
  <2>3. \A p \in PanesFor(item) : ContentKept(page.panes[p], page'.panes[p])
    BY <1>9 DEF ContentKept
  <2> QED  BY <1>9, <2>1, <2>2, <2>3, ItemKept
<1>10. CASE Error(r)
  <2>1. UNCHANGED <<page, kind, config>> /\ requests' = {}  BY <1>1, <1>10 DEF Error
  <2>2. user'.unsure = user.unsure \cup {r.item}  BY <1>3, <1>10 DEF Error, UserOK
  <2>3. ASSUME NEW item \in Items, Known(item)' PROVE ItemAgrees(item)'
    <3>1. Known(item) /\ item # r.item  BY <2>2, <2>3 DEF Known
    <3>2. Asked(item)' = {}  BY <2>1, AskedNone
    <3> QED  BY <1>9, <2>1, <3>1, <3>2
  <2> QED  BY <2>1, <2>3 DEF Agreement
<1>11. CASE Serve(r)
  <2>1. UNCHANGED <<page, kind, user>> /\ r.phase = "sent"  BY <1>11 DEF Serve
  <2>2. PICK value, phase :
          /\ Served(r, value, phase)
          /\ \/ /\ r.type \in {"load", "reload", "create"}
                /\ value = config[r.item] /\ phase = "done" /\ config' = config
             \/ /\ r.type \in {"put", "delete"} /\ config[r.item] = Absent
                /\ value = r.value /\ phase = "refused" /\ config' = config
             \/ /\ r.type \in {"put", "post"} /\ value = r.value /\ phase = "done"
                /\ r.type = "put" => config[r.item] # Absent
                /\ config' = [config EXCEPT ![r.item] = r.value]
             \/ /\ r.type = "delete" /\ value = r.value /\ phase = "done"
                /\ config[r.item] # Absent
                /\ config' = [config EXCEPT ![r.item] = Absent]
    BY <1>11 DEF Serve
  <2>3. PICK m : m = [r EXCEPT !.value = value, !.phase = phase]  OBVIOUS
  <2>4. requests' = {m}  BY <1>1, <2>2, <2>3 DEF Served
  <2>5. /\ m.type = r.type /\ m.pane = r.pane /\ m.item = r.item
        /\ m.value = value /\ m.phase = phase
    BY <1>2, <2>3 DEF Request
  <2>6. ASSUME NEW item \in Items PROVE Asked(item)' = Asked(item)
    BY <1>5, <2>4, <2>5, AskedNext
  <2>7. ASSUME NEW item \in Items, item # r.item PROVE config'[item] = config[item]
    BY <1>3, <2>2, <2>7
  <2>8. ASSUME NEW item \in Items, Known(item)' PROVE ItemAgrees(item)'
    <3>1. Known(item)  BY <2>1, <2>8 DEF Known
    <3>2. ItemAgrees(item)  BY <1>6, <3>1
    <3>3. PanesFor(item)' = PanesFor(item)  BY <2>1 DEF PanesFor
    <3>4. \A p \in PanesFor(item) : ContentKept(page.panes[p], page'.panes[p])
      BY <2>1 DEF ContentKept
    <3>5. CASE config'[item] = config[item]
      BY <2>1, <2>6, <3>2, <3>3, <3>4, <3>5, ItemKept
    <3>6. CASE config'[item] # config[item]
      <4>1. item = r.item /\ r.type \in {"put", "post", "delete"}  BY <2>2, <2>7, <3>6
      <4>2. Asked(item) = {r.type} /\ Asked(item)' = {r.type}  BY <1>5, <2>6, <4>1
      <4>3. r.type = "put" => config[item] # Absent /\ config'[item] # Absent
        <5>1. r.type = "put" => r.value \in Nat  BY <1>1 DEF RequestOK
        <5> QED  BY <1>2, <1>3, <2>2, <3>6, <4>1, <5>1 DEF Absent
      <4>4. ItemShown(item)'
        <5>1. ItemShown(item)  BY <3>2 DEF ItemAgrees
        <5>2. Free({"post", "create", "delete"}, item) =>
                (PanesFor(item)' # {} <=> config'[item] # Absent)
          BY <3>3, <4>1, <4>2, <4>3, <5>1 DEF ItemShown, Free
        <5> QED  BY <2>1, <3>3, <4>2, <5>1, <5>2 DEF ItemShown, Free
      <4>5. CASE r.type = "post"
        <5>1. PanesFor(item) = {}  BY <3>2, <4>2, <4>5 DEF ItemAgrees, ItemShown, Free
        <5> QED  BY <3>3, <4>4, <5>1 DEF ItemAgrees
      <4>6. CASE r.type # "post"
        <5>1. ASSUME NEW p \in PanesFor(item)' PROVE FormAgrees(p, item)'
          BY <4>1, <4>2, <4>6 DEF FormAgrees, Free
        <5> QED  BY <4>4, <5>1 DEF ItemAgrees
      <4> QED  BY <4>5, <4>6
    <3> QED  BY <3>5, <3>6
  <2>9. ASSUME Known(r.item) PROVE RequestAgrees(m)'
    <3>1. RequestAgrees(r)  BY <1>7, <2>9
    <3>2. m.type \in {"load", "reload", "create", "put", "post"} /\ m.phase = "done" =>
            m.value = config'[m.item]
      BY <1>2, <1>3, <2>2, <2>5
    <3>3. m.type = "create" => config'[m.item] # Absent
      BY <2>2, <2>5, <3>1 DEF RequestAgrees
    <3>4. m.type = "delete" => (m.phase = "done" <=> config'[m.item] = Absent)
      BY <1>2, <1>3, <2>1, <2>2, <2>5, <3>1 DEF RequestAgrees
    <3>5. m.type = "put" => page'.panes[m.pane].form \in {m.value, page'.panes[m.pane].typed}
      BY <2>1, <2>2, <2>5, <3>1 DEF RequestAgrees
    <3> QED  BY <3>2, <3>3, <3>4, <3>5 DEF RequestAgrees
  <2> QED  BY <2>1, <2>4, <2>5, <2>8, <2>9 DEF Agreement, Known
<1>12. CASE PutDone(r)
  <2>1. UNCHANGED <<page, kind, config, this>> /\ r.type = "put" /\ r.phase = "done"
        /\ user'.unsure = user.unsure
    BY <1>3, <1>12 DEF PutDone, Answer, UserOK
  <2>2. PICK m : m = IF kind = "vocabulary" THEN Send("load", r.pane, r.item, Blank)
                     ELSE Send("reload", NoPane, page.panes[this].item, Blank)
    OBVIOUS
  <2>3. requests' = {m}  BY <1>1, <1>12, <2>2 DEF PutDone
  <2>4. /\ m.type \in {"load", "reload"} /\ m.phase = "sent" /\ m.item = r.item
        /\ kind # "vocabulary" => m.type = "reload"
    BY <1>1, <2>1, <2>2 DEF Send, Requested
  <2>5. ASSUME NEW item \in Items PROVE Asked(item)' = IF r.item = item THEN {m.type} ELSE {}
    BY <2>3, <2>4, AskedNext
  <2>6. ASSUME NEW item \in Items, Known(item)' PROVE ItemAgrees(item)'
    <3>1. Known(item)  BY <2>1, <2>6 DEF Known
    <3>2. CASE item # r.item  BY <1>9, <2>1, <2>5, <3>1, <3>2
    <3>3. CASE item = r.item
      <4>1. ItemAgrees(item) /\ \A p, q \in PanesFor(item) : p = q  BY <1>6, <3>1
      <4>2. Asked(item) = {"put"} /\ Asked(item)' = {m.type}  BY <1>5, <2>1, <2>5, <3>3
      <4>3. PanesFor(item)' = PanesFor(item)  BY <2>1 DEF PanesFor
      <4>4. ItemShown(item)'
        BY <2>1, <2>4, <4>1, <4>2, <4>3 DEF ItemAgrees, ItemShown, Free
      <4>5. r.pane \in PanesFor(item)  BY <1>1, <1>8, <2>1, <3>3 DEF Requested, PanesFor
      <4>6. page.panes[r.pane].form \in {config[item], page.panes[r.pane].typed}
        BY <1>7, <2>1, <3>1, <3>3 DEF RequestAgrees
      <4>7. ASSUME NEW p \in PanesFor(item)' PROVE FormAgrees(p, item)'
        <5>1. p = r.pane  BY <4>1, <4>3, <4>5
        <5> QED  BY <2>1, <2>4, <4>2, <4>6, <5>1 DEF FormAgrees, Free
      <4> QED  BY <4>4, <4>7 DEF ItemAgrees
    <3> QED  BY <3>2, <3>3
  <2>7. RequestAgrees(m)'  BY <2>4 DEF RequestAgrees
  <2> QED  BY <2>3, <2>6, <2>7 DEF Agreement
<1>13. CASE Posted(r)
  <2>1. UNCHANGED <<page, kind, config, user>> /\ r.type = "post" /\ r.phase = "done"
    BY <1>13 DEF Posted, Answer
  <2>2. PICK m : m = Send("create", NoPane, r.item, Blank)  OBVIOUS
  <2>3. requests' = {m}  BY <1>1, <1>13, <2>2 DEF Posted
  <2>4. m.type = "create" /\ m.phase = "sent" /\ m.item = r.item  BY <2>2 DEF Send
  <2>5. ASSUME NEW item \in Items PROVE Asked(item)' = IF r.item = item THEN {"create"} ELSE {}
    BY <2>3, <2>4, AskedNext
  <2>6. ASSUME NEW item \in Items, Known(item)' PROVE ItemAgrees(item)'
    <3>1. Known(item)  BY <2>1, <2>6 DEF Known
    <3>2. CASE item # r.item  BY <1>9, <2>1, <2>5, <3>1, <3>2
    <3>3. CASE item = r.item
      <4>1. Asked(item) = {"post"} /\ Asked(item)' = {"create"}  BY <1>5, <2>1, <2>5, <3>3
      <4>2. PanesFor(item) = {}
        BY <1>6, <3>1, <4>1 DEF ItemAgrees, ItemShown, Free
      <4>3. PanesFor(item)' = {}  BY <2>1, <4>2 DEF PanesFor
      <4> QED  BY <4>1, <4>3 DEF ItemAgrees, ItemShown, Free
    <3> QED  BY <3>2, <3>3
  <2>7. ASSUME Known(r.item) PROVE RequestAgrees(m)'
    <3>1. r.value = config[r.item] /\ r.value \in Nat
      BY <1>1, <1>7, <2>1, <2>7 DEF RequestAgrees, RequestOK
    <3>2. config'[m.item] # Absent  BY <2>1, <2>4, <3>1 DEF Absent
    <3> QED  BY <2>4, <3>2 DEF RequestAgrees
  <2> QED  BY <2>1, <2>3, <2>4, <2>6, <2>7 DEF Agreement, Known
\* Afterwards nothing is asked of the server.
<1>14. ASSUME UNCHANGED <<kind, config, user>>, requests' = {}, NEW item \in Items, Known(item)',
              r.type \in {"load", "reload"} \/ item # r.item,
              PanesFor(item)' = PanesFor(item), page'.pendingRemoval = page.pendingRemoval,
              \A p \in PanesFor(item) : FormAgrees(p, item)'
       PROVE  ItemAgrees(item)'
  <2>1. Asked(item)' = {}  BY <1>14, AskedNone
  <2>2. Known(item)  BY <1>14 DEF Known
  <2>3. ItemAgrees(item) /\ \A p, q \in PanesFor(item) : p = q  BY <1>6, <2>2
  <2>4. Free({"post", "create", "delete"}, item)  BY <1>5, <1>14 DEF Free
  <2>5. PanesFor(item) # {} <=> config[item] # Absent  BY <2>3, <2>4 DEF ItemAgrees, ItemShown
  <2> QED  BY <1>14, <2>1, <2>3, <2>5, UnaskedAgrees
<1>15. CASE Loaded(r) \/ Reloaded(r)
  <2>1. /\ UNCHANGED <<kind, config, this, user>> /\ requests' = {}
        /\ r.type \in {"load", "reload"} /\ r.phase = "done"
    BY <1>1, <1>15 DEF Loaded, Reloaded, Answer
  <2>2. PICK s : s = Target(r)  OBVIOUS
  <2>3. s \in ToSet(page.children) /\ s \in Panes(page) /\ page.panes[s].item = r.item
    <3>1. s = page.selected /\ s # NoPane /\ page.panes[s].item = r.item
      BY <1>1, <2>1, <2>2 DEF Requested, Target
    <3>2. page.children # <<>>  BY <1>1, <3>1 DEF PageOK
    <3>3. s \in ToSet(page.children)
      BY <1>1, <3>1, <3>2, ContainsIn DEF PageOK, Shows, Page
    <3> QED  BY <1>4, <3>1, <3>3
  <2>4. CASE r.value = Absent
    <3>1. page' = page  BY <1>15, <2>4 DEF Loaded, Reloaded
    <3>2. ASSUME NEW item \in Items, Known(item)' PROVE ItemAgrees(item)'
      <4>1. Known(item) /\ ItemAgrees(item)  BY <1>6, <2>1, <3>2 DEF Known
      <4>2. item # r.item
        <5> SUFFICES ASSUME item = r.item PROVE FALSE  OBVIOUS
        <5>1. config[item] = Absent  BY <1>7, <2>1, <2>4, <4>1 DEF RequestAgrees
        <5>2. s \in PanesFor(item)  BY <2>3 DEF PanesFor
        <5>3. Free({"post", "create", "delete"}, item)  BY <1>5, <2>1 DEF Free
        <5> QED  BY <4>1, <5>1, <5>2, <5>3 DEF ItemAgrees, ItemShown
      <4>3. Asked(item)' = {}  BY <2>1, AskedNone
      <4> QED  BY <1>9, <2>1, <3>1, <4>1, <4>2, <4>3
    <3> QED  BY <2>1, <3>2 DEF Agreement
  <2>5. CASE r.value # Absent
    <3>1. PaneOnly(page, page', s) /\ Refilled(page.panes[s], page'.panes[s], r)
      BY <1>15, <2>2, <2>5, LoadedPage
    <3>2. ASSUME NEW item \in Items, Known(item)' PROVE ItemAgrees(item)'
      <4>1. Known(item) /\ ItemAgrees(item) /\ \A p, q \in PanesFor(item) : p = q
        BY <1>6, <2>1, <3>2 DEF Known
      <4>2. PanesFor(item)' = PanesFor(item) /\ PanesFor(item) \subseteq Panes(page)
        BY <3>1, PanesForKept DEF PaneOnly
      <4>3. Asked(item)' = {}  BY <2>1, AskedNone
      <4>4. ASSUME NEW p \in PanesFor(item) PROVE FormAgrees(p, item)'
        <5>1. FormAgrees(p, item)  BY <4>1 DEF ItemAgrees
        <5>2. CASE p = s
          <6>1. item = r.item  BY <2>3, <5>2 DEF PanesFor
          <6>2. r.value = config[item]  BY <1>7, <2>1, <4>1, <6>1 DEF RequestAgrees
          <6>3. page'.panes[p].form = config[item]  BY <3>1, <5>2, <6>2 DEF Refilled
          <6>4. kind # "vocabulary" => page'.panes[p].config_item = config[item]
            <7>1. CASE r.type = "reload"  BY <3>1, <5>2, <6>2, <7>1 DEF Refilled
            <7>2. CASE r.type = "load"
              <8>1. Asked(item) = {"load"}  BY <1>5, <6>1, <7>2
              <8> QED  BY <3>1, <5>1, <5>2, <7>2, <8>1 DEF Refilled, FormAgrees, Free
            <7> QED  BY <2>1, <7>1, <7>2
          <6> QED  BY <2>1, <6>3, <6>4 DEF FormAgrees
        <5>3. CASE p # s
          <6>1. item # r.item
            <7>1. item = r.item => s \in PanesFor(item)  BY <2>3 DEF PanesFor
            <7> QED  BY <4>1, <5>3, <7>1
          <6>2. Asked(item) = {}  BY <1>5, <6>1
          <6>3. page'.panes[p] = page.panes[p]  BY <3>1, <4>2, <5>3 DEF PaneOnly
          <6> QED  BY <2>1, <5>1, <6>2, <6>3 DEF FormAgrees, Free
        <5> QED  BY <5>2, <5>3
      <4>5. page'.pendingRemoval = page.pendingRemoval  BY <3>1 DEF PaneOnly
      <4> QED  BY <1>14, <2>1, <3>2, <4>2, <4>4, <4>5
    <3> QED  BY <2>1, <3>2 DEF Agreement
  <2> QED  BY <2>4, <2>5
<1>16. CASE Deleted(r)
  <2>1. /\ UNCHANGED <<kind, config, this, user>> /\ requests' = {}
        /\ r.type = "delete" /\ r.phase = "done"
    BY <1>1, <1>16 DEF Deleted, Answer
  <2>2. /\ page'.panes = page.panes /\ page'.pendingRemoval = page.pendingRemoval
        /\ ToSet(page'.children) = ToSet(page.children) \ {this}
    BY <1>16, DeletedContent
  <2>3. this \in ToSet(page.children) /\ page.panes[this].item = r.item
    BY <1>1, <1>8, <2>1 DEF Requested
  <2>4. ASSUME NEW item \in Items, Known(item)' PROVE ItemAgrees(item)'
    <3>1. Known(item) /\ ItemAgrees(item) /\ \A p, q \in PanesFor(item) : p = q
      BY <1>6, <2>1, <2>4 DEF Known
    <3>2. PanesFor(item)' = PanesFor(item) \ {this}  BY <2>2 DEF PanesFor
    <3>3. Asked(item)' = {}  BY <2>1, AskedNone
    <3>4. CASE item = r.item
      <4>1. this \in PanesFor(item)  BY <2>3, <3>4 DEF PanesFor
      <4>2. PanesFor(item)' = {}  BY <3>1, <3>2, <4>1
      <4>3. config'[item] = Absent  BY <1>7, <2>1, <3>1, <3>4 DEF RequestAgrees
      <4> QED  BY <3>3, <4>2, <4>3, UnaskedAgrees
    <3>5. CASE item # r.item
      <4>1. PanesFor(item)' = PanesFor(item)  BY <2>3, <3>2, <3>5 DEF PanesFor
      <4>2. Asked(item) = {}  BY <1>5, <3>5
      <4>3. ASSUME NEW p \in PanesFor(item) PROVE ContentKept(page.panes[p], page'.panes[p])
        BY <2>2 DEF ContentKept
      <4> QED  BY <2>1, <2>2, <3>1, <3>3, <4>1, <4>2, <4>3, ItemKept
    <3> QED  BY <3>4, <3>5
  <2> QED  BY <2>1, <2>4 DEF Agreement
<1>17. CASE CreateNewPaneFromStore(r)
  <2>1. /\ UNCHANGED <<kind, config, this, user>> /\ requests' = {}
        /\ r.type = "create" /\ r.phase = "done"
    BY <1>1, <1>17 DEF CreateNewPaneFromStore, Answer
  <2>2. Known(r.item) => r.value = config[r.item] /\ r.value # Absent
    BY <1>7, <2>1 DEF RequestAgrees
  <2>3. CASE r.value = Absent
    <3>1. page' = page  BY <1>17, <2>3 DEF CreateNewPaneFromStore
    <3>2. ASSUME NEW item \in Items, Known(item)' PROVE ItemAgrees(item)'
      <4>1. Known(item) /\ item # r.item  BY <2>1, <2>2, <2>3, <3>2 DEF Known
      <4>2. Asked(item)' = {}  BY <2>1, AskedNone
      <4> QED  BY <1>9, <2>1, <3>1, <4>1, <4>2
    <3> QED  BY <2>1, <3>2 DEF Agreement
  <2>4. CASE r.value # Absent
    <3>1. PICK new : CreatedOnPage(page, page', new, r.item, r.value)
      BY <1>1, <1>17, <2>4, CreatedPage
    <3>2. /\ page'.pendingRemoval = page.pendingRemoval /\ new \notin Panes(page)
          /\ page'.panes[new] = NewPane(r.item, r.value, FALSE)
          /\ \A p \in Panes(page) : page'.panes[p] = page.panes[p]
          /\ ToSet(page'.children) = ToSet(page.children) \cup {new}
      BY <3>1 DEF CreatedOnPage
    <3>3. /\ page'.panes[new].item = r.item /\ page'.panes[new].config_item = r.value
          /\ page'.panes[new].form = page'.panes[new].typed
      BY <3>2 DEF NewPane
    <3>4. ASSUME NEW item \in Items, Known(item)' PROVE ItemAgrees(item)'
      <4>1. Known(item) /\ ItemAgrees(item)  BY <1>6, <2>1, <3>4 DEF Known
      <4>2. Asked(item)' = {}  BY <2>1, AskedNone
      <4>3. PanesFor(item) \subseteq Panes(page)  BY <1>4 DEF PanesFor
      <4>4. CASE item = r.item
        <5>1. Asked(item) = {"create"}  BY <1>5, <2>1, <4>4
        <5>2. PanesFor(item) = {}  BY <4>1, <5>1 DEF ItemAgrees, ItemShown, Free
        <5>3. PanesFor(item)' = {new}  BY <1>4, <3>2, <3>3, <4>4, <5>2 DEF PanesFor
        <5>4. config'[item] # Absent /\ r.value = config'[item]
          BY <2>1, <2>2, <4>1, <4>4
        <5>5. FormAgrees(new, item)'  BY <3>3, <5>4 DEF FormAgrees
        <5> QED  BY <4>2, <5>3, <5>4, <5>5, UnaskedAgrees
      <4>5. CASE item # r.item
        <5>1. PanesFor(item)' = PanesFor(item)
          BY <1>4, <3>2, <3>3, <4>5 DEF PanesFor
        <5>2. Asked(item) = {}  BY <1>5, <4>5
        <5>3. ASSUME NEW p \in PanesFor(item) PROVE ContentKept(page.panes[p], page'.panes[p])
          BY <3>2, <4>3 DEF ContentKept
        <5> QED  BY <2>1, <3>2, <4>1, <4>2, <5>1, <5>2, <5>3, ItemKept
      <4> QED  BY <4>4, <4>5
    <3> QED  BY <2>1, <3>4 DEF Agreement
  <2> QED  BY <2>3, <2>4
<1> QED  BY <1>10, <1>11, <1>12, <1>13, <1>15, <1>16, <1>17
\* What the user does keeps the page in agreement.
LEMMA UserAgrees ==
    ASSUME PagesTyped, PhaseOK(page), OneRequest, Agreement, UserActs, Patient'
    PROVE  Agreement'
<1>1. /\ PageOK(page) /\ PageShape(page) /\ page \in Page /\ UserOK(user)
      /\ ToSet(page.children) \subseteq Panes(page)
  BY DEF PagesTyped, PageOK, PageShape
<1>2. ASSUME NEW field \in {"clicks", "edits", "writes"}, NEW hasty, Act(field, hasty)
      PROVE  ~hasty /\ user'.unsure = user.unsure
  BY <1>1, <1>2, NotHasty, ActTyped
<1>3. ASSUME NEW p \in Panes(page) PROVE page.panes[p] \in Pane
  BY <1>1, <1>3 DEF Page, Panes
<1>4. ASSUME NEW p \in Panes(page), Shown(p), ~Busy
      PROVE  p \in PanesFor(page.panes[p].item) /\ requests = {}
  <2>1. p = page.selected /\ p # NoPane  BY <1>4 DEF Shown
  <2>2. page.children # <<>>  BY <1>1, <2>1 DEF PageOK
  <2>3. p \in ToSet(page.children)
    BY <1>1, <2>1, <2>2, ContainsIn DEF PageOK, Shows, Page
  <2> QED  BY <1>4, <2>3 DEF PanesFor, Busy
\* A request is sent about an item, and its pane keeps what it holds.
<1>5. ASSUME NEW p \in Panes(page), NEW m, m.item = page.panes[p].item, m.pane = p,
             m.type \in {"load", "put", "delete"}, m.phase = "sent",
             m.type = "put" => m.value = page.panes[p].form,
             Shown(p), ~Busy, requests' = requests \cup {m}, UNCHANGED <<kind, config>>,
             user'.unsure = user.unsure,
             PaneOnly(page, page', p), ContentKept(page.panes[p], page'.panes[p]),
             page'.panes[p].form = page.panes[p].form
      PROVE  Agreement'
  <2>1. p \in PanesFor(page.panes[p].item) /\ requests = {} /\ requests' = {m}
    BY <1>4, <1>5
  <2>2. ASSUME NEW q \in Panes(page) PROVE ContentKept(page.panes[q], page'.panes[q])
    <3>1. CASE q = p  BY <1>5, <3>1
    <3>2. CASE q # p
      <4>1. page'.panes[q] = page.panes[q]  BY <1>5, <3>2 DEF PaneOnly
      <4> QED  BY <4>1 DEF ContentKept
    <3> QED  BY <3>1, <3>2
  <2>3. page'.pendingRemoval = page.pendingRemoval  BY <1>5 DEF PaneOnly
  <2>4. ASSUME NEW item \in Items, Known(item)
        PROVE  /\ ItemAgrees(item) /\ Asked(item) = {}
               /\ PanesFor(item)' = PanesFor(item) /\ PanesFor(item) \subseteq Panes(page)
               /\ Asked(item)' = IF item = m.item THEN {m.type} ELSE {}
    <3>1. ItemAgrees(item)  BY <2>4 DEF Agreement
    <3>2. Asked(item) = {}  BY <2>1, AskedNone
    <3>3. PanesFor(item)' = PanesFor(item) /\ PanesFor(item) \subseteq Panes(page)
      BY <1>5, PanesForKept DEF PaneOnly
    <3>4. Asked(item)' = IF m.item = item THEN {m.type} ELSE {}  BY <2>1, AskedNext
    <3> QED  BY <3>1, <3>2, <3>3, <3>4
  <2>5. ASSUME NEW item \in Items, Known(item)' PROVE ItemAgrees(item)'
    <3>1. Known(item)  BY <1>5, <2>5 DEF Known
    <3>2. /\ ItemAgrees(item) /\ Asked(item) = {}
          /\ PanesFor(item)' = PanesFor(item) /\ PanesFor(item) \subseteq Panes(page)
          /\ Asked(item)' = IF item = m.item THEN {m.type} ELSE {}
      BY <2>4, <3>1
    <3>3. CASE item # m.item
      <4>1. \A q \in PanesFor(item) : ContentKept(page.panes[q], page'.panes[q])
        BY <2>2, <3>2
      <4>2. Asked(item)' = Asked(item) /\ config'[item] = config[item]  BY <1>5, <3>2, <3>3
      <4> QED  BY <1>5, <2>3, <3>2, <4>1, <4>2, ItemKept
    <3>4. CASE item = m.item
      <4>1. Asked(item)' = {m.type}  BY <3>2, <3>4
      <4>2. ItemShown(item)'
        <5>1. /\ PanesFor(item) # {} <=> config[item] # Absent
              /\ \A x, y \in PanesFor(item) : x = y \/ page.pendingRemoval \in {x, y}
          BY <3>2 DEF ItemAgrees, ItemShown, Free
        <5>2. Free({"post", "create"}, item)'  BY <1>5, <4>1 DEF Free
        <5> QED  BY <1>5, <2>3, <3>2, <5>1, <5>2 DEF ItemShown
      <4>3. ASSUME NEW q \in PanesFor(item)' PROVE FormAgrees(q, item)'
        <5>1. FormAgrees(q, item)  BY <3>2 DEF ItemAgrees
        <5>2. ContentKept(page.panes[q], page'.panes[q])  BY <2>2, <3>2
        <5> QED  BY <1>5, <3>2, <5>1, <5>2 DEF FormAgrees, ContentKept, Free
      <4> QED  BY <4>2, <4>3 DEF ItemAgrees
    <3> QED  BY <3>3, <3>4
  <2>6. ASSUME Known(m.item) PROVE RequestAgrees(m)'
    <3>1. m.item \in Items  BY <1>3, <1>5 DEF Pane
    <3>2. ItemAgrees(m.item) /\ Asked(m.item) = {}  BY <2>4, <2>6, <3>1
    <3>3. config[m.item] # Absent
      BY <1>5, <2>1, <3>2 DEF ItemAgrees, ItemShown, Free
    <3>4. m.type = "delete" => (m.phase = "done" <=> config'[m.item] = Absent)
      BY <1>5, <3>3
    <3> QED  BY <1>5, <3>4 DEF RequestAgrees
  <2> QED  BY <1>5, <2>1, <2>5, <2>6 DEF Agreement, Known
<1>6. ASSUME NEW p \in Panes(page), Click(p) PROVE Agreement'
  <2> DEFINE b == SelectChild(page, p)
  <2>1. user'.unsure = user.unsure  BY <1>2, <1>6 DEF Click
  <2>2. page' = b /\ UNCHANGED <<kind, requests, config>>  BY <1>6 DEF Click
  <2>3. ChildSelected(page, b, p)  BY <1>1, SelectChildPage
  <2> HIDE DEF b
  <2>4. /\ b.panes = page.panes /\ b.children = page.children
        /\ b.pendingRemoval = page.pendingRemoval
    BY <2>3 DEF ChildSelected, Kept
  <2>5. Grown(page, b)  BY <2>4 DEF Grown, Panes
  <2>6. \A q \in Panes(page) : ContentKept(page.panes[q], b.panes[q])
    BY <2>4 DEF ContentKept
  <2> QED  BY <2>1, <2>2, <2>4, <2>5, <2>6, ContentStep
<1>7. ASSUME NEW p \in Panes(page), MarkAsChanged(p) PROVE Agreement'
  <2> DEFINE v == 2 + user.edits
             b == EditedPage(page, p, v)
  <2>1. user'.unsure = user.unsure  BY <1>2, <1>7 DEF MarkAsChanged
  <2>2. v \in Nat  BY <1>1 DEF UserOK
  <2>3. page' = b /\ UNCHANGED <<kind, requests, config>>
    BY <1>7 DEF MarkAsChanged, EditedPage
  <2> HIDE DEF v
  <2>4. PaneOnly(page, b, p) /\ Edited(page.panes[p], b.panes[p], v)  BY <1>1, <2>2, EditPage
  <2> HIDE DEF b
  <2>5. ASSUME NEW q \in Panes(page) PROVE ContentKept(page.panes[q], b.panes[q])
    <3>1. CASE q = p  BY <1>3, <2>4, <3>1 DEF Edited, Pane, ContentKept
    <3>2. CASE q # p
      <4>1. b.panes[q] = page.panes[q]  BY <2>4, <3>2 DEF PaneOnly
      <4> QED  BY <4>1 DEF ContentKept
    <3> QED  BY <3>1, <3>2
  <2>6. Grown(page, b) /\ b.children = page.children /\ b.pendingRemoval = page.pendingRemoval
    BY <2>4 DEF PaneOnly
  <2> QED  BY <2>1, <2>3, <2>5, <2>6, ContentStep
<1>8. ASSUME NEW p \in Panes(page), NEW flagged \in BOOLEAN
      PROVE  LET b == MarkedPage(page, p, flagged)
             IN  /\ PaneOnly(page, b, p) /\ ContentKept(page.panes[p], b.panes[p])
                 /\ b.panes[p].form = page.panes[p].form
                 /\ b.panes[p].typed = page.panes[p].typed
  <2> DEFINE b == MarkedPage(page, p, flagged)
  <2>1. PaneOnly(page, b, p) /\ Marked(page.panes[p], b.panes[p], flagged)  BY <1>1, MarkPage
  <2> HIDE DEF b
  <2> QED  BY <1>3, <2>1, MarkedFields DEF ContentKept, b
<1>9. ASSUME NEW p \in Panes(page), Cancel(p) PROVE Agreement'
  <2> DEFINE item == page.panes[p].item
             value == page.panes[p].config_item
             a == MarkedPage(page, p, FALSE)
             b == PopulateFromConfigItem(a, p, item, value)
  <2>1. /\ ~Busy /\ user'.unsure = user.unsure /\ Shown(p)
        /\ UNCHANGED <<kind, config>>
    <3>1. Act("clicks", Busy)  BY <1>9 DEF Cancel
    <3> QED  BY <1>2, <1>9, <3>1 DEF Cancel
  <2>2. page' = IF kind = "vocabulary" THEN a ELSE b  BY <1>9 DEF Cancel, MarkedPage
  <2>3. /\ PaneOnly(page, a, p) /\ ContentKept(page.panes[p], a.panes[p])
        /\ a.panes[p].form = page.panes[p].form /\ a.panes[p].typed = page.panes[p].typed
    BY <1>8
  <2> HIDE DEF a
  <2>4. CASE kind = "vocabulary"
    <3>1. PICK m : m = Send("load", p, item, Blank)  OBVIOUS
    <3>2. requests' = requests \cup {m}  BY <1>9, <2>4, <3>1 DEF Cancel
    <3>3. m.item = item /\ m.pane = p /\ m.type = "load" /\ m.phase = "sent"
      BY <3>1 DEF Send
    <3>4. page' = a  BY <2>2, <2>4
    <3> QED  BY <1>5, <2>1, <2>3, <3>2, <3>3, <3>4
  <2>5. CASE kind # "vocabulary"
    <3>1. requests' = {} /\ requests = {} /\ page' = b
      <4>1. requests' = requests  BY <1>9, <2>5 DEF Cancel
      <4> QED  BY <1>4, <2>1, <2>2, <2>5, <4>1
    <3>2. item \in Items /\ value \in Nat  BY <1>3 DEF Pane
    <3>3. PageOK(a) /\ p \in Panes(a) /\ a.panes[p] \in Pane
      <4>1. PageOK(a) /\ p \in Panes(a)  BY <2>3 DEF PaneOnly
      <4> QED  BY <4>1 DEF PageOK, PageShape, Page, Panes
    <3>4. PaneOnly(a, b, p) /\ Filled(a.panes[p], b.panes[p], item, value)
      BY <3>2, <3>3, PopulatePage
    <3> HIDE DEF b
    <3>5. PaneOnly(page, b, p)  BY <2>3, <3>4, PaneOnlyTwice
    <3>6. b.panes[p].form = value /\ b.panes[p].config_item = value
      BY <2>3, <3>3, <3>4, FilledFields DEF ContentKept
    <3>7. ASSUME NEW i \in Items, Known(i)' PROVE ItemAgrees(i)'
      <4>1. ItemAgrees(i)  BY <2>1, <3>7 DEF Agreement, Known
      <4>2. Asked(i) = {} /\ Asked(i)' = {}  BY <3>1, AskedNone
      <4>3. PanesFor(i)' = PanesFor(i) /\ PanesFor(i) \subseteq Panes(page)
        BY <3>1, <3>5, PanesForKept DEF PaneOnly
      <4>4. ASSUME NEW q \in PanesFor(i)' PROVE FormAgrees(q, i)'
        <5>1. FormAgrees(q, i)  BY <4>1, <4>3, <4>4 DEF ItemAgrees
        <5>2. CASE q = p
          <6>1. value = config[i]  BY <2>5, <4>2, <5>1, <5>2 DEF FormAgrees, Free
          <6> QED  BY <2>1, <3>1, <3>6, <5>2, <6>1 DEF FormAgrees
        <5>3. CASE q # p
          <6>1. page'.panes[q] = page.panes[q]  BY <3>1, <3>5, <4>3, <4>4, <5>3 DEF PaneOnly
          <6> QED  BY <2>1, <4>2, <5>1, <6>1 DEF FormAgrees, Free
        <5> QED  BY <5>2, <5>3
      <4>5. /\ PanesFor(i)' # {} <=> config'[i] # Absent
            /\ \A x, y \in PanesFor(i)' : x = y \/ page'.pendingRemoval \in {x, y}
        <5>1. page'.pendingRemoval = page.pendingRemoval  BY <3>1, <3>5 DEF PaneOnly
        <5> QED  BY <2>1, <4>1, <4>2, <4>3, <5>1 DEF ItemAgrees, ItemShown, Free
      <4> QED  BY <4>2, <4>4, <4>5, UnaskedAgrees
    <3> QED  BY <3>1, <3>7 DEF Agreement
  <2> QED  BY <2>4, <2>5
<1>10. ASSUME NEW p \in Panes(page), Delete2(p) PROVE Agreement'
  <2> DEFINE a == MarkedPage(page, p, FALSE)
  <2>1. PICK m : m = Send("delete", p, page.panes[p].item, Blank)  OBVIOUS
  <2>2. /\ ~Busy /\ user'.unsure = user.unsure /\ Shown(p)
        /\ UNCHANGED <<kind, config>> /\ page' = a /\ requests' = requests \cup {m}
    <3>1. Act("writes", Busy)  BY <1>10 DEF Delete2
    <3> QED  BY <1>2, <1>10, <2>1, <3>1 DEF Delete2, MarkedPage
  <2>3. /\ PaneOnly(page, a, p) /\ ContentKept(page.panes[p], a.panes[p])
        /\ a.panes[p].form = page.panes[p].form
    BY <1>8
  <2> HIDE DEF a
  <2>4. /\ m.item = page.panes[p].item /\ m.pane = p /\ m.type = "delete" /\ m.phase = "sent"
    BY <2>1 DEF Send
  <2> QED  BY <1>5, <2>2, <2>3, <2>4
<1>11. ASSUME NEW p \in Panes(page), Saved(p) PROVE Agreement'
  <2>1. PICK flagged \in {FALSE, page.panes[p].unsaved_changes} : PutRequest(p, flagged)
    BY <1>11 DEF Saved
  <2> DEFINE a == MarkedPage(page, p, flagged)
  <2>2. PICK m : m = Send("put", p, page.panes[p].item, page.panes[p].form)  OBVIOUS
  <2>3. /\ ~Busy /\ user'.unsure = user.unsure /\ Shown(p)
        /\ UNCHANGED <<kind, config>> /\ page' = a /\ requests' = requests \cup {m}
    <3>1. Act("writes", Busy)  BY <2>1 DEF PutRequest
    <3> QED  BY <1>2, <2>1, <2>2, <3>1 DEF PutRequest, MarkedPage
  <2>4. flagged \in BOOLEAN  BY <1>3, <2>1 DEF Pane
  <2>5. /\ PaneOnly(page, a, p) /\ ContentKept(page.panes[p], a.panes[p])
        /\ a.panes[p].form = page.panes[p].form
    BY <1>8, <2>4
  <2> HIDE DEF a
  <2>6. /\ m.item = page.panes[p].item /\ m.pane = p /\ m.type = "put" /\ m.phase = "sent"
        /\ m.value = page.panes[p].form
    BY <2>2 DEF Send
  <2> QED  BY <1>5, <2>3, <2>5, <2>6
<1>12. ASSUME NEW item \in Items, AddNew(item) PROVE Agreement'
  <2>1. PICK m : m = Send("post", NoPane, item, 1)  OBVIOUS
  <2>2. /\ requests = {} /\ requests' = {m} /\ UNCHANGED <<kind, page, config>>
        /\ user'.unsure = user.unsure /\ config[item] = Absent
    <3>1. Act("writes", Busy)  BY <1>12 DEF AddNew
    <3>2. ~Busy /\ user'.unsure = user.unsure  BY <1>2, <3>1
    <3>3. requests = {}  BY <3>2 DEF Busy
    <3> QED  BY <1>12, <2>1, <3>2, <3>3 DEF AddNew
  <2>3. m.type = "post" /\ m.phase = "sent" /\ m.item = item  BY <2>1 DEF Send
  <2>4. ASSUME NEW i \in Items, Known(i)' PROVE ItemAgrees(i)'
    <3>1. ItemAgrees(i)  BY <2>2, <2>4 DEF Agreement, Known
    <3>2. Asked(i) = {}  BY <2>2, AskedNone
    <3>3. Asked(i)' = IF m.item = i THEN {m.type} ELSE {}  BY <2>2, AskedNext
    <3>4. PanesFor(i)' = PanesFor(i)  BY <2>2 DEF PanesFor
    <3>5. CASE i = item
      <4>1. PanesFor(i)' = {}
        BY <2>2, <3>1, <3>2, <3>4, <3>5 DEF ItemAgrees, ItemShown, Free
      <4>2. ~Free({"post", "create", "delete"}, i)'  BY <2>3, <3>3, <3>5 DEF Free
      <4> QED  BY <4>1, <4>2 DEF ItemAgrees, ItemShown
    <3>6. CASE i # item
      <4>1. \A q \in PanesFor(i) : ContentKept(page.panes[q], page'.panes[q])
        BY <2>2 DEF ContentKept
      <4>2. Asked(i)' = Asked(i)  BY <2>3, <3>2, <3>3, <3>6
      <4> QED  BY <2>2, <3>1, <3>4, <4>1, <4>2, ItemKept
    <3> QED  BY <3>5, <3>6
  <2>5. RequestAgrees(m)'  BY <2>3 DEF RequestAgrees
  <2> QED  BY <2>2, <2>4, <2>5 DEF Agreement
<1>13. ASSUME NEW p \in DOMAIN page.panes,
              \/ Click(p) \/ MarkAsChanged(p) \/ Cancel(p) \/ Delete2(p)
              \/ SaveCodec(p) \/ SaveDatabase(p) \/ SaveProtocol(p)
              \/ SaveUser(p) \/ SaveVocabulary(p)
       PROVE  Agreement'
  <2>1. p \in Panes(page)  BY DEF Panes
  <2> QED  BY <1>6, <1>7, <1>9, <1>10, <1>11, <1>13, <2>1, SaveIsPut
<1> QED  BY <1>12, <1>13 DEF UserActs
\* A step of the page of a user who waits.
LEMMA NextAgrees ==
    ASSUME PagesTyped, PhaseInv, AgreeInv, PagesNext
    PROVE  AgreeInv'
<1> SUFFICES ASSUME Patient', ~user'.left PROVE Agreement'
  BY DEF AgreeInv
<1>1. PhaseOK(page) /\ OneRequest /\ Agreement  BY StillWaits DEF PhaseInv, AgreeInv
<1>2. CASE TimerFires  BY <1>1, <1>2, MovesAgree, SelectTimerAgrees DEF TimerFires
<1>3. CASE ServerAnswers \/ RequestFails
  BY <1>1, <1>3, AnswersAgree DEF ServerAnswers, RequestFails
<1>4. CASE UserActs  BY <1>1, <1>4, UserAgrees
<1> QED  BY <1>2, <1>3, <1>4 DEF PagesNext

\* The page shows the server's configuration when it is opened.
LEMMA InitAgrees ==
    ASSUME ConfigPageSelected
    PROVE  AgreeInv
<1>1. requests = {}  BY DEF ConfigPageSelected, PagesInit, NoRequests
<1>2. ASSUME NEW item \in Items,
             PanesFor(item) # {} <=> config[item] # Absent,
             \A p, q \in PanesFor(item) : p = q,
             \A p \in PanesFor(item) : FormAgrees(p, item)
      PROVE  ItemAgrees(item)
  <2>1. Asked(item) = {}  BY <1>1, AskedNone
  <2> QED  BY <1>2, <2>1 DEF ItemAgrees, ItemShown, Free
<1>3. CASE PagesInit
  <2> DEFINE a == CreatePanesFromAllItems
  <2>1. page = a /\ config = [i \in Items |-> IF i \in Configured THEN 1 ELSE Absent]
    BY <1>3 DEF PagesInit
  <2>2. /\ ToSet(a.children) = Panes(a)
        /\ \A p \in Panes(a) : \E item \in Configured : a.panes[p] = NewPane(item, 1, FALSE)
        /\ \A p, q \in Panes(a) : a.panes[p].item = a.panes[q].item => p = q
        /\ \A item \in Configured : \E p \in Panes(a) : a.panes[p].item = item
    BY OpenedPage
  <2> HIDE DEF a
  <2>3. ASSUME NEW item \in Items PROVE ItemAgrees(item)
    <3>1. ASSUME NEW p \in PanesFor(item) PROVE item \in Configured /\ FormAgrees(p, item)
      <4>1. PICK i \in Configured : a.panes[p] = NewPane(i, 1, FALSE)
        BY <2>1, <2>2, <3>1 DEF PanesFor
      <4>2. /\ a.panes[p].item = i /\ a.panes[p].config_item = 1
            /\ a.panes[p].form = a.panes[p].typed
        BY <4>1 DEF NewPane
      <4>3. i = item  BY <2>1, <3>1, <4>2 DEF PanesFor
      <4>4. config[item] = 1  BY <2>1, <4>3
      <4> QED  BY <2>1, <4>2, <4>3, <4>4 DEF FormAgrees
    <3>2. item \in Configured => PanesFor(item) # {}  BY <2>1, <2>2 DEF PanesFor
    <3>3. config[item] # Absent <=> item \in Configured  BY <2>1 DEF Absent
    <3>4. \A p, q \in PanesFor(item) : p = q  BY <2>1, <2>2 DEF PanesFor
    <3> QED  BY <1>2, <3>1, <3>2, <3>3, <3>4
  <2> QED  BY <1>1, <2>3 DEF AgreeInv, Agreement
<1>4. CASE ~PagesInit
  <2> DEFINE c == CreatePanesFromAllItems
  <2>1. /\ page = [c EXCEPT !.children = <<>>, !.panes = <<>>, !.selected = NoPane,
                            !.timers = <<>>]
        /\ config = [i \in Items |-> Absent]
    BY <1>4 DEF ConfigPageSelected
  <2>2. c \in Page  BY OpenedPage DEF PageOK, PageShape
  <2> HIDE DEF c
  <2>3. page.children = <<>>  BY <2>1, <2>2 DEF Page
  <2>4. ToSet(page.children) = {}  BY <2>3 DEF ToSet
  <2>5. ASSUME NEW item \in Items PROVE ItemAgrees(item)
    <3>1. PanesFor(item) = {} /\ config[item] = Absent  BY <2>1, <2>4 DEF PanesFor
    <3> QED  BY <1>2, <3>1
  <2> QED  BY <1>1, <2>5 DEF AgreeInv, Agreement
<1> QED  BY <1>3, <1>4

\* The number of panes for an item, when they are counted by their places.
LEMMA PanesCounted ==
    ASSUME PagesTyped, NEW item, \A p, q \in PanesFor(item) : p = q
    PROVE  Cardinality(PanesOf(item)) = IF PanesFor(item) = {} THEN 0 ELSE 1
<1>1. page.children \in Seq(Nat) /\ IsInjective(page.children)
  BY DEF PagesTyped, PageOK, PageShape, Page
<1>2. \A i \in PanesOf(item) : page.children[i] \in PanesFor(item)
  BY DEF PanesOf, PanesFor, ToSet
<1>3. \A i, j \in PanesOf(item) : i = j  BY <1>1, <1>2 DEF PanesOf, IsInjective
<1>4. PanesFor(item) # {} => PanesOf(item) # {}
  BY DEF PanesOf, PanesFor, ToSet
<1>5. CASE PanesFor(item) = {}
  <2>1. PanesOf(item) = {}  BY <1>2, <1>5
  <2> QED  BY <1>5, <2>1, FS_EmptySet
<1>6. CASE PanesFor(item) # {}
  <2>1. PICK i : i \in PanesOf(item)  BY <1>4, <1>6
  <2>2. PanesOf(item) = {i}  BY <1>3, <2>1
  <2> QED  BY <1>6, <2>2, FS_Singleton
<1> QED  BY <1>5, <1>6

\* The invariant says of a settled page what PageAgrees does.
LEMMA InvariantAgrees ==
    ASSUME PagesInv
    PROVE  PageAgrees
<1> SUFFICES ASSUME Settled, Patient
             PROVE  LET p == page.selected
                    IN  /\ \A item \in Items \ user.unsure :
                             Cardinality(PanesOf(item)) = IF config[item] = Absent THEN 0 ELSE 1
                        /\ page.children # <<>> =>
                             /\ p = page.selected_pane
                             /\ page.panes[p].initialized
                             /\ page.panes[p].shows = page.panes[p].item
                             /\ page.panes[p].item \notin user.unsure =>
                                  /\ page.panes[p].form \in {config[page.panes[p].item],
                                                             page.panes[p].typed}
                                  /\ kind # "vocabulary" =>
                                       page.panes[p].config_item = config[page.panes[p].item]
  BY DEF PageAgrees
<1> DEFINE p == page.selected
<1>1. /\ PagesTyped /\ PageOK(page) /\ PageShape(page) /\ page \in Page
      /\ PhaseOK(page) /\ Agreement /\ requests = {} /\ page.timers = <<>>
  BY DEF PagesInv, PagesTyped, PhaseInv, AgreeInv, PageOK, PageShape, Settled
<1>2. Resting(page)
  <2>1. ~Busy  BY <1>1 DEF Busy
  <2> QED  BY <1>1, <2>1, QuietIsResting
<1>3. ASSUME NEW item \in Items \ user.unsure
      PROVE  /\ ItemAgrees(item) /\ Asked(item) = {}
             /\ \A x, y \in PanesFor(item) : x = y
  <2>1. ItemAgrees(item)  BY <1>1, <1>3 DEF Agreement, Known
  <2>2. Asked(item) = {}  BY <1>1, AskedNone
  <2> QED  BY <1>1, <1>2, <2>1, <2>2, OnePane
<1>4. ASSUME NEW item \in Items \ user.unsure
      PROVE  Cardinality(PanesOf(item)) = IF config[item] = Absent THEN 0 ELSE 1
  <2>1. PanesFor(item) # {} <=> config[item] # Absent
    BY <1>3 DEF ItemAgrees, ItemShown, Free
  <2> QED  BY <1>1, <1>3, <2>1, PanesCounted
<1>5. ASSUME page.children # <<>>
      PROVE  /\ p = page.selected_pane
             /\ page.panes[p].initialized
             /\ page.panes[p].shows = page.panes[p].item
             /\ page.panes[p].item \notin user.unsure =>
                  /\ page.panes[p].form \in {config[page.panes[p].item], page.panes[p].typed}
                  /\ kind # "vocabulary" =>
                       page.panes[p].config_item = config[page.panes[p].item]
  <2>1. p \in ToSet(page.children) /\ p \in Panes(page)
    <3>1. p \in ToSet(page.children)
      BY <1>1, <1>5, ContainsIn DEF PageOK, Shows, Page
    <3> QED  BY <1>1, <3>1 DEF PageShape
  <2>2. p = page.selected_pane /\ page.panes[p].initialized  BY <1>2, <1>5 DEF Resting
  <2>3. page.panes[p].shows = page.panes[p].item  BY <1>1, <2>1 DEF PhaseOK
  <2>4. page.panes[p].item \in Items
    <3>1. page.panes[p] \in Pane  BY <1>1, <2>1 DEF Page, Panes
    <3> QED  BY <3>1 DEF Pane
  <2>5. ASSUME page.panes[p].item \notin user.unsure
        PROVE  /\ page.panes[p].form \in {config[page.panes[p].item], page.panes[p].typed}
               /\ kind # "vocabulary" =>
                    page.panes[p].config_item = config[page.panes[p].item]
    <3> PICK item : item = page.panes[p].item  OBVIOUS
    <3>1. ItemAgrees(item) /\ Asked(item) = {}  BY <1>3, <2>4, <2>5
    <3>2. p \in PanesFor(item)  BY <2>1 DEF PanesFor
    <3>3. FormAgrees(p, item)  BY <3>1, <3>2 DEF ItemAgrees
    <3> QED  BY <2>2, <3>1, <3>3 DEF FormAgrees, Free
  <2> QED  BY <2>2, <2>3, <2>5
<1> QED  BY <1>4, <1>5

\* Once nothing is under way, the page of a user who waits shows the server's
\* configuration, and a shown form its item's value or what was typed last
\* (codecs.js 110-184, Codec.js 171-255).
THEOREM SettledPagesAgree ==
    Spec => []PageAgrees
<1>1. Init => PagesInv  BY InitTyped, InitPhase, InitAgrees DEF Init, PagesInv
<1>2. PagesInv /\ [Next]_interfaceVars => PagesInv'
  <2> SUFFICES ASSUME PagesInv, [Next]_interfaceVars PROVE PagesInv'  OBVIOUS
  <2>1. CASE PagesNext  BY <2>1, NextTyped, NextPhase, NextAgrees DEF PagesInv
  <2>2. CASE UNCHANGED pagesVars  BY <2>2, PagesStutter
  <2> QED  BY <2>1, <2>2 DEF Next, interfaceVars
<1>3. PagesInv => PageAgrees  BY InvariantAgrees
<1> QED  BY <1>1, <1>2, <1>3, PTL DEF Spec
================================================================================
