-------------------------- MODULE WorkspaceEditorProofs -------------------------
(***************************************************************************)
(* Theorems about the Reactors page of the web interface, for any topology,*)
(* any finite sets of workspaces and Reactors and every bound.             *)
(*                                                                         *)
(* However hasty the user, the page takes off only what the engine has     *)
(* removed, from the invariant EditorInv.                                  *)
(*                                                                         *)
(* With a user who waits for answers the page agrees with itself at any    *)
(* time and with the engine when it has come to rest, from the             *)
(* invariant EditorConsistent.                                             *)
(***************************************************************************)
EXTENDS ConfigPagesProofs

--------------------------------------------------------------------------------
(***************************************************************************)
(* Folds over sequences.                                                   *)
(***************************************************************************)
\* Induction up to a number.
LEMMA CountUp ==
    ASSUME NEW n \in Nat, NEW T, 0 \in T, \A k \in 1..n : k - 1 \in T => k \in T
    PROVE  \A k \in 0..n : k \in T
<1> DEFINE U == (0..n) \ T
<1>1. SUFFICES ASSUME U # {} PROVE FALSE  OBVIOUS
<1> HIDE DEF U
<1>0. U \in SUBSET Nat  BY DEF U
<1>2. PICK m \in U : \A k \in U : m <= k  BY <1>0, <1>1, LeastNat
<1> USE DEF U
<1>3. m \in 1..n /\ m - 1 \in 0..n /\ ~(m <= m - 1)  BY <1>2
<1>4. m - 1 \in T  BY <1>2, <1>3
<1> QED  BY <1>2, <1>3, <1>4

\* The last of the numbers 1 to k.
LEMMA MaxOf ==
    ASSUME NEW n \in Nat, NEW t \in SUBSET (1..n), n \in t
    PROVE  Max(t) = n
<1>1. \A y \in t : n >= y  OBVIOUS
<1>2. \A x \in t : (\A y \in t : x >= y) => x = n  OBVIOUS
<1> QED  BY <1>1, <1>2 DEF Max

\* A set of numbers up to n that is not empty has a last one.
LEMMA MaxIn ==
    ASSUME NEW n \in Nat, NEW t \in SUBSET (1..n), t # {}
    PROVE  Max(t) \in 1..n
<1> DEFINE U == {k \in 0..n : n - k \in t}
<1>1. U \in SUBSET Nat  OBVIOUS
<1>2. PICK x : x \in t  OBVIOUS
<1>3. n - x \in U  BY <1>2
<1> HIDE DEF U
<1>4. PICK m \in U : \A k \in U : m <= k  BY <1>1, <1>3, LeastNat
<1> USE DEF U
<1>5. ASSUME NEW y \in t PROVE n - m >= y
  <2>1. n - y \in U  OBVIOUS
  <2>2. m <= n - y  BY <1>4, <2>1
  <2> QED  BY <1>4, <2>2
<1>6. \E z \in t : \A y \in t : z >= y  BY <1>4, <1>5
<1> QED  BY <1>6 DEF Max

\* Step k of a fold over a sequence of length n: from what the first k - 1 elements
\* give.
LEMMA UpTo ==
    ASSUME NEW n \in Nat, NEW k \in 1..n
    PROVE  1..k \in SUBSET (1..n) /\ 1..k # {} /\ Max(1..k) = k /\ (1..k) \ {k} = 1..(k - 1)
<1>1. k \in Nat /\ k \in 1..k /\ 1..k \in SUBSET (1..k)  OBVIOUS
<1>2. Max(1..k) = k  BY <1>1, MaxOf
<1>3. 1..k \in SUBSET (1..n) /\ (1..k) \ {k} = 1..(k - 1)  OBVIOUS
<1> QED  BY <1>1, <1>2, <1>3

\* The steps of a fold over s, of which F is one.
FoldSteps(E, C, F, base, s, g) ==
    LET D == SUBSET (1..Len(s))
    IN  /\ g = [t \in D |-> IF t = {} THEN base ELSE F[<<g[t \ {Max(t)}], s[Max(t)]>>]]
        /\ \A t \in D : t # {} => g[t \ {Max(t)}] \in E /\ s[Max(t)] \in C

\* What a fold over s computes exists, for an operation that stays in E.
LEMMA FoldExists ==
    ASSUME NEW E, NEW C, NEW F \in [E \X C -> E], NEW base \in E, NEW s \in Seq(C)
    PROVE  \E g : FoldSteps(E, C, F, base, s, g)
<1> DEFINE n == Len(s)
           Steps(g, D) == g = [t \in D |-> IF t = {} THEN base ELSE F[<<g[t \ {Max(t)}], s[Max(t)]>>]]
           Good(k, g) == g \in [SUBSET (1..k) -> E] /\ Steps(g, SUBSET (1..k))
           T == {k \in 0..n : \E g : Good(k, g)}
<1>1. n \in Nat /\ \A k \in 1..n : s[k] \in C  OBVIOUS
<1>2. 0 \in T
  <2>1. 1..0 = {}  OBVIOUS
  <2>2. Good(0, [t \in SUBSET (1..0) |-> base])  BY <2>1
  <2> QED  BY <1>1, <2>2
<1>3. ASSUME NEW k \in 1..n, k - 1 \in T PROVE k \in T
  <2>1. PICK h : Good(k - 1, h)  BY <1>3
  <2>0. k \in Nat  OBVIOUS
  <2> DEFINE g == [t \in SUBSET (1..k) |->
                     IF k \in t THEN F[<<h[t \ {k}], s[k]>>] ELSE h[t]]
  <2>2. ASSUME NEW t \in SUBSET (1..k), k \notin t PROVE t \in SUBSET (1..(k - 1))
    BY <2>2
  <2>3. ASSUME NEW t \in SUBSET (1..k) PROVE t \ {k} \in SUBSET (1..(k - 1))
    BY <2>2
  <2>4. ASSUME NEW t \in SUBSET (1..k) PROVE g[t] \in E
    <3>1. CASE k \in t
      <4>1. h[t \ {k}] \in E /\ s[k] \in C  BY <1>1, <2>1, <2>3
      <4> QED  BY <3>1, <4>1
    <3>2. CASE k \notin t  BY <2>1, <2>2, <3>2
    <3> QED  BY <3>1, <3>2
  <2>5. ASSUME NEW t \in SUBSET (1..k), t # {}
        PROVE  g[t] = F[<<g[t \ {Max(t)}], s[Max(t)]>>]
    <3>1. CASE k \in t
      <4>1. Max(t) = k  BY <2>0, <3>1, MaxOf
      <4>2. k \notin t \ {k} /\ t \ {k} \in SUBSET (1..k)  OBVIOUS
      <4>3. g[t \ {k}] = h[t \ {k}]  BY <4>2
      <4> QED  BY <3>1, <4>1, <4>3
    <3>2. CASE k \notin t
      <4>1. t \in SUBSET (1..(k - 1)) /\ t \ {Max(t)} \in SUBSET (1..k) /\ k \notin t \ {Max(t)}
        BY <2>2, <3>2
      <4>2. h[t] = F[<<h[t \ {Max(t)}], s[Max(t)]>>]  BY <2>1, <2>5, <4>1
      <4>3. g[t] = h[t] /\ g[t \ {Max(t)}] = h[t \ {Max(t)}]  BY <3>2, <4>1
      <4> QED  BY <4>2, <4>3
    <3> QED  BY <3>1, <3>2
  <2>6. g[{}] = base
    <3>1. {} \in SUBSET (1..(k - 1)) /\ k \notin {}  OBVIOUS
    <3>2. h[{}] = base  BY <2>1, <3>1
    <3> QED  BY <3>1, <3>2
  <2>7. g \in [SUBSET (1..k) -> E]  BY <2>4
  <2> HIDE DEF g
  <2>8. Steps(g, SUBSET (1..k))  BY <2>5, <2>6, <2>7
  <2> HIDE DEF Steps
  <2> QED  BY <2>7, <2>8
<1> HIDE DEF T
<1>4. \A k \in 0..n : k \in T  BY <1>1, <1>2, <1>3, CountUp
<1>5. n \in 0..n  BY <1>1
<1>6. PICK g : Good(n, g)  BY <1>4, <1>5 DEF T
<1>7. ASSUME NEW t \in SUBSET (1..n), t # {}
      PROVE  g[t \ {Max(t)}] \in E /\ s[Max(t)] \in C
  <2>1. Max(t) \in 1..n  BY <1>1, <1>7, MaxIn
  <2>2. \A x : t \ {x} \in SUBSET (1..n)  OBVIOUS
  <2>3. \A u \in SUBSET (1..n) : g[u] \in E  BY <1>6
  <2> QED  BY <1>1, <2>1, <2>2, <2>3
<1> QED  BY <1>6, <1>7 DEF FoldSteps

\* What holds at the start of a fold and is handed on by each step holds at its end.
LEMMA FoldChain ==
    ASSUME NEW n \in Nat, NEW g, NEW J, g[1..0] \in J[0],
           \A k \in 1..n : g[1..(k - 1)] \in J[k - 1] => g[1..k] \in J[k]
    PROVE  g[1..n] \in J[n]
<1> DEFINE T == {k \in 0..n : g[1..k] \in J[k]}
<1>1. 0 \in T  OBVIOUS
<1>2. \A k \in 1..n : k - 1 \in T => k \in T  OBVIOUS
<1> HIDE DEF T
<1>3. \A k \in 0..n : k \in T  BY <1>1, <1>2, CountUp
<1>4. n \in 0..n  OBVIOUS
<1> QED  BY <1>3, <1>4 DEF T

\* What a sequence contains after an element is added.
LEMMA AppendRange ==
    ASSUME NEW S, NEW s \in Seq(S), NEW e \in S
    PROVE  Append(s, e) \in Seq(S) /\ Range(Append(s, e)) = Range(s) \cup {e}
<1> DEFINE u == Append(s, e)
<1>1. PICK n \in Nat : n = Len(s)  OBVIOUS
<1>2. /\ u \in Seq(S) /\ DOMAIN s = 1..n /\ DOMAIN u = 1..(n + 1)
      /\ u[n + 1] = e /\ \A i \in 1..n : u[i] = s[i]
  BY <1>1
<1> HIDE DEF u
<1>3. ASSUME NEW i \in 1..(n + 1) PROVE u[i] \in Range(s) \cup {e}
  <2>1. CASE i \in 1..n  BY <1>2, <2>1 DEF Range
  <2>2. CASE i = n + 1  BY <1>2, <2>2
  <2> QED  BY <2>1, <2>2
<1>4. ASSUME NEW i \in 1..n PROVE s[i] \in Range(u)
  <2>1. i \in 1..(n + 1)  OBVIOUS
  <2> QED  BY <1>2, <2>1 DEF Range
<1>5. e \in Range(u)
  <2>1. n + 1 \in 1..(n + 1)  OBVIOUS
  <2> QED  BY <1>2, <2>1 DEF Range
<1> QED  BY <1>2, <1>3, <1>4, <1>5 DEF Range, u

\* What it contains after one of its places is taken out.
LEMMA RemoveAtRange ==
    ASSUME NEW S, NEW s \in Seq(S), NEW i \in DOMAIN s
    PROVE  /\ RemoveAt(s, i) \in Seq(S)
           /\ Range(RemoveAt(s, i)) \subseteq Range(s)
           /\ Range(s) \ {s[i]} \subseteq Range(RemoveAt(s, i))
<1> DEFINE u == RemoveAt(s, i)
<1>1. PICK n \in Nat : n = Len(s)  OBVIOUS
<1>2. DOMAIN s = 1..n /\ i \in 1..n  BY <1>1
<1>3. /\ u \in Seq(S) /\ Len(u) = n - 1
      /\ \A j \in 1..Len(u) : u[j] = IF j < i THEN s[j] ELSE s[j + 1]
  BY <1>1, <1>2, RemoveAtEntries
<1> HIDE DEF u
<1>4. DOMAIN u = 1..(n - 1) /\ \A j \in 1..(n - 1) : u[j] = IF j < i THEN s[j] ELSE s[j + 1]
  BY <1>3
<1>5. ASSUME NEW j \in 1..(n - 1) PROVE u[j] \in Range(s)
  <2>1. j \in 1..n /\ j + 1 \in 1..n  OBVIOUS
  <2> QED  BY <1>2, <1>4, <2>1 DEF Range
<1>6. ASSUME NEW j \in 1..n, j # i PROVE s[j] \in Range(u)
  <2>1. CASE j < i
    <3>1. j \in 1..(n - 1) /\ u[j] = s[j]  BY <1>2, <1>4, <2>1
    <3> QED  BY <1>4, <3>1 DEF Range
  <2>2. CASE ~(j < i)
    <3>1. j - 1 \in 1..(n - 1) /\ ~(j - 1 < i) /\ (j - 1) + 1 = j  BY <1>2, <1>6, <2>2
    <3>2. u[j - 1] = s[j]  BY <1>4, <3>1
    <3> QED  BY <1>4, <3>1, <3>2 DEF Range
  <2> QED  BY <2>1, <2>2
<1>7. Range(u) \subseteq Range(s)  BY <1>4, <1>5 DEF Range
<1>8. Range(s) \ {s[i]} \subseteq Range(u)  BY <1>2, <1>6 DEF Range
<1> QED  BY <1>3, <1>7, <1>8 DEF u

\* What it contains after the first of some elements is taken out.
LEMMA RemoveFirstRange ==
    ASSUME NEW S, NEW s \in Seq(S), NEW e
    PROVE  /\ RemoveFirst(s, e) \in Seq(S)
           /\ Range(RemoveFirst(s, e)) \subseteq Range(s)
           /\ Range(s) \ {e} \subseteq Range(RemoveFirst(s, e))
<1>1. CASE ~Contains(s, e)
  <2>1. RemoveFirst(s, e) = s  BY <1>1 DEF RemoveFirst, Contains
  <2> QED  BY <2>1
<1>2. CASE Contains(s, e)
  <2> DEFINE i == SelectInSeq(s, LAMBDA v : v = e)
  <2>3. i \in 1..Len(s) /\ s[i] = e  BY <1>2, FirstPlace
  <2>4. DOMAIN s = 1..Len(s)  OBVIOUS
  <2>1. i \in DOMAIN s /\ s[i] = e  BY <2>3, <2>4
  <2>2. RemoveFirst(s, e) = RemoveAt(s, i)  BY <1>2 DEF RemoveFirst, Contains
  <2> HIDE DEF i
  <2> QED  BY <2>1, <2>2, RemoveAtRange
<1> QED  BY <1>1, <1>2

--------------------------------------------------------------------------------
(***************************************************************************)
(* The states of the Reactors page, whatever the user does.                *)
(***************************************************************************)
Places == Workspaces \cup {NoWorkspace}

\* A connection as the engine answers with it.
Connection == [id : Nat, from : Reactors, to : Reactors]

\* A list of inputs or outputs has the connections into or out of its Reactor.
ListsOK(e) ==
    \A r \in Reactors :
        /\ \A c \in Range(e.inputs[r]) : c.to = r
        /\ \A c \in Range(e.outputs[r]) : c.from = r

Editors ==
    {e \in [boxes : Seq(Workspaces), shown : Places \cup {NewTab}, box : Places,
            surface : BOOLEAN, registered : SUBSET Reactors,
            workspace : [Reactors -> Places], members : [Workspaces -> Seq(Reactors)],
            inputs : [Reactors -> Seq(Connection)], outputs : [Reactors -> Seq(Connection)],
            lines : SUBSET (Places \X Connection), thrown : BOOLEAN] : ListsOK(e)}

\* Nothing is changed but what is drawn and what is selected.
SameRecords(e, f) ==
    /\ f.boxes = e.boxes /\ f.registered = e.registered /\ f.workspace = e.workspace
    /\ f.members = e.members /\ f.inputs = e.inputs /\ f.outputs = e.outputs

\* An exception, or its end, changes nothing else.
LEMMA ThrownState ==
    ASSUME NEW e \in Editors, NEW thrown \in BOOLEAN
    PROVE  LET f == [e EXCEPT !.thrown = thrown]
           IN  f \in Editors /\ SameRecords(e, f) /\ f.lines = e.lines
               /\ f.shown = e.shown /\ f.box = e.box /\ f.thrown = thrown
BY DEF Editors, SameRecords, ListsOK

\* Nor does the surface change anything else, whether it is there or not.
LEMMA SurfaceState ==
    ASSUME NEW e \in Editors, NEW surface \in BOOLEAN
    PROVE  LET f == [e EXCEPT !.surface = surface]
           IN  f \in Editors /\ SameRecords(e, f) /\ f.lines = e.lines
               /\ f.shown = e.shown /\ f.box = e.box /\ f.thrown = e.thrown
               /\ f.surface = surface
BY DEF Editors, SameRecords, ListsOK

\* Selecting a tab leaves all records alone, even if it is selected (Selected).
LEMMA SelectedState ==
    ASSUME NEW e \in Editors, NEW tab \in Places \cup {NewTab}
    PROVE  LET f == Selected(e, tab)
           IN  f \in Editors /\ SameRecords(e, f) /\ f.lines = e.lines
<1> DEFINE f == Selected(e, tab)
<1>1. CASE tab = NewTab
  <2>1. f = [e EXCEPT !.shown = tab]  BY <1>1 DEF Selected
  <2> QED  BY <2>1 DEF Editors, SameRecords, ListsOK
<1>2. CASE tab # NewTab
  <2> DEFINE x == ~Contains(e.boxes, tab)
  <2>1. f = [e EXCEPT !.shown = tab, !.box = tab, !.surface = TRUE, !.thrown = x]
    BY <1>2 DEF Selected
  <2>2. x \in BOOLEAN  OBVIOUS
  <2> HIDE DEF x
  <2>3. tab \in Places  BY <1>2
  <2> QED  BY <2>1, <2>2, <2>3 DEF Editors, SameRecords, ListsOK
<1> QED  BY <1>1, <1>2

\* So it does when nothing is published if it is the selected one (SelectTab).
LEMMA TabState ==
    ASSUME NEW e \in Editors, NEW tab \in Places \cup {NewTab}
    PROVE  LET f == SelectTab(e, tab)
           IN  f \in Editors /\ SameRecords(e, f) /\ f.lines = e.lines
<1>1. CASE e.thrown \/ e.shown = tab  BY <1>1 DEF SelectTab, SameRecords
<1>2. CASE ~(e.thrown \/ e.shown = tab)  BY <1>2, SelectedState DEF SelectTab
<1> QED  BY <1>1, <1>2

\* And when the page is loaded (ShowWorkspace).
LEMMA ShownState ==
    ASSUME NEW e \in Editors, NEW tab \in Places
    PROVE  LET f == ShowWorkspace(e, tab)
           IN  f \in Editors /\ SameRecords(e, f) /\ f.lines = e.lines
<1> DEFINE d == [e EXCEPT !.surface = TRUE]
<1>1. d \in Editors /\ SameRecords(e, d) /\ d.lines = e.lines  BY SurfaceState
<1>2. ShowWorkspace(e, tab) = SelectTab(d, tab)  BY DEF ShowWorkspace
<1> HIDE DEF d
<1>3. LET f == SelectTab(d, tab)
      IN  f \in Editors /\ SameRecords(d, f) /\ f.lines = d.lines
  BY <1>1, TabState
<1> QED  BY <1>1, <1>2, <1>3 DEF SameRecords

\* So does drawing a line or removing it (DrawLine and RemoveLine).
LEMMA LineState ==
    ASSUME NEW e \in Editors, NEW c \in Connection
    PROVE  /\ \A w \in Places : DrawLine(e, w, c) \in Editors /\ SameRecords(e, DrawLine(e, w, c))
           /\ RemoveLine(e, c) \in Editors /\ SameRecords(e, RemoveLine(e, c))
<1>1. ASSUME NEW l \in SUBSET (Places \X Connection)
      PROVE  [e EXCEPT !.lines = l] \in Editors /\ SameRecords(e, [e EXCEPT !.lines = l])
  BY DEF Editors, SameRecords, ListsOK
<1>2. e.lines \in SUBSET (Places \X Connection)  BY DEF Editors
<1>3. ASSUME NEW w \in Places
      PROVE  DrawLine(e, w, c) \in Editors /\ SameRecords(e, DrawLine(e, w, c))
  <2>1. e.lines \cup {<<w, c>>} \in SUBSET (Places \X Connection)  BY <1>2
  <2> QED  BY <1>1, <2>1 DEF DrawLine, SameRecords
<1>4. RemoveLine(e, c) \in Editors /\ SameRecords(e, RemoveLine(e, c))
  <2>1. e.lines \ {<<e.box, c>>} \in SUBSET (Places \X Connection)  BY <1>2
  <2> QED  BY <1>1, <2>1, ThrownState DEF RemoveLine, SameRecords, Throw
<1> QED  BY <1>3, <1>4

\* And so does erasing a connection in the workspaces in which it is drawn (Erase).
LEMMA EraseState ==
    ASSUME NEW e \in Editors, NEW c \in Connection
    PROVE  Erase(e, c) \in Editors /\ SameRecords(e, Erase(e, c))
<1>1. ASSUME NEW x \in Editors, NEW w \in Places
      PROVE  DestroyProxy(x, w, c) \in Editors /\ SameRecords(x, DestroyProxy(x, w, c))
  <2> DEFINE a == SelectTab(x, w)
             b == RemoveLine(a, c)
             d == SelectTab(b, x.box)
  <2>1. x.box \in Places /\ x.box \in Places \cup {NewTab} /\ w \in Places \cup {NewTab}
    BY DEF Editors
  <2>2. a \in Editors /\ SameRecords(x, a)  BY <2>1, TabState
  <2> HIDE DEF a
  <2>3. b \in Editors /\ SameRecords(a, b)  BY <2>2, LineState
  <2> HIDE DEF b
  <2>4. d \in Editors /\ SameRecords(b, d)  BY <2>1, <2>3, TabState
  <2> HIDE DEF d
  <2>5. SameRecords(x, d)  BY <2>2, <2>3, <2>4 DEF SameRecords
  <2>6. DestroyProxy(x, w, c) = IF <<w, c>> \notin x.lines THEN Throw(x) ELSE d
    BY DEF DestroyProxy, a, b, d
  <2> QED  BY <2>4, <2>5, <2>6, ThrownState DEF Throw
<1>2. e.workspace[c.from] \in Places /\ e.workspace[c.to] \in Places
  BY DEF Editors, Connection
<1> DEFINE a == DestroyProxy(e, e.workspace[c.from], c)
           b == DestroyProxy(a, e.workspace[c.to], c)
<1>3. a \in Editors /\ SameRecords(e, a)  BY <1>1, <1>2
<1> HIDE DEF a
<1>4. b \in Editors /\ SameRecords(a, b)  BY <1>1, <1>2, <1>3
<1> HIDE DEF b
<1>5. SameRecords(e, b)  BY <1>3, <1>4 DEF SameRecords
<1>6. RemoveLine(e, c) \in Editors /\ SameRecords(e, RemoveLine(e, c))  BY LineState
<1>7. Erase(e, c) = IF e.thrown THEN e
                    ELSE IF CrossWorkspace(e, c) THEN IF a.thrown THEN a ELSE b
                    ELSE RemoveLine(e, c)
  BY DEF Erase, a, b
<1>8. SameRecords(e, e)  BY DEF SameRecords
<1> QED  BY <1>3, <1>4, <1>5, <1>6, <1>7, <1>8

\* What a page may lose: Reactors of R, and of its lists of outputs connections of C.
Shrunk(e, f, R, C) ==
    /\ f \in Editors
    /\ e.registered \ f.registered \subseteq R
    /\ \A w \in Workspaces : Range(f.members[w]) \subseteq Range(e.members[w])
    /\ Listed(e.outputs) \ Listed(f.outputs) \subseteq C

\* A page whose records are the same has lost nothing.
LEMMA SameShrunk ==
    ASSUME NEW e \in Editors, NEW f \in Editors, SameRecords(e, f), NEW R, NEW C
    PROVE  Shrunk(e, f, R, C)
BY DEF SameRecords, Shrunk

\* What two operations take off the page, when each takes only from R and C.
LEMMA ShrunkTwice ==
    ASSUME NEW e, NEW f, NEW g, NEW R, NEW C, Shrunk(e, f, R, C), Shrunk(f, g, R, C)
    PROVE  Shrunk(e, g, R, C)
<1>1. e.registered \ g.registered \subseteq R  BY DEF Shrunk
<1>2. Listed(e.outputs) \ Listed(g.outputs) \subseteq C  BY DEF Shrunk
<1>3. \A w \in Workspaces : Range(g.members[w]) \subseteq Range(e.members[w])  BY DEF Shrunk
<1> QED  BY <1>1, <1>2, <1>3 DEF Shrunk

\* One list of outputs or of inputs is replaced.
LEMMA ListReplaced ==
    ASSUME NEW e \in Editors, NEW r \in Reactors, NEW l \in Seq(Connection)
    PROVE  /\ (\A c \in Range(l) : c.from = r) =>
                LET f == [e EXCEPT !.outputs[r] = l]
                IN  f \in Editors /\ f.outputs = [e.outputs EXCEPT ![r] = l]
                    /\ f.registered = e.registered /\ f.members = e.members
                    /\ f.workspace = e.workspace
           /\ (\A c \in Range(l) : c.to = r) =>
                LET f == [e EXCEPT !.inputs[r] = l]
                IN  f \in Editors /\ f.outputs = e.outputs
                    /\ f.registered = e.registered /\ f.members = e.members
                    /\ f.workspace = e.workspace
<1>1. ASSUME \A c \in Range(l) : c.from = r
      PROVE  LET f == [e EXCEPT !.outputs[r] = l]
             IN  f \in Editors /\ f.outputs = [e.outputs EXCEPT ![r] = l]
                 /\ f.registered = e.registered /\ f.members = e.members
                 /\ f.workspace = e.workspace
  <2> DEFINE o == [e.outputs EXCEPT ![r] = l]
  <2>1. o \in [Reactors -> Seq(Connection)]  BY DEF Editors
  <2>2. \A q \in Reactors : \A c \in Range(o[q]) : c.from = q
    BY <1>1 DEF Editors, ListsOK
  <2>3. [e EXCEPT !.outputs[r] = l] = [e EXCEPT !.outputs = o]  BY DEF Editors
  <2> HIDE DEF o
  <2>4. LET f == [e EXCEPT !.outputs = o]
        IN  f \in Editors /\ f.outputs = o /\ f.registered = e.registered
            /\ f.members = e.members /\ f.workspace = e.workspace
    BY <2>1, <2>2 DEF Editors, ListsOK
  <2> QED  BY <2>3, <2>4 DEF o
<1>2. ASSUME \A c \in Range(l) : c.to = r
      PROVE  LET f == [e EXCEPT !.inputs[r] = l]
             IN  f \in Editors /\ f.outputs = e.outputs
                 /\ f.registered = e.registered /\ f.members = e.members
                 /\ f.workspace = e.workspace
  <2> DEFINE o == [e.inputs EXCEPT ![r] = l]
  <2>1. o \in [Reactors -> Seq(Connection)]  BY DEF Editors
  <2>2. \A q \in Reactors : \A c \in Range(o[q]) : c.to = q
    BY <1>2 DEF Editors, ListsOK
  <2>3. [e EXCEPT !.inputs[r] = l] = [e EXCEPT !.inputs = o]  BY DEF Editors
  <2> HIDE DEF o
  <2>4. LET f == [e EXCEPT !.inputs = o]
        IN  f \in Editors /\ f.outputs = e.outputs /\ f.registered = e.registered
            /\ f.members = e.members /\ f.workspace = e.workspace
    BY <2>1, <2>2 DEF Editors, ListsOK
  <2> QED  BY <2>3, <2>4 DEF o
<1> QED  BY <1>1, <1>2

\* An entry is taken out of a list: of the outputs, that one only is lost.
LEMMA ListShrinks ==
    ASSUME NEW e \in Editors, NEW r \in Reactors, NEW c \in Connection, NEW l \in Seq(Connection)
    PROVE  /\ Range(l) \subseteq Range(e.outputs[r]) /\ Range(e.outputs[r]) \ {c} \subseteq Range(l)
                => Shrunk(e, [e EXCEPT !.outputs[r] = l], {}, {c})
           /\ Range(l) \subseteq Range(e.inputs[r])
                => Shrunk(e, [e EXCEPT !.inputs[r] = l], {}, {})
<1>1. ASSUME Range(l) \subseteq Range(e.outputs[r]), Range(e.outputs[r]) \ {c} \subseteq Range(l)
      PROVE  Shrunk(e, [e EXCEPT !.outputs[r] = l], {}, {c})
  <2>1. \A d \in Range(l) : d.from = r  BY <1>1 DEF Editors, ListsOK
  <2> DEFINE f == [e EXCEPT !.outputs[r] = l]
  <2>2. /\ f \in Editors /\ f.outputs = [e.outputs EXCEPT ![r] = l]
        /\ f.registered = e.registered /\ f.members = e.members
    BY <2>1, ListReplaced
  <2> HIDE DEF f
  <2>3. DOMAIN e.outputs = Reactors  BY DEF Editors
  <2>4. \A q \in Reactors : Range(e.outputs[q]) \ {c} \subseteq Range(f.outputs[q])
    BY <1>1, <2>2, <2>3
  <2>5. Listed(e.outputs) \ Listed(f.outputs) \subseteq {c}  BY <2>4 DEF Listed
  <2> QED  BY <2>2, <2>5 DEF Shrunk, f
<1>2. ASSUME Range(l) \subseteq Range(e.inputs[r])
      PROVE  Shrunk(e, [e EXCEPT !.inputs[r] = l], {}, {})
  <2>1. \A d \in Range(l) : d.to = r  BY <1>2 DEF Editors, ListsOK
  <2> DEFINE f == [e EXCEPT !.inputs[r] = l]
  <2>2. /\ f \in Editors /\ f.outputs = e.outputs
        /\ f.registered = e.registered /\ f.members = e.members
    BY <2>1, ListReplaced
  <2> HIDE DEF f
  <2> QED  BY <2>2 DEF Shrunk, f
<1> QED  BY <1>1, <1>2

\* A connection is taken out of the list of its source, or of its sink (ForgetOutput
\* and ForgetInput).
LEMMA ForgetState ==
    ASSUME NEW e \in Editors, NEW c \in Connection
    PROVE  /\ Shrunk(e, ForgetOutput(e, c), {}, {c})
           /\ Shrunk(e, ForgetInput(e, c), {}, {})
<1>1. /\ e.outputs[c.from] \in Seq(Connection) /\ e.inputs[c.to] \in Seq(Connection)
      /\ c.from \in Reactors /\ c.to \in Reactors
      /\ DOMAIN e.outputs = Reactors /\ DOMAIN e.inputs = Reactors
  BY DEF Editors, Connection
<1> DEFINE o == RemoveFirst(e.outputs[c.from], c)
           i == RemoveFirst(e.inputs[c.to], c)
<1>2. o \in Seq(Connection) /\ Range(o) \subseteq Range(e.outputs[c.from])
      /\ Range(e.outputs[c.from]) \ {c} \subseteq Range(o)
  BY <1>1, RemoveFirstRange
<1>3. i \in Seq(Connection) /\ Range(i) \subseteq Range(e.inputs[c.to])
  BY <1>1, RemoveFirstRange
<1>4. /\ [e EXCEPT !.outputs[c.from] = RemoveFirst(@, c)] = [e EXCEPT !.outputs[c.from] = o]
      /\ [e EXCEPT !.inputs[c.to] = RemoveFirst(@, c)] = [e EXCEPT !.inputs[c.to] = i]
  BY <1>1 DEF Editors
<1> HIDE DEF o, i
<1>5. /\ Shrunk(e, [e EXCEPT !.outputs[c.from] = o], {}, {c})
      /\ Shrunk(e, [e EXCEPT !.inputs[c.to] = i], {}, {})
  BY <1>1, <1>2, <1>3, ListShrinks
<1>6. Shrunk(e, e, {}, {}) /\ Shrunk(e, e, {}, {c})  BY SameShrunk DEF SameRecords
<1> QED  BY <1>4, <1>5, <1>6 DEF ForgetOutput, ForgetInput

\* What has lost no more than R and C has lost no more than larger sets.
LEMMA ShrunkMore ==
    ASSUME NEW e, NEW f, NEW R, NEW C, NEW Q, NEW D, Shrunk(e, f, R, C),
           R \subseteq Q, C \subseteq D
    PROVE  Shrunk(e, f, Q, D)
BY DEF Shrunk

\* A Reactor is put into a workspace (CreateReactor).
LEMMA ReactorState ==
    ASSUME NEW e \in Editors, NEW r \in Reactors, NEW w \in Places
    PROVE  LET f == CreateReactor(e, r, w)
           IN  /\ f \in Editors
               /\ e.registered \subseteq f.registered
               /\ f.inputs = e.inputs /\ f.outputs = e.outputs
               /\ \A v \in Workspaces : Range(f.members[v]) \subseteq
                    Range(e.members[v]) \cup {q \in {r} : v = w}
<1> DEFINE m == [e.members EXCEPT ![w] = Append(@, r)]
           f == [e EXCEPT !.registered = @ \cup {r}, !.workspace[r] = w,
                          !.members[w] = Append(@, r)]
           g == [e EXCEPT !.registered = e.registered \cup {r},
                          !.workspace = [e.workspace EXCEPT ![r] = w], !.members = m]
<1>1. e.members \in [Workspaces -> Seq(Reactors)]  BY DEF Editors
<1>2. ASSUME NEW v \in Workspaces
      PROVE  m[v] \in Seq(Reactors) /\ Range(m[v]) \subseteq Range(e.members[v]) \cup {q \in {r} : v = w}
  <2>1. CASE v = w
    <3>1. e.members[v] \in Seq(Reactors)  BY <1>1
    <3>2. m[v] = Append(e.members[v], r)  BY <1>1, <2>1
    <3> QED  BY <2>1, <3>1, <3>2, AppendRange
  <2>2. CASE v # w  BY <1>1, <2>2
  <2> QED  BY <2>1, <2>2
<1>3. m \in [Workspaces -> Seq(Reactors)]  BY <1>1, <1>2
<1>4. f = g  BY DEF Editors
<1> HIDE DEF m
<1>5. /\ g \in Editors /\ g.registered = e.registered \cup {r}
      /\ g.inputs = e.inputs /\ g.outputs = e.outputs /\ g.members = m
  <2>1. e.registered \cup {r} \in SUBSET Reactors
        /\ [e.workspace EXCEPT ![r] = w] \in [Reactors -> Places]
    BY DEF Editors
  <2> QED  BY <1>3, <2>1 DEF Editors, ListsOK
<1>6. CreateReactor(e, r, w) = IF e.thrown THEN e ELSE g  BY <1>4 DEF CreateReactor
<1> QED  BY <1>2, <1>5, <1>6

\* A tab is added and selected (AddWorkspace).
LEMMA WorkspaceState ==
    ASSUME NEW e \in Editors, NEW w \in Workspaces
    PROVE  LET f == AddWorkspace(e, w)
           IN  /\ f \in Editors /\ f.registered = e.registered /\ f.members = e.members
               /\ f.inputs = e.inputs /\ f.outputs = e.outputs
<1> DEFINE b == Append(e.boxes, w)
           g == [e EXCEPT !.boxes = b]
<1>1. e.boxes \in Seq(Workspaces)  BY DEF Editors
<1>2. b \in Seq(Workspaces)  BY <1>1
<1> HIDE DEF b
<1>3. g \in Editors /\ g.registered = e.registered /\ g.members = e.members
      /\ g.inputs = e.inputs /\ g.outputs = e.outputs
  BY <1>2 DEF Editors, ListsOK
<1> DEFINE f == SelectTab(g, w)
<1>4. AddWorkspace(e, w) = [f EXCEPT !.surface = FALSE]  BY DEF AddWorkspace, b, Editors
<1> HIDE DEF g
<1>5. w \in Places \cup {NewTab}  BY DEF Places
<1>6. f \in Editors /\ SameRecords(g, f)  BY <1>3, <1>5, TabState
<1> HIDE DEF f
<1>7. LET h == [f EXCEPT !.surface = FALSE] IN h \in Editors /\ SameRecords(f, h)
  BY <1>6, SurfaceState
<1> QED  BY <1>3, <1>4, <1>6, <1>7 DEF SameRecords

\* What holds along the loop that erases the connections into a Reactor: J[k] holds
\* after the k-th of them (so in the five lemmas that follow).
LEMMA FoldOutputs ==
    ASSUME NEW base \in Editors, NEW s \in Seq(Connection),
           \A e \in Editors, c \in Connection : Erase(ForgetOutput(e, c), c) \in Editors,
           NEW J, base \in J[0],
           \A k \in 1..Len(s) : \A e \in J[k - 1] : Erase(ForgetOutput(e, s[k]), s[k]) \in J[k]
    PROVE  FoldLeft(LAMBDA x, c : Erase(ForgetOutput(x, c), c), base, s) \in J[Len(s)]
<1> DEFINE Op(e, c) == Erase(ForgetOutput(e, c), c)
           D == SUBSET (1..Len(s))
           Is(g) == g = [t \in D |-> IF t = {} THEN base ELSE Op(g[t \ {Max(t)}], s[Max(t)])]
           g0 == CHOOSE g : Is(g)
<1>1. FoldLeft(LAMBDA x, c : Erase(ForgetOutput(x, c), c), base, s) = g0[1..Len(s)]
  <2>1. DOMAIN s = 1..Len(s)  OBVIOUS
  <2> QED  BY <2>1 DEF FoldLeft, MapThenFoldSet
<1>2. Is(g0)
  <2> DEFINE F == [x \in Editors \X Connection |-> Op(x[1], x[2])]
  <2>1. F \in [Editors \X Connection -> Editors]  OBVIOUS
  <2>2. PICK g : FoldSteps(Editors, Connection, F, base, s, g)  BY <2>1, FoldExists
  <2>3. \A e \in Editors, c \in Connection : F[<<e, c>>] = Op(e, c)  OBVIOUS
  <2> HIDE DEF F, Op
  <2>4. ASSUME NEW t \in D, t # {}
        PROVE  F[<<g[t \ {Max(t)}], s[Max(t)]>>] = Op(g[t \ {Max(t)}], s[Max(t)])
    BY <2>2, <2>3, <2>4 DEF FoldSteps
  <2>5. Is(g)  BY <2>2, <2>4 DEF FoldSteps
  <2> QED  BY <2>5
<1> HIDE DEF g0
<1>5. Len(s) \in Nat  OBVIOUS
<1>3. \A k \in 1..Len(s) : g0[1..(k - 1)] \in J[k - 1] => g0[1..k] \in J[k]
  <2> HIDE DEF Op
  <2>1. /\ g0[{}] = base
        /\ \A t \in D : t # {} => g0[t] = Op(g0[t \ {Max(t)}], s[Max(t)])
    BY <1>2
  <2>2. \A k \in 1..Len(s) : g0[1..k] = Op(g0[1..(k - 1)], s[k])  BY <1>5, <2>1, UpTo
  <2> QED  BY <2>2 DEF Op
<1>4. g0[1..0] \in J[0]
  <2>1. 1..0 = {} /\ {} \in D  OBVIOUS
  <2> QED  BY <1>2, <2>1
<1> QED  BY <1>1, <1>3, <1>4, <1>5, FoldChain

\* Along the loop that erases the connections out of a Reactor.
LEMMA FoldInputs ==
    ASSUME NEW base \in Editors, NEW s \in Seq(Connection),
           \A e \in Editors, c \in Connection : Erase(ForgetInput(e, c), c) \in Editors,
           NEW J, base \in J[0],
           \A k \in 1..Len(s) : \A e \in J[k - 1] : Erase(ForgetInput(e, s[k]), s[k]) \in J[k]
    PROVE  FoldLeft(LAMBDA x, c : Erase(ForgetInput(x, c), c), base, s) \in J[Len(s)]
<1> DEFINE Op(e, c) == Erase(ForgetInput(e, c), c)
           D == SUBSET (1..Len(s))
           Is(g) == g = [t \in D |-> IF t = {} THEN base ELSE Op(g[t \ {Max(t)}], s[Max(t)])]
           g0 == CHOOSE g : Is(g)
<1>1. FoldLeft(LAMBDA x, c : Erase(ForgetInput(x, c), c), base, s) = g0[1..Len(s)]
  <2>1. DOMAIN s = 1..Len(s)  OBVIOUS
  <2> QED  BY <2>1 DEF FoldLeft, MapThenFoldSet
<1>2. Is(g0)
  <2> DEFINE F == [x \in Editors \X Connection |-> Op(x[1], x[2])]
  <2>1. F \in [Editors \X Connection -> Editors]  OBVIOUS
  <2>2. PICK g : FoldSteps(Editors, Connection, F, base, s, g)  BY <2>1, FoldExists
  <2>3. \A e \in Editors, c \in Connection : F[<<e, c>>] = Op(e, c)  OBVIOUS
  <2> HIDE DEF F, Op
  <2>4. ASSUME NEW t \in D, t # {}
        PROVE  F[<<g[t \ {Max(t)}], s[Max(t)]>>] = Op(g[t \ {Max(t)}], s[Max(t)])
    BY <2>2, <2>3, <2>4 DEF FoldSteps
  <2>5. Is(g)  BY <2>2, <2>4 DEF FoldSteps
  <2> QED  BY <2>5
<1> HIDE DEF g0
<1>5. Len(s) \in Nat  OBVIOUS
<1>3. \A k \in 1..Len(s) : g0[1..(k - 1)] \in J[k - 1] => g0[1..k] \in J[k]
  <2> HIDE DEF Op
  <2>1. /\ g0[{}] = base
        /\ \A t \in D : t # {} => g0[t] = Op(g0[t \ {Max(t)}], s[Max(t)])
    BY <1>2
  <2>2. \A k \in 1..Len(s) : g0[1..k] = Op(g0[1..(k - 1)], s[k])  BY <1>5, <2>1, UpTo
  <2> QED  BY <2>2 DEF Op
<1>4. g0[1..0] \in J[0]
  <2>1. 1..0 = {} /\ {} \in D  OBVIOUS
  <2> QED  BY <1>2, <2>1
<1> QED  BY <1>1, <1>3, <1>4, <1>5, FoldChain

\* Along the loop that deletes the Reactors of a workspace.
LEMMA FoldReactors ==
    ASSUME NEW base \in Editors, NEW s \in Seq(Reactors),
           \A e \in Editors, c \in Reactors : DeleteReactorFromUI(e, c) \in Editors,
           NEW J, base \in J[0],
           \A k \in 1..Len(s) : \A e \in J[k - 1] : DeleteReactorFromUI(e, s[k]) \in J[k]
    PROVE  FoldLeft(DeleteReactorFromUI, base, s) \in J[Len(s)]
<1> DEFINE Op(e, c) == DeleteReactorFromUI(e, c)
           D == SUBSET (1..Len(s))
           Is(g) == g = [t \in D |-> IF t = {} THEN base ELSE Op(g[t \ {Max(t)}], s[Max(t)])]
           g0 == CHOOSE g : Is(g)
<1>1. FoldLeft(DeleteReactorFromUI, base, s) = g0[1..Len(s)]
  <2>1. DOMAIN s = 1..Len(s)  OBVIOUS
  <2> QED  BY <2>1 DEF FoldLeft, MapThenFoldSet
<1>2. Is(g0)
  <2> DEFINE F == [x \in Editors \X Reactors |-> Op(x[1], x[2])]
  <2>1. F \in [Editors \X Reactors -> Editors]  OBVIOUS
  <2>2. PICK g : FoldSteps(Editors, Reactors, F, base, s, g)  BY <2>1, FoldExists
  <2>3. \A e \in Editors, c \in Reactors : F[<<e, c>>] = Op(e, c)  OBVIOUS
  <2> HIDE DEF F, Op
  <2>4. ASSUME NEW t \in D, t # {}
        PROVE  F[<<g[t \ {Max(t)}], s[Max(t)]>>] = Op(g[t \ {Max(t)}], s[Max(t)])
    BY <2>2, <2>3, <2>4 DEF FoldSteps
  <2>5. Is(g)  BY <2>2, <2>4 DEF FoldSteps
  <2> QED  BY <2>5
<1> HIDE DEF g0
<1>5. Len(s) \in Nat  OBVIOUS
<1>3. \A k \in 1..Len(s) : g0[1..(k - 1)] \in J[k - 1] => g0[1..k] \in J[k]
  <2> HIDE DEF Op
  <2>1. /\ g0[{}] = base
        /\ \A t \in D : t # {} => g0[t] = Op(g0[t \ {Max(t)}], s[Max(t)])
    BY <1>2
  <2>2. \A k \in 1..Len(s) : g0[1..k] = Op(g0[1..(k - 1)], s[k])  BY <1>5, <2>1, UpTo
  <2> QED  BY <2>2 DEF Op
<1>4. g0[1..0] \in J[0]
  <2>1. 1..0 = {} /\ {} \in D  OBVIOUS
  <2> QED  BY <1>2, <2>1
<1> QED  BY <1>1, <1>3, <1>4, <1>5, FoldChain

\* Along the loop that adds the tabs when the page is loaded.
LEMMA FoldWorkspaces ==
    ASSUME NEW base \in Editors, NEW s \in Seq(Workspaces),
           \A e \in Editors, c \in Workspaces : AddWorkspace(e, c) \in Editors,
           NEW J, base \in J[0],
           \A k \in 1..Len(s) : \A e \in J[k - 1] : AddWorkspace(e, s[k]) \in J[k]
    PROVE  FoldLeft(AddWorkspace, base, s) \in J[Len(s)]
<1> DEFINE Op(e, c) == AddWorkspace(e, c)
           D == SUBSET (1..Len(s))
           Is(g) == g = [t \in D |-> IF t = {} THEN base ELSE Op(g[t \ {Max(t)}], s[Max(t)])]
           g0 == CHOOSE g : Is(g)
<1>1. FoldLeft(AddWorkspace, base, s) = g0[1..Len(s)]
  <2>1. DOMAIN s = 1..Len(s)  OBVIOUS
  <2> QED  BY <2>1 DEF FoldLeft, MapThenFoldSet
<1>2. Is(g0)
  <2> DEFINE F == [x \in Editors \X Workspaces |-> Op(x[1], x[2])]
  <2>1. F \in [Editors \X Workspaces -> Editors]  OBVIOUS
  <2>2. PICK g : FoldSteps(Editors, Workspaces, F, base, s, g)  BY <2>1, FoldExists
  <2>3. \A e \in Editors, c \in Workspaces : F[<<e, c>>] = Op(e, c)  OBVIOUS
  <2> HIDE DEF F, Op
  <2>4. ASSUME NEW t \in D, t # {}
        PROVE  F[<<g[t \ {Max(t)}], s[Max(t)]>>] = Op(g[t \ {Max(t)}], s[Max(t)])
    BY <2>2, <2>3, <2>4 DEF FoldSteps
  <2>5. Is(g)  BY <2>2, <2>4 DEF FoldSteps
  <2> QED  BY <2>5
<1> HIDE DEF g0
<1>5. Len(s) \in Nat  OBVIOUS
<1>3. \A k \in 1..Len(s) : g0[1..(k - 1)] \in J[k - 1] => g0[1..k] \in J[k]
  <2> HIDE DEF Op
  <2>1. /\ g0[{}] = base
        /\ \A t \in D : t # {} => g0[t] = Op(g0[t \ {Max(t)}], s[Max(t)])
    BY <1>2
  <2>2. \A k \in 1..Len(s) : g0[1..k] = Op(g0[1..(k - 1)], s[k])  BY <1>5, <2>1, UpTo
  <2> QED  BY <2>2 DEF Op
<1>4. g0[1..0] \in J[0]
  <2>1. 1..0 = {} /\ {} \in D  OBVIOUS
  <2> QED  BY <1>2, <2>1
<1> QED  BY <1>1, <1>3, <1>4, <1>5, FoldChain

\* Along the one that adds the Reactors then.
LEMMA FoldIcons ==
    ASSUME NEW base \in Editors, NEW s \in Seq(Reactors),
           \A e \in Editors, c \in Reactors : CreateReactorInConfiguredWorkspace(e, c, Topology.home[c]) \in Editors,
           NEW J, base \in J[0],
           \A k \in 1..Len(s) : \A e \in J[k - 1] : CreateReactorInConfiguredWorkspace(e, s[k], Topology.home[s[k]]) \in J[k]
    PROVE  FoldLeft(LAMBDA e, r : CreateReactorInConfiguredWorkspace(e, r, Topology.home[r]), base, s) \in J[Len(s)]
<1> DEFINE Op(e, c) == CreateReactorInConfiguredWorkspace(e, c, Topology.home[c])
           D == SUBSET (1..Len(s))
           Is(g) == g = [t \in D |-> IF t = {} THEN base ELSE Op(g[t \ {Max(t)}], s[Max(t)])]
           g0 == CHOOSE g : Is(g)
<1>1. FoldLeft(LAMBDA e, r : CreateReactorInConfiguredWorkspace(e, r, Topology.home[r]), base, s) = g0[1..Len(s)]
  <2>1. DOMAIN s = 1..Len(s)  OBVIOUS
  <2> QED  BY <2>1 DEF FoldLeft, MapThenFoldSet
<1>2. Is(g0)
  <2> DEFINE F == [x \in Editors \X Reactors |-> Op(x[1], x[2])]
  <2>1. F \in [Editors \X Reactors -> Editors]  OBVIOUS
  <2>2. PICK g : FoldSteps(Editors, Reactors, F, base, s, g)  BY <2>1, FoldExists
  <2>3. \A e \in Editors, c \in Reactors : F[<<e, c>>] = Op(e, c)  OBVIOUS
  <2> HIDE DEF F, Op
  <2>4. ASSUME NEW t \in D, t # {}
        PROVE  F[<<g[t \ {Max(t)}], s[Max(t)]>>] = Op(g[t \ {Max(t)}], s[Max(t)])
    BY <2>2, <2>3, <2>4 DEF FoldSteps
  <2>5. Is(g)  BY <2>2, <2>4 DEF FoldSteps
  <2> QED  BY <2>5
<1> HIDE DEF g0
<1>5. Len(s) \in Nat  OBVIOUS
<1>3. \A k \in 1..Len(s) : g0[1..(k - 1)] \in J[k - 1] => g0[1..k] \in J[k]
  <2> HIDE DEF Op
  <2>1. /\ g0[{}] = base
        /\ \A t \in D : t # {} => g0[t] = Op(g0[t \ {Max(t)}], s[Max(t)])
    BY <1>2
  <2>2. \A k \in 1..Len(s) : g0[1..k] = Op(g0[1..(k - 1)], s[k])  BY <1>5, <2>1, UpTo
  <2> QED  BY <2>2 DEF Op
<1>4. g0[1..0] \in J[0]
  <2>1. 1..0 = {} /\ {} \in D  OBVIOUS
  <2> QED  BY <1>2, <2>1
<1> QED  BY <1>1, <1>3, <1>4, <1>5, FoldChain

\* And along the one that adds the connections.
LEMMA FoldLines ==
    ASSUME NEW base \in Editors, NEW s \in Seq(Connection),
           \A e \in Editors, c \in Connection : CreateConnection(ShowWorkspace(e, e.workspace[c.from]), c) \in Editors,
           NEW J, base \in J[0],
           \A k \in 1..Len(s) : \A e \in J[k - 1] : CreateConnection(ShowWorkspace(e, e.workspace[s[k].from]), s[k]) \in J[k]
    PROVE  FoldLeft(LAMBDA e, c : CreateConnection(ShowWorkspace(e, e.workspace[c.from]), c), base, s) \in J[Len(s)]
<1> DEFINE Op(e, c) == CreateConnection(ShowWorkspace(e, e.workspace[c.from]), c)
           D == SUBSET (1..Len(s))
           Is(g) == g = [t \in D |-> IF t = {} THEN base ELSE Op(g[t \ {Max(t)}], s[Max(t)])]
           g0 == CHOOSE g : Is(g)
<1>1. FoldLeft(LAMBDA e, c : CreateConnection(ShowWorkspace(e, e.workspace[c.from]), c), base, s) = g0[1..Len(s)]
  <2>1. DOMAIN s = 1..Len(s)  OBVIOUS
  <2> QED  BY <2>1 DEF FoldLeft, MapThenFoldSet
<1>2. Is(g0)
  <2> DEFINE F == [x \in Editors \X Connection |-> Op(x[1], x[2])]
  <2>1. F \in [Editors \X Connection -> Editors]  OBVIOUS
  <2>2. PICK g : FoldSteps(Editors, Connection, F, base, s, g)  BY <2>1, FoldExists
  <2>3. \A e \in Editors, c \in Connection : F[<<e, c>>] = Op(e, c)  OBVIOUS
  <2> HIDE DEF F, Op
  <2>4. ASSUME NEW t \in D, t # {}
        PROVE  F[<<g[t \ {Max(t)}], s[Max(t)]>>] = Op(g[t \ {Max(t)}], s[Max(t)])
    BY <2>2, <2>3, <2>4 DEF FoldSteps
  <2>5. Is(g)  BY <2>2, <2>4 DEF FoldSteps
  <2> QED  BY <2>5
<1> HIDE DEF g0
<1>5. Len(s) \in Nat  OBVIOUS
<1>3. \A k \in 1..Len(s) : g0[1..(k - 1)] \in J[k - 1] => g0[1..k] \in J[k]
  <2> HIDE DEF Op
  <2>1. /\ g0[{}] = base
        /\ \A t \in D : t # {} => g0[t] = Op(g0[t \ {Max(t)}], s[Max(t)])
    BY <1>2
  <2>2. \A k \in 1..Len(s) : g0[1..k] = Op(g0[1..(k - 1)], s[k])  BY <1>5, <2>1, UpTo
  <2> QED  BY <2>2 DEF Op
<1>4. g0[1..0] \in J[0]
  <2>1. 1..0 = {} /\ {} \in D  OBVIOUS
  <2> QED  BY <1>2, <2>1
<1> QED  BY <1>1, <1>3, <1>4, <1>5, FoldChain

\* A connection into another workspace is drawn in both, and the tab that was selected
\* before is selected again: no record changes.
LEMMA DrawnState ==
    ASSUME NEW e \in Editors, NEW c \in Connection
    PROVE  LET atSource == DrawLine(SelectTab(e, e.workspace[c.from]), e.workspace[c.from], c)
               atSink   == DrawLine(SelectTab(atSource, e.workspace[c.to]), e.workspace[c.to], c)
               drawn    == IF CrossWorkspace(e, c) THEN SelectTab(atSink, e.box)
                           ELSE IF Undrawable(e, c) THEN Throw(e)
                           ELSE DrawLine(e, e.box, c)
           IN  drawn \in Editors /\ SameRecords(e, drawn)
<1> DEFINE w == e.workspace[c.from]
           v == e.workspace[c.to]
           t1 == SelectTab(e, w)
           a1 == DrawLine(t1, w, c)
           t2 == SelectTab(a1, v)
           a2 == DrawLine(t2, v, c)
           t3 == SelectTab(a2, e.box)
           n == DrawLine(e, e.box, c)
<1>1. {w, v, e.box} \subseteq Places  BY DEF Editors, Connection
<1>2. {w, v, e.box} \subseteq Places \cup {NewTab}  BY <1>1
<1> HIDE DEF w, v
<1>3. t1 \in Editors /\ SameRecords(e, t1)  BY <1>2, TabState
<1> HIDE DEF t1
<1>4. a1 \in Editors /\ SameRecords(t1, a1)  BY <1>1, <1>3, LineState
<1> HIDE DEF a1
<1>5. t2 \in Editors /\ SameRecords(a1, t2)  BY <1>2, <1>4, TabState
<1> HIDE DEF t2
<1>6. a2 \in Editors /\ SameRecords(t2, a2)  BY <1>1, <1>5, LineState
<1> HIDE DEF a2
<1>7. t3 \in Editors /\ SameRecords(a2, t3)  BY <1>2, <1>6, TabState
<1> HIDE DEF t3
<1>8. n \in Editors /\ SameRecords(e, n)  BY <1>1, LineState
<1> HIDE DEF n
<1>9. SameRecords(e, t3)  BY <1>3, <1>4, <1>5, <1>6, <1>7 DEF SameRecords
<1>10. Throw(e) \in Editors /\ SameRecords(e, Throw(e))  BY ThrownState DEF Throw
<1> QED  BY <1>7, <1>8, <1>9, <1>10 DEF w, v, t1, a1, t2, a2, t3, n

\* A connection is added to the two lists it belongs in, if no exception comes before
\* (CreateConnection).
LEMMA ConnectionState ==
    ASSUME NEW e \in Editors, NEW c \in Connection
    PROVE  LET f == CreateConnection(e, c)
           IN  /\ f \in Editors /\ f.registered = e.registered /\ f.members = e.members
               /\ f.workspace = e.workspace
               /\ Listed(e.outputs) \subseteq Listed(f.outputs)
<1>1. PICK d \in Editors :
        /\ SameRecords(e, d)
        /\ CreateConnection(e, c) =
             IF d.thrown THEN d
             ELSE [d EXCEPT !.outputs[c.from] = Append(@, c), !.inputs[c.to] = Append(@, c)]
  BY DrawnState DEF CreateConnection
<1>2. /\ d.outputs[c.from] \in Seq(Connection) /\ d.inputs[c.to] \in Seq(Connection)
      /\ c.from \in Reactors /\ c.to \in Reactors
      /\ DOMAIN d.outputs = Reactors /\ DOMAIN d.inputs = Reactors
  BY DEF Editors, Connection
<1>3. /\ \A x \in Range(d.outputs[c.from]) : x.from = c.from
      /\ \A x \in Range(d.inputs[c.to]) : x.to = c.to
  BY <1>2 DEF Editors, ListsOK
<1> DEFINE r == c.from
           q == c.to
           o == Append(d.outputs[r], c)
           i == Append(d.inputs[q], c)
           f == [d EXCEPT !.outputs[r] = o]
           g == [f EXCEPT !.inputs[q] = i]
<1>4. o \in Seq(Connection) /\ Range(o) = Range(d.outputs[c.from]) \cup {c}
  BY <1>2, AppendRange
<1>5. i \in Seq(Connection) /\ Range(i) = Range(d.inputs[c.to]) \cup {c}
  BY <1>2, AppendRange
<1>10. \A x \in Range(o) : x.from = r  BY <1>3, <1>4
<1>11. \A x \in Range(i) : x.to = q  BY <1>3, <1>5
<1>6. [d EXCEPT !.outputs[c.from] = Append(@, c), !.inputs[c.to] = Append(@, c)] = g
  BY <1>2 DEF Editors
<1> HIDE DEF o, i, r, q
<1>12. r \in Reactors /\ q \in Reactors  BY <1>2 DEF r, q
<1>13. d \in Editors  BY <1>1
<1>14. (\A x \in Range(o) : x.from = r) =>
                LET h == [d EXCEPT !.outputs[r] = o]
                IN  h \in Editors /\ h.outputs = [d.outputs EXCEPT ![r] = o]
                    /\ h.registered = d.registered /\ h.members = d.members
                    /\ h.workspace = d.workspace
  BY ONLY <1>13, <1>4, <1>12, ListReplaced
<1>7. /\ f \in Editors /\ f.outputs = [d.outputs EXCEPT ![r] = o]
      /\ f.registered = d.registered /\ f.members = d.members /\ f.workspace = d.workspace
  BY <1>10, <1>14
<1> HIDE DEF f
<1>15. f \in Editors  BY <1>7
<1>16. (\A x \in Range(i) : x.to = q) =>
                LET h == [f EXCEPT !.inputs[q] = i]
                IN  h \in Editors /\ h.outputs = f.outputs
                    /\ h.registered = f.registered /\ h.members = f.members
                    /\ h.workspace = f.workspace
  BY ONLY <1>15, <1>5, <1>12, ListReplaced
<1>8. /\ g \in Editors /\ g.outputs = f.outputs
      /\ g.registered = f.registered /\ g.members = f.members /\ g.workspace = f.workspace
  BY <1>11, <1>16
<1> HIDE DEF g
<1>9. Listed(d.outputs) \subseteq Listed(g.outputs)
  <2>1. \A x \in Reactors : Range(d.outputs[x]) \subseteq Range(g.outputs[x])
    BY <1>2, <1>4, <1>7, <1>8 DEF r
  <2> QED  BY <2>1 DEF Listed
<1> QED  BY <1>1, <1>6, <1>7, <1>8, <1>9 DEF SameRecords

\* A copy of a Reactor is put into the workspace it is for, if that has a tab
\* (CreateReactorInConfiguredWorkspace).
LEMMA CopyState ==
    ASSUME NEW e \in Editors, NEW r \in Reactors, NEW w \in Places
    PROVE  LET f == CreateReactorInConfiguredWorkspace(e, r, w)
           IN  /\ f \in Editors
               /\ e.registered \subseteq f.registered
               /\ f.inputs = e.inputs /\ f.outputs = e.outputs
               /\ \A v \in Workspaces : Range(f.members[v]) \subseteq
                    Range(e.members[v]) \cup {q \in {r} : v = w}
<1> DEFINE t == SelectTab(e, w)
           f == CreateReactor(t, r, w)
<1>1. w \in Places \cup {NewTab}  OBVIOUS
<1>2. t \in Editors /\ SameRecords(e, t)  BY <1>1, TabState
<1> HIDE DEF t
<1>3. /\ f \in Editors
      /\ t.registered \subseteq f.registered
      /\ f.inputs = t.inputs /\ f.outputs = t.outputs
      /\ \A v \in Workspaces : Range(f.members[v]) \subseteq
           Range(t.members[v]) \cup {q \in {r} : v = w}
  BY <1>2, ReactorState
<1> HIDE DEF f
<1>4. CreateReactorInConfiguredWorkspace(e, r, w) = IF Contains(e.boxes, w) THEN f ELSE e
  BY DEF CreateReactorInConfiguredWorkspace, f, t
<1> QED  BY <1>2, <1>3, <1>4 DEF SameRecords

\* A Reactor goes, and of its connections those that come in go from the lists of
\* their sources.
Into(R) == {c \in Connection : c.to \in R}

\* One round of the loops that erase the connections of a Reactor.
LEMMA EraseForgotten ==
    ASSUME NEW e \in Editors, NEW c \in Connection
    PROVE  /\ Shrunk(e, Erase(ForgetOutput(e, c), c), {}, {c})
           /\ Shrunk(e, Erase(ForgetInput(e, c), c), {}, {})
<1> DEFINE o == ForgetOutput(e, c)
           i == ForgetInput(e, c)
<1>1. Shrunk(e, o, {}, {c}) /\ Shrunk(e, i, {}, {})  BY ForgetState
<1>2. o \in Editors /\ i \in Editors  BY <1>1 DEF Shrunk
<1> HIDE DEF o, i
<1>3. /\ Erase(o, c) \in Editors /\ SameRecords(o, Erase(o, c))
      /\ Erase(i, c) \in Editors /\ SameRecords(i, Erase(i, c))
  BY <1>2, EraseState
<1>4. Shrunk(o, Erase(o, c), {}, {c}) /\ Shrunk(i, Erase(i, c), {}, {})
  BY <1>2, <1>3, SameShrunk
<1> QED  BY <1>1, <1>4, ShrunkTwice DEF o, i

\* Deleting a Reactor takes off the page that one, and of the lists of outputs no
\* connections but those into it, an exception or not (DeleteReactorFromUI).
LEMMA DeletedReactorState ==
    ASSUME NEW e \in Editors, NEW r \in Reactors
    PROVE  Shrunk(e, DeleteReactorFromUI(e, r), {r}, Into({r}))
<1> DEFINE R == {r}
           C == Into({r})
           a == [e EXCEPT !.registered = @ \ {r}]
           b == FoldLeft(LAMBDA x, c : Erase(ForgetOutput(x, c), c), a, e.inputs[r])
           d == FoldLeft(LAMBDA x, c : Erase(ForgetInput(x, c), c), b, e.outputs[r])
           w == e.workspace[r]
           f == [d EXCEPT !.members[w] = RemoveFirst(@, r)]
           I == {x \in Editors : Shrunk(e, x, R, C)}
           L == e.inputs[r]
           M == e.outputs[r]
<1>1. /\ L \in Seq(Connection) /\ M \in Seq(Connection)
      /\ \A i \in 1..Len(L) : L[i] \in C
      /\ \A i \in 1..Len(M) : M[i] \in Connection
  <2>1. L \in Seq(Connection) /\ M \in Seq(Connection)  BY DEF Editors
  <2>2. ASSUME NEW i \in 1..Len(L) PROVE L[i] \in C
    <3>1. L[i] \in Connection /\ i \in DOMAIN L  BY <2>1
    <3>2. L[i].to = r  BY <3>1 DEF Editors, ListsOK, Range
    <3> QED  BY <3>1, <3>2 DEF Into
  <2>3. ASSUME NEW i \in 1..Len(M) PROVE M[i] \in Connection
    BY <2>1
  <2> QED  BY <2>1, <2>2, <2>3
<1> HIDE DEF L, M
<1>2. a \in Editors /\ a.registered = e.registered \ {r} /\ a.members = e.members
      /\ a.outputs = e.outputs
  BY DEF Editors, ListsOK
<1>3. a \in I  BY <1>2 DEF Shrunk
<1>4. ASSUME NEW x \in I, NEW c \in C PROVE Erase(ForgetOutput(x, c), c) \in I
  <2>1. c \in Connection /\ {c} \subseteq C  BY DEF Into
  <2>2. Shrunk(x, Erase(ForgetOutput(x, c), c), {}, {c})  BY <2>1, EraseForgotten
  <2>3. Shrunk(x, Erase(ForgetOutput(x, c), c), R, C)  BY <2>1, <2>2, ShrunkMore
  <2>4. Shrunk(e, Erase(ForgetOutput(x, c), c), R, C)  BY <2>3, ShrunkTwice
  <2> QED  BY <2>4 DEF Shrunk
<1>5. ASSUME NEW x \in I, NEW c \in Connection PROVE Erase(ForgetInput(x, c), c) \in I
  <2>1. Shrunk(x, Erase(ForgetInput(x, c), c), {}, {})  BY EraseForgotten
  <2>2. Shrunk(x, Erase(ForgetInput(x, c), c), R, C)  BY <2>1, ShrunkMore
  <2>3. Shrunk(e, Erase(ForgetInput(x, c), c), R, C)  BY <2>2, ShrunkTwice
  <2> QED  BY <2>3 DEF Shrunk
<1>6. /\ \A x \in Editors, c \in Connection : Erase(ForgetOutput(x, c), c) \in Editors
      /\ \A x \in Editors, c \in Connection : Erase(ForgetInput(x, c), c) \in Editors
  BY EraseForgotten DEF Shrunk
<1> HIDE DEF I, C, R
<1>7. b \in I
  <2> DEFINE J == [k \in 0..Len(L) |-> I]
  <2>1. Len(L) \in Nat  BY <1>1
  <2>2. /\ a \in J[0] /\ J[Len(L)] = I
        /\ \A k \in 1..Len(L) : \A x \in J[k - 1] : Erase(ForgetOutput(x, L[k]), L[k]) \in J[k]
    BY <1>1, <1>3, <1>4, <2>1
  <2> HIDE DEF J, a
  <2>3. a \in Editors  BY <1>2 DEF a
  <2>4. FoldLeft(LAMBDA x, c : Erase(ForgetOutput(x, c), c), a, L) \in J[Len(L)]
    BY <1>1, <1>6, <2>2, <2>3, FoldOutputs
  <2> QED  BY <2>2, <2>4 DEF L
<1> HIDE DEF b
<1>8. d \in I
  <2> DEFINE J == [k \in 0..Len(M) |-> I]
  <2>1. Len(M) \in Nat  BY <1>1
  <2>2. /\ b \in J[0] /\ J[Len(M)] = I
        /\ \A k \in 1..Len(M) : \A x \in J[k - 1] : Erase(ForgetInput(x, M[k]), M[k]) \in J[k]
    BY <1>1, <1>5, <1>7, <2>1
  <2> HIDE DEF J
  <2>3. b \in Editors  BY <1>7 DEF I
  <2>4. FoldLeft(LAMBDA x, c : Erase(ForgetInput(x, c), c), b, M) \in J[Len(M)]
    BY <1>1, <1>6, <2>2, <2>3, FoldInputs
  <2> QED  BY <2>2, <2>4 DEF M
<1> HIDE DEF d
<1>9. d \in Editors /\ Shrunk(e, d, R, C)  BY <1>8 DEF I
<1>10. Shrunk(d, f, R, C)
  <2> DEFINE m == [d.members EXCEPT ![w] = RemoveFirst(@, r)]
             g == [d EXCEPT !.members = m]
  <2>1. d.members \in [Workspaces -> Seq(Reactors)]  BY <1>9 DEF Editors
  <2>2. ASSUME NEW v \in Workspaces
        PROVE  m[v] \in Seq(Reactors) /\ Range(m[v]) \subseteq Range(d.members[v])
    <3>1. d.members[v] \in Seq(Reactors)  BY <2>1
    <3>2. RemoveFirst(d.members[v], r) \in Seq(Reactors)
          /\ Range(RemoveFirst(d.members[v], r)) \subseteq Range(d.members[v])
      BY <3>1, RemoveFirstRange
    <3>3. m[v] = IF v = w THEN RemoveFirst(d.members[v], r) ELSE d.members[v]  BY <2>1
    <3> QED  BY <3>1, <3>2, <3>3
  <2>3. m \in [Workspaces -> Seq(Reactors)]  BY <2>1, <2>2
  <2>4. f = g  BY <1>9 DEF Editors
  <2> HIDE DEF m
  <2>5. g \in Editors /\ g.registered = d.registered /\ g.outputs = d.outputs /\ g.members = m
    BY <1>9, <2>3 DEF Editors, ListsOK
  <2> QED  BY <2>2, <2>4, <2>5 DEF Shrunk
<1>11. Shrunk(e, f, R, C)  BY <1>9, <1>10, ShrunkTwice
<1>12. Shrunk(e, Throw(d), R, C)
  <2>1. Throw(d) \in Editors /\ SameRecords(d, Throw(d))  BY <1>9, ThrownState DEF Throw
  <2>2. Shrunk(d, Throw(d), R, C)  BY <1>9, <2>1, SameShrunk
  <2> QED  BY <1>9, <2>2, ShrunkTwice
<1>13. Shrunk(e, e, R, C)  BY SameShrunk DEF SameRecords
<1>14. DeleteReactorFromUI(e, r) =
         IF e.thrown THEN e
         ELSE IF d.thrown THEN d
         ELSE IF ~Contains(d.members[w], r) THEN Throw(d) ELSE f
  BY DEF DeleteReactorFromUI, a, b, d, f, w
<1> QED  BY <1>9, <1>11, <1>12, <1>13, <1>14 DEF R, C

\* Deleting a workspace takes off the page the Reactors in it, and of the lists of
\* outputs no connections but those into them (DeleteWorkspaceFromUI).
LEMMA DeletedWorkspaceState ==
    ASSUME NEW e \in Editors, NEW w \in Workspaces
    PROVE  LET R == Range(e.members[w])
           IN  Shrunk(e, DeleteWorkspaceFromUI(e, w), R, Into(R))
<1> DEFINE R == Range(e.members[w])
           C == Into(R)
           s == e.members[w]
           a == FoldLeft(DeleteReactorFromUI, e, e.members[w])
           b == [a EXCEPT !.boxes = RemoveFirst(@, w)]
           I == {x \in Editors : Shrunk(e, x, R, C)}
<1>1. s \in Seq(Reactors) /\ \A k \in 1..Len(s) : s[k] \in R /\ s[k] \in Reactors
  <2>1. s \in Seq(Reactors)  BY DEF Editors
  <2> HIDE DEF s
  <2>2. ASSUME NEW k \in 1..Len(s) PROVE s[k] \in Range(s) /\ s[k] \in Reactors
    BY <2>1 DEF Range
  <2> QED  BY <2>1, <2>2 DEF s
<1>2. Shrunk(e, e, R, C)  BY SameShrunk DEF SameRecords
<1>3. ASSUME NEW x \in I, NEW r \in R, r \in Reactors PROVE DeleteReactorFromUI(x, r) \in I
  <2>1. Shrunk(x, DeleteReactorFromUI(x, r), {r}, Into({r}))  BY <1>3, DeletedReactorState
  <2>2. {r} \subseteq R /\ Into({r}) \subseteq C  BY DEF Into
  <2> HIDE DEF R, C
  <2>3. Shrunk(x, DeleteReactorFromUI(x, r), R, C)  BY <2>1, <2>2, ShrunkMore
  <2>4. Shrunk(e, DeleteReactorFromUI(x, r), R, C)  BY <2>3, ShrunkTwice
  <2> QED  BY <2>4 DEF Shrunk
<1>4. \A x \in Editors, r \in Reactors : DeleteReactorFromUI(x, r) \in Editors
  BY DeletedReactorState DEF Shrunk
<1> HIDE DEF R, C
<1>5. a \in I
  <2> DEFINE J == [k \in 0..Len(s) |-> I]
  <2> HIDE DEF I
  <2>1. Len(s) \in Nat /\ e \in I  BY <1>1, <1>2 DEF I
  <2> HIDE DEF s
  <2>2. /\ e \in J[0] /\ J[Len(s)] = I
        /\ \A k \in 1..Len(s) : \A x \in J[k - 1] : DeleteReactorFromUI(x, s[k]) \in J[k]
    BY <1>1, <1>3, <2>1
  <2> HIDE DEF J
  <2>3. FoldLeft(DeleteReactorFromUI, e, s) \in J[Len(s)]
    BY <1>1, <1>4, <2>2, FoldReactors
  <2> QED  BY <2>2, <2>3 DEF s
<1> HIDE DEF a
<1>6. a \in Editors /\ Shrunk(e, a, R, C)  BY <1>5
<1>7. b \in Editors /\ b.registered = a.registered /\ b.outputs = a.outputs /\ b.members = a.members
  <2>1. a.boxes \in Seq(Workspaces)  BY <1>6 DEF Editors
  <2> DEFINE x == RemoveFirst(a.boxes, w)
  <2>2. x \in Seq(Workspaces)  BY <2>1, RemoveFirstRange
  <2>3. b = [a EXCEPT !.boxes = x]  BY <1>6 DEF Editors
  <2> HIDE DEF x
  <2> QED  BY <1>6, <2>2, <2>3 DEF Editors, ListsOK
<1> HIDE DEF b
<1>8. Shrunk(e, b, R, C)  BY <1>6, <1>7 DEF Shrunk
<1> DEFINE tab == IF b.boxes = <<>> THEN NewTab ELSE Head(b.boxes)
<1>9. tab \in Places \cup {NewTab}  BY <1>7 DEF Editors, Places
<1> HIDE DEF tab
<1>10. Shrunk(e, SelectTab(b, tab), R, C)
  <2>1. SelectTab(b, tab) \in Editors /\ SameRecords(b, SelectTab(b, tab))  BY <1>7, <1>9, TabState
  <2>2. Shrunk(b, SelectTab(b, tab), R, C)  BY <1>7, <2>1, SameShrunk
  <2> QED  BY <1>8, <2>2, ShrunkTwice
<1>11. DeleteWorkspaceFromUI(e, w) =
         IF a.thrown THEN a ELSE IF b.shown # w THEN b ELSE SelectTab(b, tab)
  BY DEF DeleteWorkspaceFromUI, a, b, tab
<1> QED  BY <1>6, <1>8, <1>10, <1>11 DEF R, C

(***************************************************************************)
(* What is known of the engine, of the page and of the calls at any time.  *)
(***************************************************************************)
EngineOK ==
    /\ engine \in [workspaces : SUBSET Workspaces, home : [Reactors -> Places],
                   connections : SUBSET Connection, named : SUBSET (Workspaces \cup Reactors),
                   made : Nat]
    /\ engine.workspaces \subseteq engine.named
    /\ \A r \in Reactors : Exists(r) => r \in engine.named
    /\ \A c \in engine.connections : c.id <= engine.made

\* r has been created in w, and may have been deleted.
Placed(r, w) == r \in engine.named /\ engine.home[r] \in {w, NoWorkspace}

\* The Reactors in a workspace of the page are there in the engine, or were.
MembersPlaced(e) == \A w \in Workspaces : \A r \in Range(e.members[w]) : Placed(r, w)

\* A call has the fields of a call.
IsCall(call) ==
    call \in [type : {call.type}, what : {call.what}, at : {call.at}, row : {call.row},
              nr : {call.nr}, phase : {call.phase}]

\* What is known of a request, and what of the engine when it has been answered.
CallOK(call) ==
    LET type == call.type  what == call.what  done == call.phase = "done"
    IN  /\ IsCall(call)
        /\ type \in {"addReactor", "addCopy"} =>
             /\ call.at \in Places
             /\ done => what \in Reactors /\ Placed(what, call.at)
        /\ type = "addWorkspace" /\ done => what \in Workspaces
        /\ type = "getReactor" => what \in Reactors /\ (done => call.at \in Places)
        /\ type = "connect" => IF done THEN what \in Connection
                               ELSE what.from \in Reactors /\ what.to \in Reactors
        /\ type = "disconnect" =>
             /\ what \in Connection /\ call.row \in Nat
             /\ done => what \notin engine.connections /\ what.id <= engine.made
        /\ type = "deleteReactor" =>
             what \in Reactors /\ (done => what \in engine.named /\ ~Exists(what))
        /\ type \in {"deleteReactors", "deleteWorkspace"} => what \in Workspaces
        /\ type = "deleteWorkspace" /\ done =>
             what \in engine.named /\ what \notin engine.workspaces

\* The inductive invariant.
EditorInv ==
    /\ EngineOK
    /\ editor \in Editors
    /\ MembersPlaced(editor)
    /\ \A call \in calls : CallOK(call)

\* What is gone from the engine does not come back.
Later ==
    /\ engine.named \subseteq engine'.named
    /\ engine.made <= engine'.made
    /\ engine'.workspaces \cap engine.named \subseteq engine.workspaces
    /\ \A r \in Reactors \cap engine.named : engine'.home[r] \in {engine.home[r], NoWorkspace}
    /\ \A c \in engine'.connections : c.id <= engine.made => c \in engine.connections

\* What the engine has placed stays placed.
LEMMA PlacedStays ==
    ASSUME EngineOK, EngineOK', Later, NEW r \in Reactors, NEW w, Placed(r, w)
    PROVE  Placed(r, w)'
BY DEF Placed, Later

\* What is known of a call stays true whatever the engine does next.
LEMMA CallStays ==
    ASSUME EngineOK, EngineOK', Later, NEW call, CallOK(call)
    PROVE  CallOK(call)'
<1>1. call.type \in {"addReactor", "addCopy"} =>
        /\ call.at \in Places
        /\ call.phase = "done" => call.what \in Reactors /\ Placed(call.what, call.at)'
  BY PlacedStays DEF CallOK
<1>2. call.type = "disconnect" =>
        /\ call.what \in Connection /\ call.row \in Nat
        /\ call.phase = "done" =>
             call.what \notin engine'.connections /\ call.what.id <= engine'.made
  BY DEF CallOK, Later, EngineOK, Connection
<1>3. call.type = "deleteReactor" =>
        call.what \in Reactors /\ (call.phase = "done" => call.what \in engine'.named /\ ~Exists(call.what)')
  BY DEF CallOK, Later, Exists
<1>4. call.type = "deleteWorkspace" /\ call.phase = "done" =>
        call.what \in engine'.named /\ call.what \notin engine'.workspaces
  BY DEF CallOK, Later
<1> QED  BY <1>1, <1>2, <1>3, <1>4 DEF CallOK

\* So does what is known of the Reactors on the page.
LEMMA MembersStay ==
    ASSUME EditorInv, EngineOK', Later
    PROVE  \A w \in Workspaces : \A r \in Range(editor.members[w]) : Placed(r, w)'
<1>1. ASSUME NEW w \in Workspaces, NEW r \in Range(editor.members[w])
      PROVE  r \in Reactors
  <2>1. editor.members[w] \in Seq(Reactors)  BY DEF EditorInv, Editors
  <2> QED  BY <2>1 DEF Range
<1> QED  BY <1>1, PlacedStays DEF EditorInv, MembersPlaced

\* A request that has just been sent is as it should be.
LEMMA SentOK ==
    ASSUME NEW type, NEW what, NEW at,
           type \in {"addReactor", "addCopy"} => at \in Places,
           type \in {"getReactor", "deleteReactor"} => what \in Reactors,
           type = "connect" => what.from \in Reactors /\ what.to \in Reactors,
           type = "disconnect" => what \in Connection,
           type \in {"deleteReactors", "deleteWorkspace"} => what \in Workspaces
    PROVE  CallOK(Call(type, what, at))
BY DEF CallOK, Call, IsCall

--------------------------------------------------------------------------------
\* The engine serves a request: nothing that is gone comes back, and its answer is true
\* of the engine.
LEMMA ServeLater ==
    ASSUME EditorInv, NEW call \in calls, EngineServes(call)
    PROVE  /\ EngineOK' /\ Later
           /\ \E x : calls' = (calls \ {call}) \cup {x} /\ CallOK(x)'
<1> DEFINE type == call.type
           Reply(what) == [call EXCEPT !.what = what, !.phase = "done"]
<1>1. EngineOK /\ CallOK(call) /\ call.phase = "sent"  BY DEF EditorInv, EngineServes
<1>2. ASSUME NEW what
      PROVE  LET x == Reply(what)
             IN  /\ x.type = type /\ x.what = what /\ x.at = call.at /\ x.row = call.row
                 /\ x.phase = "done" /\ IsCall(x)
  <2> DEFINE x == Reply(what)
  <2>1. IsCall(call)  BY <1>1 DEF CallOK
  <2>2. x \in [type : {type}, what : {what}, at : {call.at}, row : {call.row},
               nr : {call.nr}, phase : {"done"}]
    BY <2>1 DEF IsCall
  <2> HIDE DEF x
  <2>3. IsCall(x)  BY <2>2 DEF IsCall
  <2> QED  BY <2>2, <2>3 DEF x
<1>3. CASE type \in {"addReactor", "addCopy"}
  <2>1. PICK r \in Reactors \ engine.named :
          /\ engine' = [engine EXCEPT !.home[r] = call.at, !.named = @ \cup {r}]
          /\ calls' = (calls \ {call}) \cup {Reply(r)}
    BY <1>3 DEF EngineServes, Fresh, Replies
  <2>2. call.at \in Places  BY <1>1, <1>3 DEF CallOK
  <2>3. /\ engine'.workspaces = engine.workspaces
        /\ engine'.home = [engine.home EXCEPT ![r] = call.at]
        /\ engine'.connections = engine.connections /\ engine'.made = engine.made
        /\ engine'.named = engine.named \cup {r}
        /\ engine' \in [workspaces : SUBSET Workspaces, home : [Reactors -> Places],
                   connections : SUBSET Connection, named : SUBSET (Workspaces \cup Reactors),
                   made : Nat]
    BY <1>1, <2>1, <2>2 DEF EngineOK
  <2>4. engine.home \in [Reactors -> Places] /\ engine.made \in Nat  BY <1>1 DEF EngineOK
  <2>5. EngineOK'  BY <1>1, <2>3, <2>4 DEF EngineOK, Exists
  <2>6. Later  BY <2>1, <2>3, <2>4 DEF Later
  <2>7. Placed(r, call.at)'  BY <2>3, <2>4 DEF Placed
  <2>8. ASSUME NEW x, x = Reply(r) PROVE CallOK(x)'
    BY <1>2, <1>3, <2>1, <2>2, <2>7, <2>8 DEF CallOK
  <2> QED  BY <2>1, <2>5, <2>6, <2>8
<1>4. CASE type = "addWorkspace"
  <2>1. PICK w \in Workspaces \ engine.named :
          /\ engine' = [engine EXCEPT !.workspaces = @ \cup {w}, !.named = @ \cup {w}]
          /\ calls' = (calls \ {call}) \cup {Reply(w)}
    BY <1>4 DEF EngineServes, Fresh, Replies
  <2>3. /\ engine'.workspaces = engine.workspaces \cup {w}
        /\ engine'.home = engine.home
        /\ engine'.connections = engine.connections /\ engine'.made = engine.made
        /\ engine'.named = engine.named \cup {w}
        /\ engine' \in [workspaces : SUBSET Workspaces, home : [Reactors -> Places],
                   connections : SUBSET Connection, named : SUBSET (Workspaces \cup Reactors),
                   made : Nat]
    BY <1>1, <2>1 DEF EngineOK
  <2>4. engine.home \in [Reactors -> Places] /\ engine.made \in Nat  BY <1>1 DEF EngineOK
  <2>5. EngineOK'  BY <1>1, <2>3 DEF EngineOK, Exists
  <2>6. Later  BY <2>1, <2>3, <2>4 DEF Later
  <2>8. ASSUME NEW x, x = Reply(w) PROVE CallOK(x)'
    BY <1>2, <1>4, <2>1, <2>8 DEF CallOK
  <2> QED  BY <2>1, <2>5, <2>6, <2>8
<1>5. CASE type = "getReactor"
  <2> DEFINE y == [call EXCEPT !.phase = "done", !.at = engine.home[call.what]]
  <2>1. UNCHANGED engine /\ calls' = (calls \ {call}) \cup {y}
    BY <1>5 DEF EngineServes
  <2>2. EngineOK' /\ Later
    BY <1>1, <2>1 DEF EngineOK, Exists, Later
  <2>3. call.what \in Reactors /\ engine.home[call.what] \in Places
    BY <1>1, <1>5 DEF CallOK, EngineOK
  <2>6. IsCall(call)  BY <1>1 DEF CallOK
  <2>7. y \in [type : {type}, what : {call.what}, at : Places, row : {call.row},
               nr : {call.nr}, phase : {"done"}]
    BY <2>3, <2>6 DEF IsCall
  <2> HIDE DEF y
  <2>4. /\ y.type = type /\ y.what = call.what /\ y.at \in Places /\ y.phase = "done"
        /\ IsCall(y)
    BY <2>7 DEF IsCall
  <2>5. ASSUME NEW x, x = y PROVE CallOK(x)'  BY <1>5, <2>3, <2>4, <2>5 DEF CallOK
  <2> QED  BY <2>1, <2>2, <2>5
<1>6. CASE type = "connect"
  <2> DEFINE c == [id |-> engine.made + 1, from |-> call.what.from, to |-> call.what.to]
  <2>1. /\ engine' = [engine EXCEPT !.connections = @ \cup {c}, !.made = @ + 1]
        /\ calls' = (calls \ {call}) \cup {Reply(c)}
    BY <1>6 DEF EngineServes, Replies
  <2>2. c \in Connection /\ c.id = engine.made + 1
    BY <1>1, <1>6 DEF CallOK, EngineOK, Connection
  <2>7. engine.connections \cup {c} \subseteq Connection /\ engine.made + 1 \in Nat
    BY <1>1, <2>2 DEF EngineOK
  <2> HIDE DEF c
  <2>3. /\ engine'.workspaces = engine.workspaces
        /\ engine'.home = engine.home
        /\ engine'.connections = engine.connections \cup {c} /\ engine'.made = engine.made + 1
        /\ engine'.named = engine.named
        /\ engine' \in [workspaces : SUBSET Workspaces, home : [Reactors -> Places],
                   connections : SUBSET Connection, named : SUBSET (Workspaces \cup Reactors),
                   made : Nat]
    BY <1>1, <2>1, <2>7 DEF EngineOK
  <2>4. engine.made \in Nat /\ \A d \in engine.connections : d.id \in Nat
    BY <1>1 DEF EngineOK, Connection
  <2>5. EngineOK'  BY <1>1, <2>2, <2>3, <2>4 DEF EngineOK, Exists
  <2>6. Later  BY <1>1, <2>2, <2>3, <2>4 DEF Later, EngineOK
  <2>8. ASSUME NEW x, x = Reply(c) PROVE CallOK(x)'
    BY <1>2, <1>6, <2>2, <2>8 DEF CallOK
  <2> QED  BY <2>1, <2>5, <2>6, <2>8
<1>7. CASE type = "disconnect"
  <2> DEFINE c == call.what
  <2>1. /\ engine' = [engine EXCEPT !.connections = @ \ {c}]
        /\ calls' = (calls \ {call}) \cup {Reply(c)}
        /\ c \in engine.connections
    BY <1>7 DEF EngineServes, Replies, Refused
  <2>2. c \in Connection /\ call.row \in Nat  BY <1>1, <1>7 DEF CallOK
  <2> HIDE DEF c
  <2>3. /\ engine'.workspaces = engine.workspaces
        /\ engine'.home = engine.home
        /\ engine'.connections = engine.connections \ {c} /\ engine'.made = engine.made
        /\ engine'.named = engine.named
        /\ engine' \in [workspaces : SUBSET Workspaces, home : [Reactors -> Places],
                   connections : SUBSET Connection, named : SUBSET (Workspaces \cup Reactors),
                   made : Nat]
    BY <1>1, <2>1 DEF EngineOK
  <2>5. EngineOK'  BY <1>1, <2>3 DEF EngineOK, Exists
  <2>6. Later  BY <1>1, <2>3 DEF Later, EngineOK
  <2>7. c.id <= engine'.made  BY <1>1, <2>1, <2>3 DEF EngineOK
  <2>8. ASSUME NEW x, x = Reply(c) PROVE CallOK(x)'
    BY <1>2, <1>7, <2>2, <2>3, <2>7, <2>8 DEF CallOK
  <2> QED  BY <2>1, <2>5, <2>6, <2>8
<1>8. ASSUME NEW R, engine' = Without(R)
      PROVE  /\ EngineOK' /\ Later
             /\ engine'.home = [r \in Reactors |-> IF r \in R THEN NoWorkspace ELSE engine.home[r]]
             /\ engine'.named = engine.named
  <2> DEFINE h == [r \in Reactors |-> IF r \in R THEN NoWorkspace ELSE engine.home[r]]
             l == {c \in engine.connections : {c.from, c.to} \cap R = {}}
  <2>1. engine' = [engine EXCEPT !.home = h, !.connections = l]
    BY <1>1, <1>8 DEF Without, EngineOK
  <2>2. h \in [Reactors -> Places] /\ l \subseteq engine.connections
        /\ \A r \in Reactors : h[r] \in {engine.home[r], NoWorkspace}
    BY <1>1 DEF EngineOK, Places
  <2> HIDE DEF h, l
  <2>3. /\ engine'.workspaces = engine.workspaces
        /\ engine'.home = h
        /\ engine'.connections = l /\ engine'.made = engine.made
        /\ engine'.named = engine.named
        /\ engine' \in [workspaces : SUBSET Workspaces, home : [Reactors -> Places],
                   connections : SUBSET Connection, named : SUBSET (Workspaces \cup Reactors),
                   made : Nat]
    BY <1>1, <2>1, <2>2 DEF EngineOK
  <2>5. EngineOK'  BY <1>1, <2>2, <2>3 DEF EngineOK, Exists
  <2>6. Later  BY <1>1, <2>2, <2>3 DEF Later, EngineOK
  <2> QED  BY <2>3, <2>5, <2>6 DEF h
<1>9. CASE type = "deleteReactor"
  <2> DEFINE r == call.what
  <2>1. /\ engine' = Without({r}) /\ Exists(r)
        /\ calls' = (calls \ {call}) \cup {Reply(r)}
    BY <1>9 DEF EngineServes, Replies, Refused
  <2>2. r \in Reactors  BY <1>1, <1>9 DEF CallOK
  <2> HIDE DEF r
  <2>3. r \in engine'.named /\ ~Exists(r)'
    <3>1. engine'.home[r] = NoWorkspace  BY <1>8, <2>1, <2>2
    <3>2. r \in engine'.named  BY <1>1, <1>8, <2>1, <2>2 DEF EngineOK
    <3> QED  BY <3>1, <3>2 DEF Exists
  <2>8. ASSUME NEW x, x = Reply(r) PROVE CallOK(x)'
    BY <1>2, <1>9, <2>2, <2>3, <2>8 DEF CallOK
  <2> QED  BY <1>8, <2>1, <2>8
<1>10. CASE type = "deleteReactors"
  <2> DEFINE w == call.what
             R == {r \in Reactors : engine.home[r] = w}
  <2>1. /\ engine' = Without(R)
        /\ calls' = (calls \ {call}) \cup {Reply(w)}
    BY <1>10 DEF EngineServes, Replies
  <2>2. w \in Workspaces  BY <1>1, <1>10 DEF CallOK
  <2> HIDE DEF w, R
  <2>8. ASSUME NEW x, x = Reply(w) PROVE CallOK(x)'
    BY <1>2, <1>10, <2>2, <2>8 DEF CallOK
  <2> QED  BY <1>8, <2>1, <2>8
<1>11. CASE type = "deleteWorkspace"
  <2> DEFINE w == call.what
  <2>1. /\ engine' = [engine EXCEPT !.workspaces = @ \ {w}]
        /\ calls' = (calls \ {call}) \cup {Reply(w)}
        /\ w \in engine.workspaces
    BY <1>11 DEF EngineServes, Replies, Refused
  <2>2. w \in Workspaces  BY <1>1, <1>11 DEF CallOK
  <2> HIDE DEF w
  <2>3. /\ engine'.workspaces = engine.workspaces \ {w}
        /\ engine'.home = engine.home
        /\ engine'.connections = engine.connections /\ engine'.made = engine.made
        /\ engine'.named = engine.named
        /\ engine' \in [workspaces : SUBSET Workspaces, home : [Reactors -> Places],
                   connections : SUBSET Connection, named : SUBSET (Workspaces \cup Reactors),
                   made : Nat]
    BY <1>1, <2>1 DEF EngineOK
  <2>5. EngineOK'  BY <1>1, <2>3 DEF EngineOK, Exists
  <2>6. Later  BY <1>1, <2>3 DEF Later, EngineOK
  <2>7. w \in engine'.named /\ w \notin engine'.workspaces  BY <1>1, <2>1, <2>3 DEF EngineOK
  <2>8. ASSUME NEW x, x = Reply(w) PROVE CallOK(x)'
    BY <1>2, <1>11, <2>2, <2>7, <2>8 DEF CallOK
  <2> QED  BY <2>1, <2>5, <2>6, <2>8
<1>12. type \in {"addReactor", "addCopy", "addWorkspace", "getReactor", "connect", "disconnect",
                 "deleteReactor", "deleteReactors", "deleteWorkspace"}
  BY DEF EngineServes
<1> QED  BY <1>3, <1>4, <1>5, <1>6, <1>7, <1>9, <1>10, <1>11, <1>12

\* What a step may take off the page.
RemovedAreGone ==
    (\A call \in calls \ calls' : ~StaleRow(call)) =>
      /\ \A r \in editor.registered \ editor'.registered : ~Present(r)
      /\ \A c \in Listed(editor.outputs) \ Listed(editor'.outputs) :
           c \in engine.connections => ~Present(c.from) \/ ~Present(c.to)

\* Every callback that leaves the page as f keeps the invariant, if f is as it should be.
LEMMA BecomesOK ==
    ASSUME EditorInv, UNCHANGED engine, NEW f \in Editors, NEW under_way, Becomes(f, under_way),
           MembersPlaced(f), \A call \in under_way : CallOK(call)
    PROVE  /\ EditorInv'
           /\ editor'.registered = f.registered /\ editor'.outputs = f.outputs
<1> DEFINE g == [f EXCEPT !.thrown = FALSE]
           x == Call("addWorkspace", NoWorkspace, NoWorkspace)
<1>1. g \in Editors /\ SameRecords(f, g)  BY ThrownState
<1>2. editor' = g /\ calls' \subseteq under_way \cup {x}  BY DEF Becomes
<1>3. CallOK(x)  BY SentOK
<1> HIDE DEF g, x
<1>4. EngineOK' /\ Later  BY DEF EditorInv, EngineOK, Later, Exists
<1>5. ASSUME NEW call \in calls' PROVE CallOK(call)'
  BY <1>2, <1>3, <1>4, <1>5, CallStays DEF EditorInv
<1>6. MembersPlaced(editor)'
  BY <1>1, <1>2 DEF MembersPlaced, SameRecords, Placed
<1> QED  BY <1>1, <1>2, <1>4, <1>5, <1>6 DEF EditorInv, SameRecords

\* The steps that take nothing off the page.
LEMMA NothingRemoved ==
    ASSUME editor.registered \subseteq editor'.registered,
           Listed(editor.outputs) \subseteq Listed(editor'.outputs)
    PROVE  RemovedAreGone
BY DEF RemovedAreGone

\* No act of the user takes anything off the page.
LEMMA UserActsOK ==
    ASSUME EditorInv, EditorUserActs
    PROVE  EditorInv' /\ RemovedAreGone
<1>1. EngineOK /\ editor \in Editors /\ MembersPlaced(editor) /\ \A call \in calls : CallOK(call)
  BY DEF EditorInv
<1>2. ASSUME NEW call, CallOK(call), UNCHANGED <<engine, editor>>, calls' = calls \cup {call}
      PROVE  EditorInv' /\ RemovedAreGone
  <2>1. EngineOK' /\ Later  BY <1>1, <1>2 DEF EngineOK, Later, Exists
  <2>2. \A x \in calls' : CallOK(x)'  BY <1>1, <1>2, <2>1, CallStays
  <2>3. MembersPlaced(editor)'  BY <1>1, <1>2 DEF MembersPlaced, Placed
  <2>4. RemovedAreGone  BY <1>2, NothingRemoved
  <2> QED  BY <1>1, <1>2, <2>1, <2>2, <2>3, <2>4 DEF EditorInv
<1>3. ASSUME NEW tab \in Places \cup {NewTab}, NEW under_way, UNCHANGED engine,
             Becomes(SelectTab(editor, tab), under_way), \A call \in under_way : CallOK(call)
      PROVE  EditorInv' /\ RemovedAreGone
  <2> DEFINE f == SelectTab(editor, tab)
  <2>1. f \in Editors /\ SameRecords(editor, f)  BY <1>1, TabState
  <2> HIDE DEF f
  <2>2. MembersPlaced(f)  BY <1>1, <2>1 DEF MembersPlaced, SameRecords
  <2>3. /\ EditorInv'
        /\ editor'.registered = f.registered /\ editor'.outputs = f.outputs
    BY <1>3, <2>1, <2>2, BecomesOK DEF f
  <2>4. RemovedAreGone  BY <2>1, <2>3, NothingRemoved DEF SameRecords
  <2> QED  BY <2>3, <2>4
<1>4. /\ editor.box \in Places
      /\ \A r \in Reactors : editor.workspace[r] \in Places
      /\ Range(editor.boxes) \subseteq Places
      /\ editor.registered \subseteq Reactors
  BY <1>1 DEF Editors, Places, Range
<1>5. ASSUME NEW tab \in Range(editor.boxes) \cup {NewTab}, ClickTab(tab)
      PROVE  EditorInv' /\ RemovedAreGone
  BY <1>1, <1>3, <1>4, <1>5 DEF ClickTab, UserAct
<1>6. CASE ReselectCurrentWorkspace
  <2> DEFINE f == Selected(editor, editor.box)
  <2>1. Becomes(f, calls) /\ UNCHANGED engine  BY <1>6 DEF ReselectCurrentWorkspace, UserAct
  <2>2. f \in Editors /\ SameRecords(editor, f)  BY <1>1, <1>4, SelectedState
  <2> HIDE DEF f
  <2>3. MembersPlaced(f)  BY <1>1, <2>2 DEF MembersPlaced, SameRecords
  <2>4. /\ EditorInv'
        /\ editor'.registered = f.registered /\ editor'.outputs = f.outputs
    BY <1>1, <2>1, <2>2, <2>3, BecomesOK
  <2>5. RemovedAreGone  BY <2>2, <2>4, NothingRemoved DEF SameRecords
  <2> QED  BY <2>4, <2>5
<1>7. CASE TryConfig
  <2>1. CallOK(Call("addReactor", NoWorkspace, editor.box))  BY <1>4, SentOK
  <2> QED  BY <1>2, <1>7, <2>1 DEF TryConfig, UserAct, Sends
<1>8. ASSUME NEW r \in Reactors, CopyReactor(r) PROVE EditorInv' /\ RemovedAreGone
  <2>1. CallOK(Call("getReactor", r, NoWorkspace))  BY SentOK
  <2> QED  BY <1>2, <1>8, <2>1 DEF CopyReactor, UserAct, Sends
<1>9. ASSUME NEW r \in Reactors, DeleteReactor(r) PROVE EditorInv' /\ RemovedAreGone
  <2>1. CallOK(Call("deleteReactor", r, NoWorkspace))  BY SentOK
  <2> QED  BY <1>2, <1>9, <2>1 DEF DeleteReactor, UserAct, Sends
<1>10. ASSUME NEW r \in Reactors, NEW s \in Reactors, HandleSelectionOfConnectorEndpoint(r, s)
       PROVE EditorInv' /\ RemovedAreGone
  <2>1. CallOK(Call("connect", [from |-> r, to |-> s], NoWorkspace))  BY SentOK
  <2>2. editor.workspace[r] \in Places  BY <1>4
  <2> QED  BY <1>1, <1>3, <1>10, <2>1, <2>2 DEF HandleSelectionOfConnectorEndpoint, UserAct
<1>11. ASSUME NEW r \in Reactors, NEW s \in Reactors, MakeCallback(r, s)
       PROVE EditorInv' /\ RemovedAreGone
  <2>1. CallOK(Call("connect", [from |-> r, to |-> s], NoWorkspace))  BY SentOK
  <2> QED  BY <1>2, <1>11, <2>1 DEF MakeCallback, UserAct, Sends
<1>12. ASSUME NEW line \in editor.lines, RemoveConnection(line[2])
       PROVE EditorInv' /\ RemovedAreGone
  <2>1. line[2] \in Connection  BY <1>1 DEF Editors
  <2>2. CallOK(Call("disconnect", line[2], "line"))  BY <2>1, SentOK
  <2> QED  BY <1>2, <1>12, <2>2 DEF RemoveConnection, UserAct, Sends
<1>13. ASSUME NEW r \in Reactors, NEW table \in {"inputs", "outputs"},
              NEW row \in 1..MaxConnections, OnCellClick(r, table, row)
       PROVE EditorInv' /\ RemovedAreGone
  <2> DEFINE list == IF table = "inputs" THEN editor.inputs[r] ELSE editor.outputs[r]
             c == list[row]
             call == [Call("disconnect", c, table) EXCEPT !.row = row]
  <2>1. row \in DOMAIN list /\ calls' = calls \cup {call} /\ UNCHANGED <<editor, engine>>
    BY <1>13 DEF OnCellClick, UserAct
  <2>2. list \in Seq(Connection)  BY <1>1 DEF Editors
  <2>3. c \in Connection  BY <2>1, <2>2
  <2>4. row \in Nat  BY EditorAssumption DEF EditorAssumption
  <2> HIDE DEF c
  <2>5. CallOK(call)  BY <2>3, <2>4 DEF CallOK, Call, IsCall
  <2> HIDE DEF call
  <2> QED  BY <1>2, <2>1, <2>5
<1>14. ASSUME NEW w \in Workspaces, DeleteWorkspaceIfConfirmed(w)
       PROVE EditorInv' /\ RemovedAreGone
  <2> DEFINE type == IF editor.members[w] = <<>> THEN "deleteWorkspace" ELSE "deleteReactors"
  <2>1. type \in {"deleteReactors", "deleteWorkspace"}  OBVIOUS
  <2>2. calls' = calls \cup {Call(type, w, NoWorkspace)} /\ UNCHANGED <<editor, engine>>
    BY <1>14 DEF DeleteWorkspaceIfConfirmed, UserAct, Sends
  <2> HIDE DEF type
  <2>3. CallOK(Call(type, w, NoWorkspace))  BY <2>1, SentOK
  <2> QED  BY <1>2, <2>2, <2>3
<1> QED
  BY <1>5, <1>6, <1>7, <1>8, <1>9, <1>10, <1>11, <1>12, <1>13, <1>14 DEF EditorUserActs

\* What the handlers of answers have in common.
LEMMA LoadOK ==
    ASSUME EditorInv, NEW call \in calls, NEW f \in Editors, NEW made, Load(call, f, made),
           MembersPlaced(f), \A x \in made : CallOK(x)
    PROVE  /\ EditorInv'
           /\ editor'.registered = f.registered /\ editor'.outputs = f.outputs
           /\ call.type # "addWorkspace" /\ call.phase = "done" /\ call \notin made
                => call \in calls \ calls'
<1>1. Becomes(f, (calls \ {call}) \cup made) /\ UNCHANGED engine  BY DEF Load
<1>2. \A x \in (calls \ {call}) \cup made : CallOK(x)  BY DEF EditorInv
<1>3. EditorInv' /\ editor'.registered = f.registered /\ editor'.outputs = f.outputs
  BY <1>1, <1>2, BecomesOK
<1>4. ASSUME call.type # "addWorkspace", call \notin made PROVE call \notin calls'
  <2>1. calls' \subseteq ((calls \ {call}) \cup made) \cup {Call("addWorkspace", NoWorkspace, NoWorkspace)}
    BY <1>1 DEF Becomes
  <2>2. Call("addWorkspace", NoWorkspace, NoWorkspace).type = "addWorkspace"  BY DEF Call
  <2> QED  BY <1>4, <2>1, <2>2
<1> QED  BY <1>3, <1>4

\* The row that was clicked is taken out of its list, whatever it is by now: of the
\* lists of outputs go the connection asked for and the one in that row (Disconnect).
LEMMA DisconnectState ==
    ASSUME NEW e \in Editors, NEW call, call.what \in Connection, call.row \in Nat,
           NEW D, call.what \in D,
           call.at = "outputs" /\ call.row \in DOMAIN e.outputs[call.what.from]
             => e.outputs[call.what.from][call.row] \in D
    PROVE  Shrunk(e, Disconnect(e, call), {}, D)
<1> DEFINE c == call.what
           dropped(list) == IF call.row \in DOMAIN list THEN RemoveAt(list, call.row) ELSE list
           i == dropped(e.inputs[c.to])
           o == dropped(e.outputs[c.from])
           a == [e EXCEPT !.inputs[c.to] = dropped(@)]
           b == [e EXCEPT !.outputs[c.from] = dropped(@)]
<1>1. /\ e.inputs[c.to] \in Seq(Connection) /\ e.outputs[c.from] \in Seq(Connection)
      /\ c.from \in Reactors /\ c.to \in Reactors /\ c \in Connection
      /\ DOMAIN e.outputs = Reactors /\ DOMAIN e.inputs = Reactors
  BY DEF Editors, Connection
<1>2. a = [e EXCEPT !.inputs[c.to] = i] /\ b = [e EXCEPT !.outputs[c.from] = o]
  BY <1>1 DEF Editors
<1>3. i \in Seq(Connection) /\ Range(i) \subseteq Range(e.inputs[c.to])
  BY <1>1, RemoveAtRange
<1>4. o \in Seq(Connection) /\ Range(o) \subseteq Range(e.outputs[c.from])
  BY <1>1, RemoveAtRange
<1>5. ASSUME call.at = "outputs"
      PROVE  \E d \in D \cap Connection : Range(e.outputs[c.from]) \ {d} \subseteq Range(o)
  <2>1. CASE call.row \in DOMAIN e.outputs[c.from]
    <3> DEFINE d == e.outputs[c.from][call.row]
    <3>1. d \in D  BY <1>5, <2>1
    <3>2. d \in Connection  BY <1>1, <2>1
    <3>3. Range(e.outputs[c.from]) \ {d} \subseteq Range(o)  BY <1>1, <2>1, RemoveAtRange
    <3> QED  BY <3>1, <3>2, <3>3
  <2>2. CASE call.row \notin DOMAIN e.outputs[c.from]
    <3>1. o = e.outputs[c.from]  BY <2>2
    <3> QED  BY <1>1, <3>1
  <2> QED  BY <2>1, <2>2
<1> HIDE DEF a, b, i, o, c
<1>6. ASSUME NEW x \in Editors
      PROVE  /\ Shrunk(x, Erase(ForgetOutput(x, c), c), {}, D)
             /\ Shrunk(x, Erase(ForgetInput(x, c), c), {}, D)
             /\ Shrunk(x, ForgetOutput(x, c), {}, D)
             /\ Shrunk(x, ForgetInput(x, c), {}, D)
             /\ Shrunk(x, Erase(x, c), {}, D)
  <2>1. {c} \subseteq D  BY DEF c
  <2>2. /\ Shrunk(x, Erase(ForgetOutput(x, c), c), {}, {c})
        /\ Shrunk(x, Erase(ForgetInput(x, c), c), {}, {})
    BY <1>1, EraseForgotten
  <2>3. Shrunk(x, ForgetOutput(x, c), {}, {c}) /\ Shrunk(x, ForgetInput(x, c), {}, {})
    BY <1>1, ForgetState
  <2>4. Shrunk(x, Erase(x, c), {}, D)  BY <1>1, EraseState, SameShrunk
  <2> QED  BY <2>1, <2>2, <2>3, <2>4, ShrunkMore
<1>7. CASE call.at = "inputs"
  <2>1. Shrunk(e, a, {}, {})  BY <1>1, <1>2, <1>3, ListShrinks
  <2>2. Shrunk(e, a, {}, D) /\ a \in Editors  BY <2>1, ShrunkMore DEF Shrunk
  <2>3. Shrunk(a, Erase(ForgetOutput(a, c), c), {}, D)  BY <1>6, <2>2
  <2>4. Disconnect(e, call) = Erase(ForgetOutput(a, c), c)  BY <1>7 DEF Disconnect, a, c
  <2> QED  BY <2>2, <2>3, <2>4, ShrunkTwice
<1>8. CASE call.at = "outputs"
  <2>1. PICK d \in D \cap Connection : Range(e.outputs[c.from]) \ {d} \subseteq Range(o)
    BY <1>5, <1>8
  <2>2. Shrunk(e, b, {}, {d})
    <3>1. d \in Connection /\ Range(e.outputs[c.from]) \ {d} \subseteq Range(o)  BY <2>1
    <3> QED  BY <1>1, <1>2, <1>4, <3>1, ListShrinks
  <2>3. {d} \subseteq D  BY <2>1
  <2>4. Shrunk(e, b, {}, D) /\ b \in Editors  BY <2>2, <2>3, ShrunkMore DEF Shrunk
  <2>5. Shrunk(b, Erase(ForgetInput(b, c), c), {}, D)  BY <1>6, <2>4
  <2>6. Disconnect(e, call) = Erase(ForgetInput(b, c), c)  BY <1>8 DEF Disconnect, b, c
  <2> QED  BY <2>4, <2>5, <2>6, ShrunkTwice
<1>9. CASE call.at = "line" /\ CrossWorkspace(e, c)
  <2> DEFINE x == ForgetOutput(e, c)
  <2>1. Shrunk(e, x, {}, D) /\ x \in Editors  BY <1>6 DEF Shrunk
  <2> HIDE DEF x
  <2>2. Shrunk(x, Erase(ForgetInput(x, c), c), {}, D)  BY <1>6, <2>1
  <2>3. Disconnect(e, call) = Erase(ForgetInput(x, c), c)  BY <1>9 DEF Disconnect, c, x
  <2> QED  BY <2>1, <2>2, <2>3, ShrunkTwice
<1>10. CASE ~(call.at = "inputs" \/ call.at = "outputs" \/ (call.at = "line" /\ CrossWorkspace(e, c)))
  <2> DEFINE x == Erase(e, c)
             y == ForgetOutput(x, c)
             z == ForgetInput(y, c)
  <2>1. Shrunk(e, x, {}, D) /\ x \in Editors  BY <1>6 DEF Shrunk
  <2> HIDE DEF x
  <2>2. Shrunk(x, y, {}, D) /\ y \in Editors  BY <1>6, <2>1 DEF Shrunk
  <2> HIDE DEF y
  <2>3. Shrunk(y, z, {}, D)  BY <1>6, <2>2
  <2> HIDE DEF z
  <2>4. Shrunk(e, z, {}, D)  BY <2>1, <2>2, <2>3, ShrunkTwice
  <2>5. Shrunk(e, Throw(e), {}, D)  BY ThrownState, SameShrunk DEF Throw
  <2>6. Disconnect(e, call) = IF ~Contains(e.outputs[c.from], c) THEN Throw(e) ELSE z
    BY <1>10 DEF Disconnect, c, x, y, z
  <2> QED  BY <2>4, <2>5, <2>6
<1> QED  BY <1>7, <1>8, <1>9, <1>10

\* A page that has lost something shows only what the engine had placed.
LEMMA ShrunkPlaced ==
    ASSUME NEW e, NEW f, NEW R, NEW C, MembersPlaced(e), Shrunk(e, f, R, C)
    PROVE  MembersPlaced(f)
BY DEF MembersPlaced, Shrunk

\* The engine serves requests, and the handlers of its answers take off the page only
\* what is gone.
LEMMA EngineAnswersOK ==
    ASSUME EditorInv, NEW call \in calls,
           \/ EngineServes(call) \/ CallFails(call)
           \/ ReactorAdded(call) \/ ReactorGot(call) \/ CopyAdded(call)
           \/ WorkspaceAdded(call) \/ ConnectionAdded(call) \/ ConnectionDeleted(call)
           \/ ReactorDeleted(call) \/ ReactorsDeleted(call) \/ WorkspaceDeleted(call)
    PROVE  EditorInv' /\ RemovedAreGone
<1> DEFINE what == call.what
<1>1. EngineOK /\ editor \in Editors /\ MembersPlaced(editor) /\ CallOK(call)
      /\ \A x \in calls : CallOK(x)
  BY DEF EditorInv
<1>2. CASE EngineServes(call)
  <2>1. EngineOK' /\ Later  BY <1>2, ServeLater
  <2>2. PICK x : calls' = (calls \ {call}) \cup {x} /\ CallOK(x)'  BY <1>2, ServeLater
  <2>3. \A y \in calls' : CallOK(y)'  BY <1>1, <2>1, <2>2, CallStays
  <2>4. editor' = editor  BY <1>2 DEF EngineServes
  <2>5. MembersPlaced(editor)'
    <3>1. \A w \in Workspaces : \A r \in Range(editor.members[w]) : Placed(r, w)'
      BY <2>1, MembersStay
    <3> QED  BY <2>4, <3>1 DEF MembersPlaced
  <2>6. RemovedAreGone  BY <2>4, NothingRemoved
  <2> QED  BY <1>1, <2>1, <2>3, <2>4, <2>5, <2>6 DEF EditorInv
<1>3. CASE CallFails(call)
  <2>1. UNCHANGED <<engine, editor>> /\ calls' \subseteq calls  BY <1>3 DEF CallFails
  <2>2. EngineOK' /\ Later  BY <1>1, <2>1 DEF EngineOK, Later, Exists
  <2>3. \A y \in calls' : CallOK(y)'  BY <1>1, <2>1, <2>2, CallStays
  <2>4. MembersPlaced(editor)'  BY <1>1, <2>1 DEF MembersPlaced, Placed
  <2>5. RemovedAreGone  BY <2>1, NothingRemoved
  <2> QED  BY <1>1, <2>1, <2>2, <2>3, <2>4, <2>5 DEF EditorInv
<1>4. ASSUME NEW f \in Editors, NEW made, Load(call, f, made),
             MembersPlaced(f), \A x \in made : CallOK(x),
             editor.registered \subseteq f.registered,
             Listed(editor.outputs) \subseteq Listed(f.outputs)
      PROVE  EditorInv' /\ RemovedAreGone
  <2>1. EditorInv' /\ editor'.registered = f.registered /\ editor'.outputs = f.outputs
    BY <1>4, LoadOK
  <2> QED  BY <1>4, <2>1, NothingRemoved
<1>5. CASE ReactorAdded(call)
  <2> DEFINE f == CreateReactor(editor, what, call.at)
  <2>1. Load(call, f, {}) /\ what \in Reactors /\ call.at \in Places /\ Placed(what, call.at)
    BY <1>1, <1>5 DEF ReactorAdded, Response, CallOK
  <2>2. /\ f \in Editors /\ editor.registered \subseteq f.registered /\ f.outputs = editor.outputs
        /\ \A v \in Workspaces : Range(f.members[v]) \subseteq
             Range(editor.members[v]) \cup {q \in {what} : v = call.at}
    <3> DEFINE w == call.at
               r == what
               e == editor
    <3>1. e \in Editors /\ r \in Reactors /\ w \in Places  BY <1>1, <2>1
    <3> HIDE DEF w, r, e
    <3>2. LET g == CreateReactor(e, r, w)
          IN  /\ g \in Editors /\ e.registered \subseteq g.registered /\ g.outputs = e.outputs
              /\ \A v \in Workspaces : Range(g.members[v]) \subseteq
                   Range(e.members[v]) \cup {q \in {r} : v = w}
      BY ONLY <3>1, ReactorState
    <3> QED  BY <3>2 DEF w, r, e
  <2> HIDE DEF f
  <2>3. MembersPlaced(f)  BY <1>1, <2>1, <2>2 DEF MembersPlaced
  <2> QED  BY <1>4, <2>1, <2>2, <2>3
<1>6. CASE CopyAdded(call)
  <2> DEFINE f == CreateReactorInConfiguredWorkspace(editor, what, call.at)
  <2>1. Load(call, f, {}) /\ what \in Reactors /\ call.at \in Places /\ Placed(what, call.at)
    BY <1>1, <1>6 DEF CopyAdded, Response, CallOK
  <2>2. /\ f \in Editors /\ editor.registered \subseteq f.registered /\ f.outputs = editor.outputs
        /\ \A v \in Workspaces : Range(f.members[v]) \subseteq
             Range(editor.members[v]) \cup {q \in {what} : v = call.at}
    <3> DEFINE w == call.at
               r == what
               e == editor
    <3>1. e \in Editors /\ r \in Reactors /\ w \in Places  BY <1>1, <2>1
    <3> HIDE DEF w, r, e
    <3>2. LET g == CreateReactorInConfiguredWorkspace(e, r, w)
          IN  /\ g \in Editors /\ e.registered \subseteq g.registered /\ g.outputs = e.outputs
              /\ \A v \in Workspaces : Range(g.members[v]) \subseteq
                   Range(e.members[v]) \cup {q \in {r} : v = w}
      BY ONLY <3>1, CopyState
    <3> QED  BY <3>2 DEF w, r, e
  <2> HIDE DEF f
  <2>3. MembersPlaced(f)  BY <1>1, <2>1, <2>2 DEF MembersPlaced
  <2> QED  BY <1>4, <2>1, <2>2, <2>3
<1>7. CASE ReactorGot(call)
  <2> DEFINE x == Call("addCopy", NoWorkspace, call.at)
  <2>1. Load(call, editor, {x}) /\ call.at \in Places
    BY <1>1, <1>7 DEF ReactorGot, Response, CallOK
  <2>2. CallOK(x)  BY <2>1, SentOK
  <2> HIDE DEF x
  <2> QED  BY <1>1, <1>4, <2>1, <2>2
<1>8. CASE WorkspaceAdded(call)
  <2> DEFINE f == AddWorkspace(editor, what)
  <2>1. Load(call, f, {}) /\ what \in Workspaces
    BY <1>1, <1>8 DEF WorkspaceAdded, Response, CallOK
  <2>2. f \in Editors /\ f.registered = editor.registered /\ f.members = editor.members
        /\ f.outputs = editor.outputs
    BY <1>1, <2>1, WorkspaceState
  <2> HIDE DEF f
  <2>3. MembersPlaced(f)  BY <1>1, <2>2 DEF MembersPlaced
  <2> QED  BY <1>4, <2>1, <2>2, <2>3
<1>9. CASE ConnectionAdded(call)
  <2> DEFINE f == CreateConnection(editor, what)
  <2>1. UNCHANGED engine /\ Becomes(f, calls \ {call}) /\ what \in Connection
    BY <1>1, <1>9 DEF ConnectionAdded, Response, CallOK
  <2>2. f \in Editors /\ f.registered = editor.registered /\ f.members = editor.members
        /\ Listed(editor.outputs) \subseteq Listed(f.outputs)
    BY <1>1, <2>1, ConnectionState
  <2> HIDE DEF f
  <2>3. MembersPlaced(f)  BY <1>1, <2>2 DEF MembersPlaced
  <2>4. EditorInv' /\ editor'.registered = f.registered /\ editor'.outputs = f.outputs
    BY <1>1, <2>1, <2>2, <2>3, BecomesOK DEF EditorInv
  <2> QED  BY <2>2, <2>4, NothingRemoved
<1>10. CASE ReactorsDeleted(call)
  <2> DEFINE x == Call("deleteWorkspace", what, NoWorkspace)
  <2>1. Load(call, editor, {x}) /\ what \in Workspaces
    BY <1>1, <1>10 DEF ReactorsDeleted, Response, CallOK
  <2>2. CallOK(x)  BY <2>1, SentOK
  <2> HIDE DEF x
  <2> QED  BY <1>1, <1>4, <2>1, <2>2
<1>11. ASSUME NEW f, NEW R, NEW C, Load(call, f, {}), Shrunk(editor, f, R, C),
              \A r \in R : ~Present(r),
              \A c \in C : c \in engine.connections => ~Present(c.from) \/ ~Present(c.to)
       PROVE  EditorInv' /\ RemovedAreGone
  <2>1. f \in Editors /\ MembersPlaced(f)  BY <1>1, <1>11, ShrunkPlaced DEF Shrunk
  <2>2. EditorInv' /\ editor'.registered = f.registered /\ editor'.outputs = f.outputs
    BY <1>11, <2>1, LoadOK
  <2>3. RemovedAreGone  BY <1>11, <2>2 DEF RemovedAreGone, Shrunk
  <2> QED  BY <2>2, <2>3
<1>12. \A r \in Reactors : ~Exists(r) => ~Present(r)
  BY <1>1, EditorAssumption DEF Exists, Present, EngineOK
<1>13. CASE ReactorDeleted(call)
  <2> DEFINE f == DeleteReactorFromUI(editor, what)
  <2>1. Load(call, f, {}) /\ what \in Reactors /\ ~Exists(what)
    BY <1>1, <1>13 DEF ReactorDeleted, Response, CallOK
  <2>2. Shrunk(editor, f, {what}, Into({what}))  BY <1>1, <2>1, DeletedReactorState
  <2> HIDE DEF f
  <2>3. ~Present(what)  BY <1>12, <2>1
  <2>4. \A c \in Into({what}) : ~Present(c.to)  BY <2>3 DEF Into
  <2> QED  BY <1>11, <2>1, <2>2, <2>3, <2>4
<1>14. CASE WorkspaceDeleted(call)
  <2> DEFINE f == DeleteWorkspaceFromUI(editor, what)
             R == Range(editor.members[what])
  <2>1. Load(call, f, {}) /\ what \in Workspaces /\ what \notin engine.workspaces
    BY <1>1, <1>14 DEF WorkspaceDeleted, Response, CallOK
  <2>2. Shrunk(editor, f, R, Into(R))  BY <1>1, <2>1, DeletedWorkspaceState
  <2> HIDE DEF f
  <2>3. \A r \in R : ~Present(r)
    <3>1. \A r \in R : Placed(r, what)  BY <1>1, <2>1 DEF MembersPlaced
    <3>2. NoWorkspace \notin engine.workspaces  BY <1>1, EditorAssumption DEF EngineOK
    <3> QED  BY <2>1, <3>1, <3>2 DEF Placed, Present
  <2> HIDE DEF R
  <2>4. \A c \in Into(R) : ~Present(c.to)  BY <2>3 DEF Into
  <2> QED  BY <1>11, <2>1, <2>2, <2>3, <2>4
<1>15. CASE ConnectionDeleted(call)
  <2> DEFINE f == Disconnect(editor, call)
  <2>1. /\ Load(call, f, {}) /\ what \in Connection /\ call.row \in Nat
        /\ what \notin engine.connections
        /\ call.type = "disconnect" /\ call.phase = "done"
    BY <1>1, <1>15 DEF ConnectionDeleted, Response, CallOK
  <2>2. CASE StaleRow(call)
    <3>1. Shrunk(editor, f, {}, Connection)
      <4>1. ASSUME call.row \in DOMAIN editor.outputs[what.from]
            PROVE  editor.outputs[what.from][call.row] \in Connection
        <5>1. editor.outputs[what.from] \in Seq(Connection)  BY <1>1, <2>1 DEF Editors, Connection
        <5> QED  BY <4>1, <5>1
      <4> QED  BY <1>1, <2>1, <4>1, DisconnectState
    <3> HIDE DEF f
    <3>2. f \in Editors /\ MembersPlaced(f)  BY <1>1, <3>1, ShrunkPlaced DEF Shrunk
    <3>3. EditorInv' /\ call \in calls \ calls'  BY <2>1, <3>2, LoadOK
    <3>4. RemovedAreGone  BY <2>2, <3>3 DEF RemovedAreGone
    <3> QED  BY <3>3, <3>4
  <2>3. CASE ~StaleRow(call)
    <3>1. Shrunk(editor, f, {}, {what})
      <4>1. ASSUME call.at = "outputs", call.row \in DOMAIN editor.outputs[what.from]
            PROVE  editor.outputs[what.from][call.row] \in {what}
        <5>1. editor.outputs[what.from] \in Seq(Connection)  BY <1>1, <2>1 DEF Editors, Connection
        <5>2. call.row # 0  BY <4>1, <5>1
        <5> QED  BY <2>3, <4>1, <5>2 DEF StaleRow
      <4>2. what \in {what}  OBVIOUS
      <4> QED  BY <1>1, <2>1, <4>1, <4>2, DisconnectState
    <3> HIDE DEF f
    <3> QED  BY <1>11, <2>1, <3>1
  <2> QED  BY <2>2, <2>3
<1> QED
  BY <1>2, <1>3, <1>5, <1>6, <1>7, <1>8, <1>9, <1>10, <1>13, <1>14, <1>15

\* A finite set as a sequence.
LEMMA SetInSequence ==
    ASSUME NEW S, IsFiniteSet(S)
    PROVE  SetToSeq(S) \in Seq(S)
<1> DEFINE n == Cardinality(S)
           items == SetToSeq(S)
<1>1. n \in Nat /\ ExistsBijection(1..n, S)  BY FS_CardinalityType
<1>2. \E f \in [1..n -> S] : IsInjective(f)
  BY <1>1 DEF ExistsBijection, Bijection, Injection
<1>3. items \in [1..n -> S]  BY <1>2 DEF SetToSeq
<1> HIDE DEF items, n
<1>4. items \in Seq(S)  BY <1>1, <1>3
<1> QED  BY <1>4 DEF items

\* The Reactors in a workspace are those that the engine has there.
AtHome ==
    {e \in Editors : \A w \in Workspaces : \A r \in Range(e.members[w]) :
        r \in Reactors /\ Topology.home[r] = w}

\* The page as it has been loaded (InitConfigured): each Reactor is in the workspace
\* that the engine has it in.
LEMMA LoadedEditor ==
    ASSUME EditorAssumption
    PROVE  InitConfigured \in AtHome
<1> DEFINE S == {r \in Reactors : Topology.home[r] # NoWorkspace}
           icon(e, r) == CreateReactorInConfiguredWorkspace(e, r, Topology.home[r])
           line(e, c) == CreateConnection(ShowWorkspace(e, e.workspace[c.from]), c)
           empty == [boxes |-> <<>>, shown |-> NewTab, box |-> NoWorkspace, surface |-> FALSE,
                  registered |-> {}, workspace |-> [r \in Reactors |-> NoWorkspace],
                  members |-> [w \in Workspaces |-> <<>>],
                  inputs |-> [r \in Reactors |-> <<>>],
                  outputs |-> [r \in Reactors |-> <<>>],
                  lines |-> {}, thrown |-> FALSE]
           ws == Topology.workspaces
           rs == SetToSeq(S)
           cs == Topology.connections
           tabs == FoldLeft(AddWorkspace, empty, ws)
           icons == FoldLeft(LAMBDA e, r : CreateReactorInConfiguredWorkspace(e, r, Topology.home[r]), tabs, rs)
           lines == FoldLeft(LAMBDA e, c : CreateConnection(ShowWorkspace(e, e.workspace[c.from]), c), icons, cs)
           last == ShowWorkspace(lines, Head(ws))
<1>1. InitConfigured = last  BY DEF InitConfigured
<1>2. /\ ws \in Seq(Workspaces) /\ cs \in Seq(Connection) /\ Head(ws) \in Places
      /\ \A r \in Reactors : Topology.home[r] \in Places
  <2>1. ws \in Seq(Workspaces) /\ ws # <<>> /\ cs \in Seq(Connection)
    BY DEF EditorAssumption, Connection
  <2>2. Range(ws) \subseteq Workspaces  BY <2>1 DEF Range
  <2>3. Topology.home \in [Reactors -> Range(ws) \cup {NoWorkspace}]  BY DEF EditorAssumption
  <2>4. \A r \in Reactors : Topology.home[r] \in Places  BY <2>2, <2>3 DEF Places
  <2>5. Head(ws) \in Workspaces  BY <2>1
  <2> QED  BY <2>1, <2>4, <2>5 DEF Places
<1>3. rs \in Seq(Reactors)
  <2>1. S \subseteq Reactors /\ IsFiniteSet(Reactors)  BY DEF EditorAssumption
  <2>2. IsFiniteSet(S)  BY <2>1, FS_Subset
  <2> HIDE DEF S
  <2>3. rs \in Seq(S)  BY <2>2, SetInSequence
  <2> HIDE DEF rs
  <2> QED  BY <2>1, <2>3
<1>4. empty \in AtHome
  <2>1. empty \in Editors
    <3>1. <<>> \in Seq(Workspaces) /\ <<>> \in Seq(Reactors) /\ <<>> \in Seq(Connection)
          /\ Range(<<>>) = {}
      BY DEF Range
    <3>2. ListsOK(empty)  BY <3>1 DEF ListsOK
    <3> QED  BY <3>1, <3>2 DEF Editors, Places
  <2>2. \A w \in Workspaces : Range(empty.members[w]) = {}  BY DEF Range
  <2> QED  BY <2>1, <2>2 DEF AtHome
<1> HIDE DEF empty, ws, rs, cs
<1>5. \A e \in AtHome : e \in Editors  BY DEF AtHome
<1>6. ASSUME NEW e \in Editors, NEW f \in Editors, f.members = e.members, e \in AtHome
      PROVE  f \in AtHome
  BY <1>6 DEF AtHome
<1>7. ASSUME NEW e \in Editors, NEW w \in Workspaces
      PROVE  AddWorkspace(e, w) \in Editors /\ (e \in AtHome => AddWorkspace(e, w) \in AtHome)
  BY <1>6, WorkspaceState
<1>8. ASSUME NEW e \in Editors, NEW r \in Reactors
      PROVE  icon(e, r) \in Editors /\ (e \in AtHome => icon(e, r) \in AtHome)
  <2> DEFINE w == Topology.home[r]
             f == CreateReactorInConfiguredWorkspace(e, r, w)
  <2>1. w \in Places  BY <1>2
  <2>2. f \in Editors /\ \A v \in Workspaces : Range(f.members[v]) \subseteq
                    Range(e.members[v]) \cup {q \in {r} : v = w}
    <3> HIDE DEF w
    <3>1. e \in Editors /\ r \in Reactors /\ w \in Places  BY <2>1
    <3>2. LET g == CreateReactorInConfiguredWorkspace(e, r, w)
          IN  /\ g \in Editors /\ e.registered \subseteq g.registered
              /\ g.inputs = e.inputs /\ g.outputs = e.outputs
              /\ \A v \in Workspaces : Range(g.members[v]) \subseteq
                   Range(e.members[v]) \cup {q \in {r} : v = w}
      BY ONLY <3>1, CopyState
    <3> QED  BY <3>2
  <2> HIDE DEF f
  <2>3. ASSUME e \in AtHome PROVE f \in AtHome  BY <2>2, <2>3 DEF AtHome
  <2> QED  BY <2>2, <2>3 DEF f
<1>9. ASSUME NEW e \in Editors, NEW c \in Connection
      PROVE  line(e, c) \in Editors /\ (e \in AtHome => line(e, c) \in AtHome)
  <2> DEFINE t == ShowWorkspace(e, e.workspace[c.from])
             f == CreateConnection(t, c)
  <2>1. e.workspace[c.from] \in Places  BY DEF Editors, Connection
  <2>2. t \in Editors /\ SameRecords(e, t)  BY <2>1, ShownState
  <2> HIDE DEF t
  <2>3. f \in Editors /\ f.members = t.members  BY <2>2, ConnectionState
  <2> HIDE DEF f
  <2>4. f.members = e.members  BY <2>2, <2>3 DEF SameRecords
  <2> QED  BY <1>6, <2>3, <2>4 DEF f, t
<1>10. tabs \in AtHome
  <2> DEFINE J == [k \in 0..Len(ws) |-> AtHome]
  <2>1. Len(ws) \in Nat /\ \A k \in 1..Len(ws) : ws[k] \in Workspaces  BY <1>2
  <2>2. /\ empty \in J[0] /\ J[Len(ws)] = AtHome
        /\ \A k \in 1..Len(ws) : \A e \in J[k - 1] : AddWorkspace(e, ws[k]) \in J[k]
    BY <1>4, <1>5, <1>7, <2>1
  <2> HIDE DEF J
  <2>3. FoldLeft(AddWorkspace, empty, ws) \in J[Len(ws)]
    BY <1>2, <1>4, <1>5, <1>7, <2>2, FoldWorkspaces
  <2> QED  BY <2>2, <2>3
<1> HIDE DEF tabs
<1>11. icons \in AtHome
  <2> DEFINE J == [k \in 0..Len(rs) |-> AtHome]
  <2>1. Len(rs) \in Nat /\ \A k \in 1..Len(rs) : rs[k] \in Reactors  BY <1>3
  <2>2. /\ tabs \in J[0] /\ J[Len(rs)] = AtHome
        /\ \A k \in 1..Len(rs) : \A e \in J[k - 1] :
             CreateReactorInConfiguredWorkspace(e, rs[k], Topology.home[rs[k]]) \in J[k]
    BY <1>10, <1>5, <1>8, <2>1
  <2> HIDE DEF J
  <2>3. \A e \in Editors, r \in Reactors :
          CreateReactorInConfiguredWorkspace(e, r, Topology.home[r]) \in Editors
    BY <1>8
  <2>4. FoldLeft(LAMBDA e, r : CreateReactorInConfiguredWorkspace(e, r, Topology.home[r]), tabs, rs)
          \in J[Len(rs)]
    BY <1>3, <1>5, <1>10, <2>2, <2>3, FoldIcons
  <2> QED  BY <2>2, <2>4
<1> HIDE DEF icons
<1>12. lines \in AtHome
  <2> DEFINE J == [k \in 0..Len(cs) |-> AtHome]
  <2>1. Len(cs) \in Nat /\ \A k \in 1..Len(cs) : cs[k] \in Connection  BY <1>2
  <2>2. /\ icons \in J[0] /\ J[Len(cs)] = AtHome
        /\ \A k \in 1..Len(cs) : \A e \in J[k - 1] :
             CreateConnection(ShowWorkspace(e, e.workspace[cs[k].from]), cs[k]) \in J[k]
    BY <1>11, <1>5, <1>9, <2>1
  <2> HIDE DEF J
  <2>3. \A e \in Editors, c \in Connection :
          CreateConnection(ShowWorkspace(e, e.workspace[c.from]), c) \in Editors
    BY <1>9
  <2>4. FoldLeft(LAMBDA e, c : CreateConnection(ShowWorkspace(e, e.workspace[c.from]), c), icons, cs)
          \in J[Len(cs)]
    BY <1>2, <1>5, <1>11, <2>2, <2>3, FoldLines
  <2> QED  BY <2>2, <2>4
<1> HIDE DEF lines
<1>13. last \in AtHome
  <2>1. last \in Editors /\ SameRecords(lines, last)  BY <1>2, <1>5, <1>12, ShownState
  <2> HIDE DEF last
  <2>2. last.members = lines.members  BY <2>1 DEF SameRecords
  <2> QED  BY <1>5, <1>6, <1>12, <2>1, <2>2
<1> QED  BY <1>1, <1>13

\* The invariant holds when the page has been loaded.
LEMMA EditorStarts ==
    ASSUME EditorInit
    PROVE  EditorInv
<1>1. EditorAssumption  BY EditorAssumption
<1> DEFINE ws == Range(Topology.workspaces)
           cs == Range(Topology.connections)
           named == ws \cup {r \in Reactors : Topology.home[r] # NoWorkspace}
<1>2. /\ ws \subseteq Workspaces /\ Topology.home \in [Reactors -> Places]
      /\ cs \subseteq Connection /\ Len(Topology.connections) \in Nat
      /\ \A c \in cs : c.id <= Len(Topology.connections)
  <2>1. Topology.workspaces \in Seq(Workspaces) /\ Topology.connections \in Seq(Connection)
    BY <1>1 DEF EditorAssumption, Connection
  <2>2. ws \subseteq Workspaces /\ cs \subseteq Connection  BY <2>1 DEF Range
  <2>3. Topology.home \in [Reactors -> Places]  BY <1>1, <2>2 DEF EditorAssumption, Places
  <2>4. Len(Topology.connections) \in Nat /\ DOMAIN Topology.connections = 1..Len(Topology.connections)
    BY <2>1
  <2>5. ASSUME NEW c \in cs PROVE c.id <= Len(Topology.connections)
    <3>1. PICK i \in DOMAIN Topology.connections : c = Topology.connections[i]  BY DEF Range
    <3>2. c.id = i  BY <1>1, <3>1 DEF EditorAssumption
    <3> QED  BY <2>4, <3>1, <3>2
  <2> QED  BY <2>2, <2>3, <2>4, <2>5
<1>3. /\ engine.workspaces = ws /\ engine.home = Topology.home /\ engine.connections = cs
      /\ engine.named = named /\ engine.made = Len(Topology.connections)
      /\ engine = [workspaces |-> ws, home |-> Topology.home, connections |-> cs,
                   named |-> named, made |-> Len(Topology.connections)]
  BY DEF EditorInit
<1>4. named \subseteq Workspaces \cup Reactors /\ ws \subseteq named
      /\ \A r \in Reactors : Topology.home[r] # NoWorkspace => r \in named
  BY <1>2
<1> HIDE DEF ws, cs, named
<1>5. EngineOK  BY <1>2, <1>3, <1>4 DEF EngineOK, Exists
<1>6. editor \in AtHome  BY <1>1, LoadedEditor DEF EditorInit
<1>7. MembersPlaced(editor)
  <2>1. NoWorkspace \notin Workspaces  BY <1>1 DEF EditorAssumption
  <2> QED  BY <1>3, <1>4, <1>6, <2>1 DEF MembersPlaced, Placed, AtHome
<1>8. calls = {}  BY DEF EditorInit
<1> QED  BY <1>5, <1>6, <1>7, <1>8 DEF EditorInv, AtHome

\* Every step keeps the invariant and takes off the page only what is gone.
LEMMA EditorSteps ==
    ASSUME EditorInv, [Next]_interfaceVars
    PROVE  EditorInv' /\ (editorVars' = editorVars \/ RemovedAreGone)
<1>1. CASE EditorNext
  BY <1>1, UserActsOK, EngineAnswersOK DEF EditorNext, EngineAnswers
<1>2. CASE UNCHANGED editorVars
  <2>1. UNCHANGED <<engine, editor, calls>>  BY <1>2 DEF editorVars
  <2> QED  BY <1>2, <2>1 DEF EditorInv, EngineOK, MembersPlaced, CallOK, Placed, Exists
<1> QED  BY <1>1, <1>2 DEF Next, interfaceVars

(***************************************************************************)
(* However hasty the user, and whatever becomes of the requests, the page  *)
(* takes off only what the engine no longer has: the handlers of the       *)
(* answers to deletions (reactors.js 382-404, 1045-1049 and 1322-1325)     *)
(* remove what the engine has removed before, and what is removed there    *)
(* does not come back.                                                     *)
(***************************************************************************)
THEOREM RemovedWereGone == Spec => GoneBeforeRemoved
<1>1. Init => EditorInv  BY EditorStarts DEF Init
<1>2. EditorInv /\ [Next]_interfaceVars => EditorInv'  BY EditorSteps
<1>3. EditorInv /\ [Next]_interfaceVars => [RemovedAreGone]_editorVars
  BY EditorSteps
<1>4. [][RemovedAreGone]_editorVars => GoneBeforeRemoved
  BY DEF GoneBeforeRemoved, RemovedAreGone
<1> QED  BY <1>1, <1>2, <1>3, <1>4, PTL DEF Spec

--------------------------------------------------------------------------------
(***************************************************************************)
(* The page agrees with itself: what its operations do to a page that      *)
(* does.                                                                   *)
(***************************************************************************)
\* The Reactors that a connection is between.
Ends(c) == {c.from, c.to}

\* The connections of C that have nothing to do with the Reactors of R.
Apart(C, R) == {c \in C : Ends(c) \cap R = {}}

\* The lines of the connections of C, in the workspaces of both ends.
Lines(e, C) == {<<e.workspace[c.from], c>> : c \in C} \cup {<<e.workspace[c.to], c>> : c \in C}

\* The page has the Reactors of Q in its workspaces and the connections of C between
\* them, of which those in L have their lists.
Holds(e, Q, L, C) ==
    /\ IsInjective(e.boxes)
    /\ \A w \in Workspaces :
         IsInjective(e.members[w]) /\ Range(e.members[w]) = {r \in Q : e.workspace[r] = w}
    /\ \A r \in Q : e.workspace[r] \in Range(e.boxes)
    /\ \A r \in L :
         /\ IsInjective(e.inputs[r]) /\ Range(e.inputs[r]) = {c \in C : c.to = r}
         /\ IsInjective(e.outputs[r]) /\ Range(e.outputs[r]) = {c \in C : c.from = r}
    /\ \A c \in C : c \in Connection /\ Ends(c) \subseteq Q /\ c.from # c.to
    /\ e.lines = Lines(e, C)

\* The page agrees with itself: its connections are those of C.
Agree(e, C) == Holds(e, e.registered, e.registered, C)

\* The page shows a workspace that it has.
OnTab(e) == ~e.thrown /\ e.shown = e.box /\ e.box \in Range(e.boxes)

\* A Reactor without connections.
NoLists(e, r) == e.inputs[r] = <<>> /\ e.outputs[r] = <<>>

\* A Reactor of the connection is in the workspace that is shown.
Near(e, c) == e.box \in {e.workspace[c.from], e.workspace[c.to]}

\* What the user sees is the same too, but for the lines.
SameView(e, f) == SameRecords(e, f) /\ f.shown = e.shown /\ f.box = e.box /\ f.thrown = e.thrown

--------------------------------------------------------------------------------
\* A new element at the end of a list without repetitions.
LEMMA AppendNew ==
    ASSUME NEW S, NEW s \in Seq(S), IsInjective(s), NEW e \in S, e \notin Range(s)
    PROVE  /\ Append(s, e) \in Seq(S) /\ IsInjective(Append(s, e))
           /\ Range(Append(s, e)) = Range(s) \cup {e}
<1> DEFINE u == Append(s, e)
<1>1. PICK n \in Nat : n = Len(s)  OBVIOUS
<1>2. /\ u \in Seq(S) /\ DOMAIN s = 1..n /\ DOMAIN u = 1..(n + 1)
      /\ u[n + 1] = e /\ \A i \in 1..n : u[i] = s[i]
  BY <1>1
<1>3. Range(u) = Range(s) \cup {e}  BY AppendRange
<1> HIDE DEF u
<1>4. \A i, j \in 1..n : s[i] = s[j] => i = j  BY <1>2 DEF IsInjective
<1>5. \A i \in 1..n : s[i] # e  BY <1>2 DEF Range
<1>6. ASSUME NEW i \in 1..(n + 1), NEW j \in 1..(n + 1), u[i] = u[j] PROVE i = j
  BY <1>2, <1>4, <1>5, <1>6
<1>7. IsInjective(u)  BY <1>2, <1>6 DEF IsInjective
<1> QED  BY <1>2, <1>3, <1>7 DEF u

\* The element at a place taken out of a list without repetitions.
LEMMA RemovePlace ==
    ASSUME NEW S, NEW s \in Seq(S), IsInjective(s), NEW i \in DOMAIN s
    PROVE  /\ RemoveAt(s, i) \in Seq(S) /\ IsInjective(RemoveAt(s, i))
           /\ Range(RemoveAt(s, i)) = Range(s) \ {s[i]}
<1> DEFINE u == RemoveAt(s, i)
<1>1. PICK n \in Nat : n = Len(s)  OBVIOUS
<1>2. DOMAIN s = 1..n /\ i \in 1..n  BY <1>1
<1>3. /\ u \in Seq(S) /\ Len(u) = n - 1
      /\ \A j \in 1..Len(u) : u[j] = IF j < i THEN s[j] ELSE s[j + 1]
  BY <1>1, <1>2, RemoveAtEntries
<1>8. Range(s) \ {s[i]} \subseteq Range(u)  BY RemoveAtRange
<1> HIDE DEF u
<1>4. DOMAIN u = 1..(n - 1) /\ \A j \in 1..(n - 1) : u[j] = IF j < i THEN s[j] ELSE s[j + 1]
  BY <1>3
<1>5. \A j, k \in 1..n : s[j] = s[k] => j = k  BY <1>2 DEF IsInjective
<1>6. ASSUME NEW j \in 1..(n - 1), NEW k \in 1..(n - 1), u[j] = u[k] PROVE j = k
  BY <1>2, <1>4, <1>5, <1>6
<1>7. ASSUME NEW j \in 1..(n - 1) PROVE u[j] \in Range(s) \ {s[i]}
  <2>1. PICK k \in 1..n : k # i /\ u[j] = s[k]
    <3>1. CASE j < i  BY <1>2, <1>4, <3>1
    <3>2. CASE ~(j < i)
      <4>1. j + 1 \in 1..n /\ j + 1 # i  BY <1>2, <3>2
      <4> QED  BY <1>4, <3>2, <4>1
    <3> QED  BY <3>1, <3>2
  <2> QED  BY <1>2, <1>5, <2>1 DEF Range
<1>9. IsInjective(u)  BY <1>4, <1>6 DEF IsInjective
<1>10. Range(u) \subseteq Range(s) \ {s[i]}  BY <1>4, <1>7 DEF Range
<1> QED  BY <1>3, <1>8, <1>9, <1>10 DEF u

\* RemoveFound, in terms of Range.
LEMMA RemoveOne ==
    ASSUME NEW S, NEW s \in Seq(S), IsInjective(s), NEW e
    PROVE  /\ RemoveFirst(s, e) \in Seq(S) /\ IsInjective(RemoveFirst(s, e))
           /\ Range(RemoveFirst(s, e)) = Range(s) \ {e}
           /\ Contains(s, e) <=> e \in Range(s)
<1>1. \A t : ToSet(t) = Range(t)  BY DEF ToSet, Range
<1> QED  BY <1>1, RemoveFound, ContainsIn

--------------------------------------------------------------------------------
\* A tab that is there is selected.
LEMMA TabSelected ==
    ASSUME NEW e \in Editors, NEW w \in Range(e.boxes), ~e.thrown, e.shown \in {NewTab, e.box}
    PROVE  LET f == SelectTab(e, w)
           IN  /\ f \in Editors /\ SameRecords(e, f) /\ f.lines = e.lines
               /\ f.shown = w /\ f.box = w /\ ~f.thrown /\ (e.surface => f.surface)
<1> DEFINE f == SelectTab(e, w)
<1>1. e.boxes \in Seq(Workspaces)  BY DEF Editors
<1>2. w \in Workspaces /\ Contains(e.boxes, w)
  <2>1. w \in Workspaces  BY <1>1 DEF Range
  <2>2. w \in ToSet(e.boxes)  BY DEF Range, ToSet
  <2> QED  BY <1>1, <2>1, <2>2, ContainsIn
<1>3. w \in Places \cup {NewTab} /\ w # NewTab  BY <1>2, EditorAssumption DEF Places
<1>4. f \in Editors /\ SameRecords(e, f) /\ f.lines = e.lines  BY <1>3, TabState
<1>5. CASE e.shown = w  BY <1>3, <1>4, <1>5 DEF SelectTab
<1>6. CASE e.shown # w
  <2> DEFINE x == ~Contains(e.boxes, w)
  <2>1. x = FALSE  BY <1>2
  <2>2. f = [e EXCEPT !.shown = w, !.box = w, !.surface = TRUE, !.thrown = x]
    BY <1>3, <1>6 DEF SelectTab, Selected
  <2> HIDE DEF x
  <2>3. f.shown = w /\ f.box = w /\ f.thrown = x /\ f.surface  BY <2>2 DEF Editors
  <2> QED  BY <1>4, <2>1, <2>3
<1> QED  BY <1>5, <1>6

\* When the page is loaded, there is a surface then (ShowWorkspace).
LEMMA ShownSelected ==
    ASSUME NEW e \in Editors, NEW w \in Range(e.boxes), ~e.thrown, e.shown \in {NewTab, e.box}
    PROVE  LET f == ShowWorkspace(e, w)
           IN  /\ f \in Editors /\ SameRecords(e, f) /\ f.lines = e.lines
               /\ f.shown = w /\ f.box = w /\ ~f.thrown /\ f.surface
<1> DEFINE d == [e EXCEPT !.surface = TRUE]
<1>1. /\ d \in Editors /\ SameRecords(e, d) /\ d.lines = e.lines /\ d.shown = e.shown
      /\ d.box = e.box /\ d.thrown = e.thrown /\ d.surface = TRUE
  BY SurfaceState
<1>2. ShowWorkspace(e, w) = SelectTab(d, w)  BY DEF ShowWorkspace
<1> HIDE DEF d
<1>3. w \in Range(d.boxes) /\ ~d.thrown /\ d.shown \in {NewTab, d.box}  BY <1>1 DEF SameRecords
<1>4. LET f == SelectTab(d, w)
      IN  /\ f \in Editors /\ SameRecords(d, f) /\ f.lines = d.lines
          /\ f.shown = w /\ f.box = w /\ ~f.thrown /\ (d.surface => f.surface)
  BY ONLY <1>1, <1>3, TabSelected
<1> QED  BY <1>1, <1>2, <1>4 DEF SameRecords

\* A line is removed from a workspace other than the one that is shown, or from that.
LEMMA ProxyGone ==
    ASSUME NEW e \in Editors, NEW c \in Connection, OnTab(e),
           NEW w \in Range(e.boxes), <<w, c>> \in e.lines
    PROVE  LET f == DestroyProxy(e, w, c)
           IN  f \in Editors /\ SameView(e, f) /\ f.lines = e.lines \ {<<w, c>>}
<1> DEFINE a == SelectTab(e, w)
           b == RemoveLine(a, c)
           d == SelectTab(b, e.box)
<1>1. a \in Editors /\ SameRecords(e, a) /\ a.lines = e.lines /\ a.box = w /\ a.shown = w /\ ~a.thrown
  BY TabSelected DEF OnTab
<1> HIDE DEF a
<1>2. b = [a EXCEPT !.lines = @ \ {<<w, c>>}]  BY <1>1 DEF RemoveLine
<1>3. b \in Editors  BY <1>1, LineState
<1>4. /\ SameRecords(a, b) /\ b.lines = e.lines \ {<<w, c>>}
      /\ b.box = w /\ b.shown = w /\ ~b.thrown
  BY <1>1, <1>2 DEF Editors, SameRecords
<1> HIDE DEF b
<1>5. e.box \in Range(b.boxes)  BY <1>1, <1>4 DEF OnTab, SameRecords
<1>6. d \in Editors /\ SameRecords(b, d) /\ d.lines = b.lines
      /\ d.shown = e.box /\ d.box = e.box /\ ~d.thrown
  BY <1>3, <1>4, <1>5, TabSelected
<1> HIDE DEF d
<1>7. SameRecords(e, d)  BY <1>1, <1>4, <1>6 DEF SameRecords
<1>8. DestroyProxy(e, w, c) = d  BY DEF DestroyProxy, a, b, d
<1>9. ~e.thrown /\ e.thrown \in BOOLEAN /\ d.thrown \in BOOLEAN /\ e.shown = e.box
  BY <1>6 DEF OnTab, Editors
<1> QED  BY <1>4, <1>6, <1>7, <1>8, <1>9 DEF SameView

\* A connection is erased where it is drawn.
LEMMA LinesGone ==
    ASSUME NEW e \in Editors, NEW c \in Connection, OnTab(e), Near(e, c),
           {e.workspace[c.from], e.workspace[c.to]} \subseteq Range(e.boxes),
           Lines(e, {c}) \subseteq e.lines
    PROVE  LET f == Erase(e, c)
           IN  f \in Editors /\ SameView(e, f) /\ f.lines = e.lines \ Lines(e, {c})
<1> DEFINE w == e.workspace[c.from]
           v == e.workspace[c.to]
           a == DestroyProxy(e, w, c)
           b == DestroyProxy(a, v, c)
<1>1. Lines(e, {c}) = {<<w, c>>, <<v, c>>}  BY DEF Lines
<1>2. w \in Range(e.boxes) /\ v \in Range(e.boxes) /\ <<w, c>> \in e.lines /\ <<v, c>> \in e.lines
  BY <1>1
<1>3. e.box \in {w, v}  BY DEF Near
<1>4. CrossWorkspace(e, c) <=> w # v  BY DEF CrossWorkspace
<1>9. ~e.thrown  BY DEF OnTab
<1> HIDE DEF w, v
<1>5. CASE w # v
  <2>1. a \in Editors /\ SameView(e, a) /\ a.lines = e.lines \ {<<w, c>>}  BY <1>2, ProxyGone
  <2> HIDE DEF a
  <2>2. OnTab(a) /\ v \in Range(a.boxes) /\ <<v, c>> \in a.lines /\ ~a.thrown
    BY <1>2, <1>5, <2>1 DEF SameView, SameRecords, OnTab
  <2>3. b \in Editors /\ SameView(a, b) /\ b.lines = a.lines \ {<<v, c>>}  BY <2>1, <2>2, ProxyGone
  <2> HIDE DEF b
  <2>4. e.workspace[c.to] = v  BY DEF v
  <2>5. Erase(e, c) = b  BY <1>4, <1>5, <1>9, <2>2 DEF Erase, a, b, w, v
  <2>6. SameView(e, b)  BY <2>1, <2>3 DEF SameView, SameRecords
  <2>7. b.lines = e.lines \ Lines(e, {c})  BY <1>1, <2>1, <2>3
  <2> QED  BY <2>3, <2>5, <2>6, <2>7
<1>6. CASE w = v
  <2> DEFINE f == [e EXCEPT !.lines = @ \ {<<e.box, c>>}]
  <2>1. Erase(e, c) = f  BY <1>2, <1>3, <1>4, <1>6, <1>9 DEF Erase, RemoveLine
  <2>2. Erase(e, c) \in Editors  BY EraseState
  <2>3. SameView(e, f) /\ f.lines = e.lines \ {<<e.box, c>>}  BY DEF Editors, SameView, SameRecords
  <2> QED  BY <1>1, <1>3, <1>6, <2>1, <2>2, <2>3
<1> QED  BY <1>5, <1>6

\* Nothing is changed but the lists of connections and what is drawn.
Frame(e, f) ==
    /\ f.boxes = e.boxes /\ f.shown = e.shown /\ f.box = e.box /\ f.thrown = e.thrown
    /\ f.registered = e.registered /\ f.workspace = e.workspace /\ f.members = e.members

\* The lines of a connection more, or less.
LEMMA LinesOf ==
    ASSUME NEW e, NEW C, NEW c
    PROVE  /\ Lines(e, C \ {c}) = Lines(e, C) \ Lines(e, {c})
           /\ Lines(e, C \cup {c}) = Lines(e, C) \cup Lines(e, {c})
           /\ c \in C => Lines(e, {c}) \subseteq Lines(e, C)
<1>2. \A w, d : <<w, d>> \in Lines(e, C) <=>
                  d \in C /\ (w = e.workspace[d.from] \/ w = e.workspace[d.to])
  BY DEF Lines
<1>3. \A w, d : <<w, d>> \in Lines(e, {c}) <=>
                  d = c /\ (w = e.workspace[d.from] \/ w = e.workspace[d.to])
  BY DEF Lines
<1>4. \A l \in Lines(e, C \ {c}) : l \in Lines(e, C) /\ l \notin Lines(e, {c})
  BY DEF Lines
<1>5. \A l \in Lines(e, C) \ Lines(e, {c}) : l \in Lines(e, C \ {c})  BY DEF Lines
<1>6. Lines(e, C \ {c}) = Lines(e, C) \ Lines(e, {c})  BY <1>4, <1>5
<1>7. Lines(e, C \cup {c}) = Lines(e, C) \cup Lines(e, {c})  BY DEF Lines
<1>8. c \in C => Lines(e, {c}) \subseteq Lines(e, C)  BY DEF Lines
<1> QED  BY <1>6, <1>7, <1>8

\* A connection is taken out of the list of its source, or of its sink, and no more
\* (ForgetOutput and ForgetInput).
LEMMA ForgetExactly ==
    ASSUME NEW e \in Editors, NEW c \in Connection, ~e.thrown
    PROVE  /\ LET f == ForgetOutput(e, c)
              IN  /\ f \in Editors /\ Frame(e, f) /\ f.lines = e.lines /\ f.inputs = e.inputs
                  /\ f.outputs = [e.outputs EXCEPT ![c.from] = RemoveFirst(e.outputs[c.from], c)]
           /\ LET f == ForgetInput(e, c)
              IN  /\ f \in Editors /\ Frame(e, f) /\ f.lines = e.lines /\ f.outputs = e.outputs
                  /\ f.inputs = [e.inputs EXCEPT ![c.to] = RemoveFirst(e.inputs[c.to], c)]
<1>1. ForgetOutput(e, c) \in Editors /\ ForgetInput(e, c) \in Editors  BY ForgetState DEF Shrunk
<1> DEFINE o == [e.outputs EXCEPT ![c.from] = RemoveFirst(e.outputs[c.from], c)]
           i == [e.inputs EXCEPT ![c.to] = RemoveFirst(e.inputs[c.to], c)]
<1>2. ForgetOutput(e, c) = [e EXCEPT !.outputs = o] /\ ForgetInput(e, c) = [e EXCEPT !.inputs = i]
  BY DEF ForgetOutput, ForgetInput, Editors
<1> HIDE DEF o, i
<1>3. LET f == [e EXCEPT !.outputs = o]
      IN  Frame(e, f) /\ f.lines = e.lines /\ f.inputs = e.inputs /\ f.outputs = o
  BY DEF Editors, Frame
<1>4. LET f == [e EXCEPT !.inputs = i]
      IN  Frame(e, f) /\ f.lines = e.lines /\ f.outputs = e.outputs /\ f.inputs = i
  BY DEF Editors, Frame
<1> QED  BY <1>1, <1>2, <1>3, <1>4 DEF o, i

\* A connection that the page has is erased, whatever has become of its lists.
LEMMA EraseExactly ==
    ASSUME NEW e \in Editors, NEW x \in Editors, Frame(e, x), x.lines = e.lines,
           NEW Q, NEW L, NEW C, Holds(e, Q, L, C), NEW c \in C, OnTab(e), Near(e, c)
    PROVE  LET f == Erase(x, c)
           IN  /\ f \in Editors /\ Frame(e, f) /\ f.inputs = x.inputs /\ f.outputs = x.outputs
               /\ f.lines = e.lines \ Lines(e, {c})
<1> DEFINE f == Erase(x, c)
<1>1. c \in Connection /\ Ends(c) \subseteq Q  BY DEF Holds
<1>2. OnTab(x) /\ Near(x, c)  BY DEF Frame, OnTab, Near
<1>3. {e.workspace[c.from], e.workspace[c.to]} \subseteq Range(e.boxes)  BY <1>1 DEF Holds, Ends
<1>4. {x.workspace[c.from], x.workspace[c.to]} \subseteq Range(x.boxes)  BY <1>3 DEF Frame
<1>5. Lines(x, {c}) = Lines(e, {c}) /\ Lines(e, {c}) \subseteq e.lines
  <2>1. x.workspace = e.workspace /\ e.lines = Lines(e, C)  BY DEF Frame, Holds
  <2>2. Lines(x, {c}) = Lines(e, {c})  BY <2>1 DEF Lines
  <2>3. Lines(e, {c}) \subseteq Lines(e, C)  BY DEF Lines
  <2> QED  BY <2>1, <2>2, <2>3
<1>6. f \in Editors /\ SameView(x, f) /\ f.lines = x.lines \ Lines(x, {c})
  BY <1>1, <1>2, <1>4, <1>5, LinesGone
<1> HIDE DEF f
<1>7. Frame(e, f) /\ f.inputs = x.inputs /\ f.outputs = x.outputs
  BY <1>6 DEF SameView, SameRecords, Frame
<1> QED  BY <1>5, <1>6, <1>7 DEF f

\* The page without a connection that it had.
LEMMA HoldsWithout ==
    ASSUME NEW e, NEW f, NEW Q, NEW L, NEW C, Holds(e, Q, L, C), NEW c \in C,
           Frame(e, f), f.lines = e.lines \ Lines(e, {c}),
           \A r \in L \ {c.from} : f.outputs[r] = e.outputs[r],
           \A r \in L \ {c.to} : f.inputs[r] = e.inputs[r],
           c.from \in L => /\ IsInjective(f.outputs[c.from])
                           /\ Range(f.outputs[c.from]) = Range(e.outputs[c.from]) \ {c},
           c.to \in L => /\ IsInjective(f.inputs[c.to])
                         /\ Range(f.inputs[c.to]) = Range(e.inputs[c.to]) \ {c}
    PROVE  Holds(f, Q, L, C \ {c})
<1> DEFINE D == C \ {c}
<1>1. /\ IsInjective(f.boxes)
      /\ \A w \in Workspaces :
           IsInjective(f.members[w]) /\ Range(f.members[w]) = {r \in Q : f.workspace[r] = w}
      /\ \A r \in Q : f.workspace[r] \in Range(f.boxes)
  BY DEF Holds, Frame
<1>2. ASSUME NEW r \in L
      PROVE  /\ IsInjective(f.inputs[r]) /\ Range(f.inputs[r]) = {d \in D : d.to = r}
             /\ IsInjective(f.outputs[r]) /\ Range(f.outputs[r]) = {d \in D : d.from = r}
  <2>1. /\ IsInjective(e.inputs[r]) /\ Range(e.inputs[r]) = {d \in C : d.to = r}
        /\ IsInjective(e.outputs[r]) /\ Range(e.outputs[r]) = {d \in C : d.from = r}
    BY DEF Holds
  <2>2. IsInjective(f.inputs[r]) /\ Range(f.inputs[r]) = {d \in D : d.to = r}
    <3>1. CASE r = c.to  BY <2>1, <3>1
    <3>2. CASE r # c.to  BY <2>1, <3>2
    <3> QED  BY <3>1, <3>2
  <2>3. IsInjective(f.outputs[r]) /\ Range(f.outputs[r]) = {d \in D : d.from = r}
    <3>1. CASE r = c.from  BY <2>1, <3>1
    <3>2. CASE r # c.from  BY <2>1, <3>2
    <3> QED  BY <3>1, <3>2
  <2> QED  BY <2>2, <2>3
<1>3. \A d \in D : d \in Connection /\ Ends(d) \subseteq Q /\ d.from # d.to  BY DEF Holds
<1>4. f.lines = Lines(f, D)
  <2>1. f.workspace = e.workspace /\ e.lines = Lines(e, C)  BY DEF Frame, Holds
  <2>2. Lines(e, C \ {c}) = Lines(e, C) \ Lines(e, {c})
    <3> HIDE DEF D
    <3> QED  BY LinesOf
  <2>3. Lines(f, D) = Lines(e, D)  BY <2>1 DEF Lines
  <2> QED  BY <2>1, <2>2, <2>3
<1> QED  BY <1>1, <1>2, <1>3, <1>4 DEF Holds

\* One round of the deletion of a Reactor: a connection is gone, with its record at
\* the other end.
Round(e, f, Q, L, C) ==
    /\ f \in Editors /\ Frame(e, f) /\ Holds(f, Q, L, C)
    /\ \A r \in Reactors : NoLists(e, r) => NoLists(f, r)

\* The connections into a Reactor: its list of inputs is not looked after, since it
\* is about to go.
LEMMA InputRound ==
    ASSUME NEW e \in Editors, NEW Q, NEW L \in SUBSET Reactors, NEW C, Holds(e, Q, L, C),
           NEW c \in C, OnTab(e), Near(e, c), c.to \notin L
    PROVE  LET f == Erase(ForgetOutput(e, c), c)
           IN  f.inputs = e.inputs /\ Round(e, f, Q, L, C \ {c})
<1> DEFINE x == ForgetOutput(e, c)
           f == Erase(x, c)
           o == [e.outputs EXCEPT ![c.from] = RemoveFirst(e.outputs[c.from], c)]
<1>1. c \in Connection /\ c.from \in Reactors /\ ~e.thrown /\ e.outputs \in [Reactors -> Seq(Connection)]
  BY DEF Holds, OnTab, Connection, Editors
<1>2. x \in Editors /\ Frame(e, x) /\ x.lines = e.lines /\ x.inputs = e.inputs /\ x.outputs = o
  BY <1>1, ForgetExactly
<1> HIDE DEF x
<1>3. /\ f \in Editors /\ Frame(e, f) /\ f.inputs = e.inputs /\ f.outputs = o
      /\ f.lines = e.lines \ Lines(e, {c})
  BY <1>2, EraseExactly
<1> HIDE DEF f
<1>4. /\ \A q \in Reactors \ {c.from} : o[q] = e.outputs[q]
      /\ IsInjective(e.outputs[c.from])
           => IsInjective(o[c.from]) /\ Range(o[c.from]) = Range(e.outputs[c.from]) \ {c}
      /\ \A q \in Reactors : e.outputs[q] = <<>> => o[q] = <<>>
  <2>1. PICK l, r, j : l = e.outputs /\ r = c.from /\ j = o  OBVIOUS
  <2>2. /\ l \in [Reactors -> Seq(Connection)] /\ r \in Reactors
        /\ j = [l EXCEPT ![r] = RemoveFirst(l[r], c)]
    BY <1>1, <2>1
  <2>3. /\ \A q \in Reactors \ {r} : j[q] = l[q]
        /\ IsInjective(l[r]) => IsInjective(j[r]) /\ Range(j[r]) = Range(l[r]) \ {c}
        /\ \A q \in Reactors : l[q] = <<>> => j[q] = <<>>
    <3>1. l[r] \in Seq(Connection) /\ j[r] = RemoveFirst(l[r], c)  BY <2>2
    <3>2. \A q \in Reactors \ {r} : j[q] = l[q]  BY <2>2
    <3>3. IsInjective(l[r]) => IsInjective(j[r]) /\ Range(j[r]) = Range(l[r]) \ {c}
      BY <3>1, RemoveOne
    <3>4. RemoveFirst(<<>>, c) = <<>>  BY DEF RemoveFirst
    <3> QED  BY <3>1, <3>2, <3>3, <3>4
  <2> HIDE DEF o
  <2> QED  BY <2>1, <2>3
<1> HIDE DEF o
<1>6. c.from \in L => IsInjective(e.outputs[c.from])  BY DEF Holds
<1>5. Holds(f, Q, L, C \ {c})  BY <1>3, <1>4, <1>6, HoldsWithout
<1> QED  BY <1>3, <1>4, <1>5 DEF f, x, Round, NoLists

\* The connections out of it.
LEMMA OutputRound ==
    ASSUME NEW e \in Editors, NEW Q, NEW L \in SUBSET Reactors, NEW C, Holds(e, Q, L, C),
           NEW c \in C, OnTab(e), Near(e, c), c.from \notin L
    PROVE  LET f == Erase(ForgetInput(e, c), c)
           IN  Round(e, f, Q, L, C \ {c})
<1> DEFINE x == ForgetInput(e, c)
           f == Erase(x, c)
           i == [e.inputs EXCEPT ![c.to] = RemoveFirst(e.inputs[c.to], c)]
<1>1. c \in Connection /\ c.to \in Reactors /\ ~e.thrown /\ e.inputs \in [Reactors -> Seq(Connection)]
  BY DEF Holds, OnTab, Connection, Editors
<1>2. x \in Editors /\ Frame(e, x) /\ x.lines = e.lines /\ x.outputs = e.outputs /\ x.inputs = i
  BY <1>1, ForgetExactly
<1> HIDE DEF x
<1>3. /\ f \in Editors /\ Frame(e, f) /\ f.outputs = e.outputs /\ f.inputs = i
      /\ f.lines = e.lines \ Lines(e, {c})
  BY <1>2, EraseExactly
<1> HIDE DEF f
<1>4. /\ \A q \in Reactors \ {c.to} : i[q] = e.inputs[q]
      /\ IsInjective(e.inputs[c.to])
           => IsInjective(i[c.to]) /\ Range(i[c.to]) = Range(e.inputs[c.to]) \ {c}
      /\ \A q \in Reactors : e.inputs[q] = <<>> => i[q] = <<>>
  <2>1. PICK l, r, j : l = e.inputs /\ r = c.to /\ j = i  OBVIOUS
  <2>2. /\ l \in [Reactors -> Seq(Connection)] /\ r \in Reactors
        /\ j = [l EXCEPT ![r] = RemoveFirst(l[r], c)]
    BY <1>1, <2>1
  <2>3. /\ \A q \in Reactors \ {r} : j[q] = l[q]
        /\ IsInjective(l[r]) => IsInjective(j[r]) /\ Range(j[r]) = Range(l[r]) \ {c}
        /\ \A q \in Reactors : l[q] = <<>> => j[q] = <<>>
    <3>1. l[r] \in Seq(Connection) /\ j[r] = RemoveFirst(l[r], c)  BY <2>2
    <3>2. \A q \in Reactors \ {r} : j[q] = l[q]  BY <2>2
    <3>3. IsInjective(l[r]) => IsInjective(j[r]) /\ Range(j[r]) = Range(l[r]) \ {c}
      BY <3>1, RemoveOne
    <3>4. RemoveFirst(<<>>, c) = <<>>  BY DEF RemoveFirst
    <3> QED  BY <3>1, <3>2, <3>3, <3>4
  <2> HIDE DEF i
  <2> QED  BY <2>1, <2>3
<1> HIDE DEF i
<1>6. c.to \in L => IsInjective(e.inputs[c.to])  BY DEF Holds
<1>5. Holds(f, Q, L, C \ {c})  BY <1>3, <1>4, <1>6, HoldsWithout
<1> QED  BY <1>3, <1>4, <1>5 DEF f, x, Round, NoLists

\* The list of r has lost the connection, and no list anything else.
Gone(l, m, r, c) ==
    /\ \A q \in Reactors \ {r} : m[q] = l[q]
    /\ IsInjective(m[r]) /\ Range(m[r]) = Range(l[r]) \ {c}

\* Taking a connection out of a list, by its name or by its row.
LEMMA ListGone ==
    ASSUME NEW l \in [Reactors -> Seq(Connection)], NEW r \in Reactors, NEW c, IsInjective(l[r])
    PROVE  /\ Gone(l, [l EXCEPT ![r] = RemoveFirst(l[r], c)], r, c)
           /\ \A k \in DOMAIN l[r] :
                l[r][k] = c => Gone(l, [l EXCEPT ![r] = RemoveAt(l[r], k)], r, c)
<1>1. l[r] \in Seq(Connection)  OBVIOUS
<1>2. ASSUME NEW u, IsInjective(u), Range(u) = Range(l[r]) \ {c}
      PROVE  Gone(l, [l EXCEPT ![r] = u], r, c)
  BY <1>2 DEF Gone
<1>3. IsInjective(RemoveFirst(l[r], c)) /\ Range(RemoveFirst(l[r], c)) = Range(l[r]) \ {c}
  BY <1>1, RemoveOne
<1>4. ASSUME NEW k \in DOMAIN l[r], l[r][k] = c
      PROVE  IsInjective(RemoveAt(l[r], k)) /\ Range(RemoveAt(l[r], k)) = Range(l[r]) \ {c}
  BY <1>1, <1>4, RemovePlace
<1> QED  BY <1>2, <1>3, <1>4

\* What is known of the page when the connection has been removed.
Cut(e, f, C, c) ==
    /\ f \in Editors /\ Frame(e, f) /\ Agree(f, C \ {c})
    /\ \A r \in Reactors : NoLists(e, r) => NoLists(f, r)

\* The connection that the engine has removed goes from both lists and is not drawn
\* any more, if the row that was clicked is still its row (Disconnect).
LEMMA Disconnected ==
    ASSUME NEW e \in Editors, NEW C, Agree(e, C), OnTab(e), NEW call, call.what \in C,
           Near(e, call.what),
           call.at = "inputs" => /\ call.row \in DOMAIN e.inputs[call.what.to]
                                 /\ e.inputs[call.what.to][call.row] = call.what,
           call.at = "outputs" => /\ call.row \in DOMAIN e.outputs[call.what.from]
                                  /\ e.outputs[call.what.from][call.row] = call.what
    PROVE  Cut(e, Disconnect(e, call), C, call.what)
<1> DEFINE c == call.what
           Q == e.registered
           r == c.from
           s == c.to
           dropped(list) == IF call.row \in DOMAIN list THEN RemoveAt(list, call.row) ELSE list
<1>1. /\ c \in C /\ c \in Connection /\ r \in Q /\ s \in Q /\ Q \subseteq Reactors /\ ~e.thrown
      /\ e.outputs \in [Reactors -> Seq(Connection)] /\ e.inputs \in [Reactors -> Seq(Connection)]
      /\ Holds(e, Q, Q, C)
  BY DEF Agree, Holds, OnTab, Ends, Editors
<1>2. /\ IsInjective(e.outputs[r]) /\ Range(e.outputs[r]) = {d \in C : d.from = r}
      /\ IsInjective(e.inputs[s]) /\ Range(e.inputs[s]) = {d \in C : d.to = s}
  BY <1>1 DEF Holds
<1>3. ASSUME NEW x \in Editors, Frame(e, x), x.lines = e.lines \ Lines(e, {c}),
             Gone(e.outputs, x.outputs, r, c), Gone(e.inputs, x.inputs, s, c)
      PROVE  Cut(e, x, C, c)
  <2>1. Holds(x, Q, Q, C \ {c})
    <3> HIDE DEF c
    <3>1. /\ \A q \in Q \ {c.from} : x.outputs[q] = e.outputs[q]
          /\ \A q \in Q \ {c.to} : x.inputs[q] = e.inputs[q]
          /\ IsInjective(x.outputs[c.from]) /\ Range(x.outputs[c.from]) = Range(e.outputs[c.from]) \ {c}
          /\ IsInjective(x.inputs[c.to]) /\ Range(x.inputs[c.to]) = Range(e.inputs[c.to]) \ {c}
      BY <1>1, <1>3 DEF Gone
    <3> QED  BY <1>1, <1>3, <3>1, HoldsWithout
  <2>2. Agree(x, C \ {c})  BY <1>3, <2>1 DEF Agree, Frame
  <2>3. e.outputs[r] # <<>> /\ e.inputs[s] # <<>>
    <3>1. c \in Range(e.outputs[r]) /\ c \in Range(e.inputs[s])  BY <1>1, <1>2
    <3> QED  BY <3>1 DEF Range
  <2>4. \A q \in Reactors : NoLists(e, q) => NoLists(x, q)
    BY <1>3, <2>3 DEF Gone, NoLists
  <2> QED  BY <1>3, <2>2, <2>4 DEF Cut
<1>4. ASSUME NEW x \in Editors, Frame(e, x), x.lines = e.lines,
             Gone(e.outputs, x.outputs, r, c), Gone(e.inputs, x.inputs, s, c)
      PROVE  Cut(e, Erase(x, c), C, c)
  <2> DEFINE f == Erase(x, c)
  <2>1. /\ f \in Editors /\ Frame(e, f) /\ f.inputs = x.inputs /\ f.outputs = x.outputs
        /\ f.lines = e.lines \ Lines(e, {c})
    <3>1. /\ e \in Editors /\ x \in Editors /\ c \in C /\ OnTab(e) /\ Near(e, c) /\ Holds(e, Q, Q, C)
          /\ Frame(e, x) /\ x.lines = e.lines
      BY <1>1, <1>4
    <3> HIDE DEF c, Q
    <3> QED  BY ONLY <3>1, EraseExactly
  <2> HIDE DEF f
  <2> QED  BY <1>3, <1>4, <2>1 DEF f
<1> DEFINE o == [e.outputs EXCEPT ![r] = RemoveFirst(e.outputs[r], c)]
           i == [e.inputs EXCEPT ![s] = RemoveFirst(e.inputs[s], c)]
<1>5. Gone(e.outputs, o, r, c) /\ Gone(e.inputs, i, s, c)
  <2> HIDE DEF c, r, s
  <2> QED  BY <1>1, <1>2, ListGone
<1>6. ASSUME NEW x \in Editors, Frame(e, x)
      PROVE  /\ LET f == ForgetOutput(x, c)
                IN  /\ f \in Editors /\ Frame(e, f) /\ f.lines = x.lines /\ f.inputs = x.inputs
                    /\ x.outputs = e.outputs => f.outputs = o
             /\ LET f == ForgetInput(x, c)
                IN  /\ f \in Editors /\ Frame(e, f) /\ f.lines = x.lines /\ f.outputs = x.outputs
                    /\ x.inputs = e.inputs => f.inputs = i
  <2>1. ~x.thrown  BY <1>1, <1>6 DEF Frame
  <2>2. /\ LET f == ForgetOutput(x, c)
           IN  /\ f \in Editors /\ Frame(x, f) /\ f.lines = x.lines /\ f.inputs = x.inputs
               /\ f.outputs = [x.outputs EXCEPT ![c.from] = RemoveFirst(x.outputs[c.from], c)]
        /\ LET f == ForgetInput(x, c)
           IN  /\ f \in Editors /\ Frame(x, f) /\ f.lines = x.lines /\ f.outputs = x.outputs
               /\ f.inputs = [x.inputs EXCEPT ![c.to] = RemoveFirst(x.inputs[c.to], c)]
    BY <1>1, <2>1, ForgetExactly
  <2>3. \A f : Frame(x, f) => Frame(e, f)  BY <1>6 DEF Frame
  <2> QED  BY <2>2, <2>3
<1> HIDE DEF o, i
<1>7. CASE call.at = "inputs"
  <2> DEFINE u == RemoveAt(e.inputs[s], call.row)
             j == [e.inputs EXCEPT ![s] = u]
             a == [e EXCEPT !.inputs = j]
             x == ForgetOutput(a, c)
  <2>1. Gone(e.inputs, j, s, c)
    <3> HIDE DEF s
    <3>1. call.row \in DOMAIN e.inputs[s] /\ e.inputs[s][call.row] = c  BY <1>7 DEF s
    <3> HIDE DEF c
    <3> QED  BY <1>1, <1>2, <3>1, ListGone
  <2>2. Disconnect(e, call) = Erase(x, c)
    <3>1. [e EXCEPT !.inputs[s] = dropped(@)] = [e EXCEPT !.inputs = [e.inputs EXCEPT ![s] = dropped(e.inputs[s])]]
      BY <1>1 DEF Editors
    <3>2. dropped(e.inputs[s]) = u  BY <1>7
    <3> HIDE DEF dropped
    <3> QED  BY <1>7, <3>1, <3>2 DEF Disconnect, dropped
  <2>3. a \in Editors /\ Frame(e, a) /\ a.lines = e.lines /\ a.inputs = j /\ a.outputs = e.outputs
    <3>1. u \in Seq(Connection) /\ Range(u) \subseteq Range(e.inputs[s])
      BY <1>1, <1>7, RemovePlace, <1>2
    <3>2. a = [e EXCEPT !.inputs[s] = u]  BY <1>1 DEF Editors
    <3> HIDE DEF u
    <3>3. Shrunk(e, [e EXCEPT !.inputs[s] = u], {}, {})  BY <1>1, <3>1, ListShrinks
    <3>4. a \in Editors  BY <3>2, <3>3 DEF Shrunk
    <3> HIDE DEF j
    <3> QED  BY <3>4 DEF Editors, Frame
  <2> HIDE DEF a, j, u
  <2>4. /\ x \in Editors /\ Frame(e, x) /\ x.lines = e.lines /\ x.inputs = j /\ x.outputs = o
    BY <1>6, <2>3
  <2> HIDE DEF x
  <2> QED  BY <1>4, <1>5, <2>1, <2>2, <2>4
<1>8. CASE call.at = "outputs"
  <2> DEFINE u == RemoveAt(e.outputs[r], call.row)
             j == [e.outputs EXCEPT ![r] = u]
             a == [e EXCEPT !.outputs = j]
             x == ForgetInput(a, c)
  <2>1. Gone(e.outputs, j, r, c)
    <3> HIDE DEF r
    <3>1. call.row \in DOMAIN e.outputs[r] /\ e.outputs[r][call.row] = c  BY <1>8 DEF r
    <3> HIDE DEF c
    <3> QED  BY <1>1, <1>2, <3>1, ListGone
  <2>2. Disconnect(e, call) = Erase(x, c)
    <3>1. [e EXCEPT !.outputs[r] = dropped(@)] = [e EXCEPT !.outputs = [e.outputs EXCEPT ![r] = dropped(e.outputs[r])]]
      BY <1>1 DEF Editors
    <3>2. dropped(e.outputs[r]) = u  BY <1>8
    <3> HIDE DEF dropped
    <3> QED  BY <1>8, <3>1, <3>2 DEF Disconnect, dropped
  <2>3. a \in Editors /\ Frame(e, a) /\ a.lines = e.lines /\ a.outputs = j /\ a.inputs = e.inputs
    <3>1. u \in Seq(Connection) /\ Range(u) = Range(e.outputs[r]) \ {c}
      BY <1>1, <1>8, RemovePlace, <1>2
    <3>2. a = [e EXCEPT !.outputs[r] = u]  BY <1>1 DEF Editors
    <3> HIDE DEF u
    <3>3. Shrunk(e, [e EXCEPT !.outputs[r] = u], {}, {c})  BY <1>1, <3>1, ListShrinks
    <3>4. a \in Editors  BY <3>2, <3>3 DEF Shrunk
    <3> HIDE DEF j
    <3> QED  BY <3>4 DEF Editors, Frame
  <2> HIDE DEF a, j, u
  <2>4. /\ x \in Editors /\ Frame(e, x) /\ x.lines = e.lines /\ x.inputs = i /\ x.outputs = j
    BY <1>6, <2>3
  <2> HIDE DEF x
  <2> QED  BY <1>4, <1>5, <2>1, <2>2, <2>4
<1>9. CASE call.at = "line" /\ CrossWorkspace(e, c)
  <2> DEFINE a == ForgetOutput(e, c)
             x == ForgetInput(a, c)
  <2>1. Frame(e, e)  BY DEF Frame
  <2>2. a \in Editors /\ Frame(e, a) /\ a.lines = e.lines /\ a.inputs = e.inputs /\ a.outputs = o
    BY <1>6, <2>1
  <2> HIDE DEF a
  <2>3. x \in Editors /\ Frame(e, x) /\ x.lines = e.lines /\ x.inputs = i /\ x.outputs = o
    BY <1>6, <2>2
  <2>4. Disconnect(e, call) = Erase(x, c)  BY <1>9 DEF Disconnect, a
  <2> HIDE DEF x
  <2> QED  BY <1>4, <1>5, <2>3, <2>4
<1>10. CASE ~(call.at = "inputs" \/ call.at = "outputs" \/ (call.at = "line" /\ CrossWorkspace(e, c)))
  <2> DEFINE a == Erase(e, c)
             b == ForgetOutput(a, c)
             x == ForgetInput(b, c)
  <2>1. Frame(e, e)  BY DEF Frame
  <2>2. /\ a \in Editors /\ Frame(e, a) /\ a.inputs = e.inputs /\ a.outputs = e.outputs
        /\ a.lines = e.lines \ Lines(e, {c})
    <3>1. /\ e \in Editors /\ c \in C /\ OnTab(e) /\ Near(e, c) /\ Holds(e, Q, Q, C)
          /\ Frame(e, e)
      BY <1>1, <2>1
    <3> HIDE DEF c, Q
    <3> QED  BY ONLY <3>1, EraseExactly
  <2> HIDE DEF a
  <2>3. b \in Editors /\ Frame(e, b) /\ b.lines = a.lines /\ b.inputs = e.inputs /\ b.outputs = o
    BY <1>6, <2>2
  <2> HIDE DEF b
  <2>4. x \in Editors /\ Frame(e, x) /\ x.lines = a.lines /\ x.inputs = i /\ x.outputs = o
    BY <1>6, <2>3
  <2>5. Contains(e.outputs[r], c)
    <3>1. e.outputs[r] \in Seq(Connection) /\ c \in Range(e.outputs[r])  BY <1>1, <1>2
    <3> HIDE DEF c, r
    <3> QED  BY <1>2, <3>1, RemoveOne
  <2>6. Disconnect(e, call) = x  BY <1>10, <2>5 DEF Disconnect, a, b
  <2> HIDE DEF x
  <2> QED  BY <1>3, <1>5, <2>2, <2>4, <2>6
<1> QED  BY <1>7, <1>8, <1>9, <1>10

\* Selecting a tab changes nothing of it.
LEMMA SameAgree ==
    ASSUME NEW e, NEW f, SameRecords(e, f), f.lines = e.lines, NEW C, Agree(e, C)
    PROVE  Agree(f, C)
<1>1. Holds(e, e.registered, e.registered, C) /\ e.lines = Lines(e, C)  BY DEF Agree, Holds
<1>2. f.lines = Lines(f, C)  BY <1>1 DEF Lines, SameRecords
<1>3. f.registered = e.registered  BY DEF SameRecords
<1> QED  BY <1>1, <1>2, <1>3 DEF Agree, Holds, SameRecords

\* A line is drawn in the workspace that is shown.
LEMMA LineDrawn ==
    ASSUME NEW e \in Editors, NEW w \in Places, NEW c \in Connection, ~e.thrown
    PROVE  LET f == DrawLine(e, w, c)
           IN  f \in Editors /\ SameView(e, f) /\ f.lines = e.lines \cup {<<w, c>>}
<1> DEFINE f == [e EXCEPT !.lines = @ \cup {<<w, c>>}]
<1>1. DrawLine(e, w, c) = f  BY DEF DrawLine
<1>2. f \in Editors  BY <1>1, LineState
<1>3. SameView(e, f) /\ f.lines = e.lines \cup {<<w, c>>}  BY DEF Editors, SameView, SameRecords
<1> QED  BY <1>1, <1>2, <1>3

\* A connection is drawn at both ends, whichever tabs have to be selected for that, if it
\* can be drawn.
LEMMA LinesDrawn ==
    ASSUME NEW e \in Editors, NEW c \in Connection, OnTab(e), Near(e, c), ~Undrawable(e, c),
           {e.workspace[c.from], e.workspace[c.to]} \subseteq Range(e.boxes)
    PROVE  LET atSource == DrawLine(SelectTab(e, e.workspace[c.from]), e.workspace[c.from], c)
               atSink   == DrawLine(SelectTab(atSource, e.workspace[c.to]), e.workspace[c.to], c)
               drawn    == IF CrossWorkspace(e, c) THEN SelectTab(atSink, e.box)
                           ELSE IF Undrawable(e, c) THEN Throw(e)
                           ELSE DrawLine(e, e.box, c)
           IN  drawn \in Editors /\ SameView(e, drawn) /\ drawn.lines = e.lines \cup Lines(e, {c})
<1> DEFINE w == e.workspace[c.from]
           v == e.workspace[c.to]
           t1 == SelectTab(e, w)
           a1 == DrawLine(t1, w, c)
           t2 == SelectTab(a1, v)
           a2 == DrawLine(t2, v, c)
           t3 == SelectTab(a2, e.box)
           n == DrawLine(e, e.box, c)
<1>1. /\ Lines(e, {c}) = {<<w, c>>, <<v, c>>} /\ e.box \in {w, v} /\ (CrossWorkspace(e, c) <=> w # v)
      /\ {w, v, e.box} \subseteq Places /\ w \in Range(e.boxes) /\ v \in Range(e.boxes)
      /\ ~e.thrown /\ e.shown = e.box /\ e.box \in Range(e.boxes)
  BY DEF Lines, Near, CrossWorkspace, OnTab, Editors, Connection
<1> HIDE DEF w, v
<1>2. /\ t1 \in Editors /\ SameRecords(e, t1) /\ t1.lines = e.lines
      /\ t1.shown = w /\ t1.box = w /\ ~t1.thrown
  BY <1>1, TabSelected
<1> HIDE DEF t1
<1>3. a1 \in Editors /\ SameView(t1, a1) /\ a1.lines = e.lines \cup {<<w, c>>}
  BY <1>1, <1>2, LineDrawn
<1> HIDE DEF a1
<1>4. SameRecords(e, a1) /\ a1.shown = a1.box /\ ~a1.thrown  BY <1>2, <1>3 DEF SameView, SameRecords
<1>5. v \in Range(a1.boxes)  BY <1>1, <1>4 DEF SameRecords
<1>6. /\ t2 \in Editors /\ SameRecords(a1, t2) /\ t2.lines = a1.lines
      /\ t2.shown = v /\ t2.box = v /\ ~t2.thrown
  BY <1>3, <1>4, <1>5, TabSelected
<1> HIDE DEF t2
<1>7. a2 \in Editors /\ SameView(t2, a2) /\ a2.lines = t2.lines \cup {<<v, c>>}
  BY <1>1, <1>6, LineDrawn
<1> HIDE DEF a2
<1>8. SameRecords(e, a2) /\ a2.shown = a2.box /\ ~a2.thrown
  BY <1>4, <1>6, <1>7 DEF SameView, SameRecords
<1>9. e.box \in Range(a2.boxes)  BY <1>1, <1>8 DEF SameRecords
<1>10. /\ t3 \in Editors /\ SameRecords(a2, t3) /\ t3.lines = a2.lines
       /\ t3.shown = e.box /\ t3.box = e.box /\ ~t3.thrown
  BY <1>7, <1>8, <1>9, TabSelected
<1> HIDE DEF t3
<1>11. SameRecords(e, t3)  BY <1>8, <1>10 DEF SameRecords
<1>15. e.thrown = FALSE /\ t3.thrown = FALSE  BY <1>1, <1>10 DEF Editors
<1>12. SameView(e, t3)  BY <1>1, <1>10, <1>11, <1>15 DEF SameView
<1>13. t3.lines = e.lines \cup {<<w, c>>, <<v, c>>}  BY <1>3, <1>6, <1>7, <1>10
<1>14. n \in Editors /\ SameView(e, n) /\ n.lines = e.lines \cup {<<e.box, c>>}
  BY <1>1, LineDrawn
<1> HIDE DEF n
<1>16. CASE w # v
  <2> QED  BY <1>1, <1>10, <1>12, <1>13, <1>16 DEF w, v, t1, a1, t2, a2, t3, n
<1>17. CASE w = v
  <2>1. Lines(e, {c}) = {<<e.box, c>>}  BY <1>1, <1>17
  <2> QED  BY <1>1, <1>14, <1>17, <2>1 DEF n
<1> QED  BY <1>16, <1>17

\* A new connection is in both lists and is drawn at both ends (CreateConnection).
LEMMA Joined ==
    ASSUME NEW e \in Editors, NEW C, Agree(e, C), OnTab(e), NEW c \in Connection, c \notin C,
           Ends(c) \subseteq e.registered, c.from # c.to, Near(e, c), ~Undrawable(e, c)
    PROVE  LET f == CreateConnection(e, c)
           IN  /\ f \in Editors /\ Frame(e, f) /\ Agree(f, C \cup {c})
               /\ \A r \in Reactors \ e.registered : NoLists(e, r) => NoLists(f, r)
<1> DEFINE Q == e.registered
           f == CreateConnection(e, c)
           r == c.from
           s == c.to
<1>1. /\ r \in Q /\ s \in Q /\ Q \subseteq Reactors /\ Holds(e, Q, Q, C)
      /\ {e.workspace[r], e.workspace[s]} \subseteq Range(e.boxes) /\ ~e.thrown
  BY DEF Ends, Editors, Agree, Holds, OnTab
<1>2. PICK d \in Editors :
        /\ SameView(e, d) /\ d.lines = e.lines \cup Lines(e, {c})
        /\ f = IF d.thrown THEN d
               ELSE [d EXCEPT !.outputs[c.from] = Append(@, c), !.inputs[c.to] = Append(@, c)]
  <2>1. LET atSource == DrawLine(SelectTab(e, e.workspace[c.from]), e.workspace[c.from], c)
            atSink   == DrawLine(SelectTab(atSource, e.workspace[c.to]), e.workspace[c.to], c)
            drawn    == IF CrossWorkspace(e, c) THEN SelectTab(atSink, e.box)
                        ELSE IF Undrawable(e, c) THEN Throw(e)
                        ELSE DrawLine(e, e.box, c)
        IN  drawn \in Editors /\ SameView(e, drawn) /\ drawn.lines = e.lines \cup Lines(e, {c})
    BY <1>1, LinesDrawn
  <2> QED  BY <2>1 DEF CreateConnection
<1> DEFINE o == [e.outputs EXCEPT ![r] = Append(e.outputs[r], c)]
           i == [e.inputs EXCEPT ![s] = Append(e.inputs[s], c)]
<1>3. f = [d EXCEPT !.outputs = o, !.inputs = i]
  <2>1. ~d.thrown /\ d.outputs = e.outputs /\ d.inputs = e.inputs  BY <1>1, <1>2 DEF SameView, SameRecords
  <2> QED  BY <1>2, <2>1 DEF Editors
<1> HIDE DEF o, i
<1>4. f.outputs = o /\ f.inputs = i /\ f.lines = d.lines /\ Frame(d, f)
  BY <1>3 DEF Editors, Frame
<1>5. f \in Editors  BY ConnectionState
<1> HIDE DEF f
<1>6. Frame(e, f)  BY <1>2, <1>4 DEF SameView, SameRecords, Frame
<1>7. /\ e.outputs \in [Reactors -> Seq(Connection)] /\ e.inputs \in [Reactors -> Seq(Connection)]
      /\ e.outputs[r] \in Seq(Connection) /\ e.inputs[s] \in Seq(Connection)
  BY <1>1 DEF Editors
<1>8. /\ IsInjective(e.outputs[r]) /\ Range(e.outputs[r]) = {x \in C : x.from = r}
      /\ IsInjective(e.inputs[s]) /\ Range(e.inputs[s]) = {x \in C : x.to = s}
  BY <1>1 DEF Holds
<1>9. /\ IsInjective(o[r]) /\ Range(o[r]) = Range(e.outputs[r]) \cup {c}
      /\ IsInjective(i[s]) /\ Range(i[s]) = Range(e.inputs[s]) \cup {c}
  <2>1. o[r] = Append(e.outputs[r], c) /\ i[s] = Append(e.inputs[s], c)  BY <1>1, <1>7 DEF o, i
  <2>2. c \notin Range(e.outputs[r]) /\ c \notin Range(e.inputs[s])  BY <1>8
  <2> HIDE DEF r, s
  <2> QED  BY <1>7, <1>8, <2>1, <2>2, AppendNew
<1>10. /\ \A q \in Reactors \ {r} : o[q] = e.outputs[q]
       /\ \A q \in Reactors \ {s} : i[q] = e.inputs[q]
  BY <1>7 DEF o, i
<1> DEFINE D == C \cup {c}
<1>11. ASSUME NEW q \in Q
       PROVE  /\ IsInjective(f.inputs[q]) /\ Range(f.inputs[q]) = {x \in D : x.to = q}
              /\ IsInjective(f.outputs[q]) /\ Range(f.outputs[q]) = {x \in D : x.from = q}
  <2>1. /\ IsInjective(e.inputs[q]) /\ Range(e.inputs[q]) = {x \in C : x.to = q}
        /\ IsInjective(e.outputs[q]) /\ Range(e.outputs[q]) = {x \in C : x.from = q}
    BY <1>1 DEF Holds
  <2>2. IsInjective(f.inputs[q]) /\ Range(f.inputs[q]) = {x \in D : x.to = q}
    <3>1. CASE q = s  BY <1>4, <1>8, <1>9, <3>1
    <3>2. CASE q # s  BY <1>1, <1>4, <1>10, <2>1, <3>2
    <3> QED  BY <3>1, <3>2
  <2>3. IsInjective(f.outputs[q]) /\ Range(f.outputs[q]) = {x \in D : x.from = q}
    <3>1. CASE q = r  BY <1>4, <1>8, <1>9, <3>1
    <3>2. CASE q # r  BY <1>1, <1>4, <1>10, <2>1, <3>2
    <3> QED  BY <3>1, <3>2
  <2> QED  BY <2>2, <2>3
<1>12. \A x \in D : x \in Connection /\ Ends(x) \subseteq Q /\ x.from # x.to  BY <1>1 DEF Holds
<1>13. f.lines = Lines(f, D)
  <2>1. f.workspace = e.workspace /\ e.lines = Lines(e, C)  BY <1>1, <1>6 DEF Frame, Holds
  <2>2. Lines(e, C \cup {c}) = Lines(e, C) \cup Lines(e, {c})
    <3> HIDE DEF D
    <3> QED  BY LinesOf
  <2>3. Lines(f, D) = Lines(e, D)  BY <2>1 DEF Lines
  <2> QED  BY <1>2, <1>4, <2>1, <2>2, <2>3
<1>14. /\ IsInjective(f.boxes)
       /\ \A w \in Workspaces :
            IsInjective(f.members[w]) /\ Range(f.members[w]) = {q \in Q : f.workspace[q] = w}
       /\ \A q \in Q : f.workspace[q] \in Range(f.boxes)
  BY <1>1, <1>6 DEF Holds, Frame
<1>15. Holds(f, Q, Q, D)  BY <1>11, <1>12, <1>13, <1>14 DEF Holds
<1>16. Agree(f, D)  BY <1>6, <1>15 DEF Agree, Frame
<1>17. \A q \in Reactors \ Q : NoLists(e, q) => NoLists(f, q)
  BY <1>1, <1>4, <1>10 DEF NoLists
<1> QED  BY <1>5, <1>6, <1>16, <1>17 DEF f

\* One that cannot be drawn changes nothing (CreateConnection).
LEMMA NotJoined ==
    ASSUME NEW e \in Editors, NEW c \in Connection, Undrawable(e, c), ~e.thrown
    PROVE  CreateConnection(e, c) = Throw(e) /\ [Throw(e) EXCEPT !.thrown = FALSE] = e
<1>1. ~CrossWorkspace(e, c)  BY DEF Undrawable
<1>2. Throw(e).thrown = TRUE  BY ThrownState DEF Throw
<1>3. CreateConnection(e, c) = Throw(e)  BY <1>1, <1>2 DEF CreateConnection
<1>4. [Throw(e) EXCEPT !.thrown = FALSE] = e
  <2>1. e.thrown = FALSE  BY DEF Editors
  <2> QED  BY <2>1 DEF Throw, Editors
<1> QED  BY <1>3, <1>4

\* A new Reactor without connections (CreateReactor).
LEMMA ReactorPlaced ==
    ASSUME NEW e \in Editors, NEW C, Agree(e, C), ~e.thrown,
           NEW r \in Reactors \ e.registered, NoLists(e, r), NEW w \in Range(e.boxes)
    PROVE  LET f == CreateReactor(e, r, w)
           IN  /\ f \in Editors /\ Agree(f, C) /\ f.registered = e.registered \cup {r}
               /\ f.workspace = [e.workspace EXCEPT ![r] = w] /\ f.boxes = e.boxes
               /\ f.shown = e.shown /\ f.box = e.box /\ ~f.thrown
               /\ f.inputs = e.inputs /\ f.outputs = e.outputs
<1> DEFINE Q == e.registered
           P == Q \cup {r}
           m == [e.members EXCEPT ![w] = Append(e.members[w], r)]
           h == [e.workspace EXCEPT ![r] = w]
           g == [e EXCEPT !.registered = P, !.workspace = h, !.members = m]
           f == CreateReactor(e, r, w)
<1>1. w \in Workspaces /\ Holds(e, Q, Q, C) /\ Q \subseteq Reactors
      /\ e.members \in [Workspaces -> Seq(Reactors)] /\ e.workspace \in [Reactors -> Places]
  <2>1. e.boxes \in Seq(Workspaces)  BY DEF Editors
  <2>2. w \in Workspaces  BY <2>1 DEF Range
  <2> QED  BY <2>2 DEF Agree, Editors
<1>2. f = g  BY DEF CreateReactor, Editors
<1>3. f \in Editors
  <2>1. e \in Editors /\ r \in Reactors /\ w \in Places  BY <1>1 DEF Places
  <2>2. LET x == CreateReactor(e, r, w)
        IN  /\ x \in Editors
            /\ e.registered \subseteq x.registered
            /\ x.inputs = e.inputs /\ x.outputs = e.outputs
            /\ \A v \in Workspaces : Range(x.members[v]) \subseteq
                 Range(e.members[v]) \cup {q \in {r} : v = w}
    BY ONLY <2>1, ReactorState
  <2> QED  BY <2>2
<1> HIDE DEF f, m, h, P
<1>4. /\ f.registered = P /\ f.workspace = h /\ f.members = m /\ f.boxes = e.boxes
      /\ f.shown = e.shown /\ f.box = e.box /\ f.thrown = e.thrown
      /\ f.inputs = e.inputs /\ f.outputs = e.outputs /\ f.lines = e.lines
  BY <1>2 DEF Editors
<1>5. /\ h[r] = w /\ \A q \in Q : h[q] = e.workspace[q] /\ q # r
  BY <1>1 DEF h
<1>6. ASSUME NEW v \in Workspaces
      PROVE  IsInjective(m[v]) /\ Range(m[v]) = {q \in P : h[q] = v}
  <2>1. /\ e.members[v] \in Seq(Reactors) /\ IsInjective(e.members[v])
        /\ Range(e.members[v]) = {q \in Q : e.workspace[q] = v}
    BY <1>1 DEF Holds
  <2>2. CASE v = w
    <3>1. m[v] = Append(e.members[v], r)  BY <1>1, <2>2 DEF m
    <3>2. r \in Reactors /\ r \notin Range(e.members[v])  BY <2>1
    <3>3. IsInjective(m[v]) /\ Range(m[v]) = Range(e.members[v]) \cup {r}
      BY <2>1, <3>1, <3>2, AppendNew
    <3> QED  BY <1>5, <2>1, <2>2, <3>3 DEF P
  <2>3. CASE v # w
    <3>1. m[v] = e.members[v]  BY <1>1, <2>3 DEF m
    <3> QED  BY <1>5, <2>1, <2>3, <3>1 DEF P
  <2> QED  BY <2>2, <2>3
<1>7. \A q \in P : h[q] \in Range(e.boxes)  BY <1>1, <1>5 DEF Holds, P
<1>8. /\ IsInjective(e.inputs[r]) /\ Range(e.inputs[r]) = {} /\ IsInjective(e.outputs[r])
      /\ Range(e.outputs[r]) = {}
  BY DEF NoLists, IsInjective, Range
<1>9. \A c \in C : c.from \in Q /\ c.to \in Q /\ c.from # r /\ c.to # r
  BY <1>1, <1>5 DEF Holds, Ends
<1>10. ASSUME NEW q \in P
       PROVE  /\ IsInjective(e.inputs[q]) /\ Range(e.inputs[q]) = {c \in C : c.to = q}
              /\ IsInjective(e.outputs[q]) /\ Range(e.outputs[q]) = {c \in C : c.from = q}
  <2>1. CASE q = r  BY <1>8, <1>9, <2>1
  <2>2. CASE q # r
    <3>1. q \in Q  BY <2>2 DEF P
    <3> QED  BY <1>1, <3>1 DEF Holds
  <2> QED  BY <2>1, <2>2
<1>11. f.lines = Lines(f, C)
  <2>1. e.lines = Lines(e, C)  BY <1>1 DEF Holds
  <2>2. \A c \in C : f.workspace[c.from] = e.workspace[c.from] /\ f.workspace[c.to] = e.workspace[c.to]
    BY <1>4, <1>5, <1>9
  <2>3. Lines(f, C) = Lines(e, C)  BY <2>2 DEF Lines
  <2> QED  BY <1>4, <2>1, <2>3
<1>12. \A c \in C : c \in Connection /\ Ends(c) \subseteq P /\ c.from # c.to
  BY <1>1 DEF Holds, P
<1>13. IsInjective(f.boxes)  BY <1>1, <1>4 DEF Holds
<1>14. Agree(f, C)
  BY <1>4, <1>6, <1>7, <1>10, <1>11, <1>12, <1>13 DEF Agree, Holds
<1> QED  BY <1>3, <1>4, <1>14 DEF f, h, P

\* The same after its tab has been selected (CreateReactorInConfiguredWorkspace).
LEMMA Copied ==
    ASSUME NEW e \in Editors, NEW C, Agree(e, C), ~e.thrown, e.shown \in {NewTab, e.box},
           NEW r \in Reactors \ e.registered, NoLists(e, r), NEW w \in Range(e.boxes)
    PROVE  LET f == CreateReactorInConfiguredWorkspace(e, r, w)
           IN  /\ f \in Editors /\ Agree(f, C) /\ f.registered = e.registered \cup {r}
               /\ f.workspace = [e.workspace EXCEPT ![r] = w] /\ f.boxes = e.boxes
               /\ f.shown = w /\ f.box = w /\ ~f.thrown
               /\ f.inputs = e.inputs /\ f.outputs = e.outputs
<1> DEFINE t == SelectTab(e, w)
<1>1. /\ t \in Editors /\ SameRecords(e, t) /\ t.lines = e.lines
      /\ t.shown = w /\ t.box = w /\ ~t.thrown
  BY TabSelected
<1>2. Contains(e.boxes, w)
  <2>1. e.boxes \in Seq(Workspaces)  BY DEF Editors
  <2>2. IsInjective(e.boxes)  BY DEF Agree, Holds
  <2> QED  BY <2>1, <2>2, RemoveOne
<1>3. CreateReactorInConfiguredWorkspace(e, r, w) = CreateReactor(t, r, w)
  BY <1>2 DEF CreateReactorInConfiguredWorkspace
<1> HIDE DEF t
<1>4. /\ Agree(t, C) /\ t.registered = e.registered /\ t.workspace = e.workspace
      /\ t.boxes = e.boxes /\ t.inputs = e.inputs /\ t.outputs = e.outputs
  BY <1>1, SameAgree DEF SameRecords
<1>5. r \in Reactors \ t.registered /\ NoLists(t, r) /\ w \in Range(t.boxes)  BY <1>4 DEF NoLists
<1>6. LET f == CreateReactor(t, r, w)
      IN  /\ f \in Editors /\ Agree(f, C) /\ f.registered = t.registered \cup {r}
          /\ f.workspace = [t.workspace EXCEPT ![r] = w] /\ f.boxes = t.boxes
          /\ f.shown = t.shown /\ f.box = t.box /\ ~f.thrown
          /\ f.inputs = t.inputs /\ f.outputs = t.outputs
  BY ONLY <1>1, <1>4, <1>5, ReactorPlaced
<1> QED  BY <1>1, <1>3, <1>4, <1>6

\* A new tab is selected (AddWorkspace).
LEMMA Opened ==
    ASSUME NEW e \in Editors, NEW C, Agree(e, C), ~e.thrown, e.shown \in {NewTab, e.box},
           NEW w \in Workspaces \ Range(e.boxes)
    PROVE  LET f == AddWorkspace(e, w)
           IN  /\ f \in Editors /\ Agree(f, C) /\ f.registered = e.registered
               /\ f.workspace = e.workspace /\ Range(f.boxes) = Range(e.boxes) \cup {w}
               /\ f.shown = w /\ f.box = w /\ ~f.thrown
               /\ f.inputs = e.inputs /\ f.outputs = e.outputs
<1> DEFINE b == Append(e.boxes, w)
           g == [e EXCEPT !.boxes = b]
<1>1. b \in Seq(Workspaces) /\ IsInjective(b) /\ Range(b) = Range(e.boxes) \cup {w}
  <2>1. e.boxes \in Seq(Workspaces) /\ IsInjective(e.boxes)  BY DEF Editors, Agree, Holds
  <2> QED  BY <2>1, AppendNew
<1> DEFINE t == SelectTab(g, w)
           f == [t EXCEPT !.surface = FALSE]
<1>2. AddWorkspace(e, w) = f  BY DEF AddWorkspace, Editors
<1> HIDE DEF b, t
<1>3. /\ g \in Editors /\ g.boxes = b /\ g.registered = e.registered /\ g.workspace = e.workspace
      /\ g.members = e.members /\ g.inputs = e.inputs /\ g.outputs = e.outputs
      /\ g.lines = e.lines /\ g.shown = e.shown /\ g.box = e.box /\ g.thrown = e.thrown
  BY <1>1 DEF Editors, ListsOK
<1> HIDE DEF g
<1>4. Agree(g, C)
  <2>1. Holds(e, e.registered, e.registered, C)  BY DEF Agree
  <2>2. \A r \in e.registered : e.workspace[r] \in Range(b)  BY <1>1, <2>1 DEF Holds
  <2>3. g.lines = Lines(g, C)  BY <1>3, <2>1 DEF Holds, Lines
  <2> QED  BY <1>1, <1>3, <2>1, <2>2, <2>3 DEF Agree, Holds
<1>5. w \in Range(g.boxes) /\ ~g.thrown /\ g.shown \in {NewTab, g.box}  BY <1>1, <1>3
<1>8. /\ t \in Editors /\ SameRecords(g, t) /\ t.lines = g.lines
      /\ t.shown = w /\ t.box = w /\ ~t.thrown
  BY <1>3, <1>5, TabSelected DEF t
<1>9. /\ f \in Editors /\ SameRecords(t, f) /\ f.lines = t.lines
      /\ f.shown = t.shown /\ f.box = t.box /\ f.thrown = t.thrown
  BY <1>8, SurfaceState
<1> HIDE DEF f
<1>6. /\ f \in Editors /\ SameRecords(g, f) /\ f.lines = g.lines
      /\ f.shown = w /\ f.box = w /\ ~f.thrown
  BY <1>8, <1>9 DEF SameRecords
<1>7. Agree(f, C)  BY <1>4, <1>6, SameAgree
<1> QED  BY <1>1, <1>2, <1>3, <1>6, <1>7 DEF SameRecords, f

--------------------------------------------------------------------------------
(***************************************************************************)
(* Reactors and workspaces are taken off the page.                         *)
(***************************************************************************)
\* The first k elements.
Initial(s, k) == {s[i] : i \in 1..k}

\* They are all of them in the end, and each comes once.
LEMMA InitialGrows ==
    ASSUME NEW S, NEW s \in Seq(S), IsInjective(s)
    PROVE  /\ Initial(s, 0) = {} /\ Initial(s, Len(s)) = Range(s)
           /\ \A k \in 1..Len(s) : /\ s[k] \in Range(s) /\ s[k] \in S /\ s[k] \notin Initial(s, k - 1)
                                   /\ Initial(s, k) = Initial(s, k - 1) \cup {s[k]}
<1>1. PICK n \in Nat : n = Len(s)  OBVIOUS
<1>2. DOMAIN s = 1..n /\ \A k \in 1..n : s[k] \in S  BY <1>1
<1>3. \A i, j \in 1..n : s[i] = s[j] => i = j  BY <1>2 DEF IsInjective
<1>4. ASSUME NEW k \in 1..n
      PROVE  /\ s[k] \in Range(s) /\ s[k] \notin Initial(s, k - 1)
             /\ Initial(s, k) = Initial(s, k - 1) \cup {s[k]}
  <2>1. 1..k = (1..(k - 1)) \cup {k} /\ 1..(k - 1) \subseteq 1..n /\ k \notin 1..(k - 1)  OBVIOUS
  <2>2. Initial(s, k) = Initial(s, k - 1) \cup {s[k]}  BY <2>1 DEF Initial
  <2>3. s[k] \notin Initial(s, k - 1)  BY <1>3, <2>1 DEF Initial
  <2> QED  BY <1>2, <2>2, <2>3 DEF Range
<1>5. Initial(s, 0) = {} /\ Initial(s, n) = Range(s)  BY <1>2 DEF Initial, Range
<1> QED  BY <1>1, <1>2, <1>4, <1>5

\* What a page keeps when Reactors and connections go.
Keeps(e, f) ==
    /\ f.boxes = e.boxes /\ f.shown = e.shown /\ f.box = e.box /\ f.thrown = e.thrown
    /\ f.workspace = e.workspace
    /\ \A r \in Reactors : NoLists(e, r) => NoLists(f, r)

\* A Reactor in the workspace that is shown is taken off the page, and its connections
\* at the Reactors at their other ends (DeleteReactorFromUI).
LEMMA ReactorGone ==
    ASSUME NEW e \in Editors, NEW C, Agree(e, C), OnTab(e),
           NEW r \in e.registered, e.workspace[r] = e.box
    PROVE  LET f == DeleteReactorFromUI(e, r)
           IN  /\ f \in Editors /\ Agree(f, Apart(C, {r})) /\ f.registered = e.registered \ {r}
               /\ Keeps(e, f)
<1> DEFINE Q == e.registered
           L == Q \ {r}
           w == e.workspace[r]
           s == e.inputs[r]
           t == e.outputs[r]
           a == [e EXCEPT !.registered = @ \ {r}]
           b == FoldLeft(LAMBDA x, c : Erase(ForgetOutput(x, c), c), a, s)
           d == FoldLeft(LAMBDA x, c : Erase(ForgetInput(x, c), c), b, t)
           m == [e.members EXCEPT ![w] = RemoveFirst(e.members[w], r)]
           g == [d EXCEPT !.members[w] = RemoveFirst(@, r)]
           f == DeleteReactorFromUI(e, r)
           M == Apart(C, {r})
<1>1. /\ r \in Reactors /\ Q \subseteq Reactors /\ L \in SUBSET Reactors /\ Holds(e, Q, Q, C)
      /\ s \in Seq(Connection) /\ t \in Seq(Connection) /\ ~e.thrown
  BY DEF Editors, Agree, OnTab
<1>2. /\ IsInjective(s) /\ Range(s) = {c \in C : c.to = r}
      /\ IsInjective(t) /\ Range(t) = {c \in C : c.from = r}
      /\ \A c \in C : c.from # c.to /\ c \in Connection
  BY <1>1 DEF Holds
<1> DEFINE N == {c \in C : c.to # r}
<1>3. Range(t) \subseteq N /\ N \ Range(t) = M /\ C \ Range(s) = N
  BY <1>2 DEF Apart, Ends
<1> HIDE DEF s, t, N, M
<1>4. /\ a \in Editors /\ a.inputs = e.inputs /\ a.outputs = e.outputs /\ a.lines = e.lines
      /\ a.boxes = e.boxes /\ a.shown = e.shown /\ a.box = e.box /\ a.thrown = e.thrown
      /\ a.registered = L /\ a.workspace = e.workspace /\ a.members = e.members
  BY DEF Editors, ListsOK
<1> HIDE DEF a
<1>5. Holds(a, Q, L, C)
  <2>1. a.lines = Lines(a, C)  BY <1>1, <1>4 DEF Holds, Lines
  <2> QED  BY <1>1, <1>4, <2>1 DEF Holds
<1>6. ASSUME NEW x, Frame(a, x)
      PROVE  /\ OnTab(x)
             /\ \A c : c.from = r \/ c.to = r => Near(x, c)
  BY <1>4, <1>6 DEF Frame, OnTab, Near
<1> DEFINE I(x) == /\ x \in Editors /\ Frame(a, x) /\ \A q \in Reactors : NoLists(e, q) => NoLists(x, q)
<1>7. I(a)  BY <1>4 DEF Frame, NoLists
<1>8. /\ \A x \in Editors, c \in Connection : Erase(ForgetOutput(x, c), c) \in Editors
      /\ \A x \in Editors, c \in Connection : Erase(ForgetInput(x, c), c) \in Editors
  BY EraseForgotten DEF Shrunk
<1>9. I(b) /\ Holds(b, Q, L, N)
  <2> DEFINE J == [k \in 0..Len(s) |->
                     {x \in Editors : I(x) /\ x.inputs = e.inputs /\ Holds(x, Q, L, C \ Initial(s, k))}]
  <2>1. Len(s) \in Nat /\ 0 \in 0..Len(s) /\ Len(s) \in 0..Len(s)  BY <1>1
  <2>2. a \in J[0]
    <3>1. C \ Initial(s, 0) = C  BY <1>1, <1>2, InitialGrows
    <3> HIDE DEF I
    <3> QED  BY <1>4, <1>5, <1>7, <2>1, <3>1
  <2>3. ASSUME NEW k \in 1..Len(s), NEW x \in J[k - 1]
        PROVE  Erase(ForgetOutput(x, s[k]), s[k]) \in J[k]
    <3> DEFINE c == s[k]
               y == Erase(ForgetOutput(x, c), c)
               D == C \ Initial(s, k - 1)
    <3>1. k - 1 \in 0..Len(s) /\ k \in 0..Len(s)  BY <2>1
    <3>2. x \in Editors /\ I(x) /\ x.inputs = e.inputs /\ Holds(x, Q, L, D)
      <4> HIDE DEF I, D
      <4> QED  BY <3>1 DEF D
    <3>3. c \in D /\ c.to = r /\ C \ Initial(s, k) = D \ {c}
      <4>1. /\ s[k] \in Range(s) /\ s[k] \notin Initial(s, k - 1)
            /\ Initial(s, k) = Initial(s, k - 1) \cup {s[k]}
        BY <1>1, <1>2, InitialGrows
      <4> QED  BY <1>2, <4>1
    <3>4. OnTab(x) /\ Near(x, c) /\ c.to \notin L  BY <1>6, <3>2, <3>3
    <3> HIDE DEF c, D, L, Q, I
    <3>5. y.inputs = x.inputs /\ Round(x, y, Q, L, D \ {c})
      <4>1. /\ x \in Editors /\ L \in SUBSET Reactors /\ Holds(x, Q, L, D) /\ c \in D
            /\ OnTab(x) /\ Near(x, c) /\ c.to \notin L
        BY <1>1, <3>2, <3>3, <3>4
      <4> QED  BY ONLY <4>1, InputRound
    <3> HIDE DEF y
    <3>6. I(y)
      <4>1. Frame(a, y)  BY <3>2, <3>5 DEF Frame, I, Round
      <4>2. \A q \in Reactors : NoLists(e, q) => NoLists(y, q)  BY <3>2, <3>5 DEF I, Round
      <4> QED  BY <3>5, <4>1, <4>2 DEF I, Round
    <3>7. y \in J[k]  BY <3>1, <3>2, <3>3, <3>5, <3>6 DEF Round
    <3> QED  BY <3>7 DEF y, c
  <2>4. J[Len(s)] = {x \in Editors : I(x) /\ x.inputs = e.inputs /\ Holds(x, Q, L, N)}
    <3>1. C \ Initial(s, Len(s)) = N  BY <1>1, <1>2, <1>3, InitialGrows
    <3> HIDE DEF I
    <3> QED  BY <2>1, <3>1
  <2> HIDE DEF J, I
  <2>5. FoldLeft(LAMBDA x, c : Erase(ForgetOutput(x, c), c), a, s) \in J[Len(s)]
    BY <1>1, <1>4, <1>8, <2>2, <2>3, FoldOutputs
  <2> QED  BY <2>4, <2>5
<1> HIDE DEF b
<1>10. I(d) /\ Holds(d, Q, L, M)
  <2> DEFINE J == [k \in 0..Len(t) |->
                     {x \in Editors : I(x) /\ Holds(x, Q, L, N \ Initial(t, k))}]
  <2>1. Len(t) \in Nat /\ 0 \in 0..Len(t) /\ Len(t) \in 0..Len(t)  BY <1>1
  <2>2. b \in J[0] /\ b \in Editors
    <3>1. N \ Initial(t, 0) = N  BY <1>1, <1>2, InitialGrows
    <3>2. b \in Editors  BY <1>9
    <3> HIDE DEF I
    <3> QED  BY <1>9, <2>1, <3>1, <3>2
  <2>3. ASSUME NEW k \in 1..Len(t), NEW x \in J[k - 1]
        PROVE  Erase(ForgetInput(x, t[k]), t[k]) \in J[k]
    <3> DEFINE c == t[k]
               y == Erase(ForgetInput(x, c), c)
               D == N \ Initial(t, k - 1)
    <3>1. k - 1 \in 0..Len(t) /\ k \in 0..Len(t)  BY <2>1
    <3>2. x \in Editors /\ I(x) /\ Holds(x, Q, L, D)
      <4> HIDE DEF I, D
      <4> QED  BY <3>1 DEF D
    <3>3. c \in D /\ c.from = r /\ N \ Initial(t, k) = D \ {c}
      <4>1. /\ t[k] \in Range(t) /\ t[k] \notin Initial(t, k - 1)
            /\ Initial(t, k) = Initial(t, k - 1) \cup {t[k]}
        BY <1>1, <1>2, InitialGrows
      <4> QED  BY <1>2, <1>3, <4>1
    <3>4. OnTab(x) /\ Near(x, c) /\ c.from \notin L  BY <1>6, <3>2, <3>3
    <3> HIDE DEF c, D, L, Q, I
    <3>5. Round(x, y, Q, L, D \ {c})
      <4>1. /\ x \in Editors /\ L \in SUBSET Reactors /\ Holds(x, Q, L, D) /\ c \in D
            /\ OnTab(x) /\ Near(x, c) /\ c.from \notin L
        BY <1>1, <3>2, <3>3, <3>4
      <4> QED  BY ONLY <4>1, OutputRound
    <3> HIDE DEF y
    <3>6. I(y)
      <4>1. Frame(a, y)  BY <3>2, <3>5 DEF Frame, I, Round
      <4>2. \A q \in Reactors : NoLists(e, q) => NoLists(y, q)  BY <3>2, <3>5 DEF I, Round
      <4> QED  BY <3>5, <4>1, <4>2 DEF I, Round
    <3>7. y \in J[k]  BY <3>1, <3>3, <3>5, <3>6 DEF Round
    <3> QED  BY <3>7 DEF y, c
  <2>4. J[Len(t)] = {x \in Editors : I(x) /\ Holds(x, Q, L, M)}
    <3>1. N \ Initial(t, Len(t)) = M  BY <1>1, <1>2, <1>3, InitialGrows
    <3> HIDE DEF I
    <3> QED  BY <2>1, <3>1
  <2> HIDE DEF J, I
  <2>5. FoldLeft(LAMBDA x, c : Erase(ForgetInput(x, c), c), b, t) \in J[Len(t)]
    BY <1>1, <1>8, <2>2, <2>3, FoldInputs
  <2> QED  BY <2>4, <2>5
<1> HIDE DEF d
<1>11. /\ d \in Editors /\ d.boxes = e.boxes /\ d.shown = e.shown /\ d.box = e.box
       /\ d.thrown = e.thrown /\ d.registered = L /\ d.workspace = e.workspace
       /\ d.members = e.members
  BY <1>4, <1>10 DEF Frame
<1>12. w \in Workspaces /\ e.members \in [Workspaces -> Seq(Reactors)]
       /\ e.members[w] \in Seq(Reactors) /\ IsInjective(e.members[w])
       /\ Range(e.members[w]) = {q \in Q : e.workspace[q] = w}
  <2>1. e.boxes \in Seq(Workspaces) /\ w \in Range(e.boxes)  BY <1>1 DEF Editors, Holds
  <2>2. w \in Workspaces  BY <2>1 DEF Range
  <2> QED  BY <1>1, <2>2 DEF Editors, Holds
<1>13. /\ Contains(e.members[w], r) /\ IsInjective(RemoveFirst(e.members[w], r))
       /\ Range(RemoveFirst(e.members[w], r)) = {q \in L : e.workspace[q] = w}
  <2> HIDE DEF w
  <2>1. r \in Range(e.members[w])  BY <1>12 DEF w
  <2>2. /\ IsInjective(RemoveFirst(e.members[w], r))
        /\ Range(RemoveFirst(e.members[w], r)) = Range(e.members[w]) \ {r}
        /\ Contains(e.members[w], r) <=> r \in Range(e.members[w])
    BY <1>12, RemoveOne
  <2> QED  BY <1>12, <2>1, <2>2
<1>14. f = g
  BY <1>1, <1>11, <1>13 DEF DeleteReactorFromUI, d, b, a, s, t
<1>15. f \in Editors  BY <1>1, DeletedReactorState DEF Shrunk
<1>16. g = [d EXCEPT !.members = m]  BY <1>11 DEF Editors
<1> HIDE DEF f, g
<1>17. /\ f.boxes = e.boxes /\ f.shown = e.shown /\ f.box = e.box
       /\ f.thrown = e.thrown /\ f.registered = L /\ f.workspace = e.workspace
       /\ f.members = m /\ f.inputs = d.inputs /\ f.outputs = d.outputs /\ f.lines = d.lines
  <2> HIDE DEF m
  <2> QED  BY <1>11, <1>14, <1>16 DEF Editors
<1>18. Keeps(e, f)  BY <1>10, <1>17 DEF Keeps, NoLists
<1>19. Agree(f, M)
  <2>1. \A v \in Workspaces : IsInjective(m[v]) /\ Range(m[v]) = {q \in L : e.workspace[q] = v}
    <3>1. ASSUME NEW v \in Workspaces
          PROVE  IsInjective(m[v]) /\ Range(m[v]) = {q \in L : e.workspace[q] = v}
      <4>1. CASE v = w
        <5>1. m[v] = RemoveFirst(e.members[w], r)  BY <1>12, <4>1
        <5> QED  BY <1>13, <4>1, <5>1
      <4>2. CASE v # w
        <5>1. m[v] = e.members[v]  BY <1>12, <4>2
        <5>2. IsInjective(e.members[v]) /\ Range(e.members[v]) = {q \in Q : e.workspace[q] = v}
          BY <1>1 DEF Holds
        <5> QED  BY <4>2, <5>1, <5>2
      <4> QED  BY <4>1, <4>2
    <3> QED  BY <3>1
  <2>2. f.lines = Lines(f, M)
    <3>1. d.lines = Lines(d, M)  BY <1>10 DEF Holds
    <3> QED  BY <1>11, <1>17, <3>1 DEF Lines
  <2>3. \A c \in M : c \in Connection /\ Ends(c) \subseteq L /\ c.from # c.to
    BY <1>1 DEF M, Apart, Holds, Ends
  <2>4. /\ IsInjective(f.boxes) /\ \A q \in L : f.workspace[q] \in Range(f.boxes)
        /\ \A q \in L : /\ IsInjective(f.inputs[q]) /\ Range(f.inputs[q]) = {c \in M : c.to = q}
                        /\ IsInjective(f.outputs[q]) /\ Range(f.outputs[q]) = {c \in M : c.from = q}
    BY <1>1, <1>10, <1>17 DEF Holds
  <2> HIDE DEF m, L
  <2> QED  BY <1>17, <2>1, <2>2, <2>3, <2>4 DEF Agree, Holds
<1> QED  BY <1>15, <1>17, <1>18, <1>19 DEF f, M

\* The Reactors of the page that are in a workspace.
InBox(e, w) == {r \in e.registered : e.workspace[r] = w}

\* The workspace that is shown is taken off the page with the Reactors in it, and
\* another tab is selected (DeleteWorkspaceFromUI).
LEMMA WorkspaceGone ==
    ASSUME NEW e \in Editors, NEW C, Agree(e, C), OnTab(e), NEW w, w = e.box
    PROVE  LET f == DeleteWorkspaceFromUI(e, w)
               R == InBox(e, w)
           IN  /\ f \in Editors /\ Agree(f, Apart(C, R)) /\ f.registered = e.registered \ R
               /\ f.workspace = e.workspace /\ Range(f.boxes) = Range(e.boxes) \ {w}
               /\ ~f.thrown /\ f.box \in Range(e.boxes)
               /\ IF f.boxes = <<>> THEN f.shown = NewTab ELSE OnTab(f)
               /\ \A r \in Reactors : NoLists(e, r) => NoLists(f, r)
<1> DEFINE R == InBox(e, w)
           Q == e.registered
           s == e.members[w]
           a == FoldLeft(DeleteReactorFromUI, e, e.members[w])
           u == RemoveFirst(e.boxes, w)
           b == [a EXCEPT !.boxes = RemoveFirst(@, w)]
           M == Apart(C, R)
           f == DeleteWorkspaceFromUI(e, w)
<1>1. /\ w \in Workspaces /\ w \in Range(e.boxes) /\ e.boxes \in Seq(Workspaces)
      /\ Holds(e, Q, Q, C) /\ Q \subseteq Reactors /\ s \in Seq(Reactors)
      /\ ~e.thrown /\ e.shown = w /\ w # NewTab
  <2>1. e.boxes \in Seq(Workspaces) /\ w \in Range(e.boxes)  BY DEF Editors, OnTab
  <2>2. w \in Workspaces  BY <2>1 DEF Range
  <2>3. s \in Seq(Reactors)  BY <2>2 DEF Editors
  <2> QED  BY <2>1, <2>2, <2>3, EditorAssumption DEF Agree, OnTab, Editors
<1>2. IsInjective(s) /\ Range(s) = R /\ R \subseteq Q  BY <1>1 DEF Holds, InBox
<1> HIDE DEF s, R, M
<1> DEFINE I(x, T) == /\ x \in Editors /\ Agree(x, Apart(C, T)) /\ x.registered = Q \ T
                      /\ Keeps(e, x)
<1>3. I(a, R)
  <2> DEFINE J == [k \in 0..Len(s) |-> {x \in Editors : I(x, Initial(s, k))}]
  <2>1. Len(s) \in Nat /\ 0 \in 0..Len(s) /\ Len(s) \in 0..Len(s)  BY <1>1
  <2>2. e \in J[0]
    <3>1. Initial(s, 0) = {}  BY <1>1, <1>2, InitialGrows
    <3>2. I(e, {})
      <4>1. Apart(C, {}) = C  BY DEF Apart
      <4> QED  BY <4>1 DEF Keeps
    <3> HIDE DEF I
    <3> QED  BY <2>1, <3>1, <3>2
  <2>3. ASSUME NEW k \in 1..Len(s), NEW x \in J[k - 1]
        PROVE  DeleteReactorFromUI(x, s[k]) \in J[k]
    <3> DEFINE r == s[k]
               y == DeleteReactorFromUI(x, r)
               T == Initial(s, k - 1)
    <3>1. k - 1 \in 0..Len(s) /\ k \in 0..Len(s)  BY <2>1
    <3>2. I(x, T)
      <4> HIDE DEF I, T
      <4> QED  BY <3>1 DEF T
    <3>3. r \in R /\ r \notin T /\ Initial(s, k) = T \cup {r}
      BY <1>1, <1>2, InitialGrows
    <3>4. r \in x.registered /\ x.workspace[r] = x.box /\ OnTab(x)
      <4>1. r \in Q /\ e.workspace[r] = w  BY <3>3 DEF R, InBox
      <4> QED  BY <1>1, <3>2, <3>3, <4>1 DEF Keeps, OnTab
    <3> HIDE DEF r, T
    <3>5. /\ y \in Editors /\ Agree(y, Apart(Apart(C, T), {r})) /\ y.registered = x.registered \ {r}
          /\ Keeps(x, y)
      BY <3>2, <3>4, ReactorGone
    <3> HIDE DEF y
    <3>6. I(y, T \cup {r})
      <4>3. Apart(Apart(C, T), {r}) = Apart(C, T \cup {r})  BY DEF Apart
      <4>1. Agree(y, Apart(C, T \cup {r}))  BY <3>5, <4>3
      <4>2. Keeps(e, y)  BY <3>2, <3>5 DEF Keeps
      <4> QED  BY <3>2, <3>5, <4>1, <4>2
    <3> HIDE DEF I
    <3>7. y \in J[k]  BY <3>1, <3>3, <3>5, <3>6
    <3> QED  BY <3>7 DEF y, r
  <2>4. J[Len(s)] = {x \in Editors : I(x, R)}
    <3>1. Initial(s, Len(s)) = R  BY <1>1, <1>2, InitialGrows
    <3> HIDE DEF I
    <3> QED  BY <2>1, <3>1
  <2>5. \A x \in Editors, r \in Reactors : DeleteReactorFromUI(x, r) \in Editors
    BY DeletedReactorState DEF Shrunk
  <2> HIDE DEF J, I
  <2>6. FoldLeft(DeleteReactorFromUI, e, s) \in J[Len(s)]
    BY <1>1, <2>2, <2>3, <2>5, FoldReactors
  <2> QED  BY <2>4, <2>6 DEF s
<1> HIDE DEF a
<1>4. /\ a \in Editors /\ Agree(a, M) /\ a.registered = Q \ R /\ a.workspace = e.workspace
      /\ a.boxes = e.boxes /\ a.shown = w /\ a.box = w /\ ~a.thrown
      /\ \A r \in Reactors : NoLists(e, r) => NoLists(a, r)
  BY <1>1, <1>3 DEF Keeps, M
<1>5. u \in Seq(Workspaces) /\ IsInjective(u) /\ Range(u) = Range(e.boxes) \ {w}
  <2>1. e.boxes \in Seq(Workspaces) /\ IsInjective(e.boxes)  BY <1>1 DEF Holds
  <2> QED  BY ONLY <2>1, RemoveOne
<1>6. b = [a EXCEPT !.boxes = u]  BY <1>4 DEF Editors
<1> HIDE DEF b, u
<1>7. /\ b \in Editors /\ b.boxes = u /\ b.registered = a.registered /\ b.workspace = a.workspace
      /\ b.members = a.members /\ b.inputs = a.inputs /\ b.outputs = a.outputs
      /\ b.lines = a.lines /\ b.shown = w /\ b.box = w /\ ~b.thrown
  BY <1>4, <1>5, <1>6 DEF Editors, ListsOK
<1>8. Agree(b, M)
  <2>1. Holds(a, Q \ R, Q \ R, M)  BY <1>4 DEF Agree
  <2>2. \A r \in Q \ R : b.workspace[r] \in Range(u)
    BY <1>4, <1>5, <1>7, <2>1 DEF Holds, R, InBox
  <2>3. b.lines = Lines(b, M)  BY <1>7, <2>1 DEF Holds, Lines
  <2> QED  BY <1>4, <1>5, <1>7, <2>1, <2>2, <2>3 DEF Agree, Holds
<1>9. f = SelectTab(b, IF u = <<>> THEN NewTab ELSE Head(u))
  BY <1>4, <1>7 DEF DeleteWorkspaceFromUI, a, b
<1>10. CASE u = <<>>
  <2>1. f = [b EXCEPT !.shown = NewTab]  BY <1>1, <1>7, <1>9, <1>10 DEF SelectTab, Selected
  <2>2. /\ f \in Editors /\ SameRecords(b, f) /\ f.lines = b.lines /\ f.shown = NewTab
        /\ f.box = w /\ ~f.thrown
    BY <1>7, <2>1 DEF Editors, ListsOK, SameRecords
  <2> HIDE DEF f
  <2>3. Agree(f, M)  BY <1>8, <2>2, SameAgree
  <2>4. \A r \in Reactors : NoLists(e, r) => NoLists(f, r)
    BY <1>4, <1>7, <2>2 DEF NoLists, SameRecords
  <2> QED  BY <1>1, <1>4, <1>5, <1>7, <1>10, <2>2, <2>3, <2>4 DEF SameRecords, f, M, R
<1>11. CASE u # <<>>
  <2> DEFINE v == Head(u)
  <2>1. v \in Range(u)
    <3>1. 1 \in DOMAIN u /\ v = u[1]  BY <1>5, <1>11
    <3> QED  BY <3>1 DEF Range
  <2>2. f = SelectTab(b, v)  BY <1>9, <1>11
  <2> HIDE DEF v, f
  <2>3. v \in Range(b.boxes) /\ ~b.thrown /\ b.shown \in {NewTab, b.box}  BY <1>7, <2>1
  <2>4. /\ f \in Editors /\ SameRecords(b, f) /\ f.lines = b.lines /\ f.shown = v
        /\ f.box = v /\ ~f.thrown
    BY <1>7, <2>2, <2>3, TabSelected
  <2>5. Agree(f, M)  BY <1>8, <2>4, SameAgree
  <2>6. \A r \in Reactors : NoLists(e, r) => NoLists(f, r)
    BY <1>4, <1>7, <2>4 DEF NoLists, SameRecords
  <2>7. OnTab(f) /\ f.boxes = u  BY <1>7, <2>1, <2>4 DEF OnTab, SameRecords
  <2> QED  BY <1>1, <1>4, <1>5, <1>7, <1>11, <2>1, <2>4, <2>5, <2>6, <2>7 DEF SameRecords, f, M, R
<1> QED  BY <1>10, <1>11

--------------------------------------------------------------------------------
(***************************************************************************)
(* The page is loaded.                                                     *)
(***************************************************************************)
\* A set in a sequence.
LEMMA SetInOrder ==
    ASSUME NEW S, IsFiniteSet(S)
    PROVE  LET s == SetToSeq(S)
           IN  s \in Seq(S) /\ IsInjective(s) /\ Range(s) = S
<1> DEFINE n == Cardinality(S)
           s == SetToSeq(S)
<1>1. n \in Nat /\ ExistsBijection(1..n, S)  BY FS_CardinalityType
<1>2. \E f \in [1..n -> S] : IsInjective(f)
  BY <1>1 DEF ExistsBijection, Bijection, Injection
<1>3. s \in [1..n -> S] /\ IsInjective(s)  BY <1>2 DEF SetToSeq
<1>4. IsFiniteSet(1..n) /\ Cardinality(1..n) = n
  <2>1. 1 \in Int /\ n \in Int  BY <1>1
  <2>2. IsFiniteSet(1..n) /\ Cardinality(1..n) = IF 1 > n THEN 0 ELSE n - 1 + 1
    BY ONLY <2>1, FS_Interval
  <2> QED  BY <1>1, <2>2
<1> HIDE DEF s
<1>5. s \in Injection(1..n, S)  BY <1>3 DEF Injection, IsInjective
<1>6. s \in Surjection(1..n, S)
  <2> HIDE DEF n
  <2>1. Cardinality(1..n) = Cardinality(S)  BY <1>4 DEF n
  <2> QED  BY <1>4, <1>5, <2>1, FS_Injection
<1>7. DOMAIN s = 1..n /\ \A x \in S : \E i \in 1..n : s[i] = x  BY <1>3, <1>6 DEF Surjection
<1> HIDE DEF n
<1>8. Range(s) = S  BY <1>3, <1>7 DEF Range
<1>9. s \in Seq(S)  BY <1>1, <1>3
<1> QED  BY <1>3, <1>8, <1>9 DEF s

\* The Reactors that the engine has at first.
HomedAtFirst == {r \in Reactors : Topology.home[r] # NoWorkspace}

\* The page has been loaded as far as workspaces of W, Reactors of S and connections of C.
HasLoaded(e, W, S, C) ==
    /\ e \in Editors /\ Agree(e, C) /\ e.registered = S /\ Range(e.boxes) = W
    /\ \A r \in S : e.workspace[r] = Topology.home[r]
    /\ ~e.thrown /\ e.shown \in {NewTab, e.box}
    /\ \A r \in Reactors \ S : NoLists(e, r)

\* No Reactor of the topology is connected to itself: the page does not offer it (Reactor.js
\* 504 and 528, reactors.js 727), but the engine would take such a connection from another
\* client.
NoLoops == \A i \in DOMAIN Topology.connections :
               Topology.connections[i].from # Topology.connections[i].to

\* The page agrees with the topology that it has loaded (InitConfigured).
LEMMA PageLoaded ==
    ASSUME EditorAssumption, NoLoops
    PROVE  /\ HasLoaded(InitConfigured, Range(Topology.workspaces), HomedAtFirst, Range(Topology.connections))
           /\ OnTab(InitConfigured)
<1> DEFINE empty == [boxes |-> <<>>, shown |-> NewTab, box |-> NoWorkspace, surface |-> FALSE,
                  registered |-> {}, workspace |-> [r \in Reactors |-> NoWorkspace],
                  members |-> [w \in Workspaces |-> <<>>],
                  inputs |-> [r \in Reactors |-> <<>>],
                  outputs |-> [r \in Reactors |-> <<>>],
                  lines |-> {}, thrown |-> FALSE]
           S == {r \in Reactors : Topology.home[r] # NoWorkspace}
           icon(e, r) == CreateReactorInConfiguredWorkspace(e, r, Topology.home[r])
           line(e, c) == CreateConnection(ShowWorkspace(e, e.workspace[c.from]), c)
           ws == Topology.workspaces
           rs == SetToSeq(S)
           cs == Topology.connections
           W == Range(ws)
           tabs == FoldLeft(AddWorkspace, empty, ws)
           icons == FoldLeft(LAMBDA e, r : CreateReactorInConfiguredWorkspace(e, r, Topology.home[r]), tabs, rs)
           lines == FoldLeft(LAMBDA e, c : CreateConnection(ShowWorkspace(e, e.workspace[c.from]), c), icons, cs)
           last == ShowWorkspace(lines, Head(ws))
<1>1. InitConfigured = last  BY DEF InitConfigured
<1>2. /\ ws \in Seq(Workspaces) /\ IsInjective(ws) /\ W \subseteq Workspaces /\ Head(ws) \in W
      /\ \A r \in S : Topology.home[r] \in W
      /\ \A r \in Reactors : Topology.home[r] \in Places
  <2>1. ws \in Seq(Workspaces) /\ ws # <<>> /\ IsInjective(ws)  BY DEF EditorAssumption
  <2>2. W \subseteq Workspaces  BY <2>1 DEF Range
  <2>3. Topology.home \in [Reactors -> W \cup {NoWorkspace}]  BY DEF EditorAssumption
  <2>4. 1 \in DOMAIN ws /\ Head(ws) = ws[1]  BY <2>1
  <2> QED  BY <2>1, <2>2, <2>3, <2>4 DEF Places, Range
<1>3. /\ cs \in Seq(Connection) /\ IsInjective(cs)
      /\ \A c \in Range(cs) : c \in Connection /\ c.from \in S /\ c.to \in S /\ c.from # c.to
  <2>1. cs \in Seq(Connection)  BY DEF EditorAssumption, Connection
  <2>2. DOMAIN cs = 1..Len(cs) /\ \A i \in 1..Len(cs) : cs[i] \in Connection  BY <2>1
  <2>3. ASSUME NEW i \in DOMAIN cs
        PROVE  /\ cs[i] \in Connection /\ cs[i].id = i /\ cs[i].from # cs[i].to
               /\ {Topology.home[cs[i].from], Topology.home[cs[i].to]} \subseteq Workspaces
    BY <2>2 DEF EditorAssumption, NoLoops
  <2>4. ASSUME NEW i \in DOMAIN cs
        PROVE  cs[i].from \in S /\ cs[i].to \in S
    <3>1. NoWorkspace \notin Workspaces  BY DEF EditorAssumption
    <3>2. cs[i].from \in Reactors /\ cs[i].to \in Reactors  BY <2>3 DEF Connection
    <3>3. Topology.home[cs[i].from] \in Workspaces /\ Topology.home[cs[i].to] \in Workspaces
      BY <2>3
    <3> QED  BY <3>1, <3>2, <3>3
  <2> HIDE DEF cs, S
  <2>5. IsInjective(cs)
    <3> SUFFICES ASSUME NEW i \in DOMAIN cs, NEW j \in DOMAIN cs, cs[i] = cs[j] PROVE i = j
      BY DEF IsInjective
    <3> QED  BY <2>3
  <2>6. ASSUME NEW c \in Range(cs)
        PROVE  c \in Connection /\ c.from \in S /\ c.to \in S /\ c.from # c.to
    <3>1. PICK i \in DOMAIN cs : c = cs[i]  BY DEF Range
    <3> QED  BY <2>3, <2>4, <3>1
  <2> QED  BY <2>1, <2>5, <2>6
<1>4. rs \in Seq(S) /\ rs \in Seq(Reactors) /\ IsInjective(rs) /\ Range(rs) = S
  <2>1. S \subseteq Reactors /\ IsFiniteSet(Reactors)  BY DEF EditorAssumption
  <2>2. IsFiniteSet(S)  BY <2>1, FS_Subset
  <2> HIDE DEF S
  <2>3. rs \in Seq(S) /\ IsInjective(rs) /\ Range(rs) = S  BY <2>2, SetInOrder
  <2> HIDE DEF rs
  <2> QED  BY <2>1, <2>3
<1>5. HasLoaded(empty, {}, {}, {})
  <2>1. /\ <<>> \in Seq(Workspaces) /\ <<>> \in Seq(Reactors) /\ <<>> \in Seq(Connection)
        /\ Range(<<>>) = {} /\ IsInjective(<<>>)
    BY DEF Range, IsInjective
  <2>2. empty \in Editors
    <3>1. ListsOK(empty)  BY <2>1 DEF ListsOK
    <3> QED  BY <2>1, <3>1 DEF Editors, Places
  <2>3. Agree(empty, {})  BY <2>1 DEF Agree, Holds, Lines
  <2> QED  BY <2>1, <2>2, <2>3 DEF HasLoaded, NoLists
<1>12. S \subseteq Reactors  OBVIOUS
<1> HIDE DEF empty, ws, rs, cs, W, S
<1>6. HasLoaded(tabs, W, {}, {})
  <2> DEFINE J == [k \in 0..Len(ws) |-> {e \in Editors : HasLoaded(e, Initial(ws, k), {}, {})}]
  <2>1. Len(ws) \in Nat /\ 0 \in 0..Len(ws) /\ Len(ws) \in 0..Len(ws)  BY <1>2
  <2>2. empty \in Editors /\ empty \in J[0]
    <3>1. Initial(ws, 0) = {}  BY <1>2, InitialGrows
    <3> QED  BY <1>5, <2>1, <3>1 DEF HasLoaded
  <2>3. ASSUME NEW k \in 1..Len(ws), NEW e \in J[k - 1]
        PROVE  AddWorkspace(e, ws[k]) \in J[k]
    <3> DEFINE w == ws[k]
               f == AddWorkspace(e, w)
               T == Initial(ws, k - 1)
    <3>1. k - 1 \in 0..Len(ws) /\ k \in 0..Len(ws)  BY <2>1
    <3>2. e \in Editors /\ HasLoaded(e, T, {}, {})  BY <3>1
    <3>3. w \in Workspaces /\ w \notin T /\ Initial(ws, k) = T \cup {w}  BY <1>2, InitialGrows
    <3> HIDE DEF w, T
    <3>4. /\ Agree(e, {}) /\ ~e.thrown /\ e.shown \in {NewTab, e.box} /\ Range(e.boxes) = T
          /\ w \in Workspaces \ Range(e.boxes)
      BY <3>2, <3>3 DEF HasLoaded
    <3>5. /\ f \in Editors /\ Agree(f, {}) /\ f.registered = e.registered
          /\ f.workspace = e.workspace /\ Range(f.boxes) = Range(e.boxes) \cup {w}
          /\ f.shown = w /\ f.box = w /\ ~f.thrown
          /\ f.inputs = e.inputs /\ f.outputs = e.outputs
      BY <3>2, <3>4, Opened
    <3> HIDE DEF f
    <3>6. HasLoaded(f, T \cup {w}, {}, {})  BY <3>2, <3>4, <3>5 DEF HasLoaded, NoLists
    <3>7. f \in J[k]  BY <3>1, <3>3, <3>5, <3>6
    <3> QED  BY <3>7 DEF f, w
  <2>4. J[Len(ws)] = {e \in Editors : HasLoaded(e, W, {}, {})}
    <3>1. Initial(ws, Len(ws)) = W  BY <1>2, InitialGrows DEF W
    <3> QED  BY <2>1, <3>1
  <2>5. \A e \in Editors, w \in Workspaces : AddWorkspace(e, w) \in Editors  BY WorkspaceState
  <2> HIDE DEF J
  <2>6. FoldLeft(AddWorkspace, empty, ws) \in J[Len(ws)]
    BY <1>2, <2>2, <2>3, <2>5, FoldWorkspaces
  <2> QED  BY <2>4, <2>6
<1> HIDE DEF tabs
<1>7. HasLoaded(icons, W, S, {})
  <2> DEFINE J == [k \in 0..Len(rs) |-> {e \in Editors : HasLoaded(e, W, Initial(rs, k), {})}]
  <2>1. Len(rs) \in Nat /\ 0 \in 0..Len(rs) /\ Len(rs) \in 0..Len(rs)  BY <1>4
  <2>2. tabs \in Editors /\ tabs \in J[0]
    <3>1. Initial(rs, 0) = {}  BY <1>4, InitialGrows
    <3> QED  BY <1>6, <2>1, <3>1 DEF HasLoaded
  <2>3. ASSUME NEW k \in 1..Len(rs), NEW e \in J[k - 1]
        PROVE  CreateReactorInConfiguredWorkspace(e, rs[k], Topology.home[rs[k]]) \in J[k]
    <3> DEFINE r == rs[k]
               w == Topology.home[r]
               f == CreateReactorInConfiguredWorkspace(e, r, w)
               T == Initial(rs, k - 1)
    <3>1. k - 1 \in 0..Len(rs) /\ k \in 0..Len(rs)  BY <2>1
    <3>2. e \in Editors /\ HasLoaded(e, W, T, {})  BY <3>1
    <3>3. r \in S /\ r \notin T /\ Initial(rs, k) = T \cup {r}  BY <1>4, InitialGrows
    <3>4. w \in W  BY <1>2, <3>3
    <3> HIDE DEF r, w, T
    <3>5. /\ Agree(e, {}) /\ ~e.thrown /\ e.shown \in {NewTab, e.box}
          /\ r \in Reactors \ e.registered /\ NoLists(e, r) /\ w \in Range(e.boxes)
      BY <1>12, <3>2, <3>3, <3>4 DEF HasLoaded
    <3>6. /\ f \in Editors /\ Agree(f, {}) /\ f.registered = e.registered \cup {r}
          /\ f.workspace = [e.workspace EXCEPT ![r] = w] /\ f.boxes = e.boxes
          /\ f.shown = w /\ f.box = w /\ ~f.thrown
          /\ f.inputs = e.inputs /\ f.outputs = e.outputs
      BY ONLY <3>2, <3>5, Copied
    <3> HIDE DEF f
    <3>7. \A q \in T \cup {r} : f.workspace[q] = Topology.home[q]
      <4>1. e.workspace \in [Reactors -> Places] /\ e.registered = T /\ T \subseteq Reactors
        BY <3>2 DEF HasLoaded, Editors
      <4> QED  BY <3>2, <3>5, <3>6, <4>1 DEF HasLoaded, w
    <3>8. HasLoaded(f, W, T \cup {r}, {})  BY <3>2, <3>6, <3>7 DEF HasLoaded, NoLists
    <3>9. f \in J[k]  BY <3>1, <3>3, <3>6, <3>8
    <3> QED  BY <3>9 DEF f, w, r
  <2>4. J[Len(rs)] = {e \in Editors : HasLoaded(e, W, S, {})}
    <3>1. Initial(rs, Len(rs)) = S  BY <1>4, InitialGrows
    <3> QED  BY <2>1, <3>1
  <2>5. \A e \in Editors, r \in Reactors :
          CreateReactorInConfiguredWorkspace(e, r, Topology.home[r]) \in Editors
    BY <1>2, CopyState
  <2> HIDE DEF J
  <2>6. FoldLeft(LAMBDA e, r : CreateReactorInConfiguredWorkspace(e, r, Topology.home[r]), tabs, rs)
          \in J[Len(rs)]
    BY <1>4, <2>2, <2>3, <2>5, FoldIcons
  <2> QED  BY <2>4, <2>6
<1> HIDE DEF icons
<1>8. HasLoaded(lines, W, S, Range(cs))
  <2> DEFINE J == [k \in 0..Len(cs) |-> {e \in Editors : HasLoaded(e, W, S, Initial(cs, k))}]
  <2>1. Len(cs) \in Nat /\ 0 \in 0..Len(cs) /\ Len(cs) \in 0..Len(cs)  BY <1>3
  <2>2. icons \in Editors /\ icons \in J[0]
    <3>1. Initial(cs, 0) = {}  BY <1>3, InitialGrows
    <3> QED  BY <1>7, <2>1, <3>1 DEF HasLoaded
  <2>3. ASSUME NEW k \in 1..Len(cs), NEW e \in J[k - 1]
        PROVE  CreateConnection(ShowWorkspace(e, e.workspace[cs[k].from]), cs[k]) \in J[k]
    <3> DEFINE c == cs[k]
               t == ShowWorkspace(e, e.workspace[c.from])
               f == CreateConnection(t, c)
               T == Initial(cs, k - 1)
    <3>1. k - 1 \in 0..Len(cs) /\ k \in 0..Len(cs)  BY <2>1
    <3>2. e \in Editors /\ HasLoaded(e, W, S, T)  BY <3>1
    <3>3. c \in Range(cs) /\ c \notin T /\ Initial(cs, k) = T \cup {c}  BY <1>3, InitialGrows
    <3>4. c \in Connection /\ c.from \in S /\ c.to \in S /\ c.from # c.to  BY <1>3, <3>3
    <3> HIDE DEF c, T
    <3>5. /\ Agree(e, T) /\ ~e.thrown /\ e.shown \in {NewTab, e.box}
          /\ e.workspace[c.from] \in Range(e.boxes) /\ e.registered = S
      BY <1>2, <3>2, <3>4 DEF HasLoaded
    <3>6. /\ t \in Editors /\ SameRecords(e, t) /\ t.lines = e.lines
          /\ t.shown = e.workspace[c.from] /\ t.box = e.workspace[c.from] /\ ~t.thrown
          /\ t.surface
      BY <3>2, <3>5, ShownSelected
    <3> HIDE DEF t
    <3>7. /\ t \in Editors /\ c \in Connection /\ Agree(t, T) /\ OnTab(t) /\ Near(t, c)
          /\ c \notin T /\ Ends(c) \subseteq t.registered /\ c.from # c.to /\ ~Undrawable(t, c)
      BY <3>3, <3>4, <3>5, <3>6, SameAgree DEF SameRecords, OnTab, Near, Ends, Undrawable
    <3>8. /\ f \in Editors /\ Frame(t, f) /\ Agree(f, T \cup {c})
          /\ \A r \in Reactors \ t.registered : NoLists(t, r) => NoLists(f, r)
      BY ONLY <3>7, Joined
    <3> HIDE DEF f
    <3>9. /\ f.registered = S /\ f.workspace = e.workspace /\ f.boxes = e.boxes
          /\ ~f.thrown /\ f.shown = f.box
      BY <3>5, <3>6, <3>8 DEF Frame, SameRecords
    <3>10. \A r \in Reactors \ S : NoLists(f, r)
      BY <3>2, <3>5, <3>6, <3>8 DEF HasLoaded, SameRecords, NoLists
    <3>11. HasLoaded(f, W, S, T \cup {c})  BY <3>2, <3>8, <3>9, <3>10 DEF HasLoaded
    <3>12. f \in J[k]  BY <3>1, <3>3, <3>8, <3>11
    <3> QED  BY <3>12 DEF f, t, c
  <2>4. J[Len(cs)] = {e \in Editors : HasLoaded(e, W, S, Range(cs))}
    <3>1. Initial(cs, Len(cs)) = Range(cs)  BY <1>3, InitialGrows
    <3> QED  BY <2>1, <3>1
  <2>5. \A e \in Editors, c \in Connection :
          CreateConnection(ShowWorkspace(e, e.workspace[c.from]), c) \in Editors
    <3>1. ASSUME NEW e \in Editors, NEW c \in Connection
          PROVE  CreateConnection(ShowWorkspace(e, e.workspace[c.from]), c) \in Editors
      <4>1. e.workspace[c.from] \in Places  BY DEF Editors, Connection
      <4>2. ShowWorkspace(e, e.workspace[c.from]) \in Editors  BY <4>1, ShownState
      <4> QED  BY <4>2, ConnectionState
    <3> QED  BY <3>1
  <2> HIDE DEF J
  <2>6. FoldLeft(LAMBDA e, c : CreateConnection(ShowWorkspace(e, e.workspace[c.from]), c), icons, cs)
          \in J[Len(cs)]
    BY <1>3, <2>2, <2>3, <2>5, FoldLines
  <2> QED  BY <2>4, <2>6
<1> HIDE DEF lines
<1>9. /\ last \in Editors /\ SameRecords(lines, last) /\ last.lines = lines.lines
      /\ last.shown = Head(ws) /\ last.box = Head(ws) /\ ~last.thrown
  BY <1>2, <1>8, ShownSelected DEF HasLoaded
<1> HIDE DEF last
<1>10. Agree(last, Range(cs))  BY <1>8, <1>9, SameAgree DEF HasLoaded
<1>11. HasLoaded(last, W, S, Range(cs)) /\ OnTab(last)
  BY <1>2, <1>8, <1>9, <1>10 DEF HasLoaded, SameRecords, NoLists, OnTab
<1> QED  BY <1>1, <1>11 DEF W, ws, S, cs, HomedAtFirst

--------------------------------------------------------------------------------
(***************************************************************************)
(* The page and the engine of a patient user.                              *)
(***************************************************************************)

\* The connections in the lists of a page.
Conns(e) == UNION {Range(e.outputs[r]) : r \in e.registered}

\* Where the Reactors of Q are.
Homes(e, Q) == [r \in Reactors |-> IF r \in Q THEN e.workspace[r] ELSE NoWorkspace]

\* The engine g has these workspaces, Reactors and connections.
Has(g, W, H, C) == g.workspaces = W /\ g.home = H /\ g.connections = C

\* The engine g has what the page has.
Level(g, e) == Has(g, Range(e.boxes), Homes(e, e.registered), Conns(e))

\* The page agrees with itself, and knows only of what the engine has named.
Tidy(g, e) ==
    /\ e \in Editors /\ Agree(e, Conns(e)) /\ ~e.thrown /\ e.shown \in {NewTab, e.box}
    /\ e.registered \cup Range(e.boxes) \subseteq g.named
    /\ \A c \in Conns(e) : c.id <= g.made
    /\ \A r \in Reactors \ g.named : NoLists(e, r)

\* What is known of the one request that is under way.
Awaited(g, e, call) ==
    LET type == call.type  what == call.what  done == call.phase = "done"
    IN  /\ type = "addReactor" => OnTab(e) /\ call.at = e.box
        /\ type \in {"addReactor", "addCopy"} /\ done =>
             what \in (Reactors \cap g.named) \ e.registered /\ NoLists(e, what)
        /\ type = "addWorkspace" /\ done => what \in (Workspaces \cap g.named) \ Range(e.boxes)
        /\ type = "getReactor" => what \in e.registered
        /\ type = "connect" =>
             /\ OnTab(e) /\ Near(e, what) /\ Ends(what) \subseteq e.registered
             /\ what.from # what.to
             /\ done => what \in Connection \ Conns(e) /\ what.id <= g.made
        /\ type = "disconnect" =>
             /\ OnTab(e) /\ Near(e, what) /\ what \in Conns(e)
             /\ call.at = "inputs" => call.row \in DOMAIN e.inputs[what.to]
                                      /\ e.inputs[what.to][call.row] = what
             /\ call.at = "outputs" => call.row \in DOMAIN e.outputs[what.from]
                                       /\ e.outputs[what.from][call.row] = what
        /\ type = "deleteReactor" =>
             OnTab(e) /\ what \in e.registered /\ e.workspace[what] = e.box
        /\ type \in {"deleteReactors", "deleteWorkspace"} => OnTab(e) /\ what = e.box

\* What the engine has when it has not served the request yet.
Before(g, e, call) ==
    LET R == InBox(e, call.what)
    IN  /\ call.type \in {"addReactor", "addCopy"} => call.at \in Range(e.boxes)
        /\ IF call.type = "deleteWorkspace"
             THEN Has(g, Range(e.boxes), Homes(e, e.registered \ R), Apart(Conns(e), R))
             ELSE Level(g, e)

\* What it has when it has.
After(g, e, call) ==
    LET W == Range(e.boxes)  Q == e.registered  C == Conns(e)
        type == call.type  what == call.what  R == InBox(e, what)
    IN  /\ type \in {"addReactor", "addCopy"} =>
             call.at \in W /\ Has(g, W, [Homes(e, Q) EXCEPT ![what] = call.at], C)
        /\ type = "addWorkspace" => Has(g, W \cup {what}, Homes(e, Q), C)
        /\ type = "getReactor" => call.at \in W /\ Level(g, e)
        /\ type = "connect" => Has(g, W, Homes(e, Q), C \cup {what})
        /\ type = "disconnect" => Has(g, W, Homes(e, Q), C \ {what})
        /\ type = "deleteReactor" => Has(g, W, Homes(e, Q \ {what}), Apart(C, {what}))
        /\ type = "deleteReactors" => Has(g, W, Homes(e, Q \ R), Apart(C, R))
        /\ type = "deleteWorkspace" => Has(g, W \ {what}, Homes(e, Q \ R), Apart(C, R))

\* The engine g is ahead of the page by what the request asks for, or level with it.
Ahead(g, e, call) == IF call.phase = "sent" THEN Before(g, e, call) ELSE After(g, e, call)

\* At most one request is under way, and the page is level with the engine or is about
\* to be, unless an answer was lost.
InTouch(g, e, under_way, lost) ==
    /\ Tidy(g, e)
    /\ \/ under_way = {} /\ (lost \/ Level(g, e))
       \/ \E call : under_way = {call} /\ Awaited(g, e, call) /\ (lost \/ Ahead(g, e, call))

\* The engine, but for the connections that the page could not draw: a later one is
\* none of them.
Drawn == [workspaces |-> engine.workspaces, home |-> engine.home,
          connections |-> engine.connections \ acts.undrawn,
          named |-> engine.named, made |-> engine.made]

\* The invariant: it is said of the user who waits for answers only.
EditorConsistent ==
    /\ acts \in [done : Nat, rush : Nat, lost : BOOLEAN, undrawn : SUBSET Connection]
    /\ Unhurried => /\ \A c \in acts.undrawn : c.id <= engine.made
                    /\ InTouch(Drawn, editor, calls, acts.lost)

--------------------------------------------------------------------------------
\* The connections between the Reactors of a page are in its lists.
LEMMA ConnsAre ==
    ASSUME NEW e \in Editors, NEW C, Agree(e, C)
    PROVE  Conns(e) = C
BY DEF Conns, Agree, Holds, Ends

\* A call that has been sent.
LEMMA CallIs ==
    ASSUME NEW type, NEW what, NEW at
    PROVE  LET x == Call(type, what, at)
           IN  /\ x.type = type /\ x.what = what /\ x.at = at /\ x.phase = "sent"
               /\ x \in [type : {type}, what : {what}, at : {at}, row : {0}, nr : {acts.done},
                         phase : {"sent"}]
BY DEF Call

\* A callback that throws nothing ends with f itself.
LEMMA NotThrown ==
    ASSUME NEW f \in Editors, ~f.thrown
    PROVE  [f EXCEPT !.thrown = FALSE] = f
BY DEF Editors

\* What the user sees is a workspace.
LEMMA Sight ==
    ASSUME NEW g, Tidy(g, editor), InSight
    PROVE  /\ OnTab(editor)
           /\ \A r \in Reactors : Visible(r) =>
                r \in editor.registered /\ editor.workspace[r] = editor.box
<1>1. /\ editor \in Editors /\ Agree(editor, Conns(editor)) /\ ~editor.thrown
      /\ editor.shown \in {NewTab, editor.box}
  BY DEF Tidy
<1>2. editor.boxes \in Seq(Workspaces) /\ editor.members \in [Workspaces -> Seq(Reactors)]
  BY <1>1 DEF Editors
<1>3. \A s : ToSet(s) = Range(s)  BY DEF ToSet, Range
<1>4. editor.shown \in Range(editor.boxes) /\ Range(editor.boxes) \subseteq Workspaces
  BY <1>2, <1>3, ContainsIn DEF InSight
<1>5. editor.shown = editor.box /\ editor.box \in Workspaces
  BY <1>1, <1>4, EditorAssumption DEF EditorAssumption
<1>6. ASSUME NEW r \in Reactors, Visible(r)
      PROVE  r \in editor.registered /\ editor.workspace[r] = editor.box
  <2>1. r \in Range(editor.members[editor.box])  BY <1>2, <1>3, <1>5, <1>6, ContainsIn DEF Visible
  <2> QED  BY <1>1, <1>5, <2>1 DEF Agree, Holds
<1> QED  BY <1>1, <1>4, <1>5, <1>6 DEF OnTab

\* The workspaces of the page.
LEMMA BoxedPlaces ==
    ASSUME NEW e \in Editors
    PROVE  Range(e.boxes) \subseteq Workspaces
BY DEF Editors, Range

--------------------------------------------------------------------------------
(***************************************************************************)
(* The acts of a patient user.                                             *)
(***************************************************************************)
\* A patient user has no request under way.
Calm == Tidy(Drawn, editor) /\ calls = {} /\ (acts.lost \/ Level(Drawn, editor))

\* A user who waits acts when no request is under way, and one who does not is not
\* patient any more.
LEMMA ActsCalm ==
    ASSUME EditorConsistent, NEW rushed \in BOOLEAN, UserAct(rushed), Waiting => rushed,
           Calm /\ ~rushed => InTouch(Drawn, editor', calls', acts.lost)
    PROVE  EditorConsistent'
<1>1. /\ acts' \in [done : Nat, rush : Nat, lost : BOOLEAN, undrawn : SUBSET Connection]
      /\ acts'.lost = acts.lost /\ acts'.undrawn = acts.undrawn
      /\ acts'.rush = IF rushed THEN acts.rush + 1 ELSE acts.rush
      /\ acts.rush \in Nat /\ engine' = engine
  <2> DEFINE n == IF rushed THEN acts.rush + 1 ELSE acts.rush
  <2>1. acts \in [done : Nat, rush : Nat, lost : BOOLEAN, undrawn : SUBSET Connection]  BY DEF EditorConsistent
  <2>2. n \in Nat  BY <2>1
  <2>3. acts' = [acts EXCEPT !.done = @ + 1, !.rush = n] /\ engine' = engine
    BY <2>1 DEF UserAct
  <2> HIDE DEF n
  <2>4. /\ acts' \in [done : Nat, rush : Nat, lost : BOOLEAN, undrawn : SUBSET Connection]
        /\ acts'.lost = acts.lost /\ acts'.undrawn = acts.undrawn /\ acts'.rush = n
    <3> DEFINE m == acts.done + 1
    <3>1. m \in Nat /\ acts' = [acts EXCEPT !.done = m, !.rush = n]  BY <2>1, <2>3
    <3> HIDE DEF m
    <3>2. acts' \in [done : Nat, rush : Nat, lost : BOOLEAN, undrawn : SUBSET Connection]  BY <2>1, <2>2, <3>1
    <3>3. acts'.rush = n  BY <2>1, <3>1
    <3>4. acts'.lost = acts.lost /\ acts'.undrawn = acts.undrawn  BY <2>1, <3>1
    <3> QED  BY <3>2, <3>3, <3>4
  <2> QED  BY <2>1, <2>3, <2>4 DEF n
<1>2. ASSUME Unhurried' PROVE Unhurried /\ ~rushed
  BY <1>1, <1>2 DEF Unhurried
<1>3. ASSUME Unhurried' PROVE InTouch(Drawn, editor', calls', acts.lost)
  <2>1. Unhurried /\ calls = {}  BY <1>2, <1>3 DEF Waiting
  <2>2. InTouch(Drawn, editor, calls, acts.lost)  BY <2>1 DEF EditorConsistent
  <2>3. Calm  BY <2>1, <2>2 DEF InTouch, Calm
  <2> QED  BY <1>2, <1>3, <2>3
<1>5. Drawn' = Drawn  BY <1>1 DEF Drawn
<1>4. InTouch(Drawn, editor, calls, acts.lost)'
        <=> InTouch(Drawn', editor', calls', acts'.lost)
  OBVIOUS
<1>6. Unhurried' => \A c \in acts'.undrawn : c.id <= engine'.made
  BY <1>1, <1>2 DEF EditorConsistent
<1> QED  BY <1>1, <1>3, <1>4, <1>5, <1>6 DEF EditorConsistent

\* A request is sent to an engine that has what the page has.
LEMMA SentCalm ==
    ASSUME Calm, NEW call, Sends(call), Awaited(Drawn, editor, call), call.phase = "sent",
           \/ Before(Drawn, editor, call)
           \/ call.type \notin {"addReactor", "addCopy", "deleteWorkspace"}
    PROVE  InTouch(Drawn, editor', calls', acts.lost)
<1>1. calls' = {call} /\ editor' = editor  BY DEF Sends, Calm
<1>2. acts.lost \/ Ahead(Drawn, editor, call)  BY DEF Calm, Ahead, Before
<1> QED  BY <1>1, <1>2 DEF InTouch, Calm

\* A tab is selected, and a request is sent, or none.
LEMMA TabCalm ==
    ASSUME Calm, NEW f \in Editors, SameRecords(editor, f), f.lines = editor.lines,
           f.shown \in {NewTab, f.box}, NEW under_way, Becomes(f, under_way),
           \/ under_way = {}
           \/ \E call : /\ under_way = {call} /\ call.phase = "sent" /\ f.shown # NewTab
                        /\ call.type = "connect"
                        /\ ~f.thrown => Awaited(Drawn, f, call)
                        /\ ~f.thrown
    PROVE  InTouch(Drawn, editor', calls', acts.lost)
<1> DEFINE g == [f EXCEPT !.thrown = FALSE]
           x == Call("addWorkspace", NoWorkspace, NoWorkspace)
<1>1. g \in Editors /\ SameRecords(f, g) /\ g.lines = f.lines
      /\ g.shown = f.shown /\ g.box = f.box /\ g.thrown = FALSE
  BY ThrownState
<1>2. editor' = g /\ (calls' = under_way \/ (calls' = under_way \cup {x} /\ f.shown = NewTab))
  BY DEF Becomes
<1>3. ~f.thrown => g = f  BY NotThrown
<1> HIDE DEF g
<1>4. SameRecords(editor, g) /\ g.lines = editor.lines  BY <1>1 DEF SameRecords
<1>5. Tidy(Drawn, editor) /\ Agree(editor, Conns(editor))  BY DEF Calm, Tidy
<1>6. Agree(g, Conns(editor))  BY <1>4, <1>5, SameAgree
<1>7. Conns(g) = Conns(editor)  BY <1>1, <1>6, ConnsAre
<1>8. Tidy(Drawn, g)  BY <1>1, <1>4, <1>5, <1>6, <1>7 DEF Tidy, SameRecords, NoLists
<1>9. acts.lost \/ Level(Drawn, g)
  BY <1>4, <1>7 DEF Calm, Level, Homes, SameRecords
<1>10. ASSUME NEW call, Awaited(Drawn, g, call), call.phase = "sent",
              call.type \in {"connect", "addWorkspace"}, calls' = {call}
       PROVE  InTouch(Drawn, editor', calls', acts.lost)
  BY <1>2, <1>8, <1>9, <1>10 DEF InTouch, Ahead, Before
<1>11. CASE under_way = {}
  <2>1. CASE calls' = {x}
    <3>1. x.type = "addWorkspace" /\ x.phase = "sent"  BY CallIs
    <3> HIDE DEF x
    <3>2. Awaited(Drawn, g, x)  BY <3>1 DEF Awaited
    <3> QED  BY <1>10, <2>1, <3>1, <3>2
  <2>2. CASE calls' = {}  BY <1>2, <1>8, <1>9, <2>2 DEF InTouch
  <2> QED  BY <1>2, <1>11, <2>1, <2>2
<1>12. ASSUME NEW call, under_way = {call}, call.phase = "sent", f.shown # NewTab,
              call.type = "connect", Awaited(Drawn, f, call), ~f.thrown
       PROVE  InTouch(Drawn, editor', calls', acts.lost)
  BY <1>2, <1>3, <1>10, <1>12
<1> QED  BY <1>11, <1>12

\* Every act of the user keeps the invariant.
LEMMA UserConsistent ==
    ASSUME EditorConsistent, EditorUserActs
    PROVE  EditorConsistent'
<1>1. /\ Waiting \in BOOLEAN
      /\ \A w : (Waiting \/ w # editor.shown) \in BOOLEAN
  BY DEF Waiting
<1>2. ASSUME Calm
      PROVE  /\ Tidy(Drawn, editor) /\ calls = {} /\ editor \in Editors
             /\ Agree(editor, Conns(editor)) /\ ~editor.thrown
             /\ editor.shown \in {NewTab, editor.box}
  BY <1>2 DEF Calm, Tidy
<1>3. NewTab \notin Workspaces /\ NoWorkspace \notin Workspaces  BY EditorAssumption DEF EditorAssumption
<1>4. ASSUME NEW tab \in Range(editor.boxes) \cup {NewTab}, ClickTab(tab)
      PROVE  EditorConsistent'
  <2> DEFINE f == SelectTab(editor, tab)
  <2>1. tab # editor.shown /\ Becomes(f, calls) /\ UserAct(Waiting)  BY <1>4 DEF ClickTab
  <2>2. ASSUME Calm PROVE InTouch(Drawn, editor', calls', acts.lost)
    <3>1. f \in Editors /\ SameRecords(editor, f) /\ f.lines = editor.lines
          /\ f.shown \in {NewTab, f.box}
      <4>1. CASE tab \in Range(editor.boxes)  BY <1>2, <2>2, <4>1, TabSelected
      <4>2. CASE tab = NewTab
        <5>1. f = [editor EXCEPT !.shown = NewTab]
          BY <1>2, <2>1, <2>2, <4>2 DEF SelectTab, Selected
        <5>2. f.shown = NewTab  BY <1>2, <2>2, <5>1 DEF Editors
        <5>3. f \in Editors /\ SameRecords(editor, f) /\ f.lines = editor.lines
          BY <1>2, <2>2, <4>2, TabState
        <5> QED  BY <5>2, <5>3
      <4> QED  BY <4>1, <4>2
    <3> HIDE DEF f
    <3> QED  BY <1>2, <2>1, <2>2, <3>1, TabCalm
  <2> QED  BY <1>1, <2>1, <2>2, ActsCalm
<1>5. CASE ReselectCurrentWorkspace
  <2> DEFINE f == Selected(editor, editor.box)
  <2>1. Becomes(f, calls) /\ UserAct(Waiting)  BY <1>5 DEF ReselectCurrentWorkspace
  <2>2. ASSUME Calm PROVE InTouch(Drawn, editor', calls', acts.lost)
    <3>1. editor.box \in Places  BY <1>2, <2>2 DEF Editors
    <3>2. f \in Editors /\ SameRecords(editor, f) /\ f.lines = editor.lines
      BY <1>2, <2>2, <3>1, SelectedState
    <3>3. CASE editor.box = NewTab
      <4>1. f = [editor EXCEPT !.shown = NewTab]  BY <3>3 DEF Selected
      <4>2. f.shown = NewTab  BY <1>2, <2>2, <4>1 DEF Editors
      <4> HIDE DEF f
      <4> QED  BY <1>2, <2>1, <2>2, <3>2, <4>2, TabCalm
    <3>5. SUFFICES ASSUME editor.box # NewTab PROVE InTouch(Drawn, editor', calls', acts.lost)
      BY <3>3
    <3>4. f.shown = f.box
      <4> DEFINE y == ~Contains(editor.boxes, editor.box)
      <4>1. f = [editor EXCEPT !.shown = editor.box, !.box = editor.box, !.surface = TRUE,
                               !.thrown = y]
        BY <3>5 DEF Selected
      <4> HIDE DEF y, f
      <4> QED  BY <1>2, <2>2, <4>1 DEF Editors
    <3> HIDE DEF f
    <3> QED  BY <1>2, <2>1, <2>2, <3>2, <3>4, TabCalm
  <2> QED  BY <1>1, <2>1, <2>2, ActsCalm
<1>6. ASSUME NEW type, NEW what, NEW at, NEW rushed \in BOOLEAN, UserAct(rushed), Waiting => rushed,
             Sends(Call(type, what, at)),
             Calm /\ ~rushed => LET x == Call(type, what, at)
                                IN  /\ Awaited(Drawn, editor, x)
                                    /\ \/ Before(Drawn, editor, x)
                                       \/ acts.lost
                                       \/ type \notin {"addReactor", "addCopy", "deleteWorkspace"}
      PROVE  EditorConsistent'
  <2> DEFINE x == Call(type, what, at)
  <2>1. x.type = type /\ x.phase = "sent"  BY CallIs
  <2> HIDE DEF x
  <2>2. ASSUME Calm, ~rushed PROVE InTouch(Drawn, editor', calls', acts.lost)
    <3>1. Sends(x) /\ Awaited(Drawn, editor, x)  BY <1>6, <2>2 DEF x
    <3>2. CASE acts.lost
      <4>1. calls' = {x} /\ editor' = editor  BY <2>2, <3>1 DEF Sends, Calm
      <4> QED  BY <2>2, <3>1, <3>2, <4>1 DEF InTouch, Calm
    <3>3. CASE ~acts.lost
      <4>1. \/ Before(Drawn, editor, x)
            \/ x.type \notin {"addReactor", "addCopy", "deleteWorkspace"}
        BY <1>6, <2>1, <2>2, <3>3 DEF x
      <4> QED  BY <2>1, <2>2, <3>1, <4>1, SentCalm
    <3> QED  BY <3>2, <3>3
  <2> QED  BY <1>6, <2>2, ActsCalm
<1>7. CASE TryConfig
  <2> DEFINE x == Call("addReactor", NoWorkspace, editor.box)
  <2>1. InSight /\ Sends(x) /\ UserAct(Waiting)  BY <1>7 DEF TryConfig
  <2>2. x.type = "addReactor" /\ x.phase = "sent" /\ x.at = editor.box  BY CallIs
  <2> HIDE DEF x
  <2>3. ASSUME Calm PROVE Awaited(Drawn, editor, x) /\ (acts.lost \/ Before(Drawn, editor, x))
    <3>1. OnTab(editor)  BY <1>2, <2>1, <2>3, Sight
    <3>2. Awaited(Drawn, editor, x)  BY <2>2, <3>1 DEF Awaited
    <3>3. acts.lost \/ Before(Drawn, editor, x)  BY <2>2, <2>3, <3>1 DEF Before, OnTab, Calm
    <3> QED  BY <3>2, <3>3
  <2> QED  BY <1>1, <1>6, <2>1, <2>3 DEF x
<1>8. ASSUME NEW r \in Reactors, CopyReactor(r) \/ DeleteReactor(r) PROVE EditorConsistent'
  <2>1. PICK type \in {"getReactor", "deleteReactor"} :
          Visible(r) /\ Sends(Call(type, r, NoWorkspace)) /\ UserAct(Waiting)
    BY <1>8 DEF CopyReactor, DeleteReactor
  <2> DEFINE x == Call(type, r, NoWorkspace)
  <2>2. x.type = type /\ x.phase = "sent" /\ x.what = r  BY CallIs
  <2> HIDE DEF x
  <2>3. ASSUME Calm PROVE Awaited(Drawn, editor, x)
    <3>1. OnTab(editor) /\ r \in editor.registered /\ editor.workspace[r] = editor.box
      BY <1>2, <2>1, <2>3, Sight DEF Visible
    <3> QED  BY <2>1, <2>2, <3>1 DEF Awaited
  <2>4. type \notin {"addReactor", "addCopy", "deleteWorkspace"}  BY <2>1
  <2> QED  BY <1>1, <1>6, <2>1, <2>3, <2>4 DEF x
<1>9. ASSUME NEW r \in Reactors, NEW s \in Reactors, HandleSelectionOfConnectorEndpoint(r, s)
      PROVE  EditorConsistent'
  <2> DEFINE f == SelectTab(editor, editor.workspace[r])
             c == [from |-> r, to |-> s]
             x == Call("connect", c, NoWorkspace)
  <2>1. /\ Visible(s) /\ r # s /\ r \in editor.registered
        /\ Becomes(f, calls \cup {x}) /\ UserAct(Waiting)
    BY <1>9 DEF HandleSelectionOfConnectorEndpoint
  <2>2. x.type = "connect" /\ x.phase = "sent" /\ x.what = c  BY CallIs
  <2>3. c.from = r /\ c.to = s  OBVIOUS
  <2> HIDE DEF x, c
  <2>4. ASSUME Calm PROVE InTouch(Drawn, editor', calls', acts.lost)
    <3>1. s \in editor.registered  BY <1>2, <2>1, <2>4, Sight DEF Visible
    <3>2. editor.workspace[r] \in Range(editor.boxes)  BY <1>2, <2>1, <2>4 DEF Agree, Holds
    <3>3. f \in Editors /\ SameRecords(editor, f) /\ f.lines = editor.lines
          /\ f.shown = editor.workspace[r] /\ f.box = editor.workspace[r] /\ ~f.thrown
      BY <1>2, <2>4, <3>2, TabSelected
    <3>4. f.shown # NewTab  BY <1>2, <1>3, <2>4, <3>2, <3>3, BoxedPlaces
    <3> HIDE DEF f
    <3>5. OnTab(f) /\ Near(f, c) /\ Ends(c) \subseteq f.registered /\ c.from # c.to
      BY <2>1, <2>3, <3>1, <3>2, <3>3 DEF OnTab, Near, Ends, SameRecords
    <3>6. Awaited(Drawn, f, x)  BY <2>2, <3>5 DEF Awaited
    <3>7. calls \cup {x} = {x}  BY <1>2, <2>4
    <3>8. Becomes(f, {x})  BY <2>1, <3>7
    <3>9. f.shown \in {NewTab, f.box}  BY <3>3
    <3> QED  BY <2>2, <2>4, <3>3, <3>4, <3>6, <3>8, <3>9, TabCalm
  <2> QED  BY <1>1, <2>1, <2>4, ActsCalm
<1>10. ASSUME NEW r \in Reactors, NEW s \in Reactors, MakeCallback(r, s) PROVE EditorConsistent'
  <2> DEFINE c == [from |-> r, to |-> s]
             x == Call("connect", c, NoWorkspace)
  <2>1. /\ r # s /\ {r, s} \subseteq editor.registered /\ (Visible(r) \/ Visible(s))
        /\ Sends(x) /\ UserAct(Waiting)
    BY <1>10 DEF MakeCallback
  <2>2. x.type = "connect" /\ x.phase = "sent" /\ x.what = c  BY CallIs
  <2>3. c.from = r /\ c.to = s  OBVIOUS
  <2> HIDE DEF c
  <2>4. ASSUME Calm PROVE Awaited(Drawn, editor, x)
    <3> HIDE DEF x
    <3>1. /\ OnTab(editor)
          /\ editor.workspace[r] = editor.box \/ editor.workspace[s] = editor.box
      BY <1>2, <2>1, <2>4, Sight DEF Visible
    <3>2. Near(editor, c) /\ Ends(c) \subseteq editor.registered /\ c.from # c.to
      BY <2>1, <2>3, <3>1 DEF Near, Ends
    <3> QED  BY <2>2, <3>1, <3>2 DEF Awaited
  <2> HIDE DEF x
  <2>5. Sends(Call("connect", c, NoWorkspace)) /\ (Calm => Awaited(Drawn, editor, Call("connect", c, NoWorkspace)))
    BY <2>1, <2>4 DEF x
  <2> QED  BY <1>1, <1>6, <2>1, <2>5
<1>11. ASSUME NEW line \in editor.lines, RemoveConnection(line[2]) PROVE EditorConsistent'
  <2> DEFINE c == line[2]
             x == Call("disconnect", c, "line")
  <2>1. InSight /\ <<editor.shown, c>> \in editor.lines /\ Sends(x) /\ UserAct(Waiting)
    BY <1>11 DEF RemoveConnection
  <2>2. x.type = "disconnect" /\ x.phase = "sent" /\ x.what = c /\ x.at = "line"  BY CallIs
  <2> HIDE DEF c
  <2>4. ASSUME Calm PROVE Awaited(Drawn, editor, x)
    <3> HIDE DEF x
    <3>1. OnTab(editor)  BY <1>2, <2>1, <2>4, Sight
    <3>2. <<editor.box, c>> \in Lines(editor, Conns(editor))
      BY <1>2, <2>1, <2>4, <3>1 DEF OnTab, Agree, Holds
    <3>3. c \in Conns(editor) /\ Near(editor, c)  BY <3>2 DEF Lines, Near
    <3> QED  BY <2>2, <3>1, <3>3 DEF Awaited
  <2> HIDE DEF x
  <2>5. Sends(Call("disconnect", c, "line")) /\ (Calm => Awaited(Drawn, editor, Call("disconnect", c, "line")))
    BY <2>1, <2>4 DEF x
  <2> QED  BY <1>1, <1>6, <2>1, <2>5
<1>12. ASSUME NEW r \in Reactors, NEW table \in {"inputs", "outputs"},
              NEW row \in 1..MaxConnections, OnCellClick(r, table, row)
       PROVE  EditorConsistent'
  <2> DEFINE list == IF table = "inputs" THEN editor.inputs[r] ELSE editor.outputs[r]
             c == list[row]
             y == Call("disconnect", c, table)
             x == [y EXCEPT !.row = row]
  <2>1. /\ Visible(r) /\ row \in DOMAIN list /\ calls' = calls \cup {x}
        /\ editor' = editor /\ UserAct(Waiting)
    BY <1>12 DEF OnCellClick
  <2>2. ASSUME Calm PROVE InTouch(Drawn, editor', calls', acts.lost)
    <3>1. OnTab(editor) /\ r \in editor.registered /\ editor.workspace[r] = editor.box
      BY <1>2, <2>1, <2>2, Sight DEF Visible
    <3>2. c \in Range(list)  BY <2>1 DEF Range
    <3>3. c \in Conns(editor) /\ (IF table = "inputs" THEN c.to = r ELSE c.from = r)
      BY <1>2, <2>2, <3>1, <3>2 DEF Agree, Holds
    <3>4. Near(editor, c)  BY <3>1, <3>3 DEF Near
    <3>5. /\ table = "inputs" => row \in DOMAIN editor.inputs[c.to] /\ editor.inputs[c.to][row] = c
          /\ table = "outputs" => row \in DOMAIN editor.outputs[c.from] /\ editor.outputs[c.from][row] = c
      BY <2>1, <3>3
    <3> HIDE DEF c
    <3>6. x.type = "disconnect" /\ x.phase = "sent" /\ x.what = c /\ x.at = table /\ x.row = row
      BY CallIs
    <3> HIDE DEF x
    <3>7. Awaited(Drawn, editor, x)  BY <3>1, <3>3, <3>4, <3>5, <3>6 DEF Awaited
    <3>8. x.type \notin {"addReactor", "addCopy", "deleteWorkspace"}  BY <3>6
    <3>9. Sends(x)  BY <2>1 DEF Sends
    <3> QED  BY <2>2, <3>6, <3>7, <3>8, <3>9, SentCalm
  <2> QED  BY <1>1, <2>1, <2>2, ActsCalm
<1>13. ASSUME NEW w \in Workspaces, DeleteWorkspaceIfConfirmed(w) PROVE EditorConsistent'
  <2> DEFINE type == IF editor.members[w] = <<>> THEN "deleteWorkspace" ELSE "deleteReactors"
             x == Call(type, w, NoWorkspace)
             rushed == Waiting \/ w # editor.shown
  <2>1. Contains(editor.boxes, w) /\ Sends(x) /\ UserAct(rushed)
    BY <1>13 DEF DeleteWorkspaceIfConfirmed
  <2>2. x.type = type /\ x.phase = "sent" /\ x.what = w  BY CallIs
  <2> HIDE DEF x
  <2>3. ASSUME Calm, ~rushed
        PROVE  /\ Awaited(Drawn, editor, x)
               /\ \/ Before(Drawn, editor, x) \/ acts.lost
                  \/ type \notin {"addReactor", "addCopy", "deleteWorkspace"}
    <3>1. InSight /\ w = editor.shown  BY <2>1, <2>3 DEF InSight
    <3>2. OnTab(editor) /\ w = editor.box  BY <1>2, <2>3, <3>1, Sight DEF OnTab
    <3>3. Awaited(Drawn, editor, x)  BY <2>2, <3>2 DEF Awaited
    <3>4. ASSUME editor.members[w] = <<>>, Level(Drawn, editor) PROVE Before(Drawn, editor, x)
      <4>1. Range(editor.members[w]) = {}  BY <3>4 DEF Range
      <4>2. InBox(editor, w) = {}  BY <1>2, <2>3, <4>1 DEF InBox, Agree, Holds
      <4>3. Apart(Conns(editor), InBox(editor, w)) = Conns(editor)
            /\ editor.registered \ InBox(editor, w) = editor.registered
        BY <4>2 DEF Apart
      <4>4. x.type = "deleteWorkspace"  BY <2>2, <3>4
      <4> QED  BY <2>2, <3>4, <4>3, <4>4 DEF Before, Level
    <3>5. editor.members[w] # <<>> => type \notin {"addReactor", "addCopy", "deleteWorkspace"}
      OBVIOUS
    <3> QED  BY <2>3, <3>3, <3>4, <3>5 DEF Calm
  <2>4. rushed \in BOOLEAN /\ (Waiting => rushed)  OBVIOUS
  <2> HIDE DEF type, rushed
  <2>5. Sends(Call(type, w, NoWorkspace))  BY <2>1 DEF x
  <2>6. Calm /\ ~rushed =>
          LET z == Call(type, w, NoWorkspace)
          IN  /\ Awaited(Drawn, editor, z)
              /\ \/ Before(Drawn, editor, z) \/ acts.lost
                 \/ type \notin {"addReactor", "addCopy", "deleteWorkspace"}
    BY <2>3 DEF x
  <2> QED  BY <1>6, <2>1, <2>4, <2>5, <2>6
<1> QED
  BY <1>4, <1>5, <1>7, <1>8, <1>9, <1>10, <1>11, <1>12, <1>13 DEF EditorUserActs

--------------------------------------------------------------------------------
(***************************************************************************)
(* The requests of a patient user.                                         *)
(***************************************************************************)
\* The engine serves the request of a patient user.
LEMMA ServeConsistent ==
    ASSUME EditorInv, EditorConsistent, NEW call \in calls, EngineServes(call)
    PROVE  EditorConsistent'
<1> DEFINE type == call.type
           e == editor
           W == Range(e.boxes)
           Q == e.registered
           C == Conns(e)
           Reply(what) == [call EXCEPT !.what = what, !.phase = "done"]
<1>1. /\ call.phase = "sent" /\ IsCall(call) /\ EngineOK /\ editor \in Editors
      /\ EngineOK' /\ Later /\ UNCHANGED <<editor, acts>>
  BY ServeLater DEF EditorInv, EngineServes, CallOK
<1>24. /\ engine.named \subseteq engine'.named /\ engine.made <= engine'.made
       /\ engine.made \in Nat /\ engine'.made \in Nat
  BY <1>1 DEF Later, EngineOK
<1>25. Unhurried => \A c \in acts.undrawn : c \in Connection /\ c.id <= engine.made
  BY DEF EditorConsistent
<1>26. Unhurried => \A c \in acts.undrawn : c.id <= engine'.made
  BY <1>24, <1>25 DEF Connection
<1>2. SUFFICES ASSUME Unhurried PROVE InTouch(Drawn', editor, calls', acts.lost)
  <2>1. acts' = acts /\ editor' = editor /\ (Unhurried' => Unhurried)  BY <1>1 DEF Unhurried
  <2>2. InTouch(Drawn, editor, calls, acts.lost)' <=> InTouch(Drawn', editor', calls', acts'.lost)
    OBVIOUS
  <2> QED  BY <1>26, <2>1, <2>2 DEF EditorConsistent
<1>3. /\ Tidy(Drawn, editor) /\ calls = {call} /\ Awaited(Drawn, editor, call)
      /\ acts.lost \/ Before(Drawn, editor, call)
  BY <1>1, <1>2 DEF EditorConsistent, InTouch, Ahead
<1>10. /\ Drawn.workspaces = engine.workspaces /\ Drawn'.workspaces = engine'.workspaces
       /\ Drawn.home = engine.home /\ Drawn'.home = engine'.home
       /\ Drawn.named = engine.named /\ Drawn'.named = engine'.named
       /\ Drawn.made = engine.made /\ Drawn'.made = engine'.made
       /\ Drawn.connections = engine.connections \ acts.undrawn
       /\ Drawn'.connections = engine'.connections \ acts.undrawn
  BY <1>1 DEF Drawn
<1>4. Tidy(Drawn', editor)
  <2>1. Drawn.named \subseteq Drawn'.named /\ Drawn.made <= Drawn'.made
        /\ Drawn.made \in Nat /\ Drawn'.made \in Nat
    BY <1>10, <1>24
  <2>2. \A c \in Conns(editor) : c.id \in Nat
    BY <1>1, <1>3 DEF Tidy, Agree, Holds, Connection
  <2> QED  BY <1>3, <2>1, <2>2 DEF Tidy
<1>5. ASSUME NEW x, calls' = (calls \ {call}) \cup {x}, x.phase = "done",
             Awaited(Drawn', editor, x), acts.lost \/ After(Drawn', editor, x)
      PROVE  InTouch(Drawn', editor, calls', acts.lost)
  <2>1. calls' = {x}  BY <1>3, <1>5
  <2>2. acts.lost \/ Ahead(Drawn', editor, x)  BY <1>5 DEF Ahead
  <2> QED  BY <1>4, <1>5, <2>1, <2>2 DEF InTouch
<1>6. ASSUME NEW what
      PROVE  LET x == Reply(what)
             IN  /\ x.type = type /\ x.what = what /\ x.at = call.at /\ x.row = call.row
                 /\ x.phase = "done"
  BY <1>1 DEF IsCall
<1>7. /\ W \subseteq Workspaces /\ NoWorkspace \notin Workspaces /\ Q \subseteq Reactors
      /\ C \subseteq Connection /\ e.workspace \in [Reactors -> Places]
      /\ W \cup Q \subseteq engine.named /\ \A c \in C : c.id <= engine.made
  <2>1. W \subseteq Workspaces /\ Q \subseteq Reactors /\ e.workspace \in [Reactors -> Places]
    BY <1>1, BoxedPlaces DEF Editors
  <2>2. NoWorkspace \notin Workspaces  BY EditorAssumption DEF EditorAssumption
  <2>3. C \subseteq Connection  BY <1>3 DEF Tidy, Agree, Holds
  <2> QED  BY <1>3, <1>10, <2>1, <2>2, <2>3 DEF Tidy
<1>8. /\ engine \in [workspaces : SUBSET Workspaces, home : [Reactors -> Places],
                     connections : SUBSET Connection, named : SUBSET (Workspaces \cup Reactors),
                     made : Nat]
      /\ Homes(e, Q) \in [Reactors -> Places]
  BY <1>1, <1>7 DEF EngineOK, Homes, Places
<1>9. ASSUME Before(Drawn, e, call), type # "deleteWorkspace" PROVE Has(Drawn, W, Homes(e, Q), C)
  BY <1>9 DEF Before, Level
<1>11. CASE type \in {"addReactor", "addCopy"}
  <2>1. PICK r \in Fresh(Reactors) :
          engine' = [engine EXCEPT !.home[r] = call.at, !.named = @ \cup {r}] /\ Replies(call, r)
    BY <1>11 DEF EngineServes
  <2> DEFINE x == Reply(r)
  <2>2. calls' = (calls \ {call}) \cup {x}  BY <2>1 DEF Replies
  <2>3. x.type = type /\ x.what = r /\ x.at = call.at /\ x.phase = "done"  BY <1>6
  <2> HIDE DEF x
  <2>4. r \in Reactors /\ r \notin engine.named  BY <2>1 DEF Fresh
  <2>5. engine'.named = engine.named \cup {r}  BY <1>8, <2>1
  <2>6. r \notin Q /\ NoLists(e, r)  BY <1>3, <1>7, <1>10, <2>4 DEF Tidy
  <2>7. Awaited(Drawn', editor, x)
    BY <1>3, <1>10, <1>11, <2>3, <2>4, <2>5, <2>6 DEF Awaited
  <2>8. ASSUME Before(Drawn, e, call) PROVE After(Drawn', editor, x)
    <3>1. Has(Drawn, W, Homes(e, Q), C) /\ call.at \in W  BY <1>9, <1>11, <2>8 DEF Before
    <3>2. engine'.workspaces = engine.workspaces /\ engine'.connections = engine.connections
          /\ engine'.home = [engine.home EXCEPT ![r] = call.at]
      BY <1>8, <2>1
    <3>3. Has(Drawn', W, [Homes(e, Q) EXCEPT ![r] = call.at], C)  BY <1>10, <3>1, <3>2 DEF Has
    <3> QED  BY <1>11, <2>3, <3>1, <3>3 DEF After
  <2> QED  BY <1>3, <1>5, <2>2, <2>3, <2>7, <2>8
<1>12. CASE type = "addWorkspace"
  <2>1. PICK w \in Fresh(Workspaces) :
          engine' = [engine EXCEPT !.workspaces = @ \cup {w}, !.named = @ \cup {w}] /\ Replies(call, w)
    BY <1>12 DEF EngineServes
  <2> DEFINE x == Reply(w)
  <2>2. calls' = (calls \ {call}) \cup {x}  BY <2>1 DEF Replies
  <2>3. x.type = type /\ x.what = w /\ x.phase = "done"  BY <1>6
  <2> HIDE DEF x
  <2>4. w \in Workspaces /\ w \notin engine.named  BY <2>1 DEF Fresh
  <2>5. /\ engine'.named = engine.named \cup {w} /\ engine'.workspaces = engine.workspaces \cup {w}
        /\ engine'.home = engine.home /\ engine'.connections = engine.connections
    BY <1>8, <2>1
  <2>6. w \notin W  BY <1>7, <2>4
  <2>7. Awaited(Drawn', editor, x)  BY <1>10, <1>12, <2>3, <2>4, <2>5, <2>6 DEF Awaited
  <2>8. ASSUME Before(Drawn, e, call) PROVE After(Drawn', editor, x)
    <3>1. Has(Drawn, W, Homes(e, Q), C)  BY <1>9, <1>12, <2>8
    <3>2. Has(Drawn', W \cup {w}, Homes(e, Q), C)  BY <1>10, <2>5, <3>1 DEF Has
    <3> QED  BY <1>12, <2>3, <3>2 DEF After
  <2> QED  BY <1>3, <1>5, <2>2, <2>3, <2>7, <2>8
<1>13. CASE type = "getReactor"
  <2> DEFINE r == call.what
             x == [call EXCEPT !.phase = "done", !.at = engine.home[r]]
  <2>1. calls' = (calls \ {call}) \cup {x} /\ engine' = engine  BY <1>13 DEF EngineServes
  <2>2. x.type = type /\ x.what = r /\ x.at = engine.home[r] /\ x.phase = "done"
    <3> HIDE DEF r
    <3>1. call.what = r  BY DEF r
    <3> QED  BY <1>1, <3>1 DEF IsCall
  <2> HIDE DEF x
  <2>3. r \in Q  BY <1>3, <1>13 DEF Awaited
  <2>4. Awaited(Drawn', editor, x)  BY <1>13, <2>2, <2>3 DEF Awaited
  <2>5. ASSUME Before(Drawn, e, call) PROVE After(Drawn', editor, x)
    <3>4. Drawn' = Drawn  BY <1>1, <2>1 DEF Drawn
    <3>1. Has(Drawn, W, Homes(e, Q), C) /\ Level(Drawn', e)  BY <1>9, <1>13, <2>5, <3>4 DEF Before
    <3>2. engine.home[r] = e.workspace[r]  BY <1>7, <1>10, <2>3, <3>1 DEF Has, Homes
    <3>3. e.workspace[r] \in W  BY <1>3, <2>3 DEF Tidy, Agree, Holds
    <3> QED  BY <1>13, <2>2, <3>1, <3>2, <3>3 DEF After
  <2> QED  BY <1>3, <1>5, <2>1, <2>2, <2>4, <2>5
<1>14. CASE type = "connect"
  <2> DEFINE c == [id |-> engine.made + 1, from |-> call.what.from, to |-> call.what.to]
             x == Reply(c)
  <2>1. engine' = [engine EXCEPT !.connections = @ \cup {c}, !.made = @ + 1]
        /\ calls' = (calls \ {call}) \cup {x}
    BY <1>14 DEF EngineServes, Replies
  <2>2. x.type = type /\ x.what = c /\ x.phase = "done"  BY <1>6
  <2> HIDE DEF x
  <2>3. /\ OnTab(e) /\ Near(e, call.what) /\ Ends(call.what) \subseteq Q
        /\ call.what.from # call.what.to
    BY <1>3, <1>14 DEF Awaited
  <2>4. call.what.from \in Reactors /\ call.what.to \in Reactors  BY <1>7, <2>3 DEF Ends
  <2>5. c.from = call.what.from /\ c.to = call.what.to /\ c.id = engine.made + 1 /\ c \in Connection
    BY <1>8, <2>4 DEF Connection
  <2> HIDE DEF c
  <2>6. Near(e, c) /\ Ends(c) \subseteq Q /\ c.from # c.to  BY <2>3, <2>5 DEF Near, Ends
  <2>7. /\ engine'.connections = engine.connections \cup {c} /\ engine'.home = engine.home
        /\ engine'.workspaces = engine.workspaces /\ engine'.made = engine.made + 1
    BY <1>8, <2>1
  <2>8. c \notin C /\ c.id <= engine'.made  BY <1>7, <1>8, <2>5, <2>7
  <2>9. Awaited(Drawn', editor, x)  BY <1>10, <1>14, <2>2, <2>3, <2>5, <2>6, <2>8 DEF Awaited
  <2>11. c \notin acts.undrawn  BY <1>2, <1>25, <1>24, <2>5
  <2>10. ASSUME Before(Drawn, e, call) PROVE After(Drawn', editor, x)
    <3>1. Has(Drawn, W, Homes(e, Q), C)  BY <1>9, <1>14, <2>10
    <3>2. Has(Drawn', W, Homes(e, Q), C \cup {c})  BY <1>10, <2>7, <2>11, <3>1 DEF Has
    <3> QED  BY <1>14, <2>2, <3>2 DEF After
  <2> QED  BY <1>3, <1>5, <2>1, <2>2, <2>9, <2>10
<1> DEFINE y == Reply(call.what)
<1>15. /\ y.type = type /\ y.what = call.what /\ y.at = call.at /\ y.row = call.row
       /\ y.phase = "done"
  BY <1>6
<1>16. type \in {"disconnect", "deleteReactor", "deleteReactors", "deleteWorkspace"}
         => calls' = (calls \ {call}) \cup {y}
  BY DEF EngineServes, Replies
<1> HIDE DEF y, Reply
<1>17. type \in {"disconnect", "deleteReactor", "deleteReactors", "deleteWorkspace"}
         => Awaited(Drawn', editor, y)
  BY <1>3, <1>15 DEF Awaited
<1>18. ASSUME NEW R, R \subseteq Reactors, engine' = Without(R), Has(Drawn, W, Homes(e, Q), C)
       PROVE  Has(Drawn', W, Homes(e, Q \ R), Apart(C, R))
  <2> DEFINE h == [r \in Reactors |-> IF r \in R THEN NoWorkspace ELSE engine.home[r]]
             a == {c \in engine.connections : {c.from, c.to} \cap R = {}}
  <2>1. engine' = [engine EXCEPT !.home = h, !.connections = a]  BY <1>18 DEF Without
  <2>2. h = Homes(e, Q \ R)  BY <1>10, <1>18 DEF Has, Homes
  <2>3. a \ acts.undrawn = Apart(C, R)  BY <1>10, <1>18 DEF Has, Apart, Ends
  <2> HIDE DEF h, a
  <2>4. engine'.home = h /\ engine'.connections = a /\ engine'.workspaces = engine.workspaces
    BY <1>8, <2>1
  <2> QED  BY <1>10, <1>18, <2>2, <2>3, <2>4 DEF Has
<1>19. CASE type = "disconnect"
  <2>1. engine' = [engine EXCEPT !.connections = @ \ {call.what}]  BY <1>19 DEF EngineServes
  <2>2. /\ engine'.connections = engine.connections \ {call.what} /\ engine'.home = engine.home
        /\ engine'.workspaces = engine.workspaces
    BY <1>8, <2>1
  <2>3. ASSUME Before(Drawn, e, call) PROVE After(Drawn', editor, y)
    <3>1. Has(Drawn, W, Homes(e, Q), C)  BY <1>9, <1>19, <2>3
    <3>2. Has(Drawn', W, Homes(e, Q), C \ {call.what})  BY <1>10, <2>2, <3>1 DEF Has
    <3> QED  BY <1>15, <1>19, <3>2 DEF After
  <2> QED  BY <1>3, <1>5, <1>15, <1>16, <1>17, <1>19, <2>3
<1>20. CASE type = "deleteReactor"
  <2>1. engine' = Without({call.what})  BY <1>20 DEF EngineServes
  <2>2. call.what \in Reactors  BY <1>3, <1>7, <1>20 DEF Awaited
  <2>3. ASSUME Before(Drawn, e, call) PROVE After(Drawn', editor, y)
    <3>1. Has(Drawn, W, Homes(e, Q), C)  BY <1>9, <1>20, <2>3
    <3>2. Has(Drawn', W, Homes(e, Q \ {call.what}), Apart(C, {call.what}))
      BY <1>18, <2>1, <2>2, <3>1
    <3> QED  BY <1>15, <1>20, <3>2 DEF After
  <2> QED  BY <1>3, <1>5, <1>15, <1>16, <1>17, <1>20, <2>3
<1>21. CASE type = "deleteReactors"
  <2> DEFINE R == {r \in Reactors : engine.home[r] = call.what}
  <2>1. engine' = Without(R)  BY <1>21 DEF EngineServes
  <2>2. call.what \in Workspaces  BY <1>3, <1>7, <1>21 DEF Awaited, OnTab
  <2>3. ASSUME Before(Drawn, e, call) PROVE After(Drawn', editor, y)
    <3>1. Has(Drawn, W, Homes(e, Q), C)  BY <1>9, <1>21, <2>3
    <3>2. R = InBox(e, call.what)  BY <1>7, <1>10, <2>2, <3>1 DEF InBox, Has, Homes
    <3>3. Has(Drawn', W, Homes(e, Q \ R), Apart(C, R))  BY <1>18, <2>1, <3>1
    <3> QED  BY <1>15, <1>21, <3>2, <3>3 DEF After
  <2> QED  BY <1>3, <1>5, <1>15, <1>16, <1>17, <1>21, <2>3
<1>22. CASE type = "deleteWorkspace"
  <2>1. engine' = [engine EXCEPT !.workspaces = @ \ {call.what}]  BY <1>22 DEF EngineServes
  <2>2. /\ engine'.workspaces = engine.workspaces \ {call.what} /\ engine'.home = engine.home
        /\ engine'.connections = engine.connections
    BY <1>8, <2>1
  <2>3. ASSUME Before(Drawn, e, call) PROVE After(Drawn', editor, y)
    <3> DEFINE R == InBox(e, call.what)
    <3>1. Has(Drawn, W, Homes(e, Q \ R), Apart(C, R))  BY <1>22, <2>3 DEF Before
    <3>2. Has(Drawn', W \ {call.what}, Homes(e, Q \ R), Apart(C, R))
      BY <1>10, <2>2, <3>1 DEF Has
    <3> QED  BY <1>15, <1>22, <3>2 DEF After
  <2> QED  BY <1>3, <1>5, <1>15, <1>16, <1>17, <1>22, <2>3
<1>23. type \in {"addReactor", "addCopy", "addWorkspace", "getReactor", "connect", "disconnect",
                 "deleteReactor", "deleteReactors", "deleteWorkspace"}
  BY DEF EngineServes
<1> QED  BY <1>11, <1>12, <1>13, <1>14, <1>19, <1>20, <1>21, <1>22, <1>23

\* An error instead of an answer: one that the engine gives, or one by which the page
\* does not learn what the engine has done.
LEMMA FailConsistent ==
    ASSUME EditorInv, EditorConsistent, NEW call \in calls, CallFails(call)
    PROVE  EditorConsistent'
<1> DEFINE e == editor
           lost == acts.lost \/ ~(call.phase = "sent" /\ Refused(call))
<1>1. calls' = calls \ {call} /\ engine' = engine /\ editor' = editor
      /\ acts' = [acts EXCEPT !.lost = lost]
  BY DEF CallFails
<1>2. acts \in [done : Nat, rush : Nat, lost : BOOLEAN, undrawn : SUBSET Connection]  BY DEF EditorConsistent
<1>3. lost \in BOOLEAN
  <2>1. Refused(call) \in BOOLEAN  BY DEF Refused
  <2> QED  BY <2>1
<1>4. /\ lost => acts.lost \/ ~(call.phase = "sent" /\ Refused(call))
      /\ ~lost => ~acts.lost /\ call.phase = "sent" /\ Refused(call)
  OBVIOUS
<1> HIDE DEF lost
<1>5. acts' \in [done : Nat, rush : Nat, lost : BOOLEAN, undrawn : SUBSET Connection]
      /\ acts'.rush = acts.rush /\ acts'.lost = lost /\ acts'.undrawn = acts.undrawn
  BY <1>1, <1>2, <1>3
<1>6. SUFFICES ASSUME Unhurried PROVE InTouch(Drawn, editor, calls', lost)
  <2>1. Drawn' = Drawn  BY <1>1, <1>5 DEF Drawn
  <2>2. InTouch(Drawn, editor, calls, acts.lost)' <=> InTouch(Drawn', editor', calls', acts'.lost)
    OBVIOUS
  <2>3. Unhurried' => Unhurried  BY <1>5 DEF Unhurried
  <2> QED  BY <1>1, <1>5, <2>1, <2>2, <2>3 DEF EditorConsistent
<1>7. /\ Tidy(Drawn, editor) /\ calls = {call} /\ Awaited(Drawn, editor, call)
      /\ acts.lost \/ Ahead(Drawn, editor, call)
  BY <1>6 DEF EditorConsistent, InTouch
<1>8. ASSUME ~lost PROVE Level(Drawn, editor)
  <2>1. Before(Drawn, editor, call) /\ Refused(call)  BY <1>4, <1>7, <1>8 DEF Ahead
  <2>2. CASE call.type # "deleteWorkspace"  BY <2>1, <2>2 DEF Before
  <2>3. CASE call.type = "deleteWorkspace"
    <3> DEFINE w == call.what
    <3>1. OnTab(e) /\ w = e.box  BY <1>7, <2>3 DEF Awaited
    <3>2. w \in Range(e.boxes) /\ e \in Editors  BY <1>7, <3>1 DEF OnTab, Tidy
    <3>3. w \in Workspaces /\ w # NoWorkspace
      BY <3>2, BoxedPlaces, EditorAssumption DEF EditorAssumption
    <3>4. Has(Drawn, Range(e.boxes), Homes(e, e.registered \ InBox(e, w)), Apart(Conns(e), InBox(e, w)))
      BY <2>1, <2>3 DEF Before
    <3>5. w \in engine.workspaces /\ \A r \in Reactors : engine.home[r] # w
      BY <3>2, <3>3, <3>4 DEF Has, Homes, InBox, Drawn
    <3>6. FALSE  BY <2>1, <2>3, <3>5 DEF Refused
    <3> QED  BY <3>6
  <2> QED  BY <2>2, <2>3
<1>9. calls' = {}  BY <1>1, <1>7
<1> QED  BY <1>3, <1>7, <1>8, <1>9 DEF InTouch

\* What is known when the answer to a request comes.
Answered(call) ==
    /\ Tidy(Drawn, editor) /\ calls = {call} /\ Awaited(Drawn, editor, call)
    /\ acts.lost \/ Ahead(Drawn, editor, call)

\* What the handlers of answers have in common.
LEMMA LoadConsistent ==
    ASSUME EditorConsistent, NEW call \in calls, NEW f, NEW made, Load(call, f, made),
           Answered(call) =>
             /\ Tidy(Drawn, f)
             /\ \/ made = {} /\ (acts.lost \/ Level(Drawn, f))
                \/ /\ f = editor
                   /\ \E x : /\ made = {x} /\ Awaited(Drawn, f, x)
                             /\ acts.lost \/ Ahead(Drawn, f, x)
    PROVE  EditorConsistent'
<1> DEFINE y == Call("addWorkspace", NoWorkspace, NoWorkspace)
<1>1. UNCHANGED <<engine, acts>> /\ Becomes(f, (calls \ {call}) \cup made)  BY DEF Load
<1>2. SUFFICES ASSUME Unhurried PROVE InTouch(Drawn, editor', calls', acts.lost)
  <2>1. Drawn' = Drawn /\ (Unhurried' => Unhurried)  BY <1>1 DEF Drawn, Unhurried
  <2>2. InTouch(Drawn, editor, calls, acts.lost)' <=> InTouch(Drawn', editor', calls', acts'.lost)
    OBVIOUS
  <2> QED  BY <1>1, <2>1, <2>2 DEF EditorConsistent
<1>3. Answered(call)  BY <1>2 DEF EditorConsistent, InTouch, Answered
<1>4. calls \ {call} = {} /\ Tidy(Drawn, f)  BY <1>3 DEF Answered
<1>5. editor' = f  BY <1>1, <1>4, NotThrown DEF Becomes, Tidy
<1>6. CASE made = {} /\ (acts.lost \/ Level(Drawn, f))
  <2>1. calls' = {} \/ calls' = {y}  BY <1>1, <1>4, <1>6 DEF Becomes
  <2>2. y.type = "addWorkspace" /\ y.phase = "sent"  BY CallIs
  <2> HIDE DEF y
  <2>3. Awaited(Drawn, f, y)  BY <2>2 DEF Awaited
  <2>4. acts.lost \/ Ahead(Drawn, f, y)  BY <1>6, <2>2 DEF Ahead, Before
  <2> QED  BY <1>4, <1>5, <1>6, <2>1, <2>3, <2>4 DEF InTouch
<1>7. ASSUME f = editor, NEW x, made = {x}, Awaited(Drawn, f, x),
             acts.lost \/ Ahead(Drawn, f, x)
      PROVE  InTouch(Drawn, editor', calls', acts.lost)
  <2>1. calls' = {x}  BY <1>1, <1>4, <1>7 DEF Becomes
  <2> QED  BY <1>4, <1>5, <1>7, <2>1 DEF InTouch
<1> QED  BY <1>3, <1>6, <1>7

\* A page that has changed as an answer says.
LEMMA TidyAgain ==
    ASSUME Tidy(Drawn, editor), NEW f \in Editors, NEW C, Agree(f, C), ~f.thrown,
           f.shown \in {NewTab, f.box}, f.registered \cup Range(f.boxes) \subseteq Drawn.named,
           \A c \in C : c.id <= Drawn.made,
           \A r \in Reactors \ Drawn.named : NoLists(editor, r) => NoLists(f, r)
    PROVE  Tidy(Drawn, f) /\ Conns(f) = C
<1>1. Conns(f) = C  BY ConnsAre
<1> QED  BY <1>1 DEF Tidy

\* Each of the handlers brings the page to what the engine has.
LEMMA AnswersConsistent ==
    ASSUME EditorInv, EditorConsistent, NEW call \in calls,
           \/ ReactorAdded(call) \/ ReactorGot(call) \/ CopyAdded(call)
           \/ WorkspaceAdded(call) \/ ConnectionAdded(call) \/ ConnectionDeleted(call)
           \/ ReactorDeleted(call) \/ ReactorsDeleted(call) \/ WorkspaceDeleted(call)
    PROVE  EditorConsistent'
<1> DEFINE e == editor
           what == call.what
           W == Range(e.boxes)
           Q == e.registered
           C == Conns(e)
<1>1. ASSUME Answered(call)
      PROVE  /\ Tidy(Drawn, e) /\ Awaited(Drawn, e, call) /\ e \in Editors /\ Agree(e, C)
             /\ ~e.thrown /\ e.shown \in {NewTab, e.box}
             /\ Q \cup W \subseteq Drawn.named /\ \A c \in C : c.id <= Drawn.made
             /\ Q \subseteq Reactors /\ W \subseteq Workspaces
             /\ e.workspace \in [Reactors -> Places]
  <2>1. Tidy(Drawn, e) /\ Awaited(Drawn, e, call)  BY <1>1 DEF Answered
  <2>2. /\ e \in Editors /\ Agree(e, C) /\ ~e.thrown /\ e.shown \in {NewTab, e.box}
        /\ Q \cup W \subseteq Drawn.named /\ \A c \in C : c.id <= Drawn.made
    BY <2>1 DEF Tidy
  <2>3. Q \subseteq Reactors /\ e.workspace \in [Reactors -> Places]  BY <2>2 DEF Editors
  <2> QED  BY <2>1, <2>2, <2>3, BoxedPlaces
<1>2. ASSUME Answered(call), call.phase = "done"
      PROVE  acts.lost \/ After(Drawn, e, call)
  BY <1>2 DEF Answered, Ahead
<1>3. ASSUME NEW f \in Editors, NEW H, Has(Drawn, Range(f.boxes), H, Conns(f)),
             H = Homes(f, f.registered)
      PROVE  Level(Drawn, f)
  BY <1>3 DEF Level
<1>4. \A R : Apart(C, R) \subseteq C  BY DEF Apart
<1> HIDE DEF C
<1>5. CASE ReactorAdded(call)
  <2> DEFINE w == call.at
             f == CreateReactor(e, what, w)
  <2>1. call.type = "addReactor" /\ call.phase = "done" /\ Load(call, f, {})
    BY <1>5 DEF ReactorAdded, Response
  <2>2. ASSUME Answered(call) PROVE Tidy(Drawn, f) /\ (acts.lost \/ Level(Drawn, f))
    <3>1. /\ what \in Reactors \ Q /\ what \in Drawn.named /\ NoLists(e, what)
          /\ OnTab(e) /\ w = e.box /\ w \in W
      BY <1>1, <2>1, <2>2 DEF Awaited, OnTab
    <3>2. /\ f \in Editors /\ Agree(f, C) /\ f.registered = Q \cup {what}
          /\ f.workspace = [e.workspace EXCEPT ![what] = w] /\ f.boxes = e.boxes
          /\ f.shown = e.shown /\ f.box = e.box /\ ~f.thrown
          /\ f.inputs = e.inputs /\ f.outputs = e.outputs
      BY <1>1, <2>2, <3>1, ReactorPlaced
    <3> HIDE DEF f, w
    <3>3. Tidy(Drawn, f) /\ Conns(f) = C
      <4>1. \A r : NoLists(e, r) => NoLists(f, r)  BY <3>2 DEF NoLists
      <4>2. f.shown \in {NewTab, f.box} /\ f.registered \cup Range(f.boxes) \subseteq Drawn.named
        BY <1>1, <2>2, <3>1, <3>2
      <4> QED  BY <1>1, <2>2, <3>2, <4>1, <4>2, TidyAgain
    <3>4. [Homes(e, Q) EXCEPT ![what] = w] = Homes(f, f.registered)
      BY <1>1, <2>2, <3>1, <3>2 DEF Homes
    <3>5. After(Drawn, e, call) => Has(Drawn, W, [Homes(e, Q) EXCEPT ![what] = w], C)
      BY <2>1 DEF After, w, C
    <3>6. After(Drawn, e, call) => Level(Drawn, f)  BY <1>3, <3>2, <3>3, <3>4, <3>5
    <3> QED  BY <1>2, <2>1, <2>2, <3>3, <3>6
  <2> HIDE DEF f
  <2> QED  BY <2>1, <2>2, LoadConsistent
<1>6. CASE CopyAdded(call)
  <2> DEFINE w == call.at
             f == CreateReactorInConfiguredWorkspace(e, what, w)
  <2>1. call.type = "addCopy" /\ call.phase = "done" /\ Load(call, f, {})
    BY <1>6 DEF CopyAdded, Response
  <2>2. ASSUME Answered(call) PROVE Tidy(Drawn, f) /\ (acts.lost \/ Level(Drawn, f))
    <3>1. what \in Reactors \ Q /\ what \in Drawn.named /\ NoLists(e, what)
      BY <1>1, <2>1, <2>2 DEF Awaited
    <3>2. CASE w \in W
      <4>2. /\ f \in Editors /\ Agree(f, C) /\ f.registered = Q \cup {what}
            /\ f.workspace = [e.workspace EXCEPT ![what] = w] /\ f.boxes = e.boxes
            /\ f.shown = w /\ f.box = w /\ ~f.thrown
            /\ f.inputs = e.inputs /\ f.outputs = e.outputs
        BY <1>1, <2>2, <3>1, <3>2, Copied
      <4> HIDE DEF f, w
      <4>3. Tidy(Drawn, f) /\ Conns(f) = C
        <5>1. \A r : NoLists(e, r) => NoLists(f, r)  BY <4>2 DEF NoLists
        <5>2. f.shown \in {NewTab, f.box} /\ f.registered \cup Range(f.boxes) \subseteq Drawn.named
          BY <1>1, <2>2, <3>1, <4>2
        <5> QED  BY <1>1, <2>2, <4>2, <5>1, <5>2, TidyAgain
      <4>4. [Homes(e, Q) EXCEPT ![what] = w] = Homes(f, f.registered)
        BY <1>1, <2>2, <3>1, <4>2 DEF Homes
      <4>5. After(Drawn, e, call) => Has(Drawn, W, [Homes(e, Q) EXCEPT ![what] = w], C)
        BY <2>1 DEF After, w, C
      <4>6. After(Drawn, e, call) => Level(Drawn, f)  BY <1>3, <4>2, <4>3, <4>4, <4>5
      <4> QED  BY <1>2, <2>1, <2>2, <4>3, <4>6
    <3>3. CASE w \notin W
      <4>1. e.boxes \in Seq(Workspaces) /\ ToSet(e.boxes) = W
        BY <1>1, <2>2 DEF Editors, ToSet, Range
      <4>2. ~Contains(e.boxes, w)  BY <3>3, <4>1, ContainsIn
      <4>3. f = e  BY <4>2 DEF CreateReactorInConfiguredWorkspace
      <4>4. acts.lost  BY <1>2, <2>1, <2>2, <3>3 DEF After
      <4> QED  BY <1>1, <2>2, <4>3, <4>4
    <3> QED  BY <3>2, <3>3
  <2> HIDE DEF f
  <2> QED  BY <2>1, <2>2, LoadConsistent
<1>7. CASE ReactorGot(call)
  <2> DEFINE x == Call("addCopy", NoWorkspace, call.at)
  <2>1. call.type = "getReactor" /\ call.phase = "done" /\ Load(call, e, {x})
    BY <1>7 DEF ReactorGot, Response
  <2>2. x.type = "addCopy" /\ x.phase = "sent" /\ x.at = call.at  BY CallIs
  <2> HIDE DEF x
  <2>3. ASSUME Answered(call)
        PROVE  Tidy(Drawn, e) /\ Awaited(Drawn, e, x) /\ (acts.lost \/ Ahead(Drawn, e, x))
    <3>1. Awaited(Drawn, e, x)  BY <2>2 DEF Awaited
    <3>2. After(Drawn, e, call) => Ahead(Drawn, e, x)  BY <2>1, <2>2 DEF After, Ahead, Before
    <3> QED  BY <1>1, <1>2, <2>1, <2>3, <3>1, <3>2
  <2> QED  BY <2>1, <2>3, LoadConsistent
<1>8. CASE WorkspaceAdded(call)
  <2> DEFINE f == AddWorkspace(e, what)
  <2>1. call.type = "addWorkspace" /\ call.phase = "done" /\ Load(call, f, {})
    BY <1>8 DEF WorkspaceAdded, Response
  <2>2. ASSUME Answered(call) PROVE Tidy(Drawn, f) /\ (acts.lost \/ Level(Drawn, f))
    <3>1. what \in Workspaces \ W /\ what \in Drawn.named
      BY <1>1, <2>1, <2>2 DEF Awaited
    <3>2. /\ f \in Editors /\ Agree(f, C) /\ f.registered = Q
          /\ f.workspace = e.workspace /\ Range(f.boxes) = W \cup {what}
          /\ f.shown = what /\ f.box = what /\ ~f.thrown
          /\ f.inputs = e.inputs /\ f.outputs = e.outputs
      BY <1>1, <2>2, <3>1, Opened
    <3> HIDE DEF f
    <3>3. Tidy(Drawn, f) /\ Conns(f) = C
      <4>1. \A r : NoLists(e, r) => NoLists(f, r)  BY <3>2 DEF NoLists
      <4>2. f.shown \in {NewTab, f.box} /\ f.registered \cup Range(f.boxes) \subseteq Drawn.named
        BY <1>1, <2>2, <3>1, <3>2
      <4> QED  BY <1>1, <2>2, <3>2, <4>1, <4>2, TidyAgain
    <3>4. Homes(e, Q) = Homes(f, f.registered)  BY <3>2 DEF Homes
    <3>5. After(Drawn, e, call) => Has(Drawn, W \cup {what}, Homes(e, Q), C)
      BY <2>1 DEF After, C
    <3>6. After(Drawn, e, call) => Level(Drawn, f)  BY <1>3, <3>2, <3>3, <3>4, <3>5
    <3> QED  BY <1>2, <2>1, <2>2, <3>3, <3>6
  <2> HIDE DEF f
  <2> QED  BY <2>1, <2>2, LoadConsistent
<1>9. CASE ConnectionAdded(call)
  <2> DEFINE f == CreateConnection(e, what)
  <2>3. /\ call.type = "connect" /\ call.phase = "done" /\ Becomes(f, calls \ {call})
        /\ acts' = [acts EXCEPT !.undrawn = @ \cup (IF Undrawable(e, what) THEN {what} ELSE {})]
        /\ engine' = engine
    BY <1>9 DEF ConnectionAdded, Response
  <2>4. what \in Connection  BY <2>3 DEF EditorInv, CallOK
  <2>5. acts \in [done : Nat, rush : Nat, lost : BOOLEAN, undrawn : SUBSET Connection]
    BY DEF EditorConsistent
  <2>6. CASE Undrawable(e, what)
    <3> DEFINE u == acts.undrawn \cup {what}
    <3>1. acts' = [acts EXCEPT !.undrawn = u] /\ u \in SUBSET Connection  BY <2>3, <2>4, <2>5, <2>6
    <3> HIDE DEF u
    <3>2. /\ acts' \in [done : Nat, rush : Nat, lost : BOOLEAN, undrawn : SUBSET Connection]
          /\ acts'.rush = acts.rush /\ acts'.lost = acts.lost /\ acts'.undrawn = u
      BY <2>5, <3>1
    <3>3. /\ Drawn'.workspaces = Drawn.workspaces /\ Drawn'.home = Drawn.home
          /\ Drawn'.connections = Drawn.connections \ {what}
          /\ Drawn'.named = Drawn.named /\ Drawn'.made = Drawn.made
          /\ Drawn.made = engine.made
      BY <2>3, <3>2 DEF Drawn, u
    <3>4. Unhurried' => Unhurried  BY <3>2 DEF Unhurried
    <3>5. ASSUME Unhurried PROVE InTouch(Drawn', editor', calls', acts.lost)
      <4>1. Answered(call)  BY <3>5 DEF EditorConsistent, InTouch, Answered
      <4>2. f = Throw(e) /\ [Throw(e) EXCEPT !.thrown = FALSE] = e
        BY <1>1, <2>4, <2>6, <4>1, NotJoined
      <4>3. f.shown = e.shown  BY <1>1, <4>1, <4>2, ThrownState DEF Throw
      <4>4. editor' = e /\ calls' = {}
        <5>1. editor' = [f EXCEPT !.thrown = FALSE]  BY <2>3 DEF Becomes
        <5>2. calls' = calls \ {call}  BY <2>3, <4>3 DEF Becomes
        <5> QED  BY <4>1, <4>2, <5>1, <5>2 DEF Answered
      <4>5. what \notin C  BY <1>1, <2>3, <4>1 DEF Awaited, C
      <4>6. acts.lost \/ Level(Drawn', e)
        <5>1. After(Drawn, e, call) => Has(Drawn, W, Homes(e, Q), C \cup {what})
          BY <2>3 DEF After, C
        <5> QED  BY <1>2, <2>3, <3>3, <4>1, <4>5, <5>1 DEF Has, Level, C
      <4>7. Tidy(Drawn', e)  BY <1>1, <3>3, <4>1 DEF Tidy
      <4> QED  BY <4>4, <4>6, <4>7 DEF InTouch
    <3>6. Unhurried => \A c \in u : c.id <= engine.made
      <4>1. ASSUME Unhurried PROVE what.id <= Drawn.made
        <5>1. Answered(call)  BY <4>1 DEF EditorConsistent, InTouch, Answered
        <5> QED  BY <1>1, <2>3, <5>1 DEF Awaited
      <4> QED  BY <3>3, <4>1 DEF EditorConsistent, u
    <3>7. InTouch(Drawn, editor, calls, acts.lost)' <=> InTouch(Drawn', editor', calls', acts'.lost)
      OBVIOUS
    <3> QED  BY <2>3, <3>2, <3>4, <3>5, <3>6, <3>7 DEF EditorConsistent
  <2>7. SUFFICES ASSUME ~Undrawable(e, what) PROVE EditorConsistent'
    BY <2>6
  <2>1. call.type = "connect" /\ call.phase = "done" /\ Load(call, f, {})
    <3>1. acts' = acts  BY <2>3, <2>5, <2>7
    <3>2. (calls \ {call}) \cup {} = calls \ {call}  OBVIOUS
    <3> HIDE DEF f
    <3> QED  BY <2>3, <3>1, <3>2 DEF Load
  <2>2. ASSUME Answered(call) PROVE Tidy(Drawn, f) /\ (acts.lost \/ Level(Drawn, f))
    <3>1. /\ what \in Connection /\ what \notin C /\ what.id <= Drawn.made
          /\ OnTab(e) /\ Near(e, what) /\ Ends(what) \subseteq Q /\ what.from # what.to
      BY <1>1, <2>1, <2>2 DEF Awaited, C
    <3>2. /\ f \in Editors /\ Frame(e, f) /\ Agree(f, C \cup {what})
          /\ \A r \in Reactors \ Q : NoLists(e, r) => NoLists(f, r)
      BY <1>1, <2>2, <2>7, <3>1, Joined
    <3> HIDE DEF f
    <3>3. Tidy(Drawn, f) /\ Conns(f) = C \cup {what}
      <4>1. \A r \in Reactors \ Drawn.named : NoLists(e, r) => NoLists(f, r)
        BY <1>1, <2>2, <3>2
      <4>2. /\ f.shown \in {NewTab, f.box} /\ ~f.thrown
            /\ f.registered \cup Range(f.boxes) \subseteq Drawn.named
        BY <1>1, <2>2, <3>2 DEF Frame
      <4>3. \A c \in C \cup {what} : c.id <= Drawn.made  BY <1>1, <2>2, <3>1
      <4> QED  BY <1>1, <2>2, <3>2, <4>1, <4>2, <4>3, TidyAgain
    <3>4. Homes(e, Q) = Homes(f, f.registered) /\ Range(f.boxes) = W  BY <3>2 DEF Homes, Frame
    <3>5. After(Drawn, e, call) => Has(Drawn, W, Homes(e, Q), C \cup {what})
      BY <2>1 DEF After, C
    <3>6. After(Drawn, e, call) => Level(Drawn, f)  BY <1>3, <3>2, <3>3, <3>4, <3>5
    <3> QED  BY <1>2, <2>1, <2>2, <3>3, <3>6
  <2> HIDE DEF f
  <2> QED  BY <2>1, <2>2, LoadConsistent
<1>10. CASE ConnectionDeleted(call)
  <2> DEFINE f == Disconnect(e, call)
  <2>1. call.type = "disconnect" /\ call.phase = "done" /\ Load(call, f, {})
    BY <1>10 DEF ConnectionDeleted, Response
  <2>2. ASSUME Answered(call) PROVE Tidy(Drawn, f) /\ (acts.lost \/ Level(Drawn, f))
    <3>1. /\ OnTab(e) /\ Near(e, call.what) /\ call.what \in C
          /\ call.at = "inputs" => /\ call.row \in DOMAIN e.inputs[call.what.to]
                                   /\ e.inputs[call.what.to][call.row] = call.what
          /\ call.at = "outputs" => /\ call.row \in DOMAIN e.outputs[call.what.from]
                                    /\ e.outputs[call.what.from][call.row] = call.what
      BY <1>1, <2>1, <2>2 DEF Awaited, C
    <3>2. Cut(e, f, C, what)  BY <1>1, <2>2, <3>1, Disconnected
    <3> HIDE DEF f
    <3>3. /\ f \in Editors /\ Frame(e, f) /\ Agree(f, C \ {what})
          /\ \A r \in Reactors : NoLists(e, r) => NoLists(f, r)
      BY <3>2 DEF Cut
    <3>4. Tidy(Drawn, f) /\ Conns(f) = C \ {what}
      <4>2. /\ f.shown \in {NewTab, f.box} /\ ~f.thrown
            /\ f.registered \cup Range(f.boxes) \subseteq Drawn.named
        BY <1>1, <2>2, <3>3 DEF Frame
      <4>3. \A c \in C \ {what} : c.id <= Drawn.made  BY <1>1, <2>2
      <4> QED  BY <1>1, <2>2, <3>3, <4>2, <4>3, TidyAgain
    <3>5. Homes(e, Q) = Homes(f, f.registered) /\ Range(f.boxes) = W  BY <3>3 DEF Homes, Frame
    <3>6. After(Drawn, e, call) => Has(Drawn, W, Homes(e, Q), C \ {what})
      BY <2>1 DEF After, C
    <3>7. After(Drawn, e, call) => Level(Drawn, f)  BY <1>3, <3>3, <3>4, <3>5, <3>6
    <3> QED  BY <1>2, <2>1, <2>2, <3>4, <3>7
  <2> HIDE DEF f
  <2> QED  BY <2>1, <2>2, LoadConsistent
<1>11. CASE ReactorDeleted(call)
  <2> DEFINE f == DeleteReactorFromUI(e, what)
  <2>1. call.type = "deleteReactor" /\ call.phase = "done" /\ Load(call, f, {})
    BY <1>11 DEF ReactorDeleted, Response
  <2>2. ASSUME Answered(call) PROVE Tidy(Drawn, f) /\ (acts.lost \/ Level(Drawn, f))
    <3>1. OnTab(e) /\ what \in Q /\ e.workspace[what] = e.box
      BY <1>1, <2>1, <2>2 DEF Awaited
    <3>2. /\ f \in Editors /\ Agree(f, Apart(C, {what})) /\ f.registered = Q \ {what}
          /\ Keeps(e, f)
      BY <1>1, <2>2, <3>1, ReactorGone
    <3> HIDE DEF f
    <3>3. /\ f.boxes = e.boxes /\ f.shown = e.shown /\ f.box = e.box /\ f.thrown = e.thrown
          /\ f.workspace = e.workspace /\ \A r \in Reactors : NoLists(e, r) => NoLists(f, r)
      BY <3>2 DEF Keeps
    <3>4. Tidy(Drawn, f) /\ Conns(f) = Apart(C, {what})
      <4>2. /\ f.shown \in {NewTab, f.box} /\ ~f.thrown
            /\ f.registered \cup Range(f.boxes) \subseteq Drawn.named
        BY <1>1, <2>2, <3>2, <3>3
      <4>3. \A c \in Apart(C, {what}) : c.id <= Drawn.made  BY <1>1, <2>2 DEF Apart
      <4> QED  BY <1>1, <2>2, <3>2, <3>3, <4>2, <4>3, TidyAgain
    <3>5. Homes(e, Q \ {what}) = Homes(f, f.registered)  BY <3>2, <3>3 DEF Homes
    <3>6. After(Drawn, e, call) => Has(Drawn, W, Homes(e, Q \ {what}), Apart(C, {what}))
      BY <2>1 DEF After, C
    <3>7. After(Drawn, e, call) => Level(Drawn, f)  BY <1>3, <3>2, <3>3, <3>4, <3>5, <3>6
    <3> QED  BY <1>2, <2>1, <2>2, <3>4, <3>7
  <2> HIDE DEF f
  <2> QED  BY <2>1, <2>2, LoadConsistent
<1>12. CASE ReactorsDeleted(call)
  <2> DEFINE x == Call("deleteWorkspace", what, NoWorkspace)
  <2>1. call.type = "deleteReactors" /\ call.phase = "done" /\ Load(call, e, {x})
    BY <1>12 DEF ReactorsDeleted, Response
  <2>2. x.type = "deleteWorkspace" /\ x.phase = "sent" /\ x.what = what  BY CallIs
  <2> HIDE DEF x
  <2>3. ASSUME Answered(call)
        PROVE  Tidy(Drawn, e) /\ Awaited(Drawn, e, x) /\ (acts.lost \/ Ahead(Drawn, e, x))
    <3>1. Awaited(Drawn, e, x)  BY <1>1, <2>1, <2>2, <2>3 DEF Awaited
    <3>2. After(Drawn, e, call) => Ahead(Drawn, e, x)  BY <2>1, <2>2 DEF After, Ahead, Before
    <3> QED  BY <1>1, <1>2, <2>1, <2>3, <3>1, <3>2
  <2> QED  BY <2>1, <2>3, LoadConsistent
<1>13. CASE WorkspaceDeleted(call)
  <2> DEFINE f == DeleteWorkspaceFromUI(e, what)
             R == InBox(e, what)
  <2>1. call.type = "deleteWorkspace" /\ call.phase = "done" /\ Load(call, f, {})
    BY <1>13 DEF WorkspaceDeleted, Response
  <2>2. ASSUME Answered(call) PROVE Tidy(Drawn, f) /\ (acts.lost \/ Level(Drawn, f))
    <3>1. OnTab(e) /\ what = e.box  BY <1>1, <2>1, <2>2 DEF Awaited
    <3>2. /\ f \in Editors /\ Agree(f, Apart(C, R)) /\ f.registered = Q \ R
          /\ f.workspace = e.workspace /\ Range(f.boxes) = W \ {what}
          /\ ~f.thrown /\ IF f.boxes = <<>> THEN f.shown = NewTab ELSE OnTab(f)
          /\ \A r \in Reactors : NoLists(e, r) => NoLists(f, r)
      BY <1>1, <2>2, <3>1, WorkspaceGone
    <3> HIDE DEF f, R
    <3>4. Tidy(Drawn, f) /\ Conns(f) = Apart(C, R)
      <4>1. f.shown \in {NewTab, f.box}  BY <3>2 DEF OnTab
      <4>2. f.registered \cup Range(f.boxes) \subseteq Drawn.named  BY <1>1, <2>2, <3>2
      <4>3. \A c \in Apart(C, R) : c.id <= Drawn.made  BY <1>1, <2>2 DEF Apart
      <4> QED  BY <1>1, <2>2, <3>2, <4>1, <4>2, <4>3, TidyAgain
    <3>5. Homes(e, Q \ R) = Homes(f, f.registered)  BY <3>2 DEF Homes
    <3>6. After(Drawn, e, call) => Has(Drawn, W \ {what}, Homes(e, Q \ R), Apart(C, R))
      BY <2>1 DEF After, C, R
    <3>7. After(Drawn, e, call) => Level(Drawn, f)  BY <1>3, <3>2, <3>4, <3>5, <3>6
    <3> QED  BY <1>2, <2>1, <2>2, <3>4, <3>7
  <2> HIDE DEF f
  <2> QED  BY <2>1, <2>2, LoadConsistent
<1> QED  BY <1>5, <1>6, <1>7, <1>8, <1>9, <1>10, <1>11, <1>12, <1>13

--------------------------------------------------------------------------------
(***************************************************************************)
(* The page keeps in step with the engine.                                 *)
(***************************************************************************)
\* The invariant holds when the page has been loaded.
LEMMA ConsistentStarts ==
    ASSUME NoLoops, EditorInit
    PROVE  EditorConsistent
<1> DEFINE W == Range(Topology.workspaces)
           S == {r \in Reactors : Topology.home[r] # NoWorkspace}
           C == Range(Topology.connections)
           n == Len(Topology.connections)
<1>1. /\ engine.workspaces = W /\ engine.home = Topology.home /\ engine.connections = C
      /\ engine.named = W \cup S /\ engine.made = n
      /\ editor = InitConfigured /\ calls = {} /\ acts = [done |-> 0, rush |-> 0, lost |-> FALSE, undrawn |-> {}]
  BY DEF EditorInit
<1>2. HasLoaded(editor, W, S, C) /\ OnTab(editor)
  BY <1>1, EditorAssumption, PageLoaded DEF HomedAtFirst
<1>3. editor \in Editors  BY <1>1, EditorStarts DEF EditorInv
<1>4. \A c \in C : c.id <= n
  <2>1. Topology.connections \in Seq(Connection)  BY EditorAssumption DEF EditorAssumption, Connection
  <2>2. ASSUME NEW c \in C PROVE c.id <= n
    <3>1. PICK i \in DOMAIN Topology.connections : c = Topology.connections[i]  BY DEF Range
    <3>2. c.id = i  BY <3>1, EditorAssumption DEF EditorAssumption
    <3>3. i \in 1..Len(Topology.connections) /\ Len(Topology.connections) \in Nat  BY <2>1, <3>1
    <3> QED  BY <3>2, <3>3
  <2> QED  BY <2>2
<1>5. Topology.home \in [Reactors -> W \cup {NoWorkspace}]  BY EditorAssumption DEF EditorAssumption
<1> HIDE DEF W, C, n
<1>6. /\ Agree(editor, C) /\ editor.registered = S /\ Range(editor.boxes) = W
      /\ \A r \in S : editor.workspace[r] = Topology.home[r]
      /\ \A r \in Reactors \ S : NoLists(editor, r)
  BY <1>2 DEF HasLoaded
<1>7. Conns(editor) = C  BY <1>3, <1>6, ConnsAre
<1>8. ~editor.thrown /\ editor.shown \in {NewTab, editor.box}  BY <1>2 DEF OnTab
<1>14. /\ Drawn.workspaces = W /\ Drawn.home = Topology.home /\ Drawn.connections = C
       /\ Drawn.named = W \cup S /\ Drawn.made = n
  BY <1>1 DEF Drawn
<1>9. Tidy(Drawn, editor)  BY <1>3, <1>4, <1>6, <1>7, <1>8, <1>14 DEF Tidy
<1>10. Topology.home = Homes(editor, editor.registered)
  BY <1>5, <1>6 DEF Homes
<1>11. Level(Drawn, editor)  BY <1>6, <1>7, <1>10, <1>14 DEF Level, Has
<1>12. InTouch(Drawn, editor, calls, acts.lost)  BY <1>1, <1>9, <1>11 DEF InTouch
<1>13. acts \in [done : Nat, rush : Nat, lost : BOOLEAN, undrawn : SUBSET Connection]  BY <1>1
<1>15. acts.undrawn = {}  BY <1>1
<1> QED  BY <1>12, <1>13, <1>15 DEF EditorConsistent

\* Every step keeps it.
LEMMA ConsistentSteps ==
    ASSUME EditorInv, EditorConsistent, [Next]_interfaceVars
    PROVE  EditorConsistent'
<1>1. CASE EditorNext
  BY <1>1, UserConsistent, ServeConsistent, FailConsistent, AnswersConsistent
  DEF EditorNext, EngineAnswers
<1>2. CASE UNCHANGED editorVars
  BY <1>2 DEF editorVars, EditorConsistent, Unhurried, Drawn
<1> QED  BY <1>1, <1>2 DEF Next, interfaceVars

\* And it is what EditorAgrees asks for.
LEMMA ConsistentAgrees ==
    ASSUME EditorConsistent
    PROVE  EditorAgrees
<1> DEFINE e == editor
           Q == e.registered
           C == Conns(e)
<1>1. SUFFICES ASSUME Unhurried PROVE EditorAgrees
  BY DEF EditorAgrees, RecordsAgree, ShowsTopology
<1>2. Tidy(Drawn, e) /\ (calls = {} => acts.lost \/ Level(Drawn, e))
  BY <1>1 DEF EditorConsistent, InTouch
<1>3. e \in Editors /\ Agree(e, C)  BY <1>2 DEF Tidy
<1>4. /\ Q \subseteq Reactors /\ e.boxes \in Seq(Workspaces) /\ Range(e.boxes) \subseteq Workspaces
      /\ \A r \in Reactors : e.inputs[r] \in Seq(Connection) /\ e.outputs[r] \in Seq(Connection)
  BY <1>3, BoxedPlaces DEF Editors
<1>5. \A s : ToSet(s) = Range(s)  BY DEF ToSet, Range
<1>6. ASSUME NEW c \in C
      PROVE  /\ HasLists(c)
             /\ \A s \in {c.from, c.to} : <<e.workspace[s], c>> \in e.lines
  <2>1. c.from \in Q /\ c.to \in Q /\ c.from \in Reactors /\ c.to \in Reactors
    BY <1>3, <1>4 DEF Agree, Holds, Ends
  <2>2. c \in Range(e.outputs[c.from]) /\ c \in Range(e.inputs[c.to])
    BY <1>3, <2>1 DEF Agree, Holds
  <2>3. Contains(e.outputs[c.from], c) /\ Contains(e.inputs[c.to], c)
    BY <1>4, <1>5, <2>1, <2>2, ContainsIn
  <2>4. e.lines = Lines(e, C)  BY <1>3 DEF Agree, Holds
  <2> QED  BY <2>1, <2>3, <2>4 DEF HasLists, Lines
<1>7. ASSUME NEW w \in Workspaces
      PROVE  /\ IsInjective(e.members[w])
             /\ Range(e.members[w]) = {r \in Q : e.workspace[r] = w}
  BY <1>3 DEF Agree, Holds
<1>8. ASSUME NEW r \in Q
      PROVE  /\ Contains(e.boxes, e.workspace[r])
             /\ IsInjective(e.inputs[r]) /\ IsInjective(e.outputs[r])
             /\ \A c \in Range(e.inputs[r]) \cup Range(e.outputs[r]) :
                  /\ r \in {c.from, c.to} /\ HasLists(c)
                  /\ \A s \in {c.from, c.to} : <<e.workspace[s], c>> \in e.lines
  <2>1. /\ e.workspace[r] \in Range(e.boxes) /\ IsInjective(e.inputs[r]) /\ IsInjective(e.outputs[r])
        /\ Range(e.inputs[r]) = {c \in C : c.to = r} /\ Range(e.outputs[r]) = {c \in C : c.from = r}
    BY <1>3 DEF Agree, Holds
  <2>2. Contains(e.boxes, e.workspace[r])  BY <1>4, <1>5, <2>1, ContainsIn
  <2> HIDE DEF C
  <2> QED  BY <1>6, <2>1, <2>2
<1>9. ASSUME NEW line \in e.lines
      PROVE  /\ HasLists(line[2])
             /\ line[1] \in {e.workspace[line[2].from], e.workspace[line[2].to]}
  <2>1. line \in Lines(e, C)  BY <1>3 DEF Agree, Holds
  <2>2. PICK c \in C : line \in {<<e.workspace[c.from], c>>, <<e.workspace[c.to], c>>}
    BY <2>1 DEF Lines
  <2> HIDE DEF C
  <2>3. line[2] = c /\ line[1] \in {e.workspace[c.from], e.workspace[c.to]}  BY <2>2
  <2>4. HasLists(c)  BY <1>6
  <2> QED  BY <2>3, <2>4
<1>10. RecordsAgree  BY <1>7, <1>8, <1>9 DEF RecordsAgree
<1>11. ASSUME ~acts.lost, calls = {}
       PROVE  /\ Range(e.boxes) = engine.workspaces
              /\ \A r \in Reactors :
                   IF Exists(r) THEN r \in Q /\ e.workspace[r] = engine.home[r]
                   ELSE r \notin Q
              /\ UNION {Range(e.outputs[r]) : r \in Q} = engine.connections \ acts.undrawn
  <2>1. /\ engine.workspaces = Range(e.boxes) /\ engine.connections \ acts.undrawn = C
        /\ engine.home = Homes(e, Q)
    BY <1>2, <1>11 DEF Level, Has, Drawn
  <2>2. \A r \in Q : e.workspace[r] \in Range(e.boxes)  BY <1>3 DEF Agree, Holds
  <2>3. NoWorkspace \notin Workspaces  BY EditorAssumption DEF EditorAssumption
  <2>4. ASSUME NEW r \in Reactors
        PROVE  IF Exists(r) THEN r \in Q /\ e.workspace[r] = engine.home[r] ELSE r \notin Q
    BY <1>4, <2>1, <2>2, <2>3 DEF Homes, Exists
  <2>5. UNION {Range(e.outputs[r]) : r \in Q} = C  BY DEF Conns
  <2> QED  BY <2>1, <2>4, <2>5
<1>12. ShowsTopology  BY <1>11 DEF ShowsTopology
<1> QED  BY <1>10, <1>12 DEF EditorAgrees

(***************************************************************************)
(* While the user waits for each answer and looks at the workspace that is *)
(* to be deleted, the page agrees with itself at any time - the workspaces,*)
(* the lists of connections, the lines - and, when it has come to rest and *)
(* no answer was lost, with the engine, but for the connections that could *)
(* not be drawn for want of a surface, in a workspace whose tab was not    *)
(* selected again since it was added.  The handlers of the answers are in  *)
(* Reactor.js 326-350 and reactors.js 766-771, 972-990, 1045-1049,         *)
(* 1111-1167 and 1309-1325.                                                *)
(***************************************************************************)
THEOREM EditorKeepsInStep ==
    ASSUME NoLoops
    PROVE  Spec => []EditorAgrees
<1>1. Init => EditorInv /\ EditorConsistent  BY EditorStarts, ConsistentStarts DEF Init
<1>2. EditorInv /\ EditorConsistent /\ [Next]_interfaceVars => (EditorInv /\ EditorConsistent)'
  BY EditorSteps, ConsistentSteps
<1>3. EditorConsistent => EditorAgrees  BY ConsistentAgrees
<1> QED  BY <1>1, <1>2, <1>3, PTL DEF Spec
================================================================================
