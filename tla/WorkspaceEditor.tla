---------------------------- MODULE WorkspaceEditor ----------------------------
(***************************************************************************)
(* The Reactors page of the web interface (platform/ui/scripts/reactors.js,*)
(* widgets/CrossWorkspaceConnection.js, plugins/reactors/Reactor.js): tabs *)
(* that show workspaces, icons of Reactors in them, and lines that show    *)
(* connections.  The ReactionEngine has the topology; the page keeps a copy*)
(* of it, which it changes when an answer says that the engine has.        *)
(*                                                                         *)
(* The script runs one callback at a time.  An action is one callback, and *)
(* an exception in it leaves what was done before.                         *)
(***************************************************************************)
EXTENDS Integers, FiniteSets, SequencesExt

CONSTANTS
    Workspaces, Reactors,   \* identifiers, of those that may be created too
    Topology,               \* what the engine has when the page is loaded
    NoWorkspace,            \* what is not a workspace: the home of no Reactor
    NewTab,                 \* the tab "Add new workspace"
    MaxConnections,         \* bound on the connections that are ever made
    MaxActs,                \* bound on what the user does
    MaxRush                 \* bound on the acts of a user who does not wait

ASSUME EditorAssumption ==
    /\ IsFiniteSet(Workspaces) /\ IsFiniteSet(Reactors)
    /\ NoWorkspace \notin Workspaces /\ NewTab \notin Workspaces
    /\ Topology.workspaces \in Seq(Workspaces) /\ Topology.workspaces # <<>>
    /\ IsInjective(Topology.workspaces)
    /\ Topology.home \in [Reactors -> Range(Topology.workspaces) \cup {NoWorkspace}]
    /\ Topology.connections \in Seq([id : Nat, from : Reactors, to : Reactors])
    /\ \A i \in DOMAIN Topology.connections :
         LET c == Topology.connections[i]
         IN  c.id = i /\ {Topology.home[c.from], Topology.home[c.to]} \subseteq Workspaces
    /\ {MaxConnections, MaxActs, MaxRush} \subseteq Nat

VARIABLES
    engine,     \* the ReactionEngine: workspaces, Reactors' homes, connections
    editor,     \* what the page knows and shows
    calls,      \* requests without an answer
    acts        \* what the user has done, and what the page has not been told or has not drawn

editorVars == <<engine, editor, calls, acts>>

--------------------------------------------------------------------------------
(***************************************************************************)
(* The page.  "boxes" are the tabs, "shown" the selected one, "box" the    *)
(* current workspace_box, and "surface" says whether the variable of that  *)
(* name is defined; "registered" is reactors_by_id, "members" the Reactors *)
(* of each workspace, "workspace" the one of each Reactor; "lines" are the *)
(* lines with their nodes (and the proxy, of a connection into another     *)
(* workspace).  An operator does nothing once an exception is "thrown".    *)
(***************************************************************************)
Throw(e) == [e EXCEPT !.thrown = TRUE]

\* A tab that has been removed has no button to be checked.
Selected(e, tab) ==
    IF tab = NewTab THEN [e EXCEPT !.shown = tab]
    ELSE [e EXCEPT !.shown = tab, !.box = tab, !.surface = TRUE,
                   !.thrown = ~Contains(e.boxes, tab)]

\* Nothing is published when the tab is the selected one.
SelectTab(e, tab) == IF e.thrown \/ e.shown = tab THEN e ELSE Selected(e, tab)

DrawLine(e, w, c) == IF e.thrown THEN e ELSE [e EXCEPT !.lines = @ \cup {<<w, c>>}]

\* The nodes of the line are looked for in the current workspace.
RemoveLine(e, c) ==
    IF e.thrown THEN e
    ELSE IF <<e.box, c>> \notin e.lines THEN Throw(e)
    ELSE [e EXCEPT !.lines = @ \ {<<e.box, c>>}]

CrossWorkspace(e, c) == e.workspace[c.from] # e.workspace[c.to]

\* A line within a workspace is drawn on the surface that the variable names, a proxy's
\* on that of its own workspace.
Undrawable(e, c) == ~CrossWorkspace(e, c) /\ ~e.surface

CreateConnection(e, c) ==
    LET atSource == DrawLine(SelectTab(e, e.workspace[c.from]), e.workspace[c.from], c)
        atSink   == DrawLine(SelectTab(atSource, e.workspace[c.to]), e.workspace[c.to], c)
        drawn    == IF CrossWorkspace(e, c) THEN SelectTab(atSink, e.box)
                    ELSE IF Undrawable(e, c) THEN Throw(e)
                    ELSE DrawLine(e, e.box, c)
    IN  IF drawn.thrown THEN drawn
        ELSE [drawn EXCEPT !.outputs[c.from] = Append(@, c),
                           !.inputs[c.to] = Append(@, c)]

\* A proxy goes with its line, in its own workspace.
DestroyProxy(e, w, c) ==
    IF <<w, c>> \notin e.lines THEN Throw(e)
    ELSE SelectTab(RemoveLine(SelectTab(e, w), c), e.box)

Erase(e, c) ==
    IF e.thrown THEN e
    ELSE IF CrossWorkspace(e, c)
           THEN LET a == DestroyProxy(e, e.workspace[c.from], c)
                IN  IF a.thrown THEN a ELSE DestroyProxy(a, e.workspace[c.to], c)
    ELSE RemoveLine(e, c)

ForgetOutput(e, c) == IF e.thrown THEN e ELSE [e EXCEPT !.outputs[c.from] = RemoveFirst(@, c)]

ForgetInput(e, c) == IF e.thrown THEN e ELSE [e EXCEPT !.inputs[c.to] = RemoveFirst(@, c)]

CreateReactor(e, r, w) ==
    IF e.thrown THEN e
    ELSE [e EXCEPT !.registered = @ \cup {r},
                   !.workspace[r] = w,
                   !.members[w] = Append(@, r)]

CreateReactorInConfiguredWorkspace(e, r, w) ==
    IF Contains(e.boxes, w) THEN CreateReactor(SelectTab(e, w), r, w) ELSE e

DeleteReactorFromUIBug(e, r) ==
    LET a == [e EXCEPT !.registered = @ \ {r}]
        b == FoldLeft(LAMBDA x, c : Erase(ForgetOutput(x, c), c), a, e.inputs[r])
        d == FoldLeft(Erase, b, e.outputs[r])
        w == e.workspace[r]
    IN  IF e.thrown THEN e
        ELSE IF d.thrown THEN d
        ELSE IF ~Contains(d.members[w], r) THEN Throw(d)
        ELSE [d EXCEPT !.members[w] = RemoveFirst(@, r)]

DeleteReactorFromUI(e, r) ==
    LET a == [e EXCEPT !.registered = @ \ {r}]
        b == FoldLeft(LAMBDA x, c : Erase(ForgetOutput(x, c), c), a, e.inputs[r])
        d == FoldLeft(LAMBDA x, c : Erase(ForgetInput(x, c), c), b, e.outputs[r])
        w == e.workspace[r]
    IN  IF e.thrown THEN e
        ELSE IF d.thrown THEN d
        ELSE IF ~Contains(d.members[w], r) THEN Throw(d)
        ELSE [d EXCEPT !.members[w] = RemoveFirst(@, r)]

\* The tab that remains is the first; the last one of all is NewTab.
DeleteWorkspaceFromUI(e, w) ==
    LET a == FoldLeft(DeleteReactorFromUI, e, e.members[w])
        b == [a EXCEPT !.boxes = RemoveFirst(@, w)]
    IN  IF a.thrown THEN a
        ELSE IF b.shown # w THEN b
        ELSE SelectTab(b, IF b.boxes = <<>> THEN NewTab ELSE Head(b.boxes))

\* The tab is selected before there is a surface in the workspace, and from then on the
\* variable is undefined until a tab is selected.
AddWorkspace(e, w) ==
    [SelectTab([e EXCEPT !.boxes = Append(@, w)], w) EXCEPT !.surface = FALSE]

\* When the page is loaded, the variables are set before the tab is selected.
ShowWorkspace(e, w) == SelectTab([e EXCEPT !.surface = TRUE], w)

--------------------------------------------------------------------------------
(***************************************************************************)
(* The page has been loaded: the workspaces, Reactors and connections of   *)
(* the engine were added one by one, and the first tab was selected.       *)
(***************************************************************************)
InitConfigured ==
    LET empty == [boxes |-> <<>>, shown |-> NewTab, box |-> NoWorkspace, surface |-> FALSE,
                  registered |-> {}, workspace |-> [r \in Reactors |-> NoWorkspace],
                  members |-> [w \in Workspaces |-> <<>>],
                  inputs |-> [r \in Reactors |-> <<>>],
                  outputs |-> [r \in Reactors |-> <<>>],
                  lines |-> {}, thrown |-> FALSE]
        tabs == FoldLeft(AddWorkspace, empty, Topology.workspaces)
        icons == FoldLeft(LAMBDA e, r : CreateReactorInConfiguredWorkspace(e, r, Topology.home[r]),
                          tabs, SetToSeq({r \in Reactors : Topology.home[r] # NoWorkspace}))
        lines == FoldLeft(LAMBDA e, c : CreateConnection(ShowWorkspace(e, e.workspace[c.from]), c),
                          icons, Topology.connections)
    IN  ShowWorkspace(lines, Head(Topology.workspaces))

EditorInit ==
    /\ engine = [workspaces |-> Range(Topology.workspaces),
                 home |-> Topology.home,
                 connections |-> Range(Topology.connections),
                 named |-> Range(Topology.workspaces)
                             \cup {r \in Reactors : Topology.home[r] # NoWorkspace},
                 made |-> Len(Topology.connections)]
    /\ editor = InitConfigured
    /\ calls = {}
    /\ acts = [done |-> 0, rush |-> 0, lost |-> FALSE, undrawn |-> {}]

\* "nr" tells two requests for the same from each other.
Call(type, what, at) ==
    [type |-> type, what |-> what, at |-> at, row |-> 0, nr |-> acts.done, phase |-> "sent"]

\* The page after a callback, and the calls under way then.  Selecting the last
\* tab asks for a new workspace.
Becomes(f, under_way) ==
    /\ editor' = [f EXCEPT !.thrown = FALSE]
    /\ calls' = under_way \cup
         (IF f.shown = NewTab /\ editor.shown # NewTab
            THEN {Call("addWorkspace", NoWorkspace, NoWorkspace)} ELSE {})

Sends(call) == calls' = calls \cup {call} /\ UNCHANGED editor

--------------------------------------------------------------------------------
(***************************************************************************)
(* The user.  Nothing stops a user from going on before an answer has come,*)
(* and one need not look at a workspace to delete it; "rush" counts both.  *)
(* For the bound, such an act counts for two.                              *)
(***************************************************************************)
Unhurried == acts.rush = 0

Waiting == calls # {}

UserAct(rushed) ==
    /\ acts.done + acts.rush + (IF rushed THEN 2 ELSE 1) <= MaxActs
    /\ rushed => acts.rush < MaxRush
    /\ acts' = [acts EXCEPT !.done = @ + 1, !.rush = IF rushed THEN @ + 1 ELSE @]
    /\ UNCHANGED engine

\* A workspace that has no tab any more may be selected but is not to be seen.
InSight == Contains(editor.boxes, editor.shown)

Visible(r) == InSight /\ Contains(editor.members[editor.shown], r)

ClickTab(tab) ==
    /\ tab # editor.shown
    /\ Becomes(SelectTab(editor, tab), calls)
    /\ UserAct(Waiting)

\* On the return from another page: the tab is selected even if it is selected.
ReselectCurrentWorkspace ==
    /\ editor.shown # editor.box \/ ~editor.surface
    /\ Becomes(Selected(editor, editor.box), calls)
    /\ UserAct(Waiting)

\* The icon of a new Reactor is dropped on the workspace, and the dialog is saved.
TryConfig ==
    /\ InSight
    /\ Sends(Call("addReactor", NoWorkspace, editor.box))
    /\ UserAct(Waiting)

CopyReactor(r) ==
    /\ Visible(r)
    /\ Sends(Call("getReactor", r, NoWorkspace))
    /\ UserAct(Waiting)

\* A click on the icon of the sink, after which the tab of the source is selected.  The
\* connector has been dropped on the source before, which takes a surface to draw on.
HandleSelectionOfConnectorEndpoint(r, s) ==
    /\ Visible(s)
    /\ editor.surface
    /\ r # s
    /\ r \in editor.registered
    /\ Becomes(SelectTab(editor, editor.workspace[r]),
               calls \cup {Call("connect", [from |-> r, to |-> s], NoWorkspace)})
    /\ UserAct(Waiting)

\* A choice in the dialog of the connections of r or of s.
MakeCallback(r, s) ==
    /\ r # s
    /\ {r, s} \subseteq editor.registered
    /\ Visible(r) \/ Visible(s)
    /\ ~\E c \in Range(editor.outputs[r]) : c.to = s
    /\ Sends(Call("connect", [from |-> r, to |-> s], NoWorkspace))
    /\ UserAct(Waiting)

\* From the menu of a line or a proxy.
RemoveConnection(c) ==
    /\ InSight
    /\ <<editor.shown, c>> \in editor.lines
    /\ Sends(Call("disconnect", c, "line"))
    /\ UserAct(Waiting)

\* A row of the table of inputs or of outputs in the dialog of r.  A row goes
\* when it is clicked, its entry in the list when the answer comes.
OnCellClick(r, table, row) ==
    /\ Visible(r)
    /\ LET list == IF table = "inputs" THEN editor.inputs[r] ELSE editor.outputs[r]
       IN  /\ row \in DOMAIN list
           /\ row + Cardinality({c \in calls : c.at = table}) <= Len(list)
           /\ calls' = calls \cup {[Call("disconnect", list[row], table) EXCEPT !.row = row]}
    /\ UNCHANGED editor
    /\ UserAct(Waiting)

DeleteReactorBug(r) ==
    /\ Visible(r)
    /\ Becomes(DeleteReactorFromUI(editor, r),
               calls \cup {Call("deleteReactor", r, NoWorkspace)})
    /\ UserAct(Waiting)

DeleteReactor(r) ==
    /\ Visible(r)
    /\ Sends(Call("deleteReactor", r, NoWorkspace))
    /\ UserAct(Waiting)

DeleteWorkspaceIfConfirmed(w) ==
    /\ Contains(editor.boxes, w)
    /\ Sends(Call(IF editor.members[w] = <<>> THEN "deleteWorkspace" ELSE "deleteReactors",
                  w, NoWorkspace))
    /\ UserAct(Waiting \/ w # editor.shown)

--------------------------------------------------------------------------------
(***************************************************************************)
(* The engine serves requests in any order.                                *)
(***************************************************************************)
Connected(r, s) == \E c \in engine.connections : c.from = r /\ c.to = s

Without(rs) ==
    [engine EXCEPT !.home = [r \in Reactors |-> IF r \in rs THEN NoWorkspace ELSE @[r]],
                   !.connections = {c \in @ : {c.from, c.to} \cap rs = {}}]

Exists(r) == engine.home[r] # NoWorkspace

Refused(call) ==
    CASE call.type \in {"getReactor", "deleteReactor"} -> ~Exists(call.what)
      [] call.type = "connect" -> \/ ~Exists(call.what.from) \/ ~Exists(call.what.to)
                                  \/ Connected(call.what.from, call.what.to)
      [] call.type = "disconnect" -> call.what \notin engine.connections
      [] call.type = "deleteReactors" -> call.what \notin engine.workspaces
      [] call.type = "deleteWorkspace" -> \/ call.what \notin engine.workspaces
                                          \/ \E r \in Reactors : engine.home[r] = call.what
      [] OTHER -> FALSE

Fresh(set) == set \ engine.named

Replies(call, what) ==
    calls' = (calls \ {call}) \cup {[call EXCEPT !.what = what, !.phase = "done"]}

EngineServes(call) ==
    /\ call.phase = "sent"
    /\ ~Refused(call)
    /\ \/ /\ call.type \in {"addReactor", "addCopy"}
          /\ \E r \in Fresh(Reactors) :
               /\ engine' = [engine EXCEPT !.home[r] = call.at, !.named = @ \cup {r}]
               /\ Replies(call, r)
       \/ /\ call.type = "addWorkspace"
          /\ \E w \in Fresh(Workspaces) :
               /\ engine' = [engine EXCEPT !.workspaces = @ \cup {w}, !.named = @ \cup {w}]
               /\ Replies(call, w)
       \/ /\ call.type = "getReactor"
          /\ calls' = (calls \ {call}) \cup
                        {[call EXCEPT !.phase = "done", !.at = engine.home[call.what]]}
          /\ UNCHANGED engine
       \/ /\ call.type = "connect"
          /\ engine.made < MaxConnections
          /\ LET c == [id |-> engine.made + 1, from |-> call.what.from, to |-> call.what.to]
             IN  /\ engine' = [engine EXCEPT !.connections = @ \cup {c}, !.made = @ + 1]
                 /\ Replies(call, c)
       \/ /\ call.type = "disconnect"
          /\ engine' = [engine EXCEPT !.connections = @ \ {call.what}]
          /\ Replies(call, call.what)
       \/ /\ call.type = "deleteReactor"
          /\ engine' = Without({call.what})
          /\ Replies(call, call.what)
       \/ /\ call.type = "deleteReactors"
          /\ engine' = Without({r \in Reactors : engine.home[r] = call.what})
          /\ Replies(call, call.what)
       \/ /\ call.type = "deleteWorkspace"
          /\ engine' = [engine EXCEPT !.workspaces = @ \ {call.what}]
          /\ Replies(call, call.what)
    /\ UNCHANGED <<editor, acts>>

(***************************************************************************)
(* An error instead of an answer: the request was refused, or it, or only  *)
(* its answer, was lost.  The handlers show a message.                     *)
(***************************************************************************)
CallFails(call) ==
    /\ calls' = calls \ {call}
    /\ acts' = [acts EXCEPT !.lost = @ \/ ~(call.phase = "sent" /\ Refused(call))]
    /\ UNCHANGED <<engine, editor>>

Response(call, type) == call.type = type /\ call.phase = "done"

\* What every handler of an answer leaves alone.
Load(call, f, made) ==
    /\ Becomes(f, (calls \ {call}) \cup made)
    /\ UNCHANGED <<engine, acts>>

ReactorAdded(call) ==
    /\ Response(call, "addReactor")
    /\ Load(call, CreateReactor(editor, call.what, call.at), {})

ReactorGot(call) ==
    /\ Response(call, "getReactor")
    /\ Load(call, editor, {Call("addCopy", NoWorkspace, call.at)})

CopyAdded(call) ==
    /\ Response(call, "addCopy")
    /\ Load(call, CreateReactorInConfiguredWorkspace(editor, call.what, call.at), {})

WorkspaceAdded(call) ==
    /\ Response(call, "addWorkspace")
    /\ Load(call, AddWorkspace(editor, call.what), {})

\* The callback of a connection that cannot be drawn ends with an exception, and nobody
\* asks for the connection again.
ConnectionAdded(call) ==
    LET c == call.what
        f == CreateConnection(editor, c)
    IN  /\ Response(call, "connect")
        /\ Becomes(f, calls \ {call})
        /\ acts' = [acts EXCEPT !.undrawn = @ \cup (IF Undrawable(editor, c) THEN {c} ELSE {})]
        /\ UNCHANGED engine

\* The order in which the record of a connection, its other record and its line
\* are removed depends on where the user asked for it.
Disconnect(e, call) ==
    LET c == call.what
        dropped(list) == IF call.row \in DOMAIN list THEN RemoveAt(list, call.row) ELSE list
    IN  CASE call.at = "inputs" ->
               Erase(ForgetOutput([e EXCEPT !.inputs[c.to] = dropped(@)], c), c)
          [] call.at = "outputs" ->
               Erase(ForgetInput([e EXCEPT !.outputs[c.from] = dropped(@)], c), c)
          [] call.at = "line" /\ CrossWorkspace(e, c) ->
               Erase(ForgetInput(ForgetOutput(e, c), c), c)
          [] OTHER ->
               IF ~Contains(e.outputs[c.from], c) THEN Throw(e)
               ELSE ForgetInput(ForgetOutput(Erase(e, c), c), c)

ConnectionDeleted(call) ==
    /\ Response(call, "disconnect")
    /\ Load(call, Disconnect(editor, call), {})

ReactorDeleted(call) ==
    /\ Response(call, "deleteReactor")
    /\ Load(call, DeleteReactorFromUI(editor, call.what), {})

ReactorsDeleted(call) ==
    /\ Response(call, "deleteReactors")
    /\ Load(call, editor, {Call("deleteWorkspace", call.what, NoWorkspace)})

WorkspaceDeleted(call) ==
    /\ Response(call, "deleteWorkspace")
    /\ Load(call, DeleteWorkspaceFromUI(editor, call.what), {})

--------------------------------------------------------------------------------
EditorUserActs ==
    \/ \E tab \in Range(editor.boxes) \cup {NewTab} : ClickTab(tab)
    \/ ReselectCurrentWorkspace
    \/ TryConfig
    \/ \E r \in Reactors : CopyReactor(r) \/ DeleteReactor(r)
    \/ \E r, s \in Reactors : HandleSelectionOfConnectorEndpoint(r, s) \/ MakeCallback(r, s)
    \/ \E line \in editor.lines : RemoveConnection(line[2])
    \/ \E r \in Reactors, table \in {"inputs", "outputs"}, row \in 1 .. MaxConnections :
         OnCellClick(r, table, row)
    \/ \E w \in Workspaces : DeleteWorkspaceIfConfirmed(w)

EngineAnswers ==
    \E call \in calls :
        \/ EngineServes(call) \/ CallFails(call)
        \/ ReactorAdded(call) \/ ReactorGot(call) \/ CopyAdded(call)
        \/ WorkspaceAdded(call) \/ ConnectionAdded(call) \/ ConnectionDeleted(call)
        \/ ReactorDeleted(call) \/ ReactorsDeleted(call) \/ WorkspaceDeleted(call)

EditorNext == EditorUserActs \/ EngineAnswers

EditorSpec == EditorInit /\ [][EditorNext]_editorVars

--------------------------------------------------------------------------------
(***************************************************************************)
(* What the page records of the topology agrees with itself: a Reactor is  *)
(* in one workspace that has a tab, a connection is in the lists of its    *)
(* source and of its sink, and it is drawn once in the workspace of each   *)
(* of the two and nowhere else (reactors.js 366-446 and 1054-1103).        *)
(***************************************************************************)
HasLists(c) ==
    /\ {c.from, c.to} \subseteq editor.registered
    /\ Contains(editor.outputs[c.from], c)
    /\ Contains(editor.inputs[c.to], c)

RecordsAgree ==
    Unhurried =>
      /\ \A w \in Workspaces :
           /\ IsInjective(editor.members[w])
           /\ Range(editor.members[w]) =
                {r \in editor.registered : editor.workspace[r] = w}
      /\ \A r \in editor.registered :
           /\ Contains(editor.boxes, editor.workspace[r])
           /\ IsInjective(editor.inputs[r]) /\ IsInjective(editor.outputs[r])
           /\ \A c \in Range(editor.inputs[r]) \cup Range(editor.outputs[r]) :
                /\ r \in {c.from, c.to} /\ HasLists(c)
                /\ \A s \in {c.from, c.to} : <<editor.workspace[s], c>> \in editor.lines
      /\ \A line \in editor.lines :
           /\ HasLists(line[2])
           /\ line[1] \in {editor.workspace[line[2].from], editor.workspace[line[2].to]}

(***************************************************************************)
(* When every request has been answered, or refused by the engine, the page*)
(* shows the engine's topology (reactors.js 744-775, 1040-1142, 1303-1344),*)
(* but for connections made when it had no surface to draw on.             *)
(***************************************************************************)
ShowsTopology ==
    Unhurried /\ ~acts.lost /\ calls = {} =>
      /\ Range(editor.boxes) = engine.workspaces
      /\ \A r \in Reactors :
           IF Exists(r) THEN /\ r \in editor.registered
                             /\ editor.workspace[r] = engine.home[r]
           ELSE r \notin editor.registered
      /\ UNION {Range(editor.outputs[r]) : r \in editor.registered} =
           engine.connections \ acts.undrawn

(***************************************************************************)
(* For a user who waits for answers and looks at the workspace he deletes: *)
(* the page agrees with itself at any time and, when it has come to rest,  *)
(* with the engine: what it does not show are the connections between      *)
(* Reactors of a workspace that was just added, whose tab has not been     *)
(* selected again (reactors.js 373, 487, 498 and 1173).                    *)
(***************************************************************************)
EditorAgrees == RecordsAgree /\ ShowsTopology

(***************************************************************************)
(* However hasty the user, nothing leaves the page that the engine still   *)
(* has: the page removes a Reactor or a connection on the word of the      *)
(* engine only (reactors.js 382-404, 1045-1049 and 1322-1325).  The rows of*)
(* the dialog of connections are excepted: the row that was clicked may be *)
(* that of another connection when the answer comes (reactors.js 898 and   *)
(* 973).  So are the Reactors that the engine has taken into a workspace   *)
(* that was deleted before, which nothing keeps it from.                   *)
(***************************************************************************)
StaleRow(call) ==
    /\ call.row # 0
    /\ LET list == IF call.at = "inputs" THEN editor.inputs[call.what.to]
                   ELSE editor.outputs[call.what.from]
       IN  IF call.row \in DOMAIN list THEN list[call.row] # call.what ELSE TRUE

Present(r) == engine.home[r] \in engine.workspaces

Listed(outputs) == UNION {Range(outputs[r]) : r \in Reactors}

GoneBeforeRemoved ==
    [][(\A call \in calls \ calls' : ~StaleRow(call)) =>
         /\ \A r \in editor.registered \ editor'.registered : ~Present(r)
         /\ \A c \in Listed(editor.outputs) \ Listed(editor'.outputs) :
              c \in engine.connections => ~Present(c.from) \/ ~Present(c.to)
      ]_editorVars

================================================================================
