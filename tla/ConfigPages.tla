------------------------------ MODULE ConfigPages ------------------------------
(***************************************************************************)
(* A configuration page of the web interface: the Codecs, Databases,       *)
(* Protocols, Users or Vocabularies tab (platform/ui/scripts/codecs.js and *)
(* its four siblings, which repeat its code, with the panes of             *)
(* platform/ui/plugins).                                                   *)
(*                                                                         *)
(* A page is an accordion with one pane per configured item.  A pane is a  *)
(* placeholder until it is first selected; then a pane with a form takes   *)
(* its place, in steps that timers separate.  The script runs one callback *)
(* at a time: an action of this module is one callback (a click, a timer,  *)
(* an answer of the server), and what interleaves are the callbacks.       *)
(***************************************************************************)
EXTENDS Integers, FiniteSets, SequencesExt

CONSTANTS
    Items,          \* identifiers of items, configured or not
    Configured,     \* the items the server has when the page is opened
    Kinds,          \* the pages to consider
    MaxClicks,      \* bound on the clicks on titles of panes and on Cancel
    MaxHaste,       \* bound on the acts of a user who does not wait
    MaxEdits,       \* bound on the edits of forms
    MaxWrites       \* bound on the requests that change the configuration

ASSUME PagesAssumption ==
    /\ IsFiniteSet(Items)
    /\ Configured \subseteq Items
    /\ Configured # {}
    /\ Kinds \subseteq {"codec", "database", "protocol", "user", "vocabulary"}
    /\ {MaxClicks, MaxHaste, MaxEdits, MaxWrites} \subseteq Nat

VARIABLES
    kind,       \* which page this is
    page,       \* the accordion, its timers and its panes
    config,     \* the server's configuration
    requests,   \* requests the server has not answered
    this,       \* the global variable _this, which the panes share
    user        \* what the user has done

pagesVars == <<kind, page, config, requests, this, user>>

NoPane == 0         \* null, undefined and false of the script
Absent == -1        \* no such item
Blank  == 0         \* what a form shows before it is populated

(***************************************************************************)
(* The values of an item are numbered: 1 is the one it starts with and each*)
(* edit makes a new one.                                                   *)
(***************************************************************************)

IndexOf(a, p) == SelectInSeq(a.children, LAMBDA q : q = p)

Unsaved(a, p) == p # NoPane /\ a.panes[p].unsaved_changes

--------------------------------------------------------------------------------
(***************************************************************************)
(* The accordion.  The operators take and return the state of the page, as *)
(* the methods call one another within one callback.                       *)
(***************************************************************************)
Delay(timer) ==
    CASE timer = "added"  -> 200    \* config_accordion.duration
      [] timer = "select" -> 300    \* config_accordion.duration + 100
      [] timer = "revert" -> 500
      [] timer = "unflag" -> 500

SetTimeout(a, timer, p) == [a EXCEPT !.timers = Append(@, <<timer, p>>)]

PaneSelectedBug(a, p) ==
    IF p = a.selected_pane THEN a ELSE SetTimeout(a, "select", p)

\* The subscriber of "...-selectChild".
PaneSelected(a, p) ==
    IF p = a.selected_pane THEN a
    ELSE IF Unsaved(a, a.selected_pane)
           THEN SetTimeout(a, "revert", a.selected_pane)
           ELSE SetTimeout(a, "select", p)

\* A pane that has left the accordion has no wrapper: the transition to it
\* throws before anything is changed.
SelectChild(a, p) ==
    IF p = a.selected \/ ~Contains(a.children, p) THEN a
    ELSE PaneSelected([a EXCEPT !.selected = p], p)

RemoveChild(a, p) ==
    LET b == [a EXCEPT !.children = RemoveFirst(@, p)]
        c == [b EXCEPT !.selected = NoPane]
    IN  IF a.selected # p THEN b
        ELSE IF b.children = <<>> THEN c ELSE SelectChild(c, Head(b.children))

\* Every addition is announced, and its subscriber sets a timer.
AddChild(a, p, idx) ==
    LET b == SetTimeout([a EXCEPT !.children = InsertAt(@, idx, p)], "added", p)
    IN  IF b.selected = NoPane THEN SelectChild(b, p) ELSE b

Forward(a) ==
    IF a.children = <<>> THEN a
    ELSE SelectChild(a, a.children[(IndexOf(a, a.selected) % Len(a.children)) + 1])

NewPane(item, value, initialized) ==
    [item |-> item, initialized |-> initialized, config_item |-> value,
     shows |-> item, form |-> Blank, unsaved_changes |-> FALSE, typed |-> Blank]

CreateNewPaneFromItem(a, item, value) ==
    AddChild([a EXCEPT !.panes = Append(@, NewPane(item, value, FALSE))],
             Len(a.panes) + 1, Len(a.children) + 1)

ReplaceAccordionPaneBug(a, old) ==
    LET new == Len(a.panes) + 1
    IN  AddChild([a EXCEPT !.panes = Append(@, NewPane(a.panes[old].item,
                                                a.panes[old].config_item, TRUE)),
                           !.pendingSelection = new],
                 new, IF Contains(a.children, old) THEN IndexOf(a, old) ELSE 1)

\* The pane with a form goes in front of its placeholder, or of everything
\* when the placeholder is no longer there.
ReplaceAccordionPane(a, old) ==
    LET new == Len(a.panes) + 1
        idx == IF Contains(a.children, old) THEN IndexOf(a, old) ELSE 1
    IN  AddChild([a EXCEPT !.panes = Append(@, NewPane(a.panes[old].item,
                                                a.panes[old].config_item, TRUE)),
                           !.pendingSelection = new,
                           !.pendingRemoval = old],
                 new, idx)

\* The change events of the widgets come after the form is set; the class
\* they add is removed later.
PopulateFromConfigItem(a, p, item, value) ==
    SetTimeout([a EXCEPT !.panes[p].shows = item, !.panes[p].form = value],
               "unflag", p)

Send(type, p, item, value) ==
    [type |-> type, pane |-> p, item |-> item, value |-> value, phase |-> "sent"]

(***************************************************************************)
(* The page has been opened and the list of items has arrived: every item  *)
(* has a placeholder, and removing the pane of index.html has selected the *)
(* first.                                                                  *)
(***************************************************************************)
CreatePanesFromAllItems ==
    LET items == SetToSeq(Configured)
    IN  [children |-> [i \in DOMAIN items |-> i],
         selected |-> 1,
         selected_pane |-> NoPane,
         pendingSelection |-> NoPane,
         pendingRemoval |-> NoPane,
         timers |-> << <<"select", 1>> >>,
         panes |-> [i \in DOMAIN items |-> NewPane(items[i], 1, FALSE)]]

NoRequests ==
    /\ requests = {}
    /\ this = NoPane
    /\ user = [clicks |-> 0, edits |-> 0, writes |-> 0, haste |-> 0,
               unsure |-> {}, left |-> FALSE]

PagesInit ==
    /\ kind \in Kinds
    /\ page = CreatePanesFromAllItems
    /\ config = [i \in Items |-> IF i \in Configured THEN 1 ELSE Absent]
    /\ NoRequests

--------------------------------------------------------------------------------
(***************************************************************************)
(* The timers.  One fires after every other that was set before it with a  *)
(* delay that is not longer.                                               *)
(***************************************************************************)
Due(i) ==
    \A j \in 1 .. (i - 1) : Delay(page.timers[j][1]) > Delay(page.timers[i][1])

Fire(timer, i) ==
    /\ ~user.left
    /\ page.timers[i][1] = timer
    /\ Due(i)

Fired(i) == [page EXCEPT !.timers = RemoveAt(@, i)]

SelectTimerBug(i) ==
    /\ Fire("select", i)
    /\ LET p == page.timers[i][2]
           a == [RemoveChild(Fired(i), page.selected_pane) EXCEPT !.pendingRemoval = NoPane]
       IN  IF page.panes[p].initialized
             THEN /\ page' = [a EXCEPT !.selected_pane = p]
                  /\ requests' = requests \cup {Send("load", p, page.panes[p].item, Blank)}
             ELSE /\ page' = ReplaceAccordionPane(a, p)
                  /\ UNCHANGED requests
    /\ UNCHANGED <<kind, config, this, user>>

\* The rest of the handler of a selection, duration + 100 ms later.
SelectTimer(i) ==
    /\ Fire("select", i)
    /\ LET p == page.timers[i][2]
           a == IF page.pendingRemoval = NoPane THEN Fired(i)
                ELSE [RemoveChild(Fired(i), page.pendingRemoval)
                        EXCEPT !.pendingRemoval = NoPane]
       IN  IF page.panes[p].initialized
             THEN /\ page' = [a EXCEPT !.selected_pane = p]
                  /\ requests' = requests \cup {Send("load", p, page.panes[p].item, Blank)}
             ELSE /\ page' = ReplaceAccordionPane(a, p)
                  /\ UNCHANGED requests
    /\ UNCHANGED <<kind, config, this, user>>

AddedTimerBug(i) ==
    /\ Fire("added", i)
    /\ page' = Fired(i)
    /\ UNCHANGED <<kind, config, requests, this, user>>

\* If the pane to select is no longer there, the exception leaves it pending.
AddedTimer(i) ==
    /\ Fire("added", i)
    /\ LET p == page.pendingSelection
       IN  page' = IF p # NoPane /\ Contains(page.children, p)
                     THEN [SelectChild(Fired(i), p) EXCEPT !.pendingSelection = NoPane]
                     ELSE Fired(i)
    /\ UNCHANGED <<kind, config, requests, this, user>>

\* Return to the pane with unsaved changes.
RevertTimer(i) ==
    /\ Fire("revert", i)
    /\ page' = SelectChild(Fired(i), page.timers[i][2])
    /\ UNCHANGED <<kind, config, requests, this, user>>

UnflagTimer(i) ==
    /\ Fire("unflag", i)
    /\ page' = [Fired(i) EXCEPT !.panes[page.timers[i][2]].unsaved_changes = FALSE]
    /\ UNCHANGED <<kind, config, requests, this, user>>

--------------------------------------------------------------------------------
(***************************************************************************)
(* The user.  Nothing stops a user from clicking before the page has come  *)
(* to rest; "haste" counts how often one did, and is otherwise not read.   *)
(***************************************************************************)
Busy == requests # {} \/ \E i \in DOMAIN page.timers : page.timers[i][1] # "unflag"

Patient == user.haste = 0

\* An act of the user, to be counted in one of the fields of "user".
Act(field, hasty) ==
    /\ ~user.left
    /\ hasty => user.haste < MaxHaste
    /\ user' = [user EXCEPT ![field] = @ + 1, !.haste = IF hasty THEN @ + 1 ELSE @]

Deleting(p) == \E r \in requests : r.type = "delete" /\ r.pane = p

Click(p) ==
    /\ user.clicks < MaxClicks
    /\ Contains(page.children, p)
    /\ p # page.selected
    /\ page' = SelectChild(page, p)
    /\ Act("clicks", Busy)
    /\ UNCHANGED <<kind, config, requests, this>>

Shown(p) == p = page.selected /\ p # NoPane /\ page.panes[p].initialized

\* Editing a form is not hasty, unless its item is being deleted.
MarkAsChanged(p) ==
    /\ Shown(p)
    /\ user.edits < MaxEdits
    /\ page' = [page EXCEPT !.panes[p].form = 2 + user.edits,
                            !.panes[p].typed = 2 + user.edits,
                            !.panes[p].unsaved_changes = TRUE]
    /\ Act("edits", Deleting(p))
    /\ UNCHANGED <<kind, config, requests, this>>

\* What every save does; "flagged" tells whether the pane stays marked.
PutRequest(p, flagged) ==
    /\ Shown(p)
    /\ user.writes < MaxWrites
    /\ page' = [page EXCEPT !.panes[p].unsaved_changes = flagged]
    /\ requests' = requests \cup {Send("put", p, page.panes[p].item, page.panes[p].form)}
    /\ Act("writes", Busy)
    /\ UNCHANGED <<kind, config>>

SaveCodec(p) == kind = "codec" /\ PutRequest(p, FALSE) /\ this' = p

SaveDatabase(p) == kind = "database" /\ PutRequest(p, FALSE) /\ this' = p

\* A Protocol without extraction rules is saved without removing the mark.
SaveProtocol(p) ==
    /\ kind = "protocol"
    /\ \/ PutRequest(p, FALSE)
       \/ PutRequest(p, page.panes[p].unsaved_changes)
    /\ this' = p

SaveUser(p) == kind = "user" /\ PutRequest(p, FALSE) /\ this' = p

\* The only pane whose save has a variable of its own.
SaveVocabulary(p) == kind = "vocabulary" /\ PutRequest(p, FALSE) /\ UNCHANGED this

Cancel(p) ==
    /\ Shown(p)
    /\ user.clicks < MaxClicks
    /\ page' = LET a == [page EXCEPT !.panes[p].unsaved_changes = FALSE]
               IN  IF kind = "vocabulary" THEN a
                   ELSE PopulateFromConfigItem(a, p, page.panes[p].item,
                                               page.panes[p].config_item)
    /\ requests' = IF kind = "vocabulary"
                     THEN requests \cup {Send("load", p, page.panes[p].item, Blank)}
                     ELSE requests
    /\ Act("clicks", Busy)
    /\ UNCHANGED <<kind, config, this>>

Delete2(p) ==
    /\ Shown(p)
    /\ user.writes < MaxWrites
    /\ page' = [page EXCEPT !.panes[p].unsaved_changes = FALSE]
    /\ this' = p
    /\ requests' = requests \cup {Send("delete", p, page.panes[p].item, Blank)}
    /\ Act("writes", Busy)
    /\ UNCHANGED <<kind, config>>

\* The dialog for a new item; the server or the user names an unused one.
AddNew(item) ==
    /\ user.writes < MaxWrites
    /\ config[item] = Absent
    /\ ~\E r \in requests : r.type = "post" /\ r.item = item
    /\ requests' = requests \cup {Send("post", NoPane, item, 1)}
    /\ Act("writes", Busy)
    /\ UNCHANGED <<kind, page, config, this>>

--------------------------------------------------------------------------------
(***************************************************************************)
(* The server.  It takes requests in any order; a change of an item that is*)
(* not there is refused.                                                   *)
(***************************************************************************)
Served(r, value, phase) ==
    requests' = (requests \ {r}) \cup {[r EXCEPT !.value = value, !.phase = phase]}

Serve(r) ==
    /\ r.phase = "sent"
    /\ \/ /\ r.type \in {"load", "reload", "create"}
          /\ Served(r, config[r.item], "done")
          /\ UNCHANGED config
       \/ /\ r.type \in {"put", "delete"}
          /\ config[r.item] = Absent
          /\ Served(r, r.value, "refused")
          /\ UNCHANGED config
       \/ /\ r.type \in {"put", "post"}
          /\ r.type = "put" => config[r.item] # Absent
          /\ Served(r, r.value, "done")
          /\ config' = [config EXCEPT ![r.item] = r.value]
       \/ /\ r.type = "delete"
          /\ config[r.item] # Absent
          /\ Served(r, r.value, "done")
          /\ config' = [config EXCEPT ![r.item] = Absent]
    /\ UNCHANGED <<kind, page, this, user>>

(***************************************************************************)
(* An error instead of an answer: the request was refused, or it, or only  *)
(* its answer, was lost.  The handlers show a message and change nothing.  *)
(***************************************************************************)
Error(r) ==
    /\ requests' = requests \ {r}
    /\ user' = [user EXCEPT !.unsure = @ \cup {r.item}]
    /\ UNCHANGED <<kind, page, config, this>>

Answer(r, type) == ~user.left /\ r.type = type /\ r.phase = "done"

Loaded(r) ==
    /\ Answer(r, "load")
    /\ page' = IF r.value = Absent THEN page
               ELSE PopulateFromConfigItem(page, r.pane, r.item, r.value)
    /\ requests' = requests \ {r}
    /\ UNCHANGED <<kind, config, this, user>>

\* The answer to a save fetches the item of whatever pane _this is by now.
\* A user who has taken away his own permission has to load the page again;
\* the rest of the callback still runs.
PutDone(r) ==
    /\ Answer(r, "put")
    /\ requests' = (requests \ {r}) \cup
         {IF kind = "vocabulary" THEN Send("load", r.pane, r.item, Blank)
          ELSE Send("reload", NoPane, page.panes[this].item, Blank)}
    /\ \E left \in IF kind = "user" THEN BOOLEAN ELSE {FALSE} :
         user' = [user EXCEPT !.left = left]
    /\ UNCHANGED <<kind, page, config, this>>

Reloaded(r) ==
    /\ Answer(r, "reload")
    /\ page' = IF r.value = Absent THEN page
               ELSE PopulateFromConfigItem(
                      [page EXCEPT !.panes[this].config_item = r.value],
                      this, r.item, r.value)
    /\ requests' = requests \ {r}
    /\ UNCHANGED <<kind, config, this, user>>

\* The next pane is selected first, so that removing this one selects none.
Deleted(r) ==
    /\ Answer(r, "delete")
    /\ page' = RemoveChild(Forward(page), this)
    /\ requests' = requests \ {r}
    /\ UNCHANGED <<kind, config, this, user>>

Posted(r) ==
    /\ Answer(r, "post")
    /\ requests' = (requests \ {r}) \cup {Send("create", NoPane, r.item, Blank)}
    /\ UNCHANGED <<kind, page, config, this, user>>

\* While no pane has been selected yet, the height cannot be adjusted, and the
\* exception keeps the new pane from being selected.
CreateNewPaneFromStore(r) ==
    /\ Answer(r, "create")
    /\ page' = LET a == CreateNewPaneFromItem(page, r.item, r.value)
               IN  IF r.value = Absent THEN page
                   ELSE IF page.selected_pane = NoPane THEN a
                   ELSE SelectChild(a, Len(a.panes))
    /\ requests' = requests \ {r}
    /\ UNCHANGED <<kind, config, this, user>>

--------------------------------------------------------------------------------
TimerFires ==
    \E i \in DOMAIN page.timers :
        SelectTimer(i) \/ AddedTimer(i) \/ RevertTimer(i) \/ UnflagTimer(i)

ServerAnswers ==
    \E r \in requests :
        \/ Serve(r) \/ Loaded(r) \/ PutDone(r) \/ Reloaded(r)
        \/ Deleted(r) \/ Posted(r) \/ CreateNewPaneFromStore(r)

RequestFails == ~user.left /\ \E r \in requests : Error(r)

UserActs ==
    \/ \E p \in DOMAIN page.panes :
         \/ Click(p) \/ MarkAsChanged(p) \/ Cancel(p) \/ Delete2(p)
         \/ SaveCodec(p) \/ SaveDatabase(p) \/ SaveProtocol(p)
         \/ SaveUser(p) \/ SaveVocabulary(p)
    \/ \E item \in Items : AddNew(item)

PagesNext == TimerFires \/ ServerAnswers \/ RequestFails \/ UserActs

(***************************************************************************)
(* The browser runs every timer that has run out, and every request ends,  *)
(* with an answer or an error.  Nobody has to click.                       *)
(***************************************************************************)
PagesFairness ==
    /\ WF_pagesVars(TimerFires)
    /\ WF_pagesVars(ServerAnswers \/ RequestFails)

PagesSpec == PagesInit /\ [][PagesNext]_pagesVars /\ PagesFairness

--------------------------------------------------------------------------------
(***************************************************************************)
(* Once nothing is under way, the page shows the server's configuration:   *)
(* one pane for each item and none for another, the shown pane is the      *)
(* selected one and has a form, and that form holds the item's value or    *)
(* what the user typed last, and a Cancel would bring back the item's value*)
(* (codecs.js 110-184, Codec.js 171-255).  Items with an unanswered request*)
(* are left out, and a user who acts before the page is at rest.           *)
(***************************************************************************)
Settled == ~user.left /\ requests = {} /\ page.timers = <<>>

PanesOf(item) ==
    {i \in DOMAIN page.children : page.panes[page.children[i]].item = item}

PageAgrees ==
    LET p == page.selected
    IN  Settled /\ Patient =>
          /\ \A item \in Items \ user.unsure :
               Cardinality(PanesOf(item)) = IF config[item] = Absent THEN 0 ELSE 1
          /\ page.children # <<>> =>
               /\ p = page.selected_pane
               /\ page.panes[p].initialized
               /\ page.panes[p].shows = page.panes[p].item
               /\ page.panes[p].item \notin user.unsure =>
                    /\ page.panes[p].form \in {config[page.panes[p].item], page.panes[p].typed}
                    /\ kind # "vocabulary" =>
                         page.panes[p].config_item = config[page.panes[p].item]

(***************************************************************************)
(* A pane with unsaved changes is not left for another: the user is told to*)
(* save or cancel first and brought back (codecs.js 147-163).              *)
(***************************************************************************)
UnsavedIsNotLeft ==
    [][Patient /\ Unsaved(page, page.selected_pane)
         => page'.selected_pane = page.selected_pane]_pagesVars

(***************************************************************************)
(* A pane with a form leaves the accordion only because the server has     *)
(* deleted its item; what a replacement removes is a placeholder           *)
(* (codecs.js 100-106 and 164-179, Codec.js 241-252).                      *)
(***************************************************************************)
OnlyDeletedPanesLeave ==
    [][\A p \in ToSet(page.children) \ ToSet(page'.children) :
         page.panes[p].initialized =>
            \E r \in requests \ requests' : r.type = "delete"]_pagesVars

(***************************************************************************)
(* Whatever is clicked, saved, refused or lost, the page comes back to a   *)
(* shown pane that is the selected one: no revert and no replacement leaves*)
(* it stuck (codecs.js 147-201).                                           *)
(***************************************************************************)
ShownBecomesSelected ==
    []<>(~Patient \/ user.left \/ page.children = <<>>
           \/ page.selected = page.selected_pane)

================================================================================
