---------------------------- MODULE ReactorAccess ----------------------------
(***************************************************************************)
(* What a Reactor promises to those who reach it from several threads      *)
(* (platform/include/pion/platform/Reactor.hpp): readers share it, a       *)
(* writer has it alone, and only a writer changes whether it is running;   *)
(* an Event is taken up by a running Reactor only.  Writers are to come one*)
(* after the other: once two of them have asked for the Reactor together,  *)
(* nobody is kept out until all threads have left it.  No flags, counters  *)
(* or mutexes.  ReactorLock is shown to implement it.                      *)
(***************************************************************************)
CONSTANTS Readers,  \* the threads that deliver Events or emit signals
          Writers   \* the threads that administer the Reactor

VARIABLES inside,   \* the readers that have the lock
          busy,     \* those in process(), with an Event
          asking,   \* the writers that want the lock, have it or let go of it
          writing,  \* those of them that have it and did not write yet
          on,       \* is the Reactor running?
          crowded   \* did writers meet, and has nobody seen the Reactor empty since?

accessVars == <<inside, busy, asking, writing, on, crowded>>

Init ==
    /\ inside = {} /\ busy = {} /\ asking = {} /\ writing = {}
    /\ on \in BOOLEAN /\ crowded = FALSE

Enter(r) ==
    /\ writing = {} \/ crowded
    /\ inside' = inside \cup {r}
    /\ UNCHANGED <<busy, asking, writing, on, crowded>>

TakeUp(r) ==
    /\ r \in inside /\ on
    /\ busy' = busy \cup {r}
    /\ UNCHANGED <<inside, asking, writing, on, crowded>>

Finish(r) ==
    /\ busy' = busy \ {r}
    /\ UNCHANGED <<inside, asking, writing, on, crowded>>

\* The last to leave restores order.
Leave(r) ==
    /\ r \in inside \ busy
    /\ inside' = inside \ {r}
    /\ crowded' = (crowded /\ (inside' # {} \/ asking # {}))
    /\ UNCHANGED <<busy, asking, writing, on>>

Ask(w) ==
    /\ w \notin asking
    /\ asking' = asking \cup {w}
    /\ crowded' = (crowded \/ asking # {})
    /\ UNCHANGED <<inside, busy, writing, on>>

Claim(w) ==
    /\ w \in asking
    /\ (writing = {} /\ inside = {}) \/ crowded
    /\ writing' = writing \cup {w}
    /\ UNCHANGED <<inside, busy, asking, on, crowded>>

\* The one step that may start or stop the Reactor.
Write(w) ==
    /\ w \in writing
    /\ writing' = writing \ {w}
    /\ on' \in BOOLEAN
    /\ UNCHANGED <<inside, busy, asking, crowded>>

\* A writer is done, or gave up.
Done(w) ==
    /\ w \in asking \ writing
    /\ asking' = asking \ {w}
    /\ crowded' = (crowded /\ (inside # {} \/ asking' # {}))
    /\ UNCHANGED <<inside, busy, writing, on>>

Next ==
    \/ \E r \in Readers : Enter(r) \/ TakeUp(r) \/ Finish(r) \/ Leave(r)
    \/ \E w \in Writers : Ask(w) \/ Claim(w) \/ Write(w) \/ Done(w)

Spec == Init /\ [][Next]_accessVars
=============================================================================
