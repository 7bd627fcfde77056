------------------------------- MODULE TCPServer -------------------------------
(***************************************************************************)
(* TCPServer (net/src/TCPServer.cpp) with what drives its connections:     *)
(* HTTPReader and its TCPTimer, HTTPServer::handleRequest and HTTPWriter.  *)
(* Handlers run on the scheduler's threads, as steps of a connection: a    *)
(* connection is at a set of points, normally one, of the way from         *)
(* async_accept() to finish().  A pipelined request is read and handled    *)
(* inside finishConnection(), with the server's mutex held.                *)
(* The handlers of requests are external.  They are taken to call finish() *)
(* once, by sending a response or by keeping the connection and letting it *)
(* go later, or to throw before they did either.  SSL is left out.         *)
(***************************************************************************)
EXTENDS Naturals, FiniteSets

CONSTANTS Conns,      \* TCPConnection objects
          Pipelining, \* Bound: those whose clients may send requests in advance
          NULL

ASSUME TCPServerAssumption == NULL \notin Conns /\ Pipelining \subseteq Conns

VARIABLES
    listening,  \* m_is_listening, and the acceptor is open
    mutex,      \* the connection whose request is handled under m_mutex
    pool,       \* m_conn_pool
    work,       \* the points at which a connection is being handled
    life,       \* its m_lifecycle
    open,       \* its socket is open
    timer,      \* the timer of its reader is active and not cancelled
    startPc,    \* start() has unlocked the mutex and is about to listen()
    stopPc      \* the thread in stop(), which closed the connections or not

server == <<listening, mutex, startPc, stopPc>>
conns  == <<life, open, timer>>
vars   == <<server, pool, work, conns>>

\* Points.  accepted and refused: handleAccept() is due.  got and failed: the
\* handler of the read is due.  resend: finishedWriting() was called for a
\* closed connection, and the write that is made nevertheless will fail.
Points == {"accept", "accepted", "refused", "read", "got", "failed", "parse",
           "request", "write", "kept", "finish", "resend"}

TypeOK ==
    /\ listening \in BOOLEAN /\ mutex \in Conns \cup {NULL}
    /\ pool \subseteq Conns
    /\ work \in [Conns -> SUBSET Points]
    /\ life \in [Conns -> {"close", "keepalive", "pipelined"}]
    /\ open \in [Conns -> BOOLEAN] /\ timer \in [Conns -> BOOLEAN]
    /\ startPc \in {"out", "listen"} /\ stopPc \in {"out", "wait", "abort"}

-----------------------------------------------------------------------------
(* Conditions and shared effects.  A definition whose name ends in "Bug" is   *)
(* the one after it with a slip of the kind the properties are meant to catch.*)

At(c, p) == p \in work[c]

\* c leaves point p for the points ps.
Goto(c, p, ps) == work' = [work EXCEPT ![c] = (@ \ {p}) \cup ps]

Unused == {c \in Conns \ pool : work[c] = {}}

\* Bound: there is a fresh object for every listen() that is due.
Spare == Cardinality(Unused) > Cardinality({c \in Conns : At(c, "accepted") \/ At(c, "refused")})

\* pruneConnections(): connections that nobody but the pool refers to.
Orphans == {c \in pool : work[c] = {}}
PruneBug(p) == {c \in p : open[c]}
Prune(p)    == p \ Orphans

\* listen() looks again, with the mutex, whether the server is listening; then
\* it prunes, and accepts on a new connection n.  w is work otherwise.
AcceptsBug == FALSE
Accepts    == listening
Listen(n, w) ==
    /\ n \in Unused
    /\ work' = [w EXCEPT ![n] = {"accept"}]
    /\ pool' = Prune(pool) \cup {n}

\* Objects that are gone are as good as new; a reader starts its timer.
Update(gone, reading) ==
    /\ life'  = [c \in Conns |-> IF c \in gone THEN "close" ELSE life[c]]
    /\ open'  = [c \in Conns |-> open[c] /\ c \notin gone]
    /\ timer' = [c \in Conns |-> (timer[c] /\ c \notin gone) \/ c \in reading]

\* Whether finishConnection() handles another request of c.
KeepsAlive(c) == listening /\ life[c] # "close"

\* The connections that stop() closes.
ClosesBug(abort) == {}
Closes(abort)    == IF abort THEN pool ELSE {}

\* Whether stop() has to wait for more connections.
Finished == Prune(pool) = {}

\* What sending a response on c leads to.
Respond(c) == IF open[c] THEN {"write"} ELSE {"resend"}

\* A handler that was called under the mutex returns.
Release(c) == mutex' = IF mutex = c THEN NULL ELSE mutex

SetLife(c, l)  == life' = [life EXCEPT ![c] = l]
SetTimer(c, b) == timer' = [timer EXCEPT ![c] = b]

\* The timer that consumeBytes() leaves when the read is over.
AfterReadBug(c) == timer[c]
AfterRead(c)    == FALSE

-----------------------------------------------------------------------------
(* start() and stop() *)

Start ==
    /\ ~listening /\ mutex = NULL /\ startPc = "out" /\ Spare
    /\ listening' = TRUE /\ startPc' = "listen"
    /\ UNCHANGED <<mutex, stopPc, pool, work, conns>>

\* start() calls listen(), which locks the mutex again.
StartListen ==
    /\ startPc = "listen" /\ mutex = NULL
    /\ startPc' = "out"
    /\ IF Accepts
       THEN (\E n \in Unused : Listen(n, work)) /\ Update(Orphans, {})
       ELSE UNCHANGED <<pool, work, conns>>
    /\ UNCHANGED <<listening, mutex, stopPc>>

\* stop(wait_until_finished): closing the acceptor aborts a pending accept.
Stop(abort) ==
    /\ listening /\ mutex = NULL /\ stopPc = "out"
    /\ listening' = FALSE
    /\ stopPc' = IF abort THEN "abort" ELSE "wait"
    /\ work' = [c \in Conns |-> IF At(c, "accept") THEN {"refused"} ELSE work[c]]
    /\ open' = [c \in Conns |-> open[c] /\ c \notin Closes(abort)]
    /\ UNCHANGED <<mutex, startPc, pool, life, timer>>

\* The loop of stop(): prune, and sleep for a while if connections remain.
StopLoop ==
    /\ stopPc # "out" /\ mutex = NULL
    /\ pool' = Prune(pool)
    /\ Update(Orphans, {})
    /\ stopPc' = IF Finished THEN "out" ELSE stopPc
    /\ UNCHANGED <<listening, mutex, startPc, work>>

-----------------------------------------------------------------------------
(* Accepting and finishing connections *)

\* A client connects, or the accept fails.
Accept(c) ==
    /\ At(c, "accept") /\ Spare
    /\ \/ Goto(c, "accept", {"accepted"}) /\ open' = [open EXCEPT ![c] = TRUE]
       \/ Goto(c, "accept", {"refused"}) /\ UNCHANGED open
    /\ UNCHANGED <<server, pool, life, timer>>

\* handleAccept(): listen() for the next one; then handleConnection() begins
\* to read, or finishConnection() is next.
HandleAccept(c, p, next, reading) ==
    /\ At(c, p)
    /\ IF Accepts
       THEN /\ mutex = NULL
            /\ \E n \in Unused : Listen(n, [work EXCEPT ![c] = {next}])
            /\ Update(Orphans, reading)
       ELSE Goto(c, p, {next}) /\ Update({}, reading) /\ UNCHANGED pool
    /\ UNCHANGED server

HandleAccepted(c) == HandleAccept(c, "accepted", "read", {c})
HandleRefused(c)  == HandleAccept(c, "refused", "finish", {})

\* finishConnection(): remove the connection from the pool ...
FinishClose(c, p, more) ==
    /\ At(c, p) /\ mutex = NULL /\ ~KeepsAlive(c)
    /\ pool' = pool \ {c}
    /\ Goto(c, p, more)
    /\ Update(IF (work[c] \ {p}) \cup more = {} THEN {c} ELSE {}, {})
    /\ UNCHANGED server

\* ... or handle the next request, which need not be read any more if it is
\* pipelined: then all of that happens with the mutex.
FinishKeepAlive(c, p, more) ==
    /\ At(c, p) /\ mutex = NULL /\ KeepsAlive(c)
    /\ SetLife(c, "close")
    /\ IF life[c] = "pipelined"
       THEN Goto(c, p, more \cup {"parse"}) /\ mutex' = c /\ UNCHANGED timer
       ELSE Goto(c, p, more \cup {"read"}) /\ SetTimer(c, TRUE) /\ UNCHANGED mutex
    /\ UNCHANGED <<listening, startPc, stopPc, pool, open>>

Finish(c) ==
    \/ FinishClose(c, "finish", {}) \/ FinishKeepAlive(c, "finish", {})
    \/ FinishClose(c, "resend", {"write"}) \/ FinishKeepAlive(c, "resend", {"write"})

-----------------------------------------------------------------------------
(* Reading: HTTPReader and TCPTimer *)

\* Data arrives on an open socket.
Read(c) ==
    /\ At(c, "read") /\ open[c]
    /\ Goto(c, "read", {"got"})
    /\ UNCHANGED <<server, pool, conns>>

\* The client is gone, or the socket was closed.
ReadFails(c) ==
    /\ At(c, "read")
    /\ Goto(c, "read", {"failed"})
    /\ UNCHANGED <<server, pool, conns>>

TimerFires(c) ==
    /\ timer[c]
    /\ SetTimer(c, FALSE)
    /\ open' = [open EXCEPT ![c] = FALSE]
    /\ UNCHANGED <<server, pool, work, life>>

\* handleReadError(), and handleRequest(): "Lost connection".
Lost(c) ==
    /\ At(c, "failed")
    /\ SetTimer(c, AfterRead(c)) /\ SetLife(c, "close")
    /\ Goto(c, "failed", {"finish"})
    /\ UNCHANGED <<server, pool, open>>

\* consumeBytes(), with data from the socket or, under the mutex, from the
\* previous read; the message is complete and followed by another, or not ...
ParseComplete(c, p) ==
    /\ At(c, p)
    /\ SetTimer(c, AfterRead(c))
    /\ \E l \in {"close", "keepalive"} \cup (IF c \in Pipelining THEN {"pipelined"} ELSE {}) : SetLife(c, l)
    /\ Goto(c, p, {"request"})
    /\ UNCHANGED <<server, pool, open>>

\* ... or invalid: m_bad_request_handler, or finish() if the socket is closed ...
ParseInvalid(c, p) ==
    /\ At(c, p)
    /\ SetTimer(c, AfterRead(c)) /\ SetLife(c, "close")
    /\ IF open[c]
       THEN Goto(c, p, Respond(c)) /\ Release(c)
       ELSE Goto(c, p, {"finish"}) /\ UNCHANGED mutex
    /\ UNCHANGED <<listening, startPc, stopPc, pool, open>>

\* ... or not complete: read on, with a new timer.
ParseMore(c, p) ==
    /\ At(c, p)
    /\ SetTimer(c, TRUE)
    /\ Goto(c, p, {"read"})
    /\ Release(c)
    /\ UNCHANGED <<listening, startPc, stopPc, pool, life, open>>

Parse(c) ==
    \E p \in {"got", "parse"} : ParseComplete(c, p) \/ ParseInvalid(c, p) \/ ParseMore(c, p)

-----------------------------------------------------------------------------
(* Handling: HTTPServer::handleRequest() and the handlers it calls *)

\* A response is sent, also for errors; if the socket is closed, finish() is
\* called at once.
Reply(c) ==
    /\ At(c, "request")
    /\ Goto(c, "request", Respond(c))
    /\ IF open[c] THEN Release(c) ELSE UNCHANGED mutex
    /\ UNCHANGED <<listening, startPc, stopPc, pool, conns>>

\* The handler calls finish() before it returns.
FinishAtOnce(c) ==
    /\ At(c, "request")
    /\ Goto(c, "request", {"finish"})
    /\ UNCHANGED <<server, pool, conns>>

\* It keeps the connection, as feeds do, or forgets it, as after bad_alloc.
Keep(c) ==
    /\ At(c, "request")
    /\ \E ps \in {{"kept"}, {}} : Goto(c, "request", ps)
    /\ Release(c)
    /\ UNCHANGED <<listening, startPc, stopPc, pool, conns>>

LetGo(c) ==
    /\ At(c, "kept")
    /\ Goto(c, "kept", {"finish"})
    /\ \E l \in {"close", life[c]} : SetLife(c, l)
    /\ UNCHANGED <<server, pool, open, timer>>

\* The write is complete or has failed; some senders then end the connection.
Written(c) ==
    /\ At(c, "write")
    /\ Goto(c, "write", {"finish"})
    /\ \E l \in {"close", life[c]} : SetLife(c, l)
    /\ UNCHANGED <<server, pool, open, timer>>

-----------------------------------------------------------------------------
Init ==
    /\ listening = FALSE /\ mutex = NULL /\ pool = {}
    /\ work = [c \in Conns |-> {}] /\ life = [c \in Conns |-> "close"]
    /\ open = [c \in Conns |-> FALSE] /\ timer = [c \in Conns |-> FALSE]
    /\ startPc = "out" /\ stopPc = "out"

\* What the scheduler's threads do without waiting for a client.
Handler(c) ==
    \/ HandleAccepted(c) \/ HandleRefused(c) \/ Finish(c)
    \/ Lost(c) \/ Parse(c) \/ Reply(c) \/ FinishAtOnce(c) \/ Keep(c)

Next ==
    \/ Start \/ StartListen \/ StopLoop \/ \E abort \in BOOLEAN : Stop(abort)
    \/ \E c \in Conns : \/ Accept(c) \/ Read(c) \/ ReadFails(c) \/ TimerFires(c)
                       \/ Handler(c) \/ LetGo(c) \/ Written(c)

Spec == Init /\ [][Next]_vars

\* The scheduler runs handlers and timers, and asio completes the operations
\* of a closed socket.  Clients need not do anything: neither send a request
\* nor read a response; a feed ends when its socket is closed.
Fairness ==
    /\ WF_vars(StartListen) /\ WF_vars(StopLoop)
    /\ \A c \in Conns :
         /\ WF_vars(Handler(c)) /\ WF_vars(TimerFires(c))
         /\ WF_vars(~open[c] /\ (ReadFails(c) \/ LetGo(c) \/ Written(c)))

FairSpec == Spec /\ Fairness

-----------------------------------------------------------------------------
(* Properties *)

\* A server that listens has a connection to accept on, or is about to: no
\* error, restart or order of handlers makes it deaf (TCPServer.cpp:204-209).
NeverDeaf ==
    listening => \/ startPc = "listen"
                 \/ \E c \in pool : At(c, "accept") \/ At(c, "accepted") \/ At(c, "refused")

\* "keep track of the object in the server's connection pool" (TCPServer.cpp:189):
\* a connection that leaves the pool while it is in use has a closed socket, so
\* stop(false) reaches every open one, and stop() waits for it (TCPServer.cpp:130).
HandledInPool ==
    \A c \in Conns \ pool : work[c] # {} => ~open[c]

\* "finish() should be called when a server has finished handling the
\* connection" (TCPConnection.hpp:572): an open connection is handled at one
\* point at a time, and a timer can only close it while it is reading.
OneHandler ==
    \A c \in Conns :
        /\ open[c] => Cardinality(work[c]) <= 1
        /\ timer[c] => work[c] \cap {"read", "got", "failed"} # {}
        /\ At(c, "read") /\ open[c] => timer[c]
ServerConsistent == TypeOK /\ OneHandler

\* A request that is handled under the mutex has called finish(), which waits
\* for the mutex: a pipelined request is answered on a closed connection, or by
\* a handler that finishes before it returns (TCPServer.cpp:251-255).
SelfDeadlock == mutex # NULL /\ work[mutex] \cap {"parse", "request"} = {}

\* stop(false) returns whatever the clients do, and stop(true) unless a client
\* or a feed keeps a connection open; but for that self-deadlock, and for a
\* start() in the meantime.
StopReturns ==
    []<>(\/ stopPc = "out" \/ listening \/ SelfDeadlock
         \/ stopPc = "wait" /\ \E c \in Conns : open[c])
=============================================================================
