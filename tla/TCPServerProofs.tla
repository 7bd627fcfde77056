---------------------------- MODULE TCPServerProofs ----------------------------
(***************************************************************************)
(* Theorems about TCPServer, for any number of connections: a server that  *)
(* listens can accept, a connection that is in use and not in the pool is  *)
(* closed, and an open connection is handled at one point at a time.       *)
(***************************************************************************)
EXTENDS TCPServer, FiniteSetTheorems, TLAPS

Accepting == {"accept", "accepted", "refused"}
Reading   == {"read", "got", "failed"}

\* A connection is accepted on once, and in the pool until then; afterwards it
\* is at one point while it is open; the timer runs while it is read from; and
\* the response that will not be sent is one on a closed connection.
ConnOK(c) ==
    /\ \A p \in Accepting : p \in work[c] => work[c] = {p} /\ c \in pool
    /\ open[c] => /\ \A p, q \in work[c] : p = q
                  /\ work[c] # {} => c \in pool
                  /\ "resend" \notin work[c]
                  /\ "read" \in work[c] => timer[c]
    /\ timer[c] => work[c] \cap Reading # {}

ConnsOK == \A c \in Conns : ConnOK(c)

IInv == TypeOK /\ ConnsOK /\ NeverDeaf

USE TCPServerAssumption DEF TCPServerAssumption, At

-----------------------------------------------------------------------------
\* A step that concerns one connection.
LEMMA OneConn ==
    ASSUME IInv, NEW c \in Conns, TypeOK', ConnOK(c)',
           listening' = listening, startPc' = startPc,
           \A d \in Conns \ {c} : /\ work'[d] = work[d] /\ open'[d] = open[d]
                                  /\ timer'[d] = timer[d] /\ (d \in pool' <=> d \in pool),
           work[c] \cap Accepting # {} => work'[c] \cap Accepting # {}
    PROVE  IInv'
<1>1. ASSUME NEW d \in Conns \ {c} PROVE ConnOK(d)'
  BY DEF IInv, ConnsOK, ConnOK
<1>2. ConnsOK'  BY <1>1 DEF ConnsOK
<1>3. NeverDeaf'
  <2> SUFFICES ASSUME listening, startPc # "listen" PROVE NeverDeaf'
    BY DEF NeverDeaf
  <2>1. PICK d \in pool : work[d] \cap Accepting # {}
    BY DEF IInv, NeverDeaf, Accepting
  <2>2. d \in Conns  BY DEF IInv, TypeOK
  <2>3. work'[d] \cap Accepting # {}  BY <2>1, <2>2
  <2>4. d \in pool'
    <3>1. CASE d = c  BY <2>3, <3>1 DEF ConnOK
    <3>2. CASE d # c  BY <2>1, <2>2, <3>2
    <3> QED  BY <3>1, <3>2
  <2> QED  BY <2>3, <2>4 DEF NeverDeaf, Accepting
<1> QED  BY <1>2, <1>3 DEF IInv

\* What a connection that leaves a point does.
LEMMA Gone ==
    ASSUME TypeOK, NEW c \in Conns, NEW p \in Points, NEW ps \in SUBSET Points, Goto(c, p, ps)
    PROVE  /\ work' \in [Conns -> SUBSET Points]
           /\ work'[c] = (work[c] \ {p}) \cup ps
           /\ \A d \in Conns \ {c} : work'[d] = work[d]
BY DEF TypeOK, Goto

\* The points of handling a connection, as opposed to accepting on it.
Handling == Points \ Accepting

\* A connection that goes on from one point to another keeps its invariant.
LEMMA GoesOn ==
    ASSUME TypeOK, NEW c \in Conns, ConnOK(c), NEW p \in Handling, p \in work[c],
           NEW ps \in SUBSET Handling, work'[c] = (work[c] \ {p}) \cup ps,
           timer \in [Conns -> BOOLEAN], open \in [Conns -> BOOLEAN],
           timer'[c] \in BOOLEAN, open'[c] \in BOOLEAN,
           open'[c] => /\ open[c] /\ "resend" \notin ps
                       /\ \A q, r \in ps : q = r
                       /\ "read" \in ps => timer'[c]
                       /\ c \in pool' \/ ps = {},
           timer'[c] => ps \cap Reading # {} \/ (timer[c] /\ p \notin Reading)
    PROVE  ConnOK(c)' /\ (work[c] \cap Accepting # {} => work'[c] \cap Accepting # {})
<1>1. work[c] \cap Accepting = {}  BY DEF ConnOK, Handling
<1>2. work'[c] \cap Accepting = {}  BY <1>1 DEF Handling
<1>3. ASSUME open'[c] PROVE work'[c] = ps
  BY <1>3 DEF ConnOK
<1>4. ASSUME timer'[c] PROVE work'[c] \cap Reading # {}
  BY <1>4 DEF ConnOK
<1> QED  BY <1>1, <1>2, <1>3, <1>4 DEF ConnOK

-----------------------------------------------------------------------------
\* A step of the handlers: a connection goes on, with a socket as it is.
LEMMA StepKeeps ==
    ASSUME IInv, NEW c \in Conns, NEW p \in Handling, NEW ps \in SUBSET Handling,
           p \in work[c], Goto(c, p, ps),
           UNCHANGED <<listening, startPc, stopPc, pool, open>>, mutex' \in Conns \cup {NULL},
           NEW b \in BOOLEAN, SetTimer(c, b),
           NEW l \in {"close", "keepalive", "pipelined"}, SetLife(c, l),
           open[c] => /\ "resend" \notin ps /\ \A q, r \in ps : q = r
                      /\ "read" \in ps => b,
           b => ps \cap Reading # {} \/ (timer[c] /\ p \notin Reading)
    PROVE  IInv'
<1>0. TypeOK /\ ConnOK(c) /\ p \in Points /\ ps \in SUBSET Points
  BY DEF IInv, ConnsOK, Handling
<1>1. /\ work' \in [Conns -> SUBSET Points] /\ work'[c] = (work[c] \ {p}) \cup ps
      /\ \A d \in Conns \ {c} : work'[d] = work[d]
  BY <1>0, Gone
<1>2. /\ timer' \in [Conns -> BOOLEAN] /\ timer'[c] = b
      /\ \A d \in Conns \ {c} : timer'[d] = timer[d]
  BY <1>0 DEF TypeOK, SetTimer
<1>3. TypeOK'  BY <1>0, <1>1, <1>2 DEF TypeOK, SetLife
<1>4. open[c] => c \in pool  BY <1>0 DEF ConnOK
<1>5. ConnOK(c)' /\ (work[c] \cap Accepting # {} => work'[c] \cap Accepting # {})
  <2>1. timer \in [Conns -> BOOLEAN] /\ open \in [Conns -> BOOLEAN]  BY <1>0 DEF TypeOK
  <2>2. timer'[c] \in BOOLEAN /\ open'[c] \in BOOLEAN  BY <1>2, <2>1
  <2> QED  BY <1>0, <1>1, <1>2, <1>4, <2>1, <2>2, GoesOn
<1> QED  BY <1>1, <1>2, <1>3, <1>5, OneConn

\* What a step leaves alone, in the form that StepKeeps takes.
LEMMA Kept ==
    ASSUME IInv, NEW c \in Conns
    PROVE  /\ TypeOK /\ ConnOK(c)
           /\ timer[c] \in BOOLEAN /\ (UNCHANGED timer => SetTimer(c, timer[c]))
           /\ life[c] \in {"close", "keepalive", "pipelined"}
           /\ UNCHANGED life => SetLife(c, life[c])
           /\ UNCHANGED mutex \/ Release(c) => mutex' \in Conns \cup {NULL}
BY DEF IInv, ConnsOK, TypeOK, Release, SetTimer, SetLife

\* The points of handling a connection.
LEMMA HandlingPoints ==
    Handling = {"read", "got", "failed", "parse", "request", "write", "kept", "finish", "resend"}
BY DEF Handling, Points, Accepting

\* Reading.
LEMMA ReadKeeps ==
    ASSUME IInv, NEW c \in Conns, Read(c) \/ ReadFails(c) \/ Lost(c) \/ Parse(c)
    PROVE  IInv'
<1>0. TypeOK /\ ConnOK(c) /\ timer[c] \in BOOLEAN /\ life[c] \in {"close", "keepalive", "pipelined"}
  BY Kept
<1>1. ASSUME NEW q \in {"got", "failed"}, "read" \in work[c], Goto(c, "read", {q}),
             UNCHANGED <<server, pool, conns>>
      PROVE  IInv'
  <2>1. {q} \in SUBSET Handling /\ "read" \in Handling  BY HandlingPoints
  <2>2. SetTimer(c, timer[c]) /\ SetLife(c, life[c]) /\ mutex' \in Conns \cup {NULL}
        /\ UNCHANGED <<listening, startPc, stopPc, pool, open>>
    BY <1>1, Kept DEF conns, server
  <2>3. {q} \cap Reading # {} /\ "resend" \notin {q} /\ "read" \notin {q}
        /\ \A t, u \in {q} : t = u
    BY DEF Reading
  <2> DEFINE ps == {q}
  <2>4. Goto(c, "read", ps)  BY <1>1
  <2> HIDE DEF ps
  <2> QED  BY <1>0, <1>1, <2>1, <2>2, <2>3, <2>4, StepKeeps DEF ps
<1>2. CASE Read(c) \/ ReadFails(c)  BY <1>1, <1>2 DEF Read, ReadFails
<1>3. ASSUME NEW p \in {"got", "failed", "parse"}, NEW q \in {"write", "resend", "finish", "request"},
             NEW l \in {"close", "keepalive", "pipelined"},
             p \in work[c], Goto(c, p, {q}), open[c] => q # "resend",
             SetTimer(c, FALSE), SetLife(c, l), mutex' \in Conns \cup {NULL},
             UNCHANGED <<listening, startPc, stopPc, pool, open>>
      PROVE  IInv'
  <2> DEFINE ps == {q}
  <2>1. ps \in SUBSET Handling /\ p \in Handling  BY HandlingPoints
  <2>2. /\ Goto(c, p, ps) /\ (open[c] => "resend" \notin ps) /\ "read" \notin ps
        /\ \A t, u \in ps : t = u
    BY <1>3
  <2> HIDE DEF ps
  <2> QED  BY <1>3, <2>1, <2>2, StepKeeps
<1>4. CASE Lost(c)  BY <1>3, <1>4, Kept DEF Lost, AfterRead, server
<1>5. ASSUME NEW p \in {"got", "parse"}, ParseComplete(c, p) PROVE IInv'
  <2>1. PICK l \in {"close", "keepalive", "pipelined"} : SetLife(c, l)
    BY <1>5 DEF ParseComplete
  <2> QED  BY <1>3, <1>5, <2>1, Kept DEF ParseComplete, AfterRead, server
<1>6. ASSUME NEW p \in {"got", "parse"}, ParseInvalid(c, p) PROVE IInv'
  <2>1. PICK q \in {"write", "resend", "finish"} :
           Goto(c, p, {q}) /\ (open[c] => q # "resend") /\ mutex' \in Conns \cup {NULL}
    BY <1>6, Kept DEF ParseInvalid, Respond
  <2> QED  BY <1>3, <1>6, <2>1 DEF ParseInvalid, AfterRead
<1>7. ASSUME NEW p \in {"got", "parse"}, ParseMore(c, p) PROVE IInv'
  <2>1. {"read"} \in SUBSET Handling /\ p \in Handling /\ {"read"} \cap Reading # {}
    BY HandlingPoints DEF Reading
  <2>2. SetLife(c, life[c]) /\ mutex' \in Conns \cup {NULL} /\ SetTimer(c, TRUE)
        /\ p \in work[c] /\ Goto(c, p, {"read"})
        /\ UNCHANGED <<listening, startPc, stopPc, pool, open>>
    BY <1>7, Kept DEF ParseMore
  <2> QED  BY <1>0, <2>1, <2>2, StepKeeps
<1> QED  BY <1>2, <1>4, <1>5, <1>6, <1>7 DEF Parse

\* Handling requests, and finishing with a connection that is kept.
LEMMA HandleKeeps ==
    ASSUME IInv, NEW c \in Conns,
           \/ Reply(c) \/ FinishAtOnce(c) \/ Keep(c) \/ LetGo(c) \/ Written(c)
           \/ FinishKeepAlive(c, "finish", {}) \/ FinishKeepAlive(c, "resend", {"write"})
    PROVE  IInv'
<1>0. TypeOK /\ ConnOK(c) /\ timer[c] \in BOOLEAN /\ life[c] \in {"close", "keepalive", "pipelined"}
  BY Kept
<1>1. ASSUME NEW p \in {"request", "kept", "write"},
             NEW ps \in {{"write"}, {"resend"}, {"kept"}, {"finish"}, {}},
             NEW l \in {"close", "keepalive", "pipelined"},
             p \in work[c], Goto(c, p, ps), open[c] => "resend" \notin ps,
             UNCHANGED timer, SetLife(c, l), mutex' \in Conns \cup {NULL},
             UNCHANGED <<listening, startPc, stopPc, pool, open>>
      PROVE  IInv'
  <2>1. ps \in SUBSET Handling /\ p \in Handling  BY HandlingPoints
  <2>2. SetTimer(c, timer[c])  BY <1>1, Kept
  <2>3. p \notin Reading /\ (\A q, r \in ps : q = r) /\ "read" \notin ps  BY DEF Reading
  <2> QED  BY <1>0, <1>1, <2>1, <2>2, <2>3, StepKeeps
<1>2. CASE Reply(c)
  <2>1. PICK q \in {"write", "resend"} :
           Goto(c, "request", {q}) /\ (open[c] => q # "resend") /\ mutex' \in Conns \cup {NULL}
    BY <1>2, Kept DEF Reply, Respond
  <2>2. SetLife(c, life[c])  BY <1>2, Kept DEF Reply, conns
  <2> QED  BY <1>0, <1>1, <1>2, <2>1, <2>2 DEF Reply, conns
<1>3. CASE FinishAtOnce(c) \/ Keep(c)
  <2>1. PICK ps \in {{"kept"}, {}, {"finish"}} : Goto(c, "request", ps)
    BY <1>3 DEF FinishAtOnce, Keep
  <2>2. SetLife(c, life[c]) /\ "request" \in work[c] /\ mutex' \in Conns \cup {NULL}
        /\ UNCHANGED <<listening, startPc, stopPc, pool, open, timer>>
    BY <1>3, Kept DEF FinishAtOnce, Keep, conns, server
  <2> QED  BY <1>0, <1>1, <2>1, <2>2
<1>4. CASE LetGo(c) \/ Written(c)
  <2>1. PICK p \in {"kept", "write"} : p \in work[c] /\ Goto(c, p, {"finish"})
    BY <1>4 DEF LetGo, Written
  <2>2. PICK l \in {"close", "keepalive", "pipelined"} : SetLife(c, l)
    BY <1>0, <1>4 DEF LetGo, Written
  <2>3. mutex' \in Conns \cup {NULL} /\ UNCHANGED <<listening, startPc, stopPc, pool, open, timer>>
    BY <1>4, Kept DEF LetGo, Written, server
  <2> QED  BY <1>1, <2>1, <2>2, <2>3
<1>5. ASSUME NEW p \in {"finish", "resend"}, NEW more \in {{}, {"write"}},
             p = "resend" \/ more = {}, FinishKeepAlive(c, p, more)
      PROVE  IInv'
  <2>1. PICK q \in {"parse", "read"}, b \in BOOLEAN :
           /\ Goto(c, p, more \cup {q}) /\ SetTimer(c, b)
           /\ mutex' \in Conns \cup {NULL}
           /\ IF q = "read" THEN b ELSE b = timer[c]
    <3>1. CASE life[c] = "pipelined"
      <4>1. Goto(c, p, more \cup {"parse"}) /\ SetTimer(c, timer[c]) /\ mutex' = c
        BY <1>5, <3>1, Kept DEF FinishKeepAlive
      <4> QED  BY <1>0, <4>1
    <3>2. CASE life[c] # "pipelined"
      <4>1. Goto(c, p, more \cup {"read"}) /\ SetTimer(c, TRUE) /\ mutex' \in Conns \cup {NULL}
        BY <1>5, <3>2, Kept DEF FinishKeepAlive
      <4> QED  BY <4>1
    <3> QED  BY <3>1, <3>2
  <2>2. SetLife(c, "close") /\ p \in work[c] /\ UNCHANGED <<listening, startPc, stopPc, pool, open>>
    BY <1>5 DEF FinishKeepAlive
  <2> DEFINE ps == more \cup {q}
  <2>3. ps \in SUBSET Handling /\ p \in Handling /\ p \notin Reading  BY HandlingPoints DEF Reading
  <2>4. open[c] => "resend" \notin ps /\ (\A r, t \in ps : r = t) /\ ("read" \in ps => b)
    BY <1>0, <1>5, <2>1, <2>2 DEF ConnOK
  <2>5. b => ps \cap Reading # {} \/ (timer[c] /\ p \notin Reading)
    BY <2>1, <2>3 DEF Reading
  <2>6. Goto(c, p, ps)  BY <2>1
  <2> HIDE DEF ps
  <2> QED  BY <2>1, <2>2, <2>3, <2>4, <2>5, <2>6, StepKeeps
<1> QED  BY <1>2, <1>3, <1>4, <1>5

\* Closing a connection: by its timer, or when it is finished with.
LEMMA CloseKeeps ==
    ASSUME IInv, NEW c \in Conns,
           TimerFires(c) \/ FinishClose(c, "finish", {}) \/ FinishClose(c, "resend", {"write"})
    PROVE  IInv'
<1>0. TypeOK /\ ConnOK(c)  BY Kept
<1>1. CASE TimerFires(c)
  <2>1. TypeOK'  BY <1>0, <1>1 DEF TypeOK, TimerFires, SetTimer, server
  <2>2. /\ UNCHANGED <<listening, startPc, work, pool>> /\ timer'[c] = FALSE /\ open'[c] = FALSE
        /\ \A d \in Conns \ {c} : timer'[d] = timer[d] /\ open'[d] = open[d]
    BY <1>0, <1>1 DEF TypeOK, TimerFires, SetTimer, server
  <2>3. ConnOK(c)'  BY <1>0, <2>2 DEF ConnOK
  <2> QED  BY <2>1, <2>2, <2>3, OneConn
<1>2. ASSUME NEW p \in {"finish", "resend"}, NEW more \in {{}, {"write"}},
             p = "resend" \/ more = {}, FinishClose(c, p, more)
      PROVE  IInv'
  <2>1. p \in work[c] /\ pool' = pool \ {c} /\ UNCHANGED server  BY <1>2 DEF FinishClose
  <2>2. p \in Points /\ more \in SUBSET Points /\ p \notin Accepting /\ more \cap Accepting = {}
    BY DEF Points, Accepting
  <2>3. /\ work' \in [Conns -> SUBSET Points] /\ work'[c] = (work[c] \ {p}) \cup more
        /\ \A d \in Conns \ {c} : work'[d] = work[d]
    BY <1>0, <1>2, <2>2, Gone DEF FinishClose
  <2>4. PICK gone \in SUBSET {c} : Update(gone, {}) /\ (work'[c] = {} => c \in gone)
    BY <1>2, <2>3 DEF FinishClose
  <2>5. TypeOK'  BY <1>0, <2>1, <2>3, <2>4 DEF TypeOK, Update, server
  <2>6. \A d \in Conns \ {c} : timer'[d] = timer[d] /\ open'[d] = open[d]
    BY <1>0, <2>4 DEF Update, TypeOK
  <2>7. timer'[c] = (timer[c] /\ c \notin gone) /\ open'[c] = (open[c] /\ c \notin gone)
    BY <2>4 DEF Update
  <2>8. work[c] \cap Accepting = {} /\ work'[c] \cap Accepting = {}
    BY <1>0, <2>1, <2>2, <2>3 DEF ConnOK
  <2>9. ~open'[c]
    <3>1. open[c] => work[c] = {p} /\ more = {}  BY <1>0, <1>2, <2>1 DEF ConnOK
    <3> QED  BY <2>3, <2>4, <2>7, <3>1
  <2>10. timer'[c] => work'[c] \cap Reading # {}
    <3>1. timer'[c] => timer[c]  BY <1>0, <2>7 DEF TypeOK
    <3>2. work[c] \cap Reading # {} => work'[c] \cap Reading # {}  BY <2>3 DEF Reading
    <3> QED  BY <1>0, <3>1, <3>2 DEF ConnOK
  <2>11. ConnOK(c)'  BY <2>8, <2>9, <2>10 DEF ConnOK
  <2> QED  BY <2>1, <2>3, <2>5, <2>6, <2>8, <2>11, OneConn DEF server
<1> QED  BY <1>1, <1>2

\* A client connects, or does not.
LEMMA AcceptKeeps ==
    ASSUME IInv, NEW c \in Conns, Accept(c) PROVE IInv'
<1>0. TypeOK /\ ConnOK(c)  BY Kept
<1>1. PICK q \in {"accepted", "refused"} : Goto(c, "accept", {q})
  BY DEF Accept
<1>2. work[c] = {"accept"} /\ c \in pool  BY <1>0 DEF ConnOK, Accepting, Accept
<1>3. work' \in [Conns -> SUBSET Points] /\ work'[c] = {q}
      /\ \A d \in Conns \ {c} : work'[d] = work[d]
  <2>1. "accept" \in Points /\ {q} \in SUBSET Points  BY DEF Points
  <2> QED  BY <1>0, <1>1, <1>2, <2>1, Gone
<1>4. TypeOK'  BY <1>0, <1>3 DEF TypeOK, Accept, server
<1>5. UNCHANGED <<server, pool, timer>> /\ \A d \in Conns \ {c} : open'[d] = open[d]
  BY <1>0 DEF Accept, TypeOK
<1>6. ConnOK(c)'
  <2>1. ~timer'[c]  BY <1>0, <1>2, <1>5 DEF ConnOK, Reading
  <2> QED  BY <1>2, <1>3, <1>5, <2>1 DEF ConnOK, Accepting
<1> QED  BY <1>3, <1>4, <1>5, <1>6, OneConn DEF server, Accepting

-----------------------------------------------------------------------------
(* Steps that concern several connections *)

\* What a connection that was accepted on goes on to, in w.
Leaves(d, w, reading) ==
    /\ work[d] \cap Accepting # {}
    /\ \/ w[d] = {"read"} /\ d \in reading
       \/ w[d] = {"finish"} /\ d \notin reading

\* listen() prunes the pool and accepts on a new connection.
LEMMA ListenKeeps ==
    ASSUME TypeOK, ConnsOK, NEW w \in [Conns -> SUBSET Points], NEW reading \in SUBSET Conns,
           NEW n \in Unused, Listen(n, w), Update(Orphans, reading),
           UNCHANGED <<listening, mutex, stopPc>>, startPc' \in {startPc, "out"},
           \A d \in Conns : Leaves(d, w, reading) \/ (w[d] = work[d] /\ d \notin reading)
    PROVE  IInv'
<1>1. n \in Conns /\ n \notin pool /\ work[n] = {}  BY DEF Unused
<1>2. work' = [w EXCEPT ![n] = {"accept"}] /\ pool' = (pool \ Orphans) \cup {n}
  BY DEF Listen, Prune
<1>3. TypeOK'  BY <1>1, <1>2 DEF TypeOK, Update, Points
<1>4. ASSUME NEW d \in Conns PROVE ConnOK(d)'
  <2>0. ConnOK(d) /\ open[d] \in BOOLEAN /\ timer[d] \in BOOLEAN
        /\ open'[d] = (open[d] /\ d \notin Orphans)
        /\ timer'[d] = ((timer[d] /\ d \notin Orphans) \/ d \in reading)
    BY DEF ConnsOK, TypeOK, Update
  <2>1. CASE d = n
    <3>1. work'[d] = {"accept"} /\ d \in pool'  BY <1>1, <1>2, <2>1
    <3>2. ~timer'[d]  BY <1>1, <2>0, <2>1 DEF ConnOK, Leaves
    <3> QED  BY <3>1, <3>2 DEF ConnOK, Accepting
  <2>2. CASE d # n /\ w[d] = work[d] /\ d \notin reading
    <3>1. work'[d] = work[d] /\ (work[d] # {} => (d \in pool' <=> d \in pool))
      BY <1>1, <1>2, <2>2 DEF Orphans
    <3> QED  BY <2>0, <2>2, <3>1 DEF ConnOK, Accepting
  <2>3. CASE d # n /\ Leaves(d, w, reading)
    <3>1. d \in pool /\ work[d] # {} /\ ~timer[d]
      BY <2>0, <2>3 DEF Leaves, ConnOK, Accepting, Reading
    <3>2. d \in pool' /\ work'[d] = w[d]  BY <1>1, <1>2, <2>3, <3>1 DEF Orphans
    <3> QED  BY <2>0, <2>3, <3>1, <3>2 DEF Leaves, ConnOK, Accepting, Reading
  <2> QED  BY <2>1, <2>2, <2>3
<1>5. NeverDeaf'  BY <1>1, <1>2 DEF NeverDeaf, TypeOK
<1> QED  BY <1>3, <1>4, <1>5 DEF IInv, ConnsOK

\* handleAccept() listens again, or the server has been stopped.
LEMMA HandleAcceptKeeps ==
    ASSUME IInv, NEW c \in Conns, HandleAccepted(c) \/ HandleRefused(c)
    PROVE  IInv'
<1>0. TypeOK /\ ConnsOK /\ ConnOK(c)  BY Kept DEF IInv
<1>1. ASSUME NEW p \in {"accepted", "refused"}, NEW next \in {"read", "finish"},
             NEW reading \in SUBSET {c}, next = "read" <=> c \in reading,
             HandleAccept(c, p, next, reading)
      PROVE  IInv'
  <2>0. work[c] = {p} /\ c \in pool /\ ~timer[c]
    BY <1>0, <1>1 DEF HandleAccept, ConnOK, Accepting, Reading
  <2>1. CASE listening
    <3> DEFINE w == [work EXCEPT ![c] = {next}]
    <3>1. PICK n \in Unused : Listen(n, w)
      BY <1>1, <2>1 DEF HandleAccept, Accepts
    <3>2. Update(Orphans, reading) /\ UNCHANGED <<listening, mutex, stopPc, startPc>>
      BY <1>1, <2>1 DEF HandleAccept, Accepts, server
    <3>3. w \in [Conns -> SUBSET Points]  BY <1>0 DEF TypeOK, Points
    <3>4. \A d \in Conns : Leaves(d, w, reading) \/ (w[d] = work[d] /\ d \notin reading)
      BY <1>0, <1>1, <2>0 DEF TypeOK, Leaves, Accepting
    <3> HIDE DEF w
    <3> QED  BY <1>0, <3>1, <3>2, <3>3, <3>4, ListenKeeps
  <2>2. CASE ~listening
    <3>1. Goto(c, p, {next}) /\ Update({}, reading) /\ UNCHANGED <<pool, server>>
      BY <1>1, <2>2 DEF HandleAccept, Accepts
    <3>2. work' \in [Conns -> SUBSET Points] /\ work'[c] = {next}
          /\ \A d \in Conns \ {c} : work'[d] = work[d]
      <4>1. p \in Points /\ {next} \in SUBSET Points  BY DEF Points
      <4> QED  BY <1>0, <2>0, <3>1, <4>1, Gone
    <3>3. TypeOK'  BY <1>0, <3>1, <3>2 DEF TypeOK, Update, server
    <3>4. \A d \in Conns : /\ open'[d] = open[d]
                            /\ timer'[d] = (timer[d] \/ d \in reading)
      BY <1>0, <3>1 DEF Update, TypeOK
    <3>5. ConnOK(c)'
      BY <1>0, <1>1, <2>0, <3>1, <3>2, <3>4 DEF ConnOK, Accepting, Reading
    <3>6. ASSUME NEW d \in Conns \ {c} PROVE ConnOK(d)'
      <4>1. ConnOK(d) /\ work'[d] = work[d] /\ open'[d] = open[d] /\ timer'[d] = timer[d]
            /\ pool' = pool
        BY <1>0, <3>1, <3>2, <3>4 DEF ConnsOK, TypeOK
      <4> QED  BY <4>1 DEF ConnOK
    <3>7. NeverDeaf'  BY <2>2, <3>1 DEF NeverDeaf, server
    <3> QED  BY <3>3, <3>5, <3>6, <3>7 DEF IInv, ConnsOK
  <2> QED  BY <2>1, <2>2
<1> QED  BY <1>1 DEF HandleAccepted, HandleRefused

\* start() and stop().
LEMMA ServerKeeps ==
    ASSUME IInv, Start \/ StartListen \/ StopLoop \/ (\E abort \in BOOLEAN : Stop(abort))
    PROVE  IInv'
<1>0. TypeOK /\ ConnsOK  BY DEF IInv
<1>1. CASE Start
  BY <1>0, <1>1 DEF IInv, Start, TypeOK, ConnsOK, ConnOK, NeverDeaf, conns
<1>2. CASE StartListen
  <2>1. CASE listening
    <3>1. PICK n \in Unused : Listen(n, work)  BY <1>2, <2>1 DEF StartListen, Accepts
    <3>2. Update(Orphans, {}) /\ UNCHANGED <<listening, mutex, stopPc>> /\ startPc' = "out"
      BY <1>2, <2>1 DEF StartListen, Accepts
    <3>3. work \in [Conns -> SUBSET Points]  BY <1>0 DEF TypeOK
    <3> QED  BY <1>0, <3>1, <3>2, <3>3, ListenKeeps
  <2>2. CASE ~listening
    BY <1>0, <1>2, <2>2
    DEF IInv, StartListen, Accepts, TypeOK, ConnsOK, ConnOK, NeverDeaf, conns
  <2> QED  BY <2>1, <2>2
<1>3. CASE StopLoop
  <2>1. TypeOK'  BY <1>0, <1>3 DEF StopLoop, TypeOK, Update, Prune
  <2>2. pool' = pool \ Orphans /\ UNCHANGED <<listening, startPc, work>>
    BY <1>3 DEF StopLoop, Prune
  <2>3. ASSUME NEW d \in Conns PROVE ConnOK(d)'
    <3>1. ConnOK(d) /\ open'[d] = (open[d] /\ d \notin Orphans)
          /\ timer'[d] = (timer[d] /\ d \notin Orphans)
      BY <1>0, <1>3 DEF StopLoop, Update, ConnsOK, TypeOK
    <3>2. work[d] # {} => (d \in pool' <=> d \in pool)  BY <2>2 DEF Orphans
    <3> QED  BY <2>2, <3>1, <3>2 DEF ConnOK, Accepting
  <2>4. NeverDeaf'  BY <2>2 DEF IInv, NeverDeaf, Orphans
  <2> QED  BY <2>1, <2>3, <2>4 DEF IInv, ConnsOK
<1>4. ASSUME NEW abort \in BOOLEAN, Stop(abort) PROVE IInv'
  <2>1. TypeOK'  BY <1>0, <1>4 DEF Stop, TypeOK, Points
  <2>2. ASSUME NEW d \in Conns PROVE ConnOK(d)'
    <3>1. ConnOK(d) /\ (open'[d] => open[d]) /\ UNCHANGED <<timer, pool>>
          /\ work'[d] = IF "accept" \in work[d] THEN {"refused"} ELSE work[d]
      BY <1>0, <1>4 DEF Stop, ConnsOK, TypeOK
    <3> QED  BY <3>1 DEF ConnOK, Accepting, Reading
  <2>3. NeverDeaf'  BY <1>4 DEF Stop, NeverDeaf
  <2> QED  BY <2>1, <2>2, <2>3 DEF IInv, ConnsOK
<1> QED  BY <1>1, <1>2, <1>3, <1>4

-----------------------------------------------------------------------------
\* The invariant holds initially, in every step, and so always.
LEMMA Invariant == Spec => []IInv
<1>1. Init => IInv
  BY DEF Init, IInv, TypeOK, ConnsOK, ConnOK, NeverDeaf, Accepting
<1>2. IInv /\ [Next]_vars => IInv'
  <2> SUFFICES ASSUME IInv, [Next]_vars PROVE IInv'  OBVIOUS
  <2>1. CASE Next
    BY <2>1, ServerKeeps, AcceptKeeps, ReadKeeps, HandleKeeps, CloseKeeps, HandleAcceptKeeps
    DEF Next, Handler, Finish
  <2>2. CASE UNCHANGED vars
    BY <2>2 DEF vars, server, conns, IInv, TypeOK, ConnsOK, ConnOK, NeverDeaf
  <2> QED  BY <2>1, <2>2
<1> QED  BY <1>1, <1>2, PTL DEF Spec

\* A server that listens has a connection to accept on, or is about to
\* (TCPServer.cpp:204-209).
THEOREM ServerIsNeverDeaf == Spec => []NeverDeaf
<1>1. IInv => NeverDeaf  BY DEF IInv
<1> QED  BY <1>1, Invariant, PTL

\* stop(false) reaches every open connection that is handled (TCPServer.cpp:189).
THEOREM ConnectionsAreHandledInPool == Spec => []HandledInPool
<1>1. IInv => HandledInPool  BY DEF IInv, ConnsOK, ConnOK, HandledInPool
<1> QED  BY <1>1, Invariant, PTL

\* An open connection is handled at one point at a time, and its timer runs
\* exactly while it is read from (TCPConnection.hpp:572).
THEOREM ServerIsConsistent == Spec => []ServerConsistent
<1>1. ASSUME NEW S, \A p, q \in S : p = q PROVE Cardinality(S) <= 1
  <2>1. CASE S = {}  BY <2>1, FS_EmptySet
  <2>2. CASE S # {}
    <3>1. PICK p \in S : TRUE  BY <2>2
    <3>2. S = {p}  BY <1>1, <3>1
    <3> QED  BY <3>2, FS_Singleton
  <2> QED  BY <2>1, <2>2
<1>2. IInv => ServerConsistent
  BY <1>1 DEF IInv, ConnsOK, ConnOK, ServerConsistent, OneHandler, Reading
<1> QED  BY <1>2, Invariant, PTL
============================================================================
