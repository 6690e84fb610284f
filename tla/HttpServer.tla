----------------------------- MODULE HttpServer -----------------------------
(***************************************************************************)
(* The life of one HttpServer (core/src/http_server.cpp): the thread that    *)
(* starts and stops it, the listener thread, and one detached thread for     *)
(* each connection it accepts.                                               *)
(*                                                                         *)
(* stopMutex_ is locked by Stop alone, so it excludes nothing and is left    *)
(* out; the two steps of the condition variable's wait (the predicate is     *)
(* evaluated, the thread blocks) are steps here, because the threads that    *)
(* count down and notify do not lock it.                                     *)
(***************************************************************************)
EXTENDS Naturals, FiniteSets

CONSTANTS
    Conns,      \* connections clients may open
    None        \* no connection

ASSUME HttpAssumption == IsFiniteSet(Conns) /\ None \notin Conns

VARIABLES
    running,    \* running_
    shouldStop, \* shouldStop_
    sock,       \* the listening socket: "none", "open", "shut", "closed"
    active,     \* activeConnections_
    listener,   \* where the listener thread is
    taken,      \* the connection it has accepted last
    conn,       \* where each connection, and its thread, is
    stopper,    \* where the thread that calls Start and Stop is
    client,     \* what the client of each connection has done: "silent", "asked"
                \* (sent all it sends), "reads" (its answer, too), "left"
    alive       \* no exception has ended the process

around == <<client, alive>>
vars == <<running, shouldStop, sock, active, listener, taken, conn, stopper, around>>

Init ==
    /\ running = FALSE /\ shouldStop = FALSE
    /\ sock = "none"
    /\ active = 0
    /\ listener = "none" /\ taken = None
    /\ conn = [c \in Conns |-> "away"]
    /\ stopper = "new"
    /\ client = [c \in Conns |-> "silent"]
    /\ alive = TRUE

StopAt(step) == alive /\ stopper = step
ListenAt(step) == alive /\ listener = step

\* Start: a socket that cannot be bound leaves the server as it was.
Start ==
    /\ StopAt("new")
    /\ \/ /\ running' = TRUE /\ shouldStop' = FALSE
          /\ sock' = "open"
          /\ listener' = "check"
          /\ stopper' = "up"
       \/ /\ stopper' = "failed"
          /\ UNCHANGED <<running, shouldStop, sock, listener>>
    /\ UNCHANGED <<active, taken, conn, around>>

-----------------------------------------------------------------------------
(* Stop *)

BeginStop ==
    /\ StopAt("up")
    /\ shouldStop' = TRUE
    /\ running' = FALSE
    /\ stopper' = "shutdown"
    /\ UNCHANGED <<sock, active, listener, taken, conn, around>>

ShutSocket ==
    /\ StopAt("shutdown")
    /\ sock' = "shut"
    /\ stopper' = "join"
    /\ UNCHANGED <<running, shouldStop, active, listener, taken, conn, around>>

\* Slip: the listener is not joined.
JoinNobody ==
    /\ StopAt("join")
    /\ stopper' = "close"
    /\ UNCHANGED <<running, shouldStop, sock, active, listener, taken, conn, around>>

Join ==
    /\ StopAt("join")
    /\ ListenAt("ended")
    /\ stopper' = "close"
    /\ UNCHANGED <<running, shouldStop, sock, active, listener, taken, conn, around>>

CloseSocket ==
    /\ StopAt("close")
    /\ sock' = "closed"
    /\ stopper' = "test"
    /\ UNCHANGED <<running, shouldStop, active, listener, taken, conn, around>>

\* wait(lock, activeConnections_ == 0): the predicate is read ...
TestDrained ==
    /\ StopAt("test")
    /\ stopper' = IF active = 0 THEN "returned" ELSE "waiting"
    /\ UNCHANGED <<running, shouldStop, sock, active, listener, taken, conn, around>>

\* ... and only then the thread blocks, to be woken by a later notify_all.
Block ==
    /\ StopAt("waiting")
    /\ stopper' = "blocked"
    /\ UNCHANGED <<running, shouldStop, sock, active, listener, taken, conn, around>>

\* Slip: the wait has no predicate to test again.
WakeUntested ==
    /\ StopAt("blocked")
    /\ stopper' = "returned"
    /\ UNCHANGED <<running, shouldStop, sock, active, listener, taken, conn, around>>

\* A condition variable may also wake without a notification.
WakeSpuriously ==
    /\ StopAt("blocked")
    /\ stopper' = "test"
    /\ UNCHANGED <<running, shouldStop, sock, active, listener, taken, conn, around>>

GoOnStopping == ShutSocket \/ Join \/ CloseSocket \/ TestDrained \/ Block

Stop == BeginStop \/ GoOnStopping \/ WakeSpuriously

-----------------------------------------------------------------------------
(* RunListener *)

CheckStop ==
    /\ ListenAt("check")
    /\ listener' = IF shouldStop THEN "ended" ELSE "select"
    /\ UNCHANGED <<running, shouldStop, sock, active, taken, conn, stopper, around>>

\* select times out, or finds the socket readable: a connection is queued, or
\* the socket was shut down.
Select ==
    /\ ListenAt("select")
    /\ \/ listener' = "check"
       \/ /\ sock = "shut" \/ \E c \in Conns : conn[c] = "queued"
          /\ listener' = "accept"
    /\ UNCHANGED <<running, shouldStop, sock, active, taken, conn, stopper, around>>

\* A shut socket accepts nothing on POSIX; on Windows it may.
Accept ==
    /\ ListenAt("accept")
    /\ \/ \E c \in Conns :
            /\ conn[c] = "queued"
            /\ conn' = [conn EXCEPT ![c] = "accepted"]
            /\ taken' = c
            /\ listener' = "count"
       \/ /\ listener' = "check"
          /\ UNCHANGED <<conn, taken>>
    /\ UNCHANGED <<running, shouldStop, sock, active, stopper, around>>

\* Slip: the connection is not counted before its thread exists.
CountLater ==
    /\ ListenAt("count")
    /\ listener' = "spawn"
    /\ UNCHANGED <<running, shouldStop, sock, active, taken, conn, stopper, around>>

\* The connection is counted before its thread exists ...
Count ==
    /\ ListenAt("count")
    /\ active' = active + 1
    /\ listener' = "spawn"
    /\ UNCHANGED <<running, shouldStop, sock, taken, conn, stopper, around>>

\* ... which it does from here on, detached.
Spawn ==
    /\ ListenAt("spawn")
    /\ conn' = [conn EXCEPT ![taken] = "parse"]
    /\ taken' = None
    /\ listener' = "check"
    /\ UNCHANGED <<running, shouldStop, sock, active, stopper, around>>

RunListener == CheckStop \/ Select \/ Accept \/ Count \/ Spawn

-----------------------------------------------------------------------------
(* HandleClient *)

Move(c, from, to) == alive /\ conn[c] = from /\ conn' = [conn EXCEPT ![c] = to]

\* A client connects while the socket is open.
Connect(c) ==
    /\ sock = "open"
    /\ Move(c, "away", "queued")
    /\ UNCHANGED <<running, shouldStop, sock, active, listener, taken, stopper, around>>

\* It goes on as it likes, if it does: the sockets have no timeout.
Behave(c) ==
    /\ alive
    /\ conn[c] # "away"
    /\ \/ client[c] = "silent" /\ client' = [client EXCEPT ![c] = "asked"]
       \/ client[c] = "asked" /\ client' = [client EXCEPT ![c] = "reads"]
       \/ client[c] # "left" /\ client' = [client EXCEPT ![c] = "left"]
    /\ UNCHANGED <<running, shouldStop, sock, active, listener, taken, conn, stopper, alive>>

\* The thread waits for its client: in recv for the request, in send until the
\* answer is read.
Blocked(c) ==
    \/ conn[c] = "parse" /\ client[c] = "silent"
    \/ conn[c] = "handle" /\ client[c] \notin {"reads", "left"}

\* Slip: a request that does not parse ends the thread at once.
ConverseEarlyReturn(c) ==
    /\ \/ Move(c, "parse", "gone") /\ client[c] # "silent"
       \/ Move(c, "parse", "handle") /\ client[c] # "silent"
       \/ Move(c, "handle", "drain")
       \/ Move(c, "drain", "closed")
    /\ UNCHANGED <<running, shouldStop, sock, active, listener, taken, stopper, around>>

\* Slip: the thread waits for the client to close, however long.
ConverseUnbounded(c) ==
    /\ \/ Move(c, "parse", "drain") /\ client[c] # "silent"
       \/ Move(c, "parse", "handle") /\ client[c] # "silent"
       \/ Move(c, "handle", "drain")
       \/ Move(c, "drain", "closed") /\ client[c] = "left"
    /\ UNCHANGED <<running, shouldStop, sock, active, listener, taken, stopper, around>>

\* A request that does not parse goes without an answer; one that does gets the
\* handler's, or 502 when the handler throws; one that is not read may fit the
\* buffers of the socket.  Both end with the socket closed, after 100 waits of
\* 50 ms for the client at most.
Converse(c) ==
    /\ \/ Move(c, "parse", "drain") /\ client[c] # "silent"
       \/ Move(c, "parse", "handle") /\ client[c] # "silent"
       \/ Move(c, "handle", "drain")
       \/ Move(c, "drain", "closed")
    /\ UNCHANGED <<running, shouldStop, sock, active, listener, taken, stopper, around>>

\* A Content-Length that is no number throws outside of any try.
Throw(c) ==
    /\ alive
    /\ conn[c] = "parse" /\ client[c] # "silent"
    /\ alive' = FALSE
    /\ UNCHANGED <<running, shouldStop, sock, active, listener, taken, conn, stopper, client>>

CountDown(c) ==
    /\ Move(c, "closed", "left")
    /\ active' = active - 1
    /\ UNCHANGED <<running, shouldStop, sock, listener, taken, stopper, around>>

\* The notification wakes a thread that is blocked, and is lost on one that is
\* about to be.
Notify(c) ==
    /\ Move(c, "left", "gone")
    /\ stopper' = IF stopper = "blocked" THEN "test" ELSE stopper
    /\ UNCHANGED <<running, shouldStop, sock, active, listener, taken, around>>

HandleClient(c) == Converse(c) \/ CountDown(c) \/ Notify(c)

Next ==
    \/ Start \/ Stop \/ RunListener
    \/ \E c \in Conns : Connect(c) \/ Behave(c) \/ HandleClient(c) \/ Throw(c)

Spec == Init /\ [][Next]_vars

\* Threads are scheduled, upstream requests and the waits of select have
\* timeouts.  Nobody has to call Start or Stop, to connect, to send or to read,
\* and nothing wakes a thread spuriously for sure.
Fairness ==
    /\ WF_vars(GoOnStopping)
    /\ WF_vars(RunListener)
    /\ \A c \in Conns : WF_vars(~Blocked(c) /\ HandleClient(c))

FairSpec == Spec /\ Fairness

-----------------------------------------------------------------------------
(* Properties *)

ConnSteps == {"away", "queued", "accepted", "parse", "handle", "drain", "closed",
              "left", "gone"}

\* Types; the counter of connections, which threads raise and lower at any time,
\* never goes below zero (RunListener counts before it starts the thread).
TypeOK ==
    /\ {running, shouldStop} \subseteq BOOLEAN
    /\ sock \in {"none", "open", "shut", "closed"}
    /\ active \in Nat
    /\ listener \in {"none", "check", "select", "accept", "count", "spawn", "ended"}
    /\ taken \in Conns \cup {None}
    /\ conn \in [Conns -> ConnSteps]
    /\ stopper \in {"new", "failed", "up", "shutdown", "join", "close", "test",
                    "waiting", "blocked", "returned"}
    /\ client \in [Conns -> {"silent", "asked", "reads", "left"}]
    /\ alive \in BOOLEAN

\* Connections that are counted: the one about to get its thread, and those
\* whose thread has not counted down.
Serving ==
    {c \in Conns : \/ conn[c] \in {"parse", "handle", "drain", "closed"}
                   \/ c = taken /\ listener = "spawn"}

\* activeConnections_ is the number of those connections.
CountMatches == active = Cardinality(Serving)

\* The listener never selects or accepts on a socket that is closed (Stop joins
\* it first).
SocketOutlivesListener ==
    listener \in {"select", "accept"} => sock \in {"open", "shut"}

\* When Stop has returned and the server may be destroyed, no thread handles a
\* request any more and none will.
StopDrains ==
    stopper = "returned" =>
        listener = "ended" /\ \A c \in Conns : conn[c] \in {"away", "queued", "left", "gone"}

\* The server keeps the contract the engine relies on.
Contract == INSTANCE ServerContract WITH
    Requests <- Conns,
    up <- listener \notin {"none", "ended"},
    serving <- Serving,
    stopped <- stopper = "returned"
KeepsContract == Contract!Spec

\* Nothing but its client keeps a thread of the server for ever: an accepted
\* connection is closed and counted down in the end, unless its thread stays in
\* recv or send (HandleClient has no path around its last lines, and waits 5 s for
\* the client to close), and the listener ends once a stop has begun, however
\* many connections are queued or stuck (RunListener tests shouldStop_ between any
\* two).
ThreadsEnd ==
    /\ \A c \in Conns :
        conn[c] = "accepted" ~> conn[c] = "gone" \/ ~alive \/ []Blocked(c)
    /\ shouldStop ~> listener = "ended" \/ ~alive

\* Unless a client keeps a thread, Stop returns.
StopReturns ==
    stopper = "shutdown" ~>
        stopper = "returned" \/ ~alive \/ \E c \in Conns : []Blocked(c)

\* No connection thread touches the condition variable of a server whose Stop
\* has returned: it is destroyed next.
NoLateNotify == stopper = "returned" => \A c \in Conns : conn[c] # "left"
=============================================================================
