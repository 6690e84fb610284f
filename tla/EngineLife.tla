----------------------------- MODULE EngineLife -----------------------------
(***************************************************************************)
(* Which engine process serves, and how a GUI finds, replaces and stops it   *)
(* (linux/engine/main.cpp, core/src/control_server.cpp,                      *)
(* linux/engine/control_api_client.cpp, linux/gui/app_state.cpp).            *)
(*                                                                         *)
(* Engines are started by the GUI, by the systemd user unit and by hand.  An *)
(* engine that does not get the lock leaves; one that does loads, opens its  *)
(* control server with a token of its own, and writes the token to           *)
(* control.json, in two steps and never to be deleted.  A client reads the   *)
(* file and asks with the token it finds there; only the engine whose token  *)
(* it is answers.  The token of a process is the process itself; the port    *)
(* is left out, since a request that reaches another process is refused.     *)
(*                                                                         *)
(* A client's read of the file and the request after it are one step: the    *)
(* engine named by the file that does not answer when it is asked has        *)
(* stopped to answer while the file still named it, or never did.            *)
(***************************************************************************)
EXTENDS Naturals

CONSTANTS
    Engines,        \* engine processes, to be used again once nothing names them
    Nobody,
    PollLimit,      \* failed polls between two attempts to respawn (5, then 30)
    CalmUpdates,    \* TRUE: no update while an engine is starting up
    MaxCrashes,     \* bound: crashes of engines
    MaxUpdates,     \* bound: updates of the program
    MaxLaunches,    \* bound: starts of the GUI
    MaxByHand       \* bound: starts by hand

ASSUME LifeAssumption ==
    /\ Nobody \notin Engines
    /\ PollLimit \in Nat \ {0}
    /\ CalmUpdates \in BOOLEAN
    /\ MaxCrashes \in Nat /\ MaxUpdates \in Nat /\ MaxLaunches \in Nat /\ MaxByHand \in Nat

VARIABLES
    pc,         \* where each engine is
    origin,     \* who started it
    version,    \* "new": it runs the installed program, "old": one before
    lock,       \* the engine that holds engine.lock
    file,       \* the engine control.json names; Nobody when it does not parse
    asked,      \* engines that have been asked to stop
    due,        \* the unit is to start an engine
    gui,        \* where the GUI is
    first,      \* it is starting up, rather than polling
    token,      \* the engine its client was last connected to
    spawned,    \* engineSpawned_
    failures,   \* consecutivePollFailures_, since the last attempt to respawn
    crashes, updates, launches, byHand      \* left

engine == <<pc, origin, version, lock, file, asked>>
window == <<gui, first, token, spawned, failures>>
bounds == <<crashes, updates, launches, byHand>>
vars == <<engine, due, window, bounds>>

\* Nothing runs, after a boot perhaps that left control.json as it was; the unit
\* may be enabled.
Init ==
    /\ pc = [e \in Engines |-> "dead"]
    /\ origin = [e \in Engines |-> "hand"]
    /\ version = [e \in Engines |-> "new"]
    /\ lock = Nobody
    /\ file \in Engines \cup {Nobody}
    /\ asked = {}
    /\ due \in BOOLEAN
    /\ gui = "gone" /\ first = FALSE /\ token = Nobody /\ spawned = FALSE /\ failures = 0
    /\ crashes = MaxCrashes /\ updates = MaxUpdates
    /\ launches = MaxLaunches /\ byHand = MaxByHand

-----------------------------------------------------------------------------
(* The engine: RunEngine *)

Goto(e, s) == pc' = [pc EXCEPT ![e] = s]

\* Processes that nothing names: a new one may take their place.
Unused == {e \in Engines : pc[e] = "dead" /\ e \notin {file, token}}

\* A process is started, detached.
Spawn(who) ==
    /\ Unused # {}
    /\ LET e == CHOOSE d \in Engines : d \in Unused
       IN  /\ Goto(e, "start")
           /\ origin' = [origin EXCEPT ![e] = who]
           /\ version' = [version EXCEPT ![e] = "new"]
           /\ asked' = asked \ {e}
    /\ UNCHANGED <<lock, file>>

\* Slip: the lock is tried only after the control file has been written.
LockLate(e) ==
    /\ pc[e] = "start"
    /\ Goto(e, IF lock = Nobody THEN "boot" ELSE "dead")
    /\ lock' = IF lock = Nobody THEN e ELSE lock
    /\ file' = e
    /\ UNCHANGED <<origin, version, asked, due, window, bounds>>

\* An engine that finds the lock held exits quietly.
Lock(e) ==
    /\ pc[e] = "start"
    /\ Goto(e, IF lock = Nobody THEN "boot" ELSE "dead")
    /\ lock' = IF lock = Nobody THEN e ELSE lock
    /\ UNCHANGED <<origin, version, file, asked, due, window, bounds>>

\* Initialize, as far as the control server's listener.
Open(e) ==
    /\ pc[e] = "boot"
    /\ Goto(e, "open")
    /\ UNCHANGED <<origin, version, lock, file, asked, due, window, bounds>>

\* WriteControlFile: open truncates, then the content is written.
Truncate(e) ==
    /\ pc[e] = "open"
    /\ Goto(e, "torn")
    /\ file' = Nobody
    /\ UNCHANGED <<origin, version, lock, asked, due, window, bounds>>

Write(e) ==
    /\ pc[e] = "torn"
    /\ Goto(e, "serving")
    /\ file' = e
    /\ UNCHANGED <<origin, version, lock, asked, due, window, bounds>>

\* Run returns; while the proxies drain the control server still answers ...
Drain(e) ==
    /\ pc[e] = "serving"
    /\ e \in asked
    /\ Goto(e, "draining")
    /\ UNCHANGED <<origin, version, lock, file, asked, due, window, bounds>>

\* Slip: the lock is given up with the control server.
CloseUnlocking(e) ==
    /\ pc[e] = "draining"
    /\ Goto(e, "closed")
    /\ lock' = Nobody
    /\ UNCHANGED <<origin, version, file, asked, due, window, bounds>>

\* ... and is stopped after them.
Close(e) ==
    /\ pc[e] = "draining"
    /\ Goto(e, "closed")
    /\ UNCHANGED <<origin, version, lock, file, asked, due, window, bounds>>

Unlocked(e) == IF lock = e THEN Nobody ELSE lock

\* The end of the process frees the lock.
Exit(e) ==
    /\ pc[e] = "closed"
    /\ Goto(e, "dead")
    /\ lock' = Unlocked(e)
    /\ UNCHANGED <<origin, version, file, asked, due, window, bounds>>

\* An engine crashes, is killed, or fails to initialize; the unit starts its own
\* again, once more.
Crash(e) ==
    /\ pc[e] # "dead"
    /\ crashes > 0
    /\ crashes' = crashes - 1
    /\ Goto(e, "dead")
    /\ lock' = Unlocked(e)
    /\ due' = (due \/ origin[e] = "service")
    /\ UNCHANGED <<origin, version, file, asked, window, updates, launches, byHand>>

\* Steps an engine takes of itself.
Live(e) ==
    \/ Lock(e) \/ Open(e) \/ Truncate(e) \/ Write(e) \/ Drain(e) \/ Close(e) \/ Exit(e)

ServiceStart ==
    /\ due
    /\ due' = FALSE
    /\ Spawn("service")
    /\ UNCHANGED <<window, bounds>>

StartByHand ==
    /\ byHand > 0
    /\ byHand' = byHand - 1
    /\ Spawn("hand")
    /\ UNCHANGED <<due, window, crashes, updates, launches>>

\* The files of the program are replaced while the GUI is not there.
Update ==
    /\ gui = "gone"
    /\ updates > 0
    /\ CalmUpdates => \A e \in Engines : pc[e] \in {"dead", "serving", "draining", "closed"}
    /\ updates' = updates - 1
    /\ version' = [e \in Engines |-> "old"]
    /\ UNCHANGED <<pc, origin, lock, file, asked, due, window, crashes, launches, byHand>>

-----------------------------------------------------------------------------
(* The GUI: EnsureEngineRunning, PollThreadMain, RespawnEngine, Shutdown *)

\* The engine named t, if any, answers a request that carries its token.
Answers(t) == t # Nobody /\ pc[t] \in {"open", "torn", "serving", "draining"}

\* Connect and Ping: the client keeps what it read, answered or not.
Reach(there, otherwise) ==
    /\ token' = file
    /\ gui' = IF Answers(file) THEN there ELSE otherwise

Launch ==
    /\ gui = "gone"
    /\ launches > 0
    /\ launches' = launches - 1
    /\ gui' = "look" /\ first' = TRUE
    /\ token' = Nobody /\ spawned' = FALSE /\ failures' = 0
    /\ UNCHANGED <<engine, due, crashes, updates, byHand>>

\* A running engine of this version is used, one of another is to leave.
Look ==
    /\ gui = "look"
    /\ Reach(IF Answers(file) /\ version[file] = "old" THEN "retire" ELSE "up", "spawn")
    /\ UNCHANGED <<engine, due, first, spawned, failures, bounds>>

AskToStop(t) == asked' = IF Answers(t) THEN asked \cup {t} ELSE asked

Retire ==
    /\ gui = "retire"
    /\ AskToStop(token)
    /\ gui' = "leave"
    /\ UNCHANGED <<pc, origin, version, lock, file, due, first, token, spawned,
                   failures, bounds>>

\* It is waited for until it does not answer any more, for five seconds at most.
Leave ==
    /\ gui = "leave"
    /\ token' = file
    /\ gui' = "spawn"
    /\ UNCHANGED <<engine, due, first, spawned, failures, bounds>>

SpawnEngine ==
    /\ gui = "spawn"
    /\ Spawn("gui")
    /\ spawned' = TRUE
    /\ gui' = "await"
    /\ UNCHANGED <<due, first, token, failures, bounds>>

\* The new engine is waited for: whichever answers will do.
Await ==
    /\ gui = "await"
    /\ Answers(file)
    /\ Reach("up", "up")
    /\ first' = FALSE
    /\ UNCHANGED <<engine, due, spawned, failures, bounds>>

\* After 30 seconds the GUI gives up: itself when it was starting, else only for
\* now.
GiveUp ==
    /\ gui = "await"
    /\ ~Answers(file)
    /\ Reach("up", IF first THEN "gone" ELSE "up")
    /\ UNCHANGED <<engine, due, first, spawned, failures, bounds>>

\* Slip: one attempt to respawn, at the limit, and no more.
PollOnce ==
    /\ gui = "up"
    /\ IF Answers(token)
       THEN failures' = 0 /\ UNCHANGED gui
       ELSE /\ failures' = IF failures <= PollLimit THEN failures + 1 ELSE failures
            /\ gui' = IF failures' = PollLimit THEN "respawn" ELSE "up"
    /\ first' = FALSE
    /\ UNCHANGED <<engine, due, token, spawned, bounds>>

\* The status is polled with the token the client has.
Poll ==
    /\ gui = "up"
    /\ IF Answers(token)
       THEN failures' = 0 /\ UNCHANGED gui
       ELSE IF failures + 1 < PollLimit
       THEN failures' = failures + 1 /\ UNCHANGED gui
       ELSE failures' = 0 /\ gui' = "respawn"
    /\ first' = FALSE
    /\ UNCHANGED <<engine, due, token, spawned, bounds>>

Respawn ==
    /\ gui = "respawn"
    /\ Reach("up", "spawn")
    /\ UNCHANGED <<engine, due, first, spawned, failures, bounds>>

\* The user leaves; a respawn under way stops to wait.  An engine the GUI has
\* spawned is stopped, through the connection the client has.
Quit ==
    /\ gui \in {"up", "await"}
    /\ ~first
    /\ gui' = "gone"
    /\ IF spawned THEN AskToStop(token) ELSE UNCHANGED asked
    /\ UNCHANGED <<pc, origin, version, lock, file, due, first, token, spawned,
                   failures, bounds>>

Gui == Look \/ Retire \/ Leave \/ SpawnEngine \/ Await \/ GiveUp \/ Poll \/ Respawn

Next ==
    \/ \E e \in Engines : Live(e) \/ Crash(e)
    \/ ServiceStart \/ StartByHand \/ Update
    \/ Launch \/ Gui \/ Quit

Spec == Init /\ [][Next]_vars

\* An engine that was asked to stop waits for its connections, which have no
\* timeout.
Ending(e) == pc[e] \in {"draining", "closed"}

\* Processes run, and the unit starts what is due.  No stop has to end, and nobody
\* has to launch or quit anything.
FairSpec ==
    /\ Spec
    /\ \A e \in Engines : WF_vars(~Ending(e) /\ Live(e))
    /\ WF_vars(ServiceStart)
    /\ WF_vars(Gui)

-----------------------------------------------------------------------------
(* Properties *)

Flags == due \in BOOLEAN /\ first \in BOOLEAN /\ spawned \in BOOLEAN

\* Types.
TypeOK ==
    /\ Flags
    /\ pc \in [Engines -> {"dead", "start", "boot", "open", "torn", "serving", "draining",
                           "closed"}]
    /\ origin \in [Engines -> {"gui", "service", "hand"}]
    /\ version \in [Engines -> {"old", "new"}]
    /\ lock \in Engines \cup {Nobody} /\ file \in Engines \cup {Nobody}
    /\ token \in Engines \cup {Nobody}
    /\ asked \subseteq Engines
    /\ gui \in {"gone", "look", "retire", "leave", "spawn", "await", "up", "respawn"}
    /\ failures \in 0..PollLimit

\* Only one engine at a time is past the lock, and so at work on the files of the
\* data directory, from the load to the last line of its shutdown.
Working(e) == pc[e] \notin {"dead", "start"}
OneEngine == \A d, e \in Engines : Working(d) /\ Working(e) => d = e

\* An engine that serves can be found: control.json names it, whoever else was
\* started, crashed or left meanwhile.
Found == \A e \in Engines : pc[e] \in {"serving", "draining"} => file = e

\* A GUI that stays ends up connected to an engine of the installed program,
\* whatever crashes, leaves late or is started beside it; but an engine that was
\* asked to stop and never does keeps the lock, and perhaps the GUI.
Connected == gui = "up" /\ Answers(token) /\ version[token] = "new"
Reattaches ==
    \/ []<>(gui = "gone" \/ Connected)
    \/ <>[](\E e \in Engines : Ending(e))

\* "The GUI stops the engine on quit only when the GUI itself spawned it"
\* (linux/systemd/agentredactor.service).
StopsItsOwn ==
    [][gui' = "gone" => \A e \in asked' \ asked : origin[e] = "gui"]_vars

\* "This GUI started the engine, so it owns its lifetime" (app_state.cpp): no
\* engine that a GUI has started goes on without the GUI.
NoOrphan ==
    (\A e \in Engines : origin[e] = "gui" /\ gui = "gone" ~>
        pc[e] = "dead" \/ Ending(e) \/ gui # "gone" \/ origin[e] # "gui")
=============================================================================
