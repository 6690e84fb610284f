------------------------------ MODULE ModelGate ------------------------------
(***************************************************************************)
(* The first-run model download of the engine and the proxies it gates      *)
(* (core/src/engine_app.cpp): control-API threads ask for a download, for a  *)
(* restart of the proxies or for the status; a download thread fetches the   *)
(* weights, stops the proxies, loads the detector and starts them again;     *)
(* requests are served while the proxies are up; a call to stop leaves a       *)
(* thread behind that tells the main thread, which shuts the proxies and the   *)
(* control server down, twice, and leaves.                                   *)
(*                                                                         *)
(* The three mutexes stateMutex_, retryMutex_ and proxyServersMutex_ are     *)
(* variables that hold their owner: a step that only locks, reads or writes  *)
(* and unlocks is one action; a thread that waits for one mutex, or for      *)
(* requests to drain, while it holds another shows it in its own state.      *)
(***************************************************************************)
EXTENDS Naturals, FiniteSets

CONSTANTS
    Callers,        \* threads of the control server
    Requests,       \* proxied requests
    Downloader,     \* the download thread
    Main,           \* the thread that runs Initialize, Run and Shutdown
    Free,           \* no owner
    Calls,          \* SUBSET {"download", "restart", "status", "stop"}
    Polite,         \* TRUE: clients ask only once the engine has started and
                    \* while nothing else they asked for is going on, but for
                    \* the status and, unless a download is running, a stop
    MaxAttempts     \* attempts of one download (10 in the code)

Thread == Callers \cup {Downloader, Main}

ASSUME GateAssumption ==
    /\ Free \notin Thread
    /\ Downloader \notin Callers /\ Main \notin Callers /\ Main # Downloader
    /\ Calls \subseteq {"download", "restart", "status", "stop"}
    /\ Polite \in BOOLEAN
    /\ MaxAttempts \in Nat \ {0}

VARIABLES
    state,      \* owner of stateMutex_
    retry,      \* owner of retryMutex_
    proxies,    \* owner of proxyServersMutex_
    required,   \* modelDownloadRequired_
    inProgress, \* modelDownloadInProgress_
    failed,     \* modelDownloadFailed_
    waiting,    \* modelDownloadWaitingToRetry_
    retryNow,   \* retryNowRequested_
    weights,    \* the weights file: missing, good, or corrupt at full size
    detector,   \* off, starting, ready
    up,         \* the proxy servers accept requests
    serving,    \* the requests they serve
    stopping,   \* stopRequested_
    stopThread, \* the detached thread of each caller's call to stop: "none",
                \* "asleep", "telling" (stopRequested_ is set, stopCv_ not notified)
    pc,         \* where each thread is
    attempt,    \* attempts since the download was asked for
    ok          \* the download thread's success so far

locks == <<state, retry, proxies>>
flags == <<required, inProgress, failed, waiting, retryNow>>
model == <<weights, detector>>
proxy == <<up, serving>>
stops == <<stopping, stopThread>>
vars == <<locks, flags, model, proxy, stops, pc, attempt, ok>>

\* Initialize up to the start of the control server: without weights the engine
\* is blocked; with weights that do not load it runs without the model.
Init ==
    /\ state = Free /\ retry = Free /\ proxies = Free
    /\ weights \in {"missing", "good", "corrupt"}
    /\ required = (weights = "missing")
    /\ detector = IF weights = "good" THEN "ready" ELSE "off"
    /\ inProgress = FALSE /\ failed = FALSE /\ waiting = FALSE /\ retryNow = FALSE
    /\ up = FALSE /\ serving = {}
    /\ stopping = FALSE /\ stopThread = [c \in Callers |-> "none"]
    /\ pc = [t \in Thread |-> IF t = Main THEN "boot" ELSE "idle"]
    /\ attempt = 0 /\ ok = FALSE

Goto(t, s) == pc' = [pc EXCEPT ![t] = s]

-----------------------------------------------------------------------------
(* The proxies *)

Arrive(r) ==
    /\ up
    /\ r \notin serving
    /\ serving' = serving \cup {r}
    /\ UNCHANGED <<locks, flags, model, up, stops, pc, attempt, ok>>

Finish(r) ==
    /\ r \in serving
    /\ serving' = serving \ {r}
    /\ UNCHANGED <<locks, flags, model, up, stops, pc, attempt, ok>>

\* Every start, stop and restart takes the mutex and stops the servers ...
TakeProxies(t, from, to) ==
    /\ pc[t] = from
    /\ proxies = Free
    /\ proxies' = t
    /\ up' = FALSE
    /\ Goto(t, to)
    /\ UNCHANGED <<state, retry, flags, model, serving, stops, attempt, ok>>

\* ... waits for the requests they serve, and then leaves them so, or starts
\* them again.
Drained(t, from, to, start) ==
    /\ pc[t] = from
    /\ serving = {}
    /\ proxies' = Free
    /\ up' = start
    /\ Goto(t, to)
    /\ UNCHANGED <<state, retry, flags, model, serving, stops, attempt, ok>>

\* The end of Initialize.
Boot ==
    \/ /\ pc[Main] = "boot"
       /\ state = Free
       /\ Goto(Main, IF required THEN "idle" ELSE "start")
       /\ UNCHANGED <<locks, flags, model, proxy, stops, attempt, ok>>
    \/ TakeProxies(Main, "start", "startdrain")
    \/ Drained(Main, "startdrain", "idle", TRUE)

-----------------------------------------------------------------------------
(* The control API *)

\* The control server accepts calls until it is stopped.
Answering == pc[Main] \in {"boot", "start", "startdrain", "idle", "quit", "quitdrain"}

Asking(steps) == \E c \in Callers : pc[c] \in steps

\* What a polite client looks at before it asks for anything but the status.
AtEase(s) ==
    /\ pc[Main] = "idle"
    /\ ~inProgress
    /\ ~stopping /\ \A c \in Callers : stopThread[c] = "none"
    /\ ~Asking({"download", "stop"})
    /\ s # "stop" => ~Asking({"restart", "restartdrain"})

Call(c) ==
    /\ pc[c] = "idle"
    /\ Answering
    /\ \E s \in Calls :
        /\ Polite /\ s # "status" => AtEase(s)
        /\ s = "stop" => stopThread[c] = "none"     \* a bound: one such thread for each
        /\ Goto(c, s)
    /\ UNCHANGED <<locks, flags, model, proxy, stops, attempt, ok>>

\* StartModelDownloadIfNeeded: a first request starts the thread.
StartDownload(c) ==
    /\ pc[c] = "download"
    /\ state = Free
    /\ ~inProgress
    /\ inProgress' = TRUE /\ failed' = FALSE /\ waiting' = FALSE
    /\ attempt' = 0 /\ ok' = FALSE
    /\ pc' = [pc EXCEPT ![c] = "idle", ![Downloader] = "attempt"]
    /\ UNCHANGED <<locks, required, retryNow, model, proxy, stops>>

\* A later one is to wake it: stateMutex_ stays locked meanwhile.
AskRetry(c) ==
    /\ pc[c] = "download"
    /\ state = Free
    /\ inProgress
    /\ state' = c
    /\ Goto(c, "wake")
    /\ UNCHANGED <<retry, proxies, flags, model, proxy, stops, attempt, ok>>

Wake(c) ==
    /\ pc[c] = "wake"
    /\ retry = Free
    /\ retryNow' = TRUE
    /\ state' = Free
    /\ Goto(c, "idle")
    /\ UNCHANGED <<retry, proxies, required, inProgress, failed, waiting, model,
                   proxy, stops, attempt, ok>>

RestartProxies(c) ==
    \/ TakeProxies(c, "restart", "restartdrain")
    \/ Drained(c, "restartdrain", "idle", TRUE)

\* ApiGetStatus asks for each profile whether its proxy runs, with stateMutex_
\* locked.
Status(c) ==
    \/ /\ pc[c] = "status"
       /\ state = Free
       /\ state' = c
       /\ Goto(c, "ports")
       /\ UNCHANGED <<retry, proxies, flags, model, proxy, stops, attempt, ok>>
    \/ /\ pc[c] = "ports"
       /\ proxies = Free
       /\ state' = Free
       /\ Goto(c, "idle")
       /\ UNCHANGED <<retry, proxies, flags, model, proxy, stops, attempt, ok>>

\* Slip: the call waits for the engine to stop before it is answered.
StopWithin(c) ==
    \/ /\ pc[c] = "stop"
       /\ stopping' = TRUE
       /\ Goto(c, "stopping")
       /\ UNCHANGED <<locks, flags, model, proxy, stopThread, attempt, ok>>
    \/ /\ pc[c] = "stopping"
       /\ pc[Main] = "gone"
       /\ Goto(c, "idle")
       /\ UNCHANGED <<locks, flags, model, proxy, stops, attempt, ok>>

\* The call leaves it to a thread of its own, and is answered at once.
Stop(c) ==
    /\ pc[c] = "stop"
    /\ stopThread' = [stopThread EXCEPT ![c] = "asleep"]
    /\ Goto(c, "idle")
    /\ UNCHANGED <<locks, flags, model, proxy, stopping, attempt, ok>>

\* That thread sleeps for 200 ms, whatever becomes of the engine, and tells it:
\* RequestStop sets the flag, and then notifies.
RequestStop(c) ==
    /\ \/ /\ stopThread[c] = "asleep"
          /\ stopThread' = [stopThread EXCEPT ![c] = "telling"]
          /\ stopping' = TRUE
       \/ /\ stopThread[c] = "telling"
          /\ stopThread' = [stopThread EXCEPT ![c] = "none"]
          /\ UNCHANGED stopping
    /\ UNCHANGED <<locks, flags, model, proxy, pc, attempt, ok>>

-----------------------------------------------------------------------------
(* The end of the engine *)

\* Slip: the control server is not stopped before the proxies are for the last
\* time.
ShutdownOnce ==
    \/ /\ pc[Main] = "idle"
       /\ stopping
       /\ Goto(Main, "quit")
       /\ UNCHANGED <<locks, flags, model, proxy, stops, attempt, ok>>
    \/ TakeProxies(Main, "quit", "quitdrain")
    \/ Drained(Main, "quitdrain", "quitcontrol", FALSE)
    \/ /\ pc[Main] = "quitcontrol"
       /\ \A c \in Callers : pc[c] = "idle"
       /\ Goto(Main, "gone")
       /\ UNCHANGED <<locks, flags, model, proxy, stops, attempt, ok>>

\* Run returns; Shutdown stops the proxies, and then the control server, which
\* waits for the calls it is answering; the destructor does both again.
Shutdown ==
    \/ /\ pc[Main] = "idle"
       /\ stopping
       /\ Goto(Main, "quit")
       /\ UNCHANGED <<locks, flags, model, proxy, stops, attempt, ok>>
    \/ TakeProxies(Main, "quit", "quitdrain")
    \/ Drained(Main, "quitdrain", "quitcontrol", FALSE)
    \/ /\ pc[Main] = "quitcontrol"
       /\ \A c \in Callers : pc[c] = "idle"
       /\ Goto(Main, "quitagain")
       /\ UNCHANGED <<locks, flags, model, proxy, stops, attempt, ok>>
    \/ TakeProxies(Main, "quitagain", "quitagaindrain")
    \/ Drained(Main, "quitagaindrain", "gone", FALSE)

-----------------------------------------------------------------------------
(* The download thread *)

\* Slip: the weights are fetched again whatever there is.
AttemptAfresh ==
    /\ pc[Downloader] = "attempt"
    /\ attempt' = attempt + 1
    /\ \/ /\ weights' \in {"good", "corrupt"}
          /\ ok' = TRUE
          /\ Goto(Downloader, "stop")
       \/ /\ weights = "missing"
          /\ Goto(Downloader, IF attempt' < MaxAttempts THEN "failed" ELSE "finish")
          /\ UNCHANGED <<weights, ok>>
    /\ UNCHANGED <<locks, flags, detector, proxy, stops>>

\* Slip: one attempt too many.
AttemptOnceMore ==
    /\ pc[Downloader] = "attempt"
    /\ attempt' = attempt + 1
    /\ \/ /\ weights' \in IF weights = "missing" THEN {"good", "corrupt"} ELSE {weights}
          /\ ok' = TRUE
          /\ Goto(Downloader, "stop")
       \/ /\ weights = "missing"
          /\ Goto(Downloader, IF attempt' <= MaxAttempts THEN "failed" ELSE "finish")
          /\ UNCHANGED <<weights, ok>>
    /\ UNCHANGED <<locks, flags, detector, proxy, stops>>

\* EnsureModelFiles: weights that are there, of the right size, are kept; a
\* download may fail, and may bring a file that does not load.
Attempt ==
    /\ pc[Downloader] = "attempt"
    /\ attempt' = attempt + 1
    /\ \/ /\ weights' \in IF weights = "missing" THEN {"good", "corrupt"} ELSE {weights}
          /\ ok' = TRUE
          /\ Goto(Downloader, "stop")
       \/ /\ weights = "missing"
          /\ Goto(Downloader, IF attempt' < MaxAttempts THEN "failed" ELSE "finish")
          /\ UNCHANGED <<weights, ok>>
    /\ UNCHANGED <<locks, flags, detector, proxy, stops>>

\* Slip: stateMutex_ stays locked during the sleep.
PrepareRetryHolding ==
    \/ /\ pc[Downloader] = "failed"
       /\ retry = Free
       /\ retry' = Downloader
       /\ retryNow' = FALSE
       /\ Goto(Downloader, "announce")
       /\ UNCHANGED <<state, proxies, required, inProgress, failed, waiting, model,
                      proxy, stops, attempt, ok>>
    \/ /\ pc[Downloader] = "announce"
       /\ state = Free
       /\ waiting' = TRUE
       /\ state' = Downloader
       /\ retry' = Free
       /\ Goto(Downloader, "sleep")
       /\ UNCHANGED <<proxies, required, inProgress, failed, retryNow, model,
                      proxy, stops, attempt, ok>>

\* Before it sleeps it locks retryMutex_, and then stateMutex_.
PrepareRetry ==
    \/ /\ pc[Downloader] = "failed"
       /\ retry = Free
       /\ retry' = Downloader
       /\ retryNow' = FALSE
       /\ Goto(Downloader, "announce")
       /\ UNCHANGED <<state, proxies, required, inProgress, failed, waiting, model,
                      proxy, stops, attempt, ok>>
    \/ /\ pc[Downloader] = "announce"
       /\ state = Free
       /\ waiting' = TRUE
       /\ retry' = Free
       /\ Goto(Downloader, "sleep")
       /\ UNCHANGED <<state, proxies, required, inProgress, failed, retryNow, model,
                      proxy, stops, attempt, ok>>

\* The sleep ends by the clock or by a request; retryMutex_ is locked again, and
\* stateMutex_ within.  A request starts the count of attempts afresh.
Awake ==
    \/ /\ pc[Downloader] = "sleep"
       /\ retry = Free
       /\ retry' = Downloader
       /\ Goto(Downloader, "awake")
       /\ UNCHANGED <<state, proxies, flags, model, proxy, stops, attempt, ok>>
    \/ /\ pc[Downloader] = "awake"
       /\ state = Free
       /\ waiting' = FALSE
       /\ attempt' = IF retryNow THEN 0 ELSE attempt
       /\ retry' = Free
       /\ Goto(Downloader, "attempt")
       /\ UNCHANGED <<state, proxies, required, inProgress, failed, retryNow, model,
                      proxy, stops, ok>>

\* Slip: the requests in flight are not waited for.
StopForInitUndrained ==
    \/ TakeProxies(Downloader, "stop", "stopdrain")
    \/ /\ pc[Downloader] = "stopdrain"
       /\ proxies' = Free
       /\ Goto(Downloader, "init")
       /\ UNCHANGED <<state, retry, flags, model, proxy, stops, attempt, ok>>

StopForInit ==
    \/ TakeProxies(Downloader, "stop", "stopdrain")
    \/ Drained(Downloader, "stopdrain", "init", FALSE)

\* PIIDetector::Initialize does nothing when the model is loaded already.
BeginInit ==
    /\ pc[Downloader] = "init"
    /\ IF detector = "ready"
       THEN Goto(Downloader, "start") /\ UNCHANGED detector
       ELSE Goto(Downloader, "loading") /\ detector' = "starting"
    /\ UNCHANGED <<locks, flags, weights, proxy, stops, attempt, ok>>

\* Weights that do not load are deleted, for the next download to replace.
EndInit ==
    /\ pc[Downloader] = "loading"
    /\ \/ /\ weights = "good"
          /\ detector' = "ready"
          /\ Goto(Downloader, "start")
          /\ UNCHANGED <<weights, ok>>
       \/ /\ detector' = "off"
          /\ weights' = "missing"
          /\ ok' = FALSE
          /\ Goto(Downloader, "finish")
    /\ UNCHANGED <<locks, flags, proxy, stops, attempt>>

StartAfterInit ==
    \/ TakeProxies(Downloader, "start", "startdrain")
    \/ Drained(Downloader, "startdrain", "finish", TRUE)

\* Slip: the block is lifted whether or not the model is there.
EndDownloadLifts ==
    /\ pc[Downloader] = "finish"
    /\ state = Free
    /\ inProgress' = FALSE /\ waiting' = FALSE
    /\ failed' = ~ok
    /\ required' = FALSE
    /\ Goto(Downloader, "idle")
    /\ UNCHANGED <<locks, retryNow, model, proxy, stops, attempt, ok>>


EndDownload ==
    /\ pc[Downloader] = "finish"
    /\ state = Free
    /\ inProgress' = FALSE /\ waiting' = FALSE
    /\ failed' = ~ok
    /\ required' = (required /\ ~ok)
    /\ Goto(Downloader, "idle")
    /\ UNCHANGED <<locks, retryNow, model, proxy, stops, attempt, ok>>

Download ==
    \/ Attempt \/ PrepareRetry \/ Awake \/ StopForInit \/ BeginInit \/ EndInit
    \/ StartAfterInit \/ EndDownload

Serve(c) ==
    \/ StartDownload(c) \/ AskRetry(c) \/ Wake(c)
    \/ RestartProxies(c) \/ Status(c) \/ Stop(c)

Next ==
    \/ Boot
    \/ Shutdown
    \/ \E c \in Callers : Call(c) \/ Serve(c) \/ RequestStop(c)
    \/ Download
    \/ \E r \in Requests : Arrive(r) \/ Finish(r)

Spec == Init /\ [][Next]_vars

\* A thread waits for the servers to stop: for the requests and the idle
\* connections of their clients, for which there is no timeout.
Draining(t) == pc[t] \in {"restartdrain", "startdrain", "stopdrain", "quitdrain", "quitagaindrain"}
StopsServers(t) == Draining(t) \/ pc[t] = "quitcontrol"

\* A thread that can go on time and again does, waiting for a mutex included; but
\* no server has to stop, no request has to end, and nobody has to call.
Fairness ==
    /\ SF_vars(~StopsServers(Main) /\ Boot)
    /\ SF_vars(~StopsServers(Main) /\ Shutdown)
    /\ \A c \in Callers : SF_vars(~StopsServers(c) /\ Serve(c)) /\ WF_vars(RequestStop(c))
    /\ SF_vars(~StopsServers(Downloader) /\ Download)

FairSpec == Spec /\ Fairness

-----------------------------------------------------------------------------
(* Properties *)

CallerSteps == {"idle", "download", "wake", "restart", "restartdrain", "status", "ports",
                "stop"}
DownloaderSteps == {"idle", "attempt", "failed", "announce", "sleep", "awake", "stop",
                    "stopdrain", "init", "loading", "start", "startdrain", "finish"}
MainSteps == {"boot", "start", "startdrain", "idle", "quit", "quitdrain", "quitcontrol",
              "quitagain", "quitagaindrain", "gone"}

\* Types, the bound of the attempts included: the code promises at most
\* maxAttempts of them between two requests to retry.
TypeOK ==
    /\ {state, retry, proxies} \subseteq Thread \cup {Free}
    /\ {required, inProgress, failed, waiting, retryNow, up, ok, stopping} \subseteq BOOLEAN
    /\ weights \in {"missing", "good", "corrupt"}
    /\ detector \in {"off", "starting", "ready"}
    /\ serving \subseteq Requests
    /\ stopThread \in [Callers -> {"none", "asleep", "telling"}]
    /\ pc \in [Thread -> CallerSteps \cup DownloaderSteps \cup MainSteps]
    /\ attempt \in 0..MaxAttempts

\* Nothing is served while the first-run download is pending: requests are in
\* flight only once the model is loaded.
NoTrafficWhileBlocked == required /\ serving # {} => detector = "ready"

\* No request is in flight while the detector initializes.
DetectorAlone == detector = "starting" => serving = {}

\* The block is lifted only by a model that is loaded, and never comes back.
LiftedByModel ==
    [][required # required' => required /\ detector = "ready"]_vars

\* A download thread never gives up while a retry the user asked for is pending.
RetryHonoured ==
    [][failed' /\ ~failed => ~retryNow]_vars

\* Nothing runs in the engine but its stop threads: no proxy, no request, no call,
\* no download.
Quiet ==
    /\ ~up /\ serving = {}
    /\ \A t \in Callers \cup {Downloader} : pc[t] = "idle"

\* Whatever clients ask and when: an engine that ends leaves nothing behind that
\* still runs in it but a download (Shutdown stops the proxies before the control
\* server and again after it), and once that is over, too, nothing starts again.
LeavesQuietly ==
    [][/\ pc[Main] # "gone" /\ pc'[Main] = "gone" =>
             ~up' /\ serving' = {} /\ \A c \in Callers : pc'[c] = "idle"
       /\ pc[Main] = "gone" /\ Quiet => Quiet']_vars

\* An engine that is gone leaves no download behind either.
GoneIsQuiet == pc[Main] = "gone" => Quiet

\* No thread that was to stop an engine outlives it.
NoLateStop == pc[Main] = "gone" => \A c \in Callers : stopThread[c] = "none"

\* A stop of servers that need not return: its calls are answered, and a client
\* keeps a connection.
Held(t) ==
    Draining(t) \/ (pc[t] = "quitcontrol" /\ \A c \in Callers : pc[c] = "idle")
HeldForEver == [](\E t \in Thread : Held(t))

\* An engine that is asked to stop does, unless its clients hold one of its servers.
StopEnds ==
    (\E c \in Callers : pc[c] = "stop" \/ stopThread[c] = "asleep")
        ~> (pc[Main] = "gone" \/ HeldForEver)

\* What the download relies on and does with the weights.
Contract == INSTANCE ModelContract WITH answer <- IF ok THEN "ok" ELSE "none"
KeepsModelContract == Contract!Spec

\* A control call is answered, a request to retry included, unless clients hold a
\* proxy: no call waits for another, or for the download.
CallsReturn == \A c \in Callers : pc[c] # "idle" ~> (pc[c] = "idle" \/ HeldForEver)

=============================================================================
