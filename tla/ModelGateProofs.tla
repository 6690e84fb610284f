--------------------------- MODULE ModelGateProofs ---------------------------
(***************************************************************************)
(* Proofs about ModelGate, for any number of callers, requests and attempts:  *)
(* types; that the block of the first run is lifted by a loaded model only;   *)
(* that an engine that ends leaves nothing running but a download; that nothing *)
(* is served while the block lasts, if nobody restarts the proxies; and, for    *)
(* polite clients, that the detector loads with no request in flight.          *)
(*                                                                         *)
(* The argument is about the steps of the threads: who drains holds the       *)
(* mutex of the proxies (ProxyInv), and what the download thread has found    *)
(* and done is known from where it is (DownloadInv).                          *)
(***************************************************************************)
EXTENDS ModelGate, TLAPS

USE GateAssumption

-----------------------------------------------------------------------------
(* The inductive invariant *)

Flags == {required, inProgress, failed, waiting, retryNow, up, ok, stopping} \subseteq BOOLEAN

PcInv ==
    /\ pc \in [Thread -> CallerSteps \cup DownloaderSteps \cup MainSteps]
    /\ \A c \in Callers : pc[c] \in CallerSteps
    /\ pc[Downloader] \in DownloaderSteps
    /\ pc[Main] \in MainSteps

ModelInv ==
    /\ weights \in {"missing", "good", "corrupt"}
    /\ detector \in {"off", "starting", "ready"}
    /\ serving \subseteq Requests

StopInv == stopThread \in [Callers -> {"none", "asleep", "telling"}]

LockInv == {state, retry, proxies} \subseteq Thread \cup {Free}

\* The code's bound: an attempt follows only if one is left.
AttemptInv ==
    /\ attempt \in 0..MaxAttempts
    /\ pc[Downloader] \in {"attempt", "failed", "announce", "sleep", "awake"} =>
           attempt < MaxAttempts

\* Who waits for requests to drain holds the mutex, and the proxies are down.
Drains == {"restartdrain", "startdrain", "stopdrain", "quitdrain", "quitagaindrain"}
ProxyInv ==
    /\ \A t \in Thread : pc[t] \in Drains => proxies = t
    /\ proxies # Free => ~up

\* Where the download thread is says what it has.
DownloadInv ==
    /\ inProgress <=> pc[Downloader] # "idle"
    /\ pc[Downloader] \in {"attempt", "failed", "announce", "sleep", "awake"} => ~ok
    /\ pc[Downloader] \in {"stop", "stopdrain", "init", "loading", "start", "startdrain"} => ok
    /\ pc[Downloader] \in {"start", "startdrain"} => detector = "ready"
    /\ pc[Downloader] = "finish" /\ ok => detector = "ready"
    /\ detector = "starting" <=> pc[Downloader] = "loading"

\* Nobody restarts the proxies: they come up with the block lifted, or with the
\* model.
TrafficInv ==
    "restart" \notin Calls =>
        /\ \A c \in Callers : pc[c] \notin {"restart", "restartdrain"}
        /\ pc[Main] \in {"start", "startdrain"} => ~required
        /\ up \/ serving # {} => ~required \/ detector = "ready"

\* The order that polite clients keep.
PoliteInv ==
    Polite =>
        /\ pc[Main] \in {"boot", "start", "startdrain"} =>
               /\ ~inProgress /\ ~stopping
               /\ ~Asking({"download", "wake", "restart", "restartdrain", "stop"})
               /\ \A c \in Callers : stopThread[c] = "none"
        /\ Asking({"restart", "restartdrain"}) => ~inProgress /\ ~Asking({"download"})
        /\ (stopping \/ Asking({"stop"}) \/ \E c \in Callers : stopThread[c] # "none") =>
               ~inProgress /\ ~Asking({"download"})
        /\ Asking({"download"}) => ~inProgress
        /\ ~Asking({"wake"})
        /\ \A c, d \in Callers : pc[c] = "download" /\ pc[d] = "download" => c = d

\* What the download thread has drained stays so until it is done.
AloneInv == Polite /\ pc[Downloader] \in {"init", "loading"} => ~up /\ serving = {}

\* The end of the main thread.
GoneInv ==
    /\ pc[Main] \in {"quit", "quitdrain", "quitcontrol", "quitagain", "quitagaindrain", "gone"} =>
           stopping
    /\ pc[Main] \in {"quitagain", "quitagaindrain", "gone"} => \A c \in Callers : pc[c] = "idle"

IInv ==
    /\ Flags /\ PcInv /\ ModelInv /\ StopInv /\ LockInv /\ AttemptInv /\ ProxyInv /\ DownloadInv
    /\ TrafficInv /\ PoliteInv /\ AloneInv /\ GoneInv
-----------------------------------------------------------------------------
(* Every step keeps each part *)

\* The Boolean variables stay so.
LEMMA NextFlags == Flags /\ [Next]_vars => Flags'
<1> SUFFICES ASSUME Flags, [Next]_vars PROVE Flags'
  OBVIOUS
<1> USE DEF Flags, locks, flags, model, proxy, stops
<1>1. CASE Boot
  BY <1>1 DEF Boot, TakeProxies, Drained, Goto
<1>2. CASE Shutdown
  BY <1>2 DEF Shutdown, TakeProxies, Drained, Goto
<1>3. ASSUME NEW c \in Callers, Call(c) PROVE Flags'
  BY <1>3 DEF Call, AtEase, Asking, Answering, Goto
<1>4. ASSUME NEW c \in Callers, StartDownload(c) \/ AskRetry(c) \/ Wake(c) PROVE Flags'
  BY <1>4 DEF StartDownload, AskRetry, Wake, Goto
<1>5. ASSUME NEW c \in Callers, RestartProxies(c) PROVE Flags'
  BY <1>5 DEF RestartProxies, TakeProxies, Drained, Goto
<1>6. ASSUME NEW c \in Callers, Status(c) \/ Stop(c) PROVE Flags'
  BY <1>6 DEF Status, Stop, Goto
<1>7. CASE Attempt \/ PrepareRetry \/ Awake
  BY <1>7 DEF Attempt, PrepareRetry, Awake, Goto
<1>8. CASE StopForInit \/ StartAfterInit
  BY <1>8 DEF StopForInit, StartAfterInit, TakeProxies, Drained, Goto
<1>9. CASE BeginInit \/ EndInit \/ EndDownload
  BY <1>9 DEF BeginInit, EndInit, EndDownload, Goto
<1>10. ASSUME NEW r \in Requests, Arrive(r) \/ Finish(r) PROVE Flags'
  BY <1>10 DEF Arrive, Finish
<1>12. ASSUME NEW c \in Callers, RequestStop(c) PROVE Flags'
  BY <1>12 DEF RequestStop
<1>11. CASE UNCHANGED vars
  BY <1>11 DEF vars
<1> QED BY <1>1, <1>2, <1>3, <1>4, <1>5, <1>6, <1>7, <1>8, <1>9, <1>10, <1>11, <1>12 DEF Next, Serve, Download

\* Each thread keeps to its own steps.
LEMMA NextPcInv == PcInv /\ [Next]_vars => PcInv'
<1> SUFFICES ASSUME PcInv, [Next]_vars PROVE PcInv'
  OBVIOUS
<1> USE DEF PcInv, Thread, CallerSteps, DownloaderSteps, MainSteps, locks, flags, model, proxy, stops
<1>1. CASE Boot
  BY <1>1 DEF Boot, TakeProxies, Drained, Goto
<1>2. CASE Shutdown
  BY <1>2 DEF Shutdown, TakeProxies, Drained, Goto
<1>3. ASSUME NEW c \in Callers, Call(c) PROVE PcInv'
  <2>1. PICK s \in Calls : pc' = [pc EXCEPT ![c] = s]
    BY <1>3 DEF Call, Goto
  <2>2. s \in CallerSteps
    BY <2>1
  <2> QED BY <2>1, <2>2
<1>4. ASSUME NEW c \in Callers, StartDownload(c) \/ AskRetry(c) \/ Wake(c) PROVE PcInv'
  BY <1>4 DEF StartDownload, AskRetry, Wake, Goto
<1>5. ASSUME NEW c \in Callers, RestartProxies(c) PROVE PcInv'
  BY <1>5 DEF RestartProxies, TakeProxies, Drained, Goto
<1>6. ASSUME NEW c \in Callers, Status(c) \/ Stop(c) PROVE PcInv'
  BY <1>6 DEF Status, Stop, Goto
<1>7. CASE Attempt \/ PrepareRetry \/ Awake
  BY <1>7 DEF Attempt, PrepareRetry, Awake, Goto
<1>8. CASE StopForInit \/ StartAfterInit
  BY <1>8 DEF StopForInit, StartAfterInit, TakeProxies, Drained, Goto
<1>9. CASE BeginInit \/ EndInit \/ EndDownload
  BY <1>9 DEF BeginInit, EndInit, EndDownload, Goto
<1>10. ASSUME NEW r \in Requests, Arrive(r) \/ Finish(r) PROVE PcInv'
  BY <1>10 DEF Arrive, Finish
<1>12. ASSUME NEW c \in Callers, RequestStop(c) PROVE PcInv'
  BY <1>12 DEF RequestStop
<1>11. CASE UNCHANGED vars
  BY <1>11 DEF vars
<1> QED BY <1>1, <1>2, <1>3, <1>4, <1>5, <1>6, <1>7, <1>8, <1>9, <1>10, <1>11, <1>12 DEF Next, Serve, Download

\* Weights, detector and requests keep their type.
LEMMA NextModelInv == ModelInv /\ [Next]_vars => ModelInv'
<1> SUFFICES ASSUME ModelInv, [Next]_vars PROVE ModelInv'
  OBVIOUS
<1> USE DEF ModelInv, locks, flags, model, proxy, stops
<1>1. CASE Boot
  BY <1>1 DEF Boot, TakeProxies, Drained, Goto
<1>2. CASE Shutdown
  BY <1>2 DEF Shutdown, TakeProxies, Drained, Goto
<1>3. ASSUME NEW c \in Callers, Call(c) PROVE ModelInv'
  BY <1>3 DEF Call, AtEase, Asking, Answering, Goto
<1>4. ASSUME NEW c \in Callers, StartDownload(c) \/ AskRetry(c) \/ Wake(c) PROVE ModelInv'
  BY <1>4 DEF StartDownload, AskRetry, Wake, Goto
<1>5. ASSUME NEW c \in Callers, RestartProxies(c) PROVE ModelInv'
  BY <1>5 DEF RestartProxies, TakeProxies, Drained, Goto
<1>6. ASSUME NEW c \in Callers, Status(c) \/ Stop(c) PROVE ModelInv'
  BY <1>6 DEF Status, Stop, Goto
<1>7. CASE Attempt \/ PrepareRetry \/ Awake
  BY <1>7 DEF Attempt, PrepareRetry, Awake, Goto
<1>8. CASE StopForInit \/ StartAfterInit
  BY <1>8 DEF StopForInit, StartAfterInit, TakeProxies, Drained, Goto
<1>9. CASE BeginInit \/ EndInit \/ EndDownload
  BY <1>9 DEF BeginInit, EndInit, EndDownload, Goto
<1>10. ASSUME NEW r \in Requests, Arrive(r) \/ Finish(r) PROVE ModelInv'
  BY <1>10 DEF Arrive, Finish
<1>12. ASSUME NEW c \in Callers, RequestStop(c) PROVE ModelInv'
  BY <1>12 DEF RequestStop
<1>11. CASE UNCHANGED vars
  BY <1>11 DEF vars
<1> QED BY <1>1, <1>2, <1>3, <1>4, <1>5, <1>6, <1>7, <1>8, <1>9, <1>10, <1>11, <1>12 DEF Next, Serve, Download

\* A mutex is free or owned by a thread.
LEMMA NextLockInv == LockInv /\ [Next]_vars => LockInv'
<1> SUFFICES ASSUME LockInv, [Next]_vars PROVE LockInv'
  OBVIOUS
<1> USE DEF LockInv, Thread, locks, flags, model, proxy, stops
<1>1. CASE Boot
  BY <1>1 DEF Boot, TakeProxies, Drained, Goto
<1>2. CASE Shutdown
  BY <1>2 DEF Shutdown, TakeProxies, Drained, Goto
<1>3. ASSUME NEW c \in Callers, Call(c) PROVE LockInv'
  BY <1>3 DEF Call, AtEase, Asking, Answering, Goto
<1>4. ASSUME NEW c \in Callers, StartDownload(c) \/ AskRetry(c) \/ Wake(c) PROVE LockInv'
  BY <1>4 DEF StartDownload, AskRetry, Wake, Goto
<1>5. ASSUME NEW c \in Callers, RestartProxies(c) PROVE LockInv'
  BY <1>5 DEF RestartProxies, TakeProxies, Drained, Goto
<1>6. ASSUME NEW c \in Callers, Status(c) \/ Stop(c) PROVE LockInv'
  BY <1>6 DEF Status, Stop, Goto
<1>7. CASE Attempt \/ PrepareRetry \/ Awake
  BY <1>7 DEF Attempt, PrepareRetry, Awake, Goto
<1>8. CASE StopForInit \/ StartAfterInit
  BY <1>8 DEF StopForInit, StartAfterInit, TakeProxies, Drained, Goto
<1>9. CASE BeginInit \/ EndInit \/ EndDownload
  BY <1>9 DEF BeginInit, EndInit, EndDownload, Goto
<1>10. ASSUME NEW r \in Requests, Arrive(r) \/ Finish(r) PROVE LockInv'
  BY <1>10 DEF Arrive, Finish
<1>12. ASSUME NEW c \in Callers, RequestStop(c) PROVE LockInv'
  BY <1>12 DEF RequestStop
<1>11. CASE UNCHANGED vars
  BY <1>11 DEF vars
<1> QED BY <1>1, <1>2, <1>3, <1>4, <1>5, <1>6, <1>7, <1>8, <1>9, <1>10, <1>11, <1>12 DEF Next, Serve, Download

\* The threads that are to stop the engine keep their type.
LEMMA NextStopInv == StopInv /\ [Next]_vars => StopInv'
<1> SUFFICES ASSUME StopInv, [Next]_vars PROVE StopInv'
  OBVIOUS
<1> USE DEF StopInv, locks, flags, model, proxy, stops
<1>1. CASE Boot
  BY <1>1 DEF Boot, TakeProxies, Drained, Goto
<1>2. CASE Shutdown
  BY <1>2 DEF Shutdown, TakeProxies, Drained, Goto
<1>3. ASSUME NEW c \in Callers, Call(c) PROVE StopInv'
  BY <1>3 DEF Call, AtEase, Asking, Answering, Goto
<1>4. ASSUME NEW c \in Callers, StartDownload(c) \/ AskRetry(c) \/ Wake(c) PROVE StopInv'
  BY <1>4 DEF StartDownload, AskRetry, Wake, Goto
<1>5. ASSUME NEW c \in Callers, RestartProxies(c) PROVE StopInv'
  BY <1>5 DEF RestartProxies, TakeProxies, Drained, Goto
<1>6. ASSUME NEW c \in Callers, Status(c) \/ Stop(c) PROVE StopInv'
  BY <1>6 DEF Status, Stop, Goto
<1>7. CASE Attempt \/ PrepareRetry \/ Awake
  BY <1>7 DEF Attempt, PrepareRetry, Awake, Goto
<1>8. CASE StopForInit \/ StartAfterInit
  BY <1>8 DEF StopForInit, StartAfterInit, TakeProxies, Drained, Goto
<1>9. CASE BeginInit \/ EndInit \/ EndDownload
  BY <1>9 DEF BeginInit, EndInit, EndDownload, Goto
<1>10. ASSUME NEW r \in Requests, Arrive(r) \/ Finish(r) PROVE StopInv'
  BY <1>10 DEF Arrive, Finish
<1>12. ASSUME NEW c \in Callers, RequestStop(c) PROVE StopInv'
  BY <1>12 DEF RequestStop
<1>11. CASE UNCHANGED vars
  BY <1>11 DEF vars
<1> QED BY <1>1, <1>2, <1>3, <1>4, <1>5, <1>6, <1>7, <1>8, <1>9, <1>10, <1>11, <1>12 DEF Next, Serve, Download

\* The sleep before an attempt begins only if one is left, and a request can only reset the count.
LEMMA NextAttemptInv == PcInv /\ AttemptInv /\ [Next]_vars => AttemptInv'
<1> SUFFICES ASSUME PcInv, AttemptInv, [Next]_vars PROVE AttemptInv'
  OBVIOUS
<1> USE DEF AttemptInv, PcInv, Thread, locks, flags, model, proxy, stops
<1>1. CASE Boot
  BY <1>1 DEF Boot, TakeProxies, Drained, Goto
<1>2. CASE Shutdown
  BY <1>2 DEF Shutdown, TakeProxies, Drained, Goto
<1>3. ASSUME NEW c \in Callers, Call(c) PROVE AttemptInv'
  BY <1>3 DEF Call, AtEase, Asking, Answering, Goto
<1>4. ASSUME NEW c \in Callers, StartDownload(c) \/ AskRetry(c) \/ Wake(c) PROVE AttemptInv'
  BY <1>4 DEF StartDownload, AskRetry, Wake, Goto
<1>5. ASSUME NEW c \in Callers, RestartProxies(c) PROVE AttemptInv'
  BY <1>5 DEF RestartProxies, TakeProxies, Drained, Goto
<1>6. ASSUME NEW c \in Callers, Status(c) \/ Stop(c) PROVE AttemptInv'
  BY <1>6 DEF Status, Stop, Goto
<1>7. CASE Attempt \/ PrepareRetry \/ Awake
  BY <1>7 DEF Attempt, PrepareRetry, Awake, Goto
<1>8. CASE StopForInit \/ StartAfterInit
  BY <1>8 DEF StopForInit, StartAfterInit, TakeProxies, Drained, Goto
<1>9. CASE BeginInit \/ EndInit \/ EndDownload
  BY <1>9 DEF BeginInit, EndInit, EndDownload, Goto
<1>10. ASSUME NEW r \in Requests, Arrive(r) \/ Finish(r) PROVE AttemptInv'
  BY <1>10 DEF Arrive, Finish
<1>12. ASSUME NEW c \in Callers, RequestStop(c) PROVE AttemptInv'
  BY <1>12 DEF RequestStop
<1>11. CASE UNCHANGED vars
  BY <1>11 DEF vars
<1> QED BY <1>1, <1>2, <1>3, <1>4, <1>5, <1>6, <1>7, <1>8, <1>9, <1>10, <1>11, <1>12 DEF Next, Serve, Download

\* A thread that drains keeps the others, which all take the mutex first, from starting the proxies.
LEMMA NextProxyInv == PcInv /\ ProxyInv /\ [Next]_vars => ProxyInv'
<1> SUFFICES ASSUME PcInv, ProxyInv, [Next]_vars PROVE ProxyInv'
  OBVIOUS
<1> USE DEF ProxyInv, PcInv, Thread, Drains, CallerSteps, DownloaderSteps, MainSteps, locks, flags, model, proxy, stops
<1>1. CASE Boot
  BY <1>1 DEF Boot, TakeProxies, Drained, Goto
<1>2. CASE Shutdown
  BY <1>2 DEF Shutdown, TakeProxies, Drained, Goto
<1>3. ASSUME NEW c \in Callers, Call(c) PROVE ProxyInv'
  BY <1>3 DEF Call, AtEase, Asking, Answering, Goto
<1>4. ASSUME NEW c \in Callers, StartDownload(c) \/ AskRetry(c) \/ Wake(c) PROVE ProxyInv'
  BY <1>4 DEF StartDownload, AskRetry, Wake, Goto
<1>5. ASSUME NEW c \in Callers, RestartProxies(c) PROVE ProxyInv'
  BY <1>5 DEF RestartProxies, TakeProxies, Drained, Goto
<1>6. ASSUME NEW c \in Callers, Status(c) \/ Stop(c) PROVE ProxyInv'
  BY <1>6 DEF Status, Stop, Goto
<1>7. CASE Attempt \/ PrepareRetry \/ Awake
  BY <1>7 DEF Attempt, PrepareRetry, Awake, Goto
<1>8. CASE StopForInit \/ StartAfterInit
  BY <1>8 DEF StopForInit, StartAfterInit, TakeProxies, Drained, Goto
<1>9. CASE BeginInit \/ EndInit \/ EndDownload
  BY <1>9 DEF BeginInit, EndInit, EndDownload, Goto
<1>10. ASSUME NEW r \in Requests, Arrive(r) \/ Finish(r) PROVE ProxyInv'
  BY <1>10 DEF Arrive, Finish
<1>12. ASSUME NEW c \in Callers, RequestStop(c) PROVE ProxyInv'
  BY <1>12 DEF RequestStop
<1>11. CASE UNCHANGED vars
  BY <1>11 DEF vars
<1> QED BY <1>1, <1>2, <1>3, <1>4, <1>5, <1>6, <1>7, <1>8, <1>9, <1>10, <1>11, <1>12 DEF Next, Serve, Download

\* One download thread at a time, and only it loads the detector.
LEMMA NextDownloadInv == Flags /\ PcInv /\ DownloadInv /\ [Next]_vars => DownloadInv'
<1> SUFFICES ASSUME Flags, PcInv, DownloadInv, [Next]_vars PROVE DownloadInv'
  OBVIOUS
<1> USE DEF DownloadInv, PcInv, Thread, locks, flags, model, proxy, stops
<1>1. CASE Boot
  BY <1>1 DEF Boot, TakeProxies, Drained, Goto
<1>2. CASE Shutdown
  BY <1>2 DEF Shutdown, TakeProxies, Drained, Goto
<1>3. ASSUME NEW c \in Callers, Call(c) PROVE DownloadInv'
  BY <1>3 DEF Call, AtEase, Asking, Answering, Goto
<1>4. ASSUME NEW c \in Callers, StartDownload(c) \/ AskRetry(c) \/ Wake(c) PROVE DownloadInv'
  BY <1>4 DEF StartDownload, AskRetry, Wake, Goto
<1>5. ASSUME NEW c \in Callers, RestartProxies(c) PROVE DownloadInv'
  BY <1>5 DEF RestartProxies, TakeProxies, Drained, Goto
<1>6. ASSUME NEW c \in Callers, Status(c) \/ Stop(c) PROVE DownloadInv'
  BY <1>6 DEF Status, Stop, Goto
<1>7. CASE Attempt \/ PrepareRetry \/ Awake
  BY <1>7 DEF Attempt, PrepareRetry, Awake, Goto
<1>8. CASE StopForInit \/ StartAfterInit
  BY <1>8 DEF StopForInit, StartAfterInit, TakeProxies, Drained, Goto
<1>9. CASE BeginInit \/ EndInit \/ EndDownload
  BY <1>9 DEF BeginInit, EndInit, EndDownload, Goto
<1>10. ASSUME NEW r \in Requests, Arrive(r) \/ Finish(r) PROVE DownloadInv'
  BY <1>10 DEF Arrive, Finish
<1>12. ASSUME NEW c \in Callers, RequestStop(c) PROVE DownloadInv'
  BY <1>12 DEF RequestStop
<1>11. CASE UNCHANGED vars
  BY <1>11 DEF vars
<1> QED BY <1>1, <1>2, <1>3, <1>4, <1>5, <1>6, <1>7, <1>8, <1>9, <1>10, <1>11, <1>12 DEF Next, Serve, Download

\* The proxies start at boot, not blocked, or after the model is loaded; a block is lifted with the model loaded.
LEMMA NextTrafficInv == PcInv /\ ModelInv /\ DownloadInv /\ TrafficInv /\ [Next]_vars => TrafficInv'
<1> SUFFICES ASSUME PcInv, ModelInv, DownloadInv, TrafficInv, [Next]_vars PROVE TrafficInv'
  OBVIOUS
<1> USE DEF TrafficInv, DownloadInv, PcInv, ModelInv, Thread, locks, flags, model, proxy, stops
<1>1. CASE Boot
  BY <1>1 DEF Boot, TakeProxies, Drained, Goto
<1>2. CASE Shutdown
  BY <1>2 DEF Shutdown, TakeProxies, Drained, Goto
<1>3. ASSUME NEW c \in Callers, Call(c) PROVE TrafficInv'
  BY <1>3 DEF Call, AtEase, Asking, Answering, Goto
<1>4. ASSUME NEW c \in Callers, StartDownload(c) \/ AskRetry(c) \/ Wake(c) PROVE TrafficInv'
  BY <1>4 DEF StartDownload, AskRetry, Wake, Goto
<1>5. ASSUME NEW c \in Callers, RestartProxies(c) PROVE TrafficInv'
  BY <1>5 DEF RestartProxies, TakeProxies, Drained, Goto
<1>6. ASSUME NEW c \in Callers, Status(c) \/ Stop(c) PROVE TrafficInv'
  BY <1>6 DEF Status, Stop, Goto
<1>7. CASE Attempt \/ PrepareRetry \/ Awake
  BY <1>7 DEF Attempt, PrepareRetry, Awake, Goto
<1>8. CASE StopForInit \/ StartAfterInit
  BY <1>8 DEF StopForInit, StartAfterInit, TakeProxies, Drained, Goto
<1>9. CASE BeginInit \/ EndInit \/ EndDownload
  BY <1>9 DEF BeginInit, EndInit, EndDownload, Goto
<1>10. ASSUME NEW r \in Requests, Arrive(r) \/ Finish(r) PROVE TrafficInv'
  BY <1>10 DEF Arrive, Finish
<1>12. ASSUME NEW c \in Callers, RequestStop(c) PROVE TrafficInv'
  BY <1>12 DEF RequestStop
<1>11. CASE UNCHANGED vars
  BY <1>11 DEF vars
<1> QED BY <1>1, <1>2, <1>3, <1>4, <1>5, <1>6, <1>7, <1>8, <1>9, <1>10, <1>11, <1>12 DEF Next, Serve, Download

\* What a polite client looks at stays so until its call is over.
LEMMA NextPoliteInv == PcInv /\ DownloadInv /\ PoliteInv /\ [Next]_vars => PoliteInv'
<1> SUFFICES ASSUME PcInv, DownloadInv, PoliteInv, [Next]_vars PROVE PoliteInv'
  OBVIOUS
<1> USE DEF PoliteInv, PcInv, DownloadInv, Asking, Thread, locks, flags, model, proxy, stops
<1>1. CASE Boot
  BY <1>1 DEF Boot, TakeProxies, Drained, Goto
<1>2. CASE Shutdown
  BY <1>2 DEF Shutdown, TakeProxies, Drained, Goto
<1>3. ASSUME NEW c \in Callers, Call(c) PROVE PoliteInv'
  BY <1>3 DEF Call, AtEase, Asking, Answering, Goto
<1>4. ASSUME NEW c \in Callers, StartDownload(c) \/ AskRetry(c) \/ Wake(c) PROVE PoliteInv'
  BY <1>4 DEF StartDownload, AskRetry, Wake, Goto
<1>5. ASSUME NEW c \in Callers, RestartProxies(c) PROVE PoliteInv'
  BY <1>5 DEF RestartProxies, TakeProxies, Drained, Goto
<1>6. ASSUME NEW c \in Callers, Status(c) \/ Stop(c) PROVE PoliteInv'
  BY <1>6 DEF Status, Stop, Goto
<1>7. CASE Attempt \/ PrepareRetry \/ Awake
  BY <1>7 DEF Attempt, PrepareRetry, Awake, Goto
<1>8. CASE StopForInit \/ StartAfterInit
  BY <1>8 DEF StopForInit, StartAfterInit, TakeProxies, Drained, Goto
<1>9. CASE BeginInit \/ EndInit \/ EndDownload
  BY <1>9 DEF BeginInit, EndInit, EndDownload, Goto
<1>10. ASSUME NEW r \in Requests, Arrive(r) \/ Finish(r) PROVE PoliteInv'
  BY <1>10 DEF Arrive, Finish
<1>12. ASSUME NEW c \in Callers, RequestStop(c) PROVE PoliteInv'
  <2>1. stopThread[c] # "none"
    BY <1>12 DEF RequestStop
  <2>2. UNCHANGED <<pc, inProgress>>
    BY <1>12 DEF RequestStop
  <2> QED BY <2>1, <2>2
<1>11. CASE UNCHANGED vars
  BY <1>11 DEF vars
<1> QED BY <1>1, <1>2, <1>3, <1>4, <1>5, <1>6, <1>7, <1>8, <1>9, <1>10, <1>11, <1>12 DEF Next, Serve, Download

\* Between the download thread's stop and start of the proxies nobody else starts them.
LEMMA NextAloneInv == PcInv /\ ProxyInv /\ DownloadInv /\ PoliteInv /\ AloneInv /\ [Next]_vars => AloneInv'
<1> SUFFICES ASSUME PcInv, ProxyInv, DownloadInv, PoliteInv, AloneInv, [Next]_vars PROVE AloneInv'
  OBVIOUS
<1> USE DEF AloneInv, PoliteInv, ProxyInv, Drains, PcInv, DownloadInv, Asking, Thread, locks, flags, model, proxy, stops
<1>1. CASE Boot
  BY <1>1 DEF Boot, TakeProxies, Drained, Goto
<1>2. CASE Shutdown
  BY <1>2 DEF Shutdown, TakeProxies, Drained, Goto
<1>3. ASSUME NEW c \in Callers, Call(c) PROVE AloneInv'
  BY <1>3 DEF Call, AtEase, Asking, Answering, Goto
<1>4. ASSUME NEW c \in Callers, StartDownload(c) \/ AskRetry(c) \/ Wake(c) PROVE AloneInv'
  BY <1>4 DEF StartDownload, AskRetry, Wake, Goto
<1>5. ASSUME NEW c \in Callers, RestartProxies(c) PROVE AloneInv'
  BY <1>5 DEF RestartProxies, TakeProxies, Drained, Goto
<1>6. ASSUME NEW c \in Callers, Status(c) \/ Stop(c) PROVE AloneInv'
  BY <1>6 DEF Status, Stop, Goto
<1>7. CASE Attempt \/ PrepareRetry \/ Awake
  BY <1>7 DEF Attempt, PrepareRetry, Awake, Goto
<1>8. CASE StopForInit \/ StartAfterInit
  BY <1>8 DEF StopForInit, StartAfterInit, TakeProxies, Drained, Goto
<1>9. CASE BeginInit \/ EndInit \/ EndDownload
  BY <1>9 DEF BeginInit, EndInit, EndDownload, Goto
<1>10. ASSUME NEW r \in Requests, Arrive(r) \/ Finish(r) PROVE AloneInv'
  BY <1>10 DEF Arrive, Finish
<1>12. ASSUME NEW c \in Callers, RequestStop(c) PROVE AloneInv'
  BY <1>12 DEF RequestStop
<1>11. CASE UNCHANGED vars
  BY <1>11 DEF vars
<1> QED BY <1>1, <1>2, <1>3, <1>4, <1>5, <1>6, <1>7, <1>8, <1>9, <1>10, <1>11, <1>12 DEF Next, Serve, Download

\* The control server stops when its calls are over, and the last stop of the proxies comes after.
LEMMA NextGoneInv == PcInv /\ ProxyInv /\ DownloadInv /\ PoliteInv /\ GoneInv /\ [Next]_vars => GoneInv'
<1> SUFFICES ASSUME PcInv, ProxyInv, DownloadInv, PoliteInv, GoneInv, [Next]_vars PROVE GoneInv'
  OBVIOUS
<1> USE DEF GoneInv, PoliteInv, ProxyInv, Drains, PcInv, DownloadInv, Asking, Thread, locks, flags, model, proxy, stops
<1>1. CASE Boot
  BY <1>1 DEF Boot, TakeProxies, Drained, Goto
<1>2. CASE Shutdown
  BY <1>2 DEF Shutdown, TakeProxies, Drained, Goto
<1>3. ASSUME NEW c \in Callers, Call(c) PROVE GoneInv'
  BY <1>3 DEF Call, AtEase, Asking, Answering, Goto
<1>4. ASSUME NEW c \in Callers, StartDownload(c) \/ AskRetry(c) \/ Wake(c) PROVE GoneInv'
  BY <1>4 DEF StartDownload, AskRetry, Wake, Goto
<1>5. ASSUME NEW c \in Callers, RestartProxies(c) PROVE GoneInv'
  BY <1>5 DEF RestartProxies, TakeProxies, Drained, Goto
<1>6. ASSUME NEW c \in Callers, Status(c) \/ Stop(c) PROVE GoneInv'
  BY <1>6 DEF Status, Stop, Goto
<1>7. CASE Attempt \/ PrepareRetry \/ Awake
  BY <1>7 DEF Attempt, PrepareRetry, Awake, Goto
<1>8. CASE StopForInit \/ StartAfterInit
  BY <1>8 DEF StopForInit, StartAfterInit, TakeProxies, Drained, Goto
<1>9. CASE BeginInit \/ EndInit \/ EndDownload
  BY <1>9 DEF BeginInit, EndInit, EndDownload, Goto
<1>10. ASSUME NEW r \in Requests, Arrive(r) \/ Finish(r) PROVE GoneInv'
  BY <1>10 DEF Arrive, Finish
<1>12. ASSUME NEW c \in Callers, RequestStop(c) PROVE GoneInv'
  BY <1>12 DEF RequestStop
<1>11. CASE UNCHANGED vars
  BY <1>11 DEF vars
<1> QED BY <1>1, <1>2, <1>3, <1>4, <1>5, <1>6, <1>7, <1>8, <1>9, <1>10, <1>11, <1>12 DEF Next, Serve, Download

LEMMA InitIInv == Init => IInv
<1> SUFFICES ASSUME Init PROVE IInv
  OBVIOUS
<1> USE DEF Init
<1>1. Flags
  BY DEF Flags
<1>2. PcInv
  BY DEF PcInv, Thread, CallerSteps, DownloaderSteps, MainSteps
<1>3. ModelInv /\ LockInv /\ AttemptInv
  BY DEF ModelInv, LockInv, AttemptInv, Thread
<1>6. StopInv
  BY DEF StopInv
<1>4. ProxyInv /\ DownloadInv
  BY DEF ProxyInv, Drains, DownloadInv, Thread
<1>5. TrafficInv /\ PoliteInv /\ AloneInv /\ GoneInv
  BY DEF TrafficInv, PoliteInv, AloneInv, GoneInv, Asking, Thread
<1> QED BY <1>1, <1>2, <1>3, <1>4, <1>5, <1>6 DEF IInv

-----------------------------------------------------------------------------
(* Theorems *)

\* IInv is invariant: what every other theorem here follows from.
THEOREM Invariance == Spec => []IInv
<1>1. IInv /\ [Next]_vars => IInv'
  BY NextFlags, NextPcInv, NextModelInv, NextStopInv, NextLockInv, NextAttemptInv, NextProxyInv,
     NextDownloadInv, NextTrafficInv, NextPoliteInv, NextAloneInv, NextGoneInv DEF IInv
<1> QED BY InitIInv, <1>1, PTL DEF Spec

\* Every variable keeps its type, the bound of the attempts included.
THEOREM TypeCorrect == Spec => []TypeOK
<1>1. IInv => TypeOK
  BY DEF IInv, Flags, PcInv, ModelInv, StopInv, LockInv, AttemptInv, TypeOK
<1> QED BY <1>1, Invariance, PTL

\* Whatever clients ask, the block of the first run is lifted by a loaded model
\* only and never comes back.
THEOREM Lifted == Spec => LiftedByModel
<1>1. IInv /\ [Next]_vars => [required # required' => required /\ detector = "ready"]_vars
  <2> SUFFICES ASSUME IInv, [Next]_vars, required # required'
               PROVE  required /\ detector = "ready"
    OBVIOUS
  <2> USE DEF locks, flags, model, proxy, stops
  <2>1. CASE Boot \/ Shutdown
    BY <2>1 DEF Boot, Shutdown, TakeProxies, Drained
  <2>2. ASSUME NEW c \in Callers, Call(c) \/ Serve(c) \/ RequestStop(c) PROVE FALSE
    BY <2>2 DEF RequestStop, Call, Serve, StartDownload, AskRetry, Wake, RestartProxies, Status, Stop,
                TakeProxies, Drained
  <2>3. CASE Download /\ ~EndDownload
    BY <2>3 DEF Download, Attempt, PrepareRetry, Awake, StopForInit, BeginInit, EndInit,
                StartAfterInit, TakeProxies, Drained
  <2>4. CASE EndDownload
    BY <2>4 DEF EndDownload, IInv, Flags, DownloadInv
  <2>5. ASSUME NEW r \in Requests, Arrive(r) \/ Finish(r) PROVE FALSE
    BY <2>5 DEF Arrive, Finish
  <2>6. CASE UNCHANGED vars
    BY <2>6 DEF vars
  <2> QED BY <2>1, <2>2, <2>3, <2>4, <2>5, <2>6 DEF Next
<1> QED BY <1>1, Invariance, PTL DEF Spec, LiftedByModel

\* If nobody restarts the proxies, nothing is served while the first-run download
\* is pending.
THEOREM NoTraffic ==
    ASSUME "restart" \notin Calls
    PROVE  Spec => []NoTrafficWhileBlocked
<1>1. IInv => NoTrafficWhileBlocked
  BY DEF IInv, Flags, TrafficInv, NoTrafficWhileBlocked
<1> QED BY <1>1, Invariance, PTL

\* If clients are polite, the detector loads with no request in flight.
THEOREM DetectorLoadsAlone ==
    ASSUME Polite
    PROVE  Spec => []DetectorAlone
<1>1. IInv => DetectorAlone
  BY DEF IInv, DownloadInv, AloneInv, DetectorAlone
<1> QED BY <1>1, Invariance, PTL

\* Whatever clients ask and when, an engine that ends leaves nothing behind that
\* runs in it but a download, and once it is quiet it stays so.
THEOREM Leaves == Spec => LeavesQuietly
<1>1. IInv /\ [Next]_vars =>
        [/\ pc[Main] # "gone" /\ pc'[Main] = "gone" =>
                ~up' /\ serving' = {} /\ \A c \in Callers : pc'[c] = "idle"
         /\ pc[Main] = "gone" /\ Quiet => Quiet']_vars
  <2> SUFFICES ASSUME IInv, [Next]_vars
               PROVE  /\ pc[Main] # "gone" /\ pc'[Main] = "gone" =>
                            ~up' /\ serving' = {} /\ \A c \in Callers : pc'[c] = "idle"
                      /\ pc[Main] = "gone" /\ Quiet => Quiet'
    OBVIOUS
  <2>1. PcInv /\ GoneInv
    BY DEF IInv
  <2>2. ASSUME pc[Main] # "gone", pc'[Main] = "gone"
        PROVE  ~up' /\ serving' = {} /\ \A c \in Callers : pc'[c] = "idle"
    <3> USE DEF locks, flags, model, proxy, stops, Goto, PcInv, Thread
    <3>1. CASE Boot
      BY <2>1, <2>2, <3>1 DEF Boot, TakeProxies, Drained
    <3>2. CASE Shutdown
      BY <2>1, <2>2, <3>2 DEF Shutdown, TakeProxies, Drained, GoneInv
    <3>3. ASSUME NEW c \in Callers, Call(c) \/ RequestStop(c) PROVE FALSE
      BY <2>1, <2>2, <3>3 DEF Call, RequestStop, CallerSteps
    <3>4. ASSUME NEW c \in Callers, Serve(c) PROVE FALSE
      BY <2>1, <2>2, <3>4 DEF Serve, StartDownload, AskRetry, Wake, RestartProxies, Status, Stop,
         TakeProxies, Drained
    <3>5. CASE Download
      BY <2>1, <2>2, <3>5 DEF Download, Attempt, PrepareRetry, Awake, StopForInit, BeginInit,
         EndInit, StartAfterInit, EndDownload, TakeProxies, Drained
    <3>6. ASSUME NEW r \in Requests, Arrive(r) \/ Finish(r) PROVE FALSE
      BY <2>2, <3>6 DEF Arrive, Finish
    <3>7. CASE UNCHANGED vars
      BY <2>2, <3>7 DEF vars
    <3> QED BY <3>1, <3>2, <3>3, <3>4, <3>5, <3>6, <3>7 DEF Next
  <2>3. ASSUME pc[Main] = "gone", Quiet PROVE Quiet'
    <3> USE DEF locks, flags, model, proxy, stops, Quiet
    <3>1. ~Boot /\ ~Shutdown
      BY <2>3 DEF Boot, Shutdown, TakeProxies, Drained
    <3>2. ASSUME NEW c \in Callers, Call(c) \/ Serve(c) PROVE FALSE
      BY <2>3, <3>2 DEF Call, Answering, Serve, StartDownload, AskRetry, Wake, RestartProxies,
         Status, Stop, TakeProxies, Drained
    <3>3. ~Download
      BY <2>3 DEF Download, Attempt, PrepareRetry, Awake, StopForInit, BeginInit,
         EndInit, StartAfterInit, EndDownload, TakeProxies, Drained
    <3>4. ASSUME NEW r \in Requests, Arrive(r) \/ Finish(r) PROVE FALSE
      BY <2>3, <3>4 DEF Arrive, Finish
    <3>5. ASSUME NEW c \in Callers, RequestStop(c) PROVE Quiet'
      BY <2>3, <3>5 DEF RequestStop
    <3>6. CASE UNCHANGED vars
      BY <2>3, <3>6 DEF vars
    <3> QED BY <3>1, <3>2, <3>3, <3>4, <3>5, <3>6 DEF Next
  <2> QED BY <2>2, <2>3
<1> QED BY <1>1, Invariance, PTL DEF Spec, LeavesQuietly

\* The gate keeps to what the download relies on: it discards weights only after
\* a successful attempt, when they do not load, and asks for none meanwhile.
THEOREM Refinement == Spec => KeepsModelContract
<1> USE DEF locks, flags, model, proxy, stops
<1>1. Init => Contract!Init
  BY DEF Init, Contract!Init
<1>2. IInv /\ [Next]_vars => [Contract!Next]_Contract!vars
  <2> SUFFICES ASSUME IInv, [Next]_vars PROVE [Contract!Next]_Contract!vars
    OBVIOUS
  <2>1. CASE Attempt
    BY <2>1 DEF IInv, DownloadInv, ModelInv, Attempt, Contract!Next, Contract!Bring,
                Contract!Succeed, Contract!vars
  <2>2. ASSUME NEW c \in Callers, StartDownload(c) PROVE Contract!Again
    BY <2>2 DEF StartDownload, Contract!Again
  <2>3. CASE EndInit
    BY <2>3 DEF IInv, DownloadInv, EndInit, Contract!Next, Contract!Discard, Contract!vars
  <2>4. CASE UNCHANGED <<weights, ok>>
    BY <2>4 DEF Contract!vars
  <2>5. Attempt \/ EndInit \/ UNCHANGED <<weights, ok>> \/ \E c \in Callers : StartDownload(c)
    <3>1. CASE Boot \/ Shutdown
      BY <3>1 DEF Boot, Shutdown, TakeProxies, Drained
    <3>2. ASSUME NEW c \in Callers, Call(c) \/ (Serve(c) /\ ~StartDownload(c)) \/ RequestStop(c)
          PROVE  UNCHANGED <<weights, ok>>
      BY <3>2 DEF RequestStop, Call, Serve, AskRetry, Wake, RestartProxies, Status, Stop,
                  TakeProxies, Drained
    <3>3. CASE Download /\ ~Attempt /\ ~EndInit
      BY <3>3 DEF Download, PrepareRetry, Awake, StopForInit, BeginInit, StartAfterInit,
                  EndDownload, TakeProxies, Drained
    <3>4. ASSUME NEW r \in Requests, Arrive(r) \/ Finish(r) PROVE UNCHANGED <<weights, ok>>
      BY <3>4 DEF Arrive, Finish
    <3>5. CASE UNCHANGED vars
      BY <3>5 DEF vars
    <3> QED BY <3>1, <3>2, <3>3, <3>4, <3>5 DEF Next, Serve
  <2> QED BY <2>1, <2>2, <2>3, <2>4, <2>5 DEF Contract!Next
<1> QED BY <1>1, <1>2, Invariance, PTL DEF Spec, KeepsModelContract, Contract!Spec
=============================================================================
