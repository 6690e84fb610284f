------------------------------ MODULE Redaction ------------------------------
(***************************************************************************)
(* The redaction pipeline of the local proxy (core/src/proxy_engine.cpp):  *)
(* ProcessRequest replaces the sensitive strings of a request body by      *)
(* placeholder labels <<REDACTED_KIND_n>>, remembers per request which     *)
(* label stands for which string, persists the label counters and only     *)
(* then lets the body be forwarded.                                        *)
(*                                                                         *)
(* A connection thread ("client") runs one ProcessRequest at a time.  The  *)
(* steps below are the accesses to what threads share: the per-profile     *)
(* SessionState, which no mutex protects, the pattern engines, which are   *)
(* members of the one ProxyEngine, and the counters in                     *)
(* redaction_state.json, which stateFileMutex_ protects.                   *)
(*                                                                         *)
(* A fragment is one JSON string of a body (or a whole body that is not    *)
(* JSON).  It is abstracted to the set of sensitive strings ("entities")   *)
(* it holds; a redacted text says of each of them whether it is shown in   *)
(* clear or as a label.                                                    *)
(***************************************************************************)
EXTENDS Integers, Sequences

CONSTANTS
    Profiles,       \* ids of the API-key profiles
    Clients,        \* connection threads of the proxy servers
    ProfileOf,      \* [Clients -> Profiles]: whose proxy port a thread serves
    Entities,       \* sensitive strings
    Fragments,      \* text fragments
    Configs,        \* redaction settings a profile can have (by their hash)
    None,           \* nothing: no configuration, no cached text, no label
    Torn,           \* the state file between truncation and write
    Holds,          \* [Fragments -> SUBSET Entities]
    Misses,         \* [Fragments -> SUBSET Entities]: what the PII model,
                    \*   which looks at context, fails to see in a fragment
    Finds,          \* [Configs -> [Kinds -> SUBSET Entities]]: what an engine
                    \*   looks for; {} when the profile does not use it
    Confident,      \* [Configs \cup {None} -> SUBSET Entities]: what scores
                    \*   above the PII threshold of the configuration
    Bodies,         \* SUBSET Seq(Fragments): what a request may carry
    Forms,          \* SUBSET {"json", "text"}: bodies that parse, or do not
    DetectorStart,  \* SUBSET BOOLEAN: may the PII model be loaded at start
    SaveIsAtomic,   \* TRUE: the engine never dies inside a save
    MaxLabel        \* label numbers stay below this bound

KindSeq == <<"pii", "regex", "keyword">>
Kinds == {"pii", "regex", "keyword"}
Number == 0..MaxLabel
Label == Kinds \X Number
Token == Entities \cup Label
Rendering == [Entities -> Token]
Mapping == [lab : Label, ent : Entities]
Absent == -1

ASSUME NamesAssumption ==
    /\ None \notin Configs \cup Entities
    /\ Entities \cap Label = {}
    /\ Torn \notin [Profiles -> [Kinds -> Nat]]
ASSUME DataAssumption ==
    /\ ProfileOf \in [Clients -> Profiles]
    /\ Holds \in [Fragments -> SUBSET Entities]
    /\ Misses \in [Fragments -> SUBSET Entities]
    /\ Finds \in [Configs -> [Kinds -> SUBSET Entities]]
    /\ Confident \in [Configs \cup {None} -> SUBSET Entities]
    /\ Bodies \subseteq Seq(Fragments)
ASSUME FlagAssumption ==
    /\ Forms \subseteq {"json", "text"}
    /\ DetectorStart \subseteq BOOLEAN
    /\ SaveIsAtomic \in BOOLEAN
    /\ MaxLabel \in Nat

VARIABLES
    conf,       \* settings: the configuration each profile has now
    hash,       \* SessionState.configHash
    labelOf,    \* SessionState.{pii,regex,keyword}LabelMap
    counter,    \* SessionState.{pii,regex,keyword}Counter
    cache,      \* SessionState.fragmentCache
    engine,     \* what is loaded: the PII threshold, regexEngine_, keywordEngine_
    detectorUp, \* detector_->IsInitialized()
    loaded,     \* stateLoaded_
    floor,      \* persistedCounters_
    disk,       \* the contents of redaction_state.json
    pc,         \* where each thread is
    own,        \* its copy of the profile's configuration
    form,       \* whether its body parses as JSON
    todo,       \* the fragments it has still to redact
    stage,      \* the engine it is at, an index of KindSeq
    found,      \* what that engine found and is not labelled yet
    minting,    \* the entity it mints a label for and the counter it has read
    text,       \* the fragment at hand, as redacted so far
    fmap,       \* fragPii, fragRegex, fragKeyword
    out,        \* the redacted body so far: what each fragment became
    map,        \* RedactionState.{pii,regex,keyword}Map
    sent        \* history: what each label that went upstream stood for

session == <<hash, labelOf, counter, cache>>
store == <<loaded, floor, disk>>
shared == <<engine, detectorUp>>
frag == <<stage, found, minting, text, fmap>>
request == <<own, form, todo, out, map>>
vars == <<conf, session, shared, store, pc, request, frag, sent>>

NoLabels == [k \in Kinds |-> [e \in Entities |-> Absent]]
Zero == [k \in Kinds |-> 0]
EmptyCache == [f \in Fragments |-> None]
Plain == [e \in Entities |-> e]

Init ==
    /\ conf \in [Profiles -> Configs]
    /\ hash = [p \in Profiles |-> None]
    /\ labelOf = [p \in Profiles |-> NoLabels]
    /\ counter = [p \in Profiles |-> Zero]
    /\ cache = [p \in Profiles |-> EmptyCache]
    /\ engine = [k \in Kinds |-> None]
    /\ detectorUp \in DetectorStart
    /\ loaded = FALSE
    /\ floor = [p \in Profiles |-> Zero]
    /\ pc = [t \in Clients |-> "idle"]
    /\ own = [t \in Clients |-> None]
    /\ form = [t \in Clients |-> "json"]
    /\ todo = [t \in Clients |-> <<>>]
    /\ stage = [t \in Clients |-> 1]
    /\ found = [t \in Clients |-> {}]
    /\ minting = [t \in Clients |-> <<None, Absent>>]
    /\ text = [t \in Clients |-> Plain]
    /\ fmap = [t \in Clients |-> {}]
    /\ out = [t \in Clients |-> {}]
    /\ map = [t \in Clients |-> {}]
    /\ disk = [p \in Profiles |-> Zero]
    /\ sent = {}

-----------------------------------------------------------------------------
(* Helpers *)

Bigger(a, b) == IF a >= b THEN a ELSE b

\* stateFileMutex_ is held across the whole save.
StateFileFree == \A t \in Clients : pc[t] # "save"

\* m[label] = entity for every pair of new, as std::map assignment does.
Overwrite(m, new) == {x \in m : \A y \in new : y.lab # x.lab} \cup new

\* Slip: the state file is never read.
OnDiskUnread == [p \in Profiles |-> Zero]

\* What LoadPersistedCountersLocked reads: a file that does not parse counts
\* as no file, and the counters start at zero.
OnDisk == IF disk = Torn THEN [p \in Profiles |-> Zero] ELSE disk

\* A profile skips an engine it has nothing configured for, and the PII model
\* while it is not loaded.
Uses(c, k) == Finds[c][k] # {} /\ (k = "pii" => detectorUp)

\* What engine k reports in fragment f for a request of configuration c: the
\* enabled types are an argument, but the threshold and the patterns are
\* whatever was loaded last.
Reports(c, k, f) ==
    IF k = "pii" THEN (Finds[c][k] \cap Confident[engine[k]]) \ Misses[f]
    ELSE IF engine[k] = None THEN {} ELSE Finds[engine[k]][k]

\* What the engines find in f when each works with the settings of c itself.
Sensitive(c, f) ==
    Holds[f] \cap UNION {Finds[c]["regex"], Finds[c]["keyword"],
        IF detectorUp THEN (Finds[c]["pii"] \cap Confident[c]) \ Misses[f] ELSE {}}

\* What a text r of fragment f shows in clear.
Shown(f, r) == {e \in Entities : e \in Holds[f] /\ r[e] = e}

-----------------------------------------------------------------------------
(* One request *)

\* HandleProxyRequest copies the profile the port belongs to.
Arrive(t) ==
    /\ pc[t] = "idle"
    /\ \E b \in Bodies, fm \in Forms :
        /\ todo' = [todo EXCEPT ![t] = b]
        /\ form' = [form EXCEPT ![t] = fm]
    /\ own' = [own EXCEPT ![t] = conf[ProfileOf[t]]]
    /\ pc' = [pc EXCEPT ![t] = "enter"]
    /\ UNCHANGED <<conf, session, shared, store, out, map, frag, sent>>

\* Slip: the persisted counters are loaded and not used.
EnterSessionUnraised(t) ==
    LET p == ProfileOf[t]
    IN  /\ pc[t] = "enter"
        /\ StateFileFree
        /\ hash' = [hash EXCEPT ![p] = own[t]]
        /\ labelOf' = IF hash[p] = own[t] THEN labelOf ELSE [labelOf EXCEPT ![p] = NoLabels]
        /\ cache' = IF hash[p] = own[t] THEN cache ELSE [cache EXCEPT ![p] = EmptyCache]
        /\ loaded' = TRUE
        /\ floor' = IF loaded THEN floor ELSE OnDisk
        /\ pc' = [pc EXCEPT ![t] = "next"]
        /\ UNCHANGED <<conf, counter, shared, disk, request, frag, sent>>

\* Slip: a changed configuration restarts the counters and nothing else.
EnterSessionRecounts(t) ==
    LET p == ProfileOf[t]
    IN  /\ pc[t] = "enter"
        /\ StateFileFree
        /\ hash' = [hash EXCEPT ![p] = own[t]]
        /\ loaded' = TRUE
        /\ floor' = IF loaded THEN floor ELSE OnDisk
        /\ counter' = IF hash[p] = own[t] THEN counter ELSE [counter EXCEPT ![p] = Zero]
        /\ pc' = [pc EXCEPT ![t] = "next"]
        /\ UNCHANGED <<conf, labelOf, cache, shared, disk, request, frag, sent>>

\* A changed configuration drops the session's labels and cached fragments,
\* never its counters, which are raised to the persisted ones.  (The session is
\* cleared before stateFileMutex_ is locked; nothing is read in between.)
EnterSession(t) ==
    LET p == ProfileOf[t]
        base == IF loaded THEN floor ELSE OnDisk
    IN  /\ pc[t] = "enter"
        /\ StateFileFree
        /\ \/ /\ hash[p] = own[t]
              /\ UNCHANGED <<hash, labelOf, cache>>
           \/ /\ hash[p] # own[t]
              /\ hash' = [hash EXCEPT ![p] = own[t]]
              /\ labelOf' = [labelOf EXCEPT ![p] = NoLabels]
              /\ cache' = [cache EXCEPT ![p] = EmptyCache]
        /\ loaded' = TRUE
        /\ floor' = base
        /\ counter' = [counter EXCEPT ![p] =
                         [k \in Kinds |-> Bigger(counter[p][k], base[p][k])]]
        /\ pc' = [pc EXCEPT ![t] = "next"]
        /\ UNCHANGED <<conf, shared, disk, request, frag, sent>>

CacheHit(t) ==
    LET f == Head(todo[t])
        c == cache[ProfileOf[t]][f]
    IN  /\ pc[t] = "next"
        /\ todo[t] # <<>>
        /\ c # None
        /\ out' = [out EXCEPT ![t] = @ \cup {<<f, c.text>>}]
        /\ map' = [map EXCEPT ![t] = Overwrite(@, c.map)]
        /\ todo' = [todo EXCEPT ![t] = Tail(@)]
        /\ UNCHANGED <<conf, session, shared, store, pc, own, form, frag, sent>>

CacheMiss(t) ==
    /\ pc[t] = "next"
    /\ todo[t] # <<>>
    /\ cache[ProfileOf[t]][Head(todo[t])] = None
    /\ text' = [text EXCEPT ![t] = Plain]
    /\ fmap' = [fmap EXCEPT ![t] = {}]
    /\ stage' = [stage EXCEPT ![t] = 1]
    /\ pc' = [pc EXCEPT ![t] = "load"]
    /\ UNCHANGED <<conf, session, shared, store, request, found, minting, sent>>

\* On to the next engine, or past the last one.
Advance(t) ==
    \/ /\ stage[t] < 3
       /\ stage' = [stage EXCEPT ![t] = @ + 1]
       /\ pc' = [pc EXCEPT ![t] = "load"]
    \/ /\ stage[t] = 3
       /\ stage' = [stage EXCEPT ![t] = 1]
       /\ pc' = [pc EXCEPT ![t] = "propagate"]

SkipEngine(t) ==
    /\ pc[t] = "load"
    /\ ~Uses(own[t], KindSeq[stage[t]])
    /\ Advance(t)
    /\ UNCHANGED <<conf, session, shared, store, request, found, minting, text,
                   fmap, sent>>

\* Slip: what is loaded is not loaded again.
LoadEngineOnce(t) ==
    LET k == KindSeq[stage[t]]
    IN  /\ pc[t] = "load"
        /\ Uses(own[t], k)
        /\ IF engine[k] # None \/ (k = "pii" /\ form[t] = "text")
           THEN UNCHANGED engine
           ELSE engine' = [engine EXCEPT ![k] = own[t]]
        /\ pc' = [pc EXCEPT ![t] = "scan"]
        /\ UNCHANGED <<conf, session, detectorUp, store, request, frag, sent>>

\* SetConfidenceThreshold, SetPatterns, SetKeywords: on the shared engine, and
\* not for the PII model when the body did not parse.
LoadEngine(t) ==
    LET k == KindSeq[stage[t]]
    IN  /\ pc[t] = "load"
        /\ Uses(own[t], k)
        /\ IF k = "pii" /\ form[t] = "text"
           THEN UNCHANGED engine
           ELSE engine' = [engine EXCEPT ![k] = own[t]]
        /\ pc' = [pc EXCEPT ![t] = "scan"]
        /\ UNCHANGED <<conf, session, detectorUp, store, request, frag, sent>>

Scan(t) ==
    LET f == Head(todo[t])
    IN  /\ pc[t] = "scan"
        /\ found' = [found EXCEPT ![t] =
                       Shown(f, text[t]) \cap Reports(own[t], KindSeq[stage[t]], f)]
        /\ pc' = [pc EXCEPT ![t] = "label"]
        /\ UNCHANGED <<conf, session, shared, store, request, stage, minting,
                       text, fmap, sent>>

\* Every occurrence of e in the fragment becomes label lb.
Replace(t, e, lb) ==
    /\ text' = [text EXCEPT ![t][e] = lb]
    /\ fmap' = [fmap EXCEPT ![t] = Overwrite(@, {[lab |-> lb, ent |-> e]})]
    /\ found' = [found EXCEPT ![t] = @ \ {e}]

\* Slip: the label map is indexed without a look whether the entity is in it.
ReuseLabelUnlooked(t) ==
    LET k == KindSeq[stage[t]]
    IN  /\ pc[t] = "label"
        /\ \E e \in found[t] : Replace(t, e, <<k, labelOf[ProfileOf[t]][k][e]>>)
        /\ UNCHANGED <<conf, session, shared, store, pc, request, stage,
                       minting, sent>>

ReuseLabel(t) ==
    LET k == KindSeq[stage[t]]
    IN  /\ pc[t] = "label"
        /\ \E e \in found[t] :
            /\ labelOf[ProfileOf[t]][k][e] # Absent
            /\ Replace(t, e, <<k, labelOf[ProfileOf[t]][k][e]>>)
        /\ UNCHANGED <<conf, session, shared, store, pc, request, stage,
                       minting, sent>>

\* std::to_string(session.counter++), first half: the read.
ReadCounter(t) ==
    LET k == KindSeq[stage[t]]
        n == counter[ProfileOf[t]][k]
    IN  /\ pc[t] = "label"
        /\ n < MaxLabel
        /\ \E e \in found[t] :
            /\ labelOf[ProfileOf[t]][k][e] = Absent
            /\ minting' = [minting EXCEPT ![t] = <<e, n>>]
        /\ pc' = [pc EXCEPT ![t] = "mint"]
        /\ UNCHANGED <<conf, session, shared, store, request, stage, found, text,
                       fmap, sent>>

\* Slip: the counter is not incremented.
MintLabelUncounted(t) ==
    LET k == KindSeq[stage[t]]
        e == minting[t][1]
        n == minting[t][2]
    IN  /\ pc[t] = "mint"
        /\ labelOf' = [labelOf EXCEPT ![ProfileOf[t]][k][e] = n]
        /\ Replace(t, e, <<k, n>>)
        /\ minting' = [minting EXCEPT ![t] = <<None, Absent>>]
        /\ pc' = [pc EXCEPT ![t] = "label"]
        /\ UNCHANGED <<conf, hash, counter, cache, shared, store, request, stage, sent>>

\* Second half: the increment, and the new entry of the session's label map.
MintLabel(t) ==
    LET p == ProfileOf[t]
        k == KindSeq[stage[t]]
        e == minting[t][1]
        n == minting[t][2]
    IN  /\ pc[t] = "mint"
        /\ counter' = [counter EXCEPT ![p][k] = n + 1]
        /\ labelOf' = [labelOf EXCEPT ![p][k][e] = n]
        /\ Replace(t, e, <<k, n>>)
        /\ minting' = [minting EXCEPT ![t] = <<None, Absent>>]
        /\ pc' = [pc EXCEPT ![t] = "label"]
        /\ UNCHANGED <<conf, hash, cache, shared, store, request, stage, sent>>

\* Slip: the labels stay with the fragment.
FinishEngineForgets(t) ==
    /\ pc[t] = "label"
    /\ found[t] = {}
    /\ Advance(t)
    /\ UNCHANGED <<conf, session, shared, store, own, form, todo, out, map, found,
                   minting, text, fmap, sent>>

\* The engine's labels go into the request's maps.
FinishEngine(t) ==
    /\ pc[t] = "label"
    /\ found[t] = {}
    /\ map' = [map EXCEPT ![t] = Overwrite(@, fmap[t])]
    /\ Advance(t)
    /\ UNCHANGED <<conf, session, shared, store, own, form, todo, out, found,
                   minting, text, fmap, sent>>

\* What the session has a label for and the text still shows.
Leftover(t) ==
    {e \in Shown(Head(todo[t]), text[t]) :
        \E k \in Kinds : labelOf[ProfileOf[t]][k][e] # Absent}

\* The label e has in the label map of kind via[e].
LabelVia(t, via, e) == <<via[e], labelOf[ProfileOf[t]][via[e]][e]>>

PropagatedText(t, via) ==
    [e \in Entities |->
        IF e \in Leftover(t) THEN LabelVia(t, via, e) ELSE text[t][e]]

PropagatedMap(t, via) ==
    Overwrite(fmap[t],
        {[lab |-> LabelVia(t, via, e), ent |-> e] : e \in Leftover(t)})

\* Slip: the fragment is cached and sent as the engines left it.
PropagateNothing(t) ==
    LET p == ProfileOf[t]
        f == Head(todo[t])
    IN  /\ pc[t] = "propagate"
        /\ cache' = [cache EXCEPT ![p][f] = [text |-> text[t], map |-> fmap[t]]]
        /\ out' = [out EXCEPT ![t] = @ \cup {<<f, text[t]>>}]
        /\ todo' = [todo EXCEPT ![t] = Tail(@)]
        /\ text' = [text EXCEPT ![t] = Plain]
        /\ fmap' = [fmap EXCEPT ![t] = {}]
        /\ pc' = [pc EXCEPT ![t] = "next"]
        /\ UNCHANGED <<conf, hash, labelOf, counter, shared, store, own, form,
                       map, stage, found, minting, sent>>

\* ApplyForwardPropagation: whatever the session has a label for is replaced,
\* and the fragment is cached.  The request's own maps are not touched again.
Propagate(t) ==
    LET p == ProfileOf[t]
        f == Head(todo[t])
    IN  /\ pc[t] = "propagate"
        /\ \E via \in [Leftover(t) -> Kinds] :
            /\ \A e \in Leftover(t) : labelOf[p][via[e]][e] # Absent
            /\ cache' = [cache EXCEPT ![p][f] = [text |-> PropagatedText(t, via),
                                                map |-> PropagatedMap(t, via)]]
            /\ out' = [out EXCEPT ![t] = @ \cup {<<f, PropagatedText(t, via)>>}]
        /\ todo' = [todo EXCEPT ![t] = Tail(@)]
        /\ text' = [text EXCEPT ![t] = Plain]
        /\ fmap' = [fmap EXCEPT ![t] = {}]
        /\ pc' = [pc EXCEPT ![t] = "next"]
        /\ UNCHANGED <<conf, hash, labelOf, counter, shared, store, own, form,
                       map, stage, found, minting, sent>>

\* Slip: only the PII counter is compared with the persisted one.
PersistPiiOnly(t) ==
    LET p == ProfileOf[t]
        grown == counter[p]["pii"] > floor[p]["pii"]
    IN  /\ pc[t] = "next"
        /\ todo[t] = <<>>
        /\ StateFileFree
        /\ IF loaded /\ grown
           THEN /\ floor' = [floor EXCEPT ![p] = counter[p]]
                /\ disk' = Torn
                /\ pc' = [pc EXCEPT ![t] = "save"]
           ELSE /\ pc' = [pc EXCEPT ![t] = "forward"]
                /\ UNCHANGED <<floor, disk>>
        /\ UNCHANGED <<conf, session, shared, loaded, request, frag, sent>>

\* Counter growth is recorded, and saved if there was any, before the body is
\* returned to be forwarded.  The save is a truncation and then a write.
Persist(t) ==
    LET p == ProfileOf[t]
        grown == \E k \in Kinds : counter[p][k] > floor[p][k]
    IN  /\ pc[t] = "next"
        /\ todo[t] = <<>>
        /\ StateFileFree
        /\ \/ /\ loaded /\ grown
              /\ floor' = [floor EXCEPT ![p] =
                             [k \in Kinds |-> Bigger(counter[p][k], floor[p][k])]]
              /\ disk' = Torn
              /\ pc' = [pc EXCEPT ![t] = "save"]
           \/ /\ ~(loaded /\ grown)
              /\ pc' = [pc EXCEPT ![t] = "forward"]
              /\ UNCHANGED <<floor, disk>>
        /\ UNCHANGED <<conf, session, shared, loaded, request, frag, sent>>

WriteState(t) ==
    /\ pc[t] = "save"
    /\ disk' = floor
    /\ pc' = [pc EXCEPT ![t] = "forward"]
    /\ UNCHANGED <<conf, session, shared, loaded, floor, request, frag, sent>>

\* The labels of the redacted body, and what they stand for in it.
Outgoing(t) ==
    {s \in [prof : {ProfileOf[t]}, lab : {r[2][e] : r \in out[t], e \in Entities},
            ent : Entities] :
        /\ s.lab \in Label
        /\ \E r \in out[t] : r[2][s.ent] = s.lab}

\* The redacted body goes to the provider.
Forward(t) ==
    /\ pc[t] = "forward"
    /\ sent' = sent \cup Outgoing(t)
    /\ pc' = [pc EXCEPT ![t] = "await"]
    /\ UNCHANGED <<conf, session, shared, store, request, frag>>

\* The answer, or the failure, reaches the agent; the request state is gone.
Respond(t) ==
    /\ pc[t] = "await"
    /\ pc' = [pc EXCEPT ![t] = "idle"]
    /\ own' = [own EXCEPT ![t] = None]
    /\ form' = [form EXCEPT ![t] = "json"]
    /\ out' = [out EXCEPT ![t] = {}]
    /\ map' = [map EXCEPT ![t] = {}]
    /\ UNCHANGED <<conf, session, shared, store, todo, frag, sent>>

-----------------------------------------------------------------------------
(* The surroundings *)

\* PUT /profiles/<id>: the settings change at once; requests in flight keep
\* the copy they started with.
ChangeConfig(p) ==
    /\ \E c \in Configs \ {conf[p]} : conf' = [conf EXCEPT ![p] = c]
    /\ UNCHANGED <<session, shared, store, pc, request, frag, sent>>

\* The download thread loads the PII model after the proxies were stopped,
\* that is, when no request is in flight; the ProxyEngine lives on.
LoadDetector ==
    /\ ~detectorUp
    /\ \A t \in Clients : pc[t] = "idle"
    /\ detectorUp' = TRUE
    /\ UNCHANGED <<conf, session, engine, store, pc, request, frag, sent>>

\* The engine dies, or is stopped, and is started again: only the state file
\* and the settings survive.
Restart ==
    /\ SaveIsAtomic => disk # Torn
    /\ hash' = [p \in Profiles |-> None]
    /\ labelOf' = [p \in Profiles |-> NoLabels]
    /\ counter' = [p \in Profiles |-> Zero]
    /\ cache' = [p \in Profiles |-> EmptyCache]
    /\ engine' = [k \in Kinds |-> None]
    /\ detectorUp' \in DetectorStart
    /\ loaded' = FALSE
    /\ floor' = [p \in Profiles |-> Zero]
    /\ pc' = [t \in Clients |-> "idle"]
    /\ own' = [t \in Clients |-> None]
    /\ form' = [t \in Clients |-> "json"]
    /\ todo' = [t \in Clients |-> <<>>]
    /\ stage' = [t \in Clients |-> 1]
    /\ found' = [t \in Clients |-> {}]
    /\ minting' = [t \in Clients |-> <<None, Absent>>]
    /\ text' = [t \in Clients |-> Plain]
    /\ fmap' = [t \in Clients |-> {}]
    /\ out' = [t \in Clients |-> {}]
    /\ map' = [t \in Clients |-> {}]
    /\ UNCHANGED <<conf, disk, sent>>

Work(t) ==
    \/ EnterSession(t) \/ CacheHit(t) \/ CacheMiss(t) \/ SkipEngine(t)
    \/ LoadEngine(t) \/ Scan(t) \/ ReuseLabel(t) \/ ReadCounter(t)
    \/ MintLabel(t) \/ FinishEngine(t) \/ Propagate(t) \/ Persist(t)
    \/ WriteState(t) \/ Forward(t) \/ Respond(t)

Next ==
    \/ \E t \in Clients : Arrive(t) \/ Work(t)
    \/ \E p \in Profiles : ChangeConfig(p)
    \/ LoadDetector
    \/ Restart

Spec == Init /\ [][Next]_vars

-----------------------------------------------------------------------------
(* Properties *)

Steps == {"idle", "enter", "next", "load", "scan", "label", "mint",
          "propagate", "save", "forward", "await"}
Counters == [Profiles -> [Kinds -> Nat]]
CacheEntry == [text : Rendering, map : SUBSET Mapping]

EngineType ==
    /\ conf \in [Profiles -> Configs]
    /\ engine \in [Kinds -> Configs \cup {None}]
    /\ detectorUp \in BOOLEAN
SessionType ==
    /\ hash \in [Profiles -> Configs \cup {None}]
    /\ labelOf \in [Profiles -> [Kinds -> [Entities -> Number \cup {Absent}]]]
    /\ counter \in Counters
    /\ cache \in [Profiles -> [Fragments -> {None} \cup CacheEntry]]
StoreType ==
    /\ loaded \in BOOLEAN
    /\ floor \in Counters
    /\ disk \in Counters \cup {Torn}
PcType == pc \in [Clients -> Steps]
RequestType ==
    /\ own \in [Clients -> Configs \cup {None}]
    /\ form \in [Clients -> {"json", "text"}]
    /\ todo \in [Clients -> Seq(Fragments)]
    /\ out \in [Clients -> SUBSET (Fragments \X Rendering)]
    /\ map \in [Clients -> SUBSET Mapping]
FragType ==
    /\ stage \in [Clients -> 1..3]
    /\ found \in [Clients -> SUBSET Entities]
    /\ minting \in [Clients -> (Entities \cup {None}) \X (Number \cup {Absent})]
    /\ text \in [Clients -> Rendering]
    /\ fmap \in [Clients -> SUBSET Mapping]
SentType == sent \subseteq [prof : Profiles, lab : Label, ent : Entities]

\* Types: in particular a label is written only with a number from the counter
\* or from the session's label map, never with "no label" (ReuseLabel).
TypeOK ==
    /\ EngineType /\ SessionType /\ StoreType /\ PcType /\ RequestType
    /\ FragType /\ SentType

InFlight == {t \in Clients : pc[t] \in {"forward", "await"}}

\* A label number that has gone upstream never stands for a second string of
\* the same profile, whatever configurations, restarts and crashes lie between.
NeverReissued ==
    \A a, b \in sent : a.prof = b.prof /\ a.lab = b.lab => a.ent = b.ent

\* A label is upstream only when the state file (the copy being written to it,
\* while it is being written) already counts past its number.
PersistedBeforeForward ==
    LET durable == IF disk = Torn THEN floor ELSE disk
    IN  \A s \in sent : s.lab[2] < durable[s.prof][s.lab[1]]

\* What the provider has seen is a ledger: labels are reserved on disk before they
\* go out, keep their meaning, and the counters on disk never go back.
Ledger == INSTANCE LabelLedger WITH counted <- IF disk = Torn THEN floor ELSE disk
KeepsLedger == Ledger!Spec

\* Within a session two strings never share a label.
LabelsDistinct ==
    \A p \in Profiles, k \in Kinds, d, e \in Entities :
        labelOf[p][k][d] = labelOf[p][k][e] /\ d # e => labelOf[p][k][d] = Absent

\* The answer to a request is never restored to another string than the one
\* the agent sent: the request's map and its body agree on every label.
NeverMisrestored ==
    \A t \in InFlight : \A r \in out[t], m \in map[t] :
        \A e \in Holds[r[1]] : r[2][e] = m.lab => m.ent = e

\* Every label of a request's body can be restored in its answer.
Restorable ==
    \A t \in InFlight : \A r \in out[t] :
        \A e \in Holds[r[1]] : r[2][e] \in Label =>
            [lab |-> r[2][e], ent |-> e] \in map[t]

\* A string that the request's own configuration finds in a fragment can be restored
\* in the answer, whatever the cache and propagation put into the body besides.
FoundIsRestorable ==
    \A t \in InFlight : \A r \in out[t] : \A e \in Sensitive(own[t], r[1]) :
        r[2][e] \in Label => [lab |-> r[2][e], ent |-> e] \in map[t]

\* What leaves shows nothing that the request's own configuration redacts.
NothingLeaks ==
    \A t \in InFlight : \A r \in out[t] :
        Shown(r[1], r[2]) \cap Sensitive(own[t], r[1]) = {}

\* A string the session has a label for is not sent in clear again.
KnownStaysHidden ==
    [][\A t \in Clients : \A r \in out'[t] \ out[t] :
        \A e \in Shown(r[1], r[2]), k \in Kinds :
            labelOf[ProfileOf[t]][k][e] = Absent]_vars

\* A string the session has a label for slips out only from the cache, and only where
\* the request's configuration misses it: a fragment redacted now shows none.
KnownSlipsFromCacheOnly ==
    [][\A t \in Clients : \A r \in out'[t] \ out[t] :
        \A e \in Shown(r[1], r[2]), k \in Kinds :
            labelOf[ProfileOf[t]][k][e] # Absent =>
                /\ cache[ProfileOf[t]][r[1]] # None
                /\ e \notin Sensitive(own[t], r[1])]_vars

-----------------------------------------------------------------------------
(* The inductive invariant behind NeverReissued.  It holds while the       *)
(* requests of a profile are redacted in turn and saves are not torn.      *)

\* The live engine holds that label l of profile p stands for e.
Mentions(p, l, e) ==
    \/ labelOf[p][l[1]][e] = l[2]
    \/ \E f \in Fragments : cache[p][f] # None /\ cache[p][f].text[e] = l
    \/ \E t \in Clients : /\ ProfileOf[t] = p
                          /\ \/ text[t][e] = l
                             \/ \E r \in out[t] : r[2][e] = l

\* The engine, or the provider, holds it.
Says(p, l, e) == Mentions(p, l, e) \/ [prof |-> p, lab |-> l, ent |-> e] \in sent

MentionsBelow ==
    \A p \in Profiles, l \in Label, e \in Entities :
        Mentions(p, l, e) => l[2] < counter[p][l[1]]

OneMeaning ==
    \A p \in Profiles, l \in Label, d, e \in Entities :
        Says(p, l, d) /\ Says(p, l, e) => d = e

\* The phases in which a request relies on its session's counters.
InSession == Steps \ {"idle", "enter", "await"}

\* No two requests of a profile are in ProcessRequest at the same time, as if it were
\* locked.  While one waits for its answer, another may be redacted.
InTurn ==
    \A s, t \in Clients : s # t /\ ProfileOf[s] = ProfileOf[t] =>
        pc[s] \notin InSession \/ pc[t] \notin InSession

StoreInv ==
    /\ loaded => disk \in {floor, Torn}
    /\ disk = Torn => loaded /\ ~StateFileFree
    /\ \A s, t \in Clients : pc[s] = "save" /\ pc[t] = "save" => s = t
    /\ \A t \in Clients : pc[t] = "save" => disk = Torn
    /\ \A t \in Clients, k \in Kinds :
        /\ pc[t] \in InSession =>
              loaded /\ floor[ProfileOf[t]][k] <= counter[ProfileOf[t]][k]
        /\ pc[t] \in {"save", "forward"} =>
              counter[ProfileOf[t]][k] <= floor[ProfileOf[t]][k]

\* What the steps of a thread take for granted of its own variables.
ThreadOK(t) ==
    /\ pc[t] \in {"load", "scan", "label", "mint", "propagate"} => todo[t] # <<>>
    /\ pc[t] = "mint" => minting[t][1] \in Entities /\ minting[t][2] \in Number

ThreadInv == \A t \in Clients : ThreadOK(t)

\* Nobody counts between the two halves of session.counter++.
ReadIsCurrent ==
    \A t \in Clients : pc[t] = "mint" =>
        minting[t][2] = counter[ProfileOf[t]][KindSeq[stage[t]]]

IInv ==
    /\ TypeOK /\ ThreadInv /\ ReadIsCurrent /\ StoreInv /\ MentionsBelow
    /\ OneMeaning /\ PersistedBeforeForward
=============================================================================
