------------------------ MODULE RedactionBodyProofs ------------------------
(***************************************************************************)
(* Proofs about the bodies that Redaction lets out: what they show in clear,  *)
(* and what the maps of their requests make of the labels in the answers.     *)
(*                                                                         *)
(* The argument: a map holds only pairs that the texts of its request carry    *)
(* (PairInv). An engine past has left nothing in clear that it detects, in     *)
(* what is worked on and in what is cached (SeenInv). So propagation replaces   *)
(* only what the request's configuration misses in the fragment at hand, and    *)
(* a map, to which propagation adds nothing, has the pairs of all the labels    *)
(* that the engines put in, now or before the fragment was cached (BackInv).    *)
(*                                                                         *)
(* Requests have to take turns for this: those of a profile (InTurn), and for   *)
(* the last three also the uses of an engine (Orderly).                       *)
(***************************************************************************)
EXTENDS RedactionProofs

-----------------------------------------------------------------------------
(* What a label of a request stands for *)

\* The pairs of thread t say what its texts say, and are new while it works.
PairsOf(t) ==
    /\ pc[t] \notin Working => text[t] = Plain /\ fmap[t] = {}
    /\ \A m \in fmap[t] : text[t][m.ent] = m.lab
    /\ \A m \in map[t] :
        text[t][m.ent] = m.lab \/ \E r \in out[t] : r[2][m.ent] = m.lab
    /\ pc[t] \in {"label", "mint"} => \A e \in found[t] : text[t][e] = e
    /\ pc[t] = "mint" => minting[t][1] \in found[t]

CachedPairs ==
    \A p \in Profiles, f \in Fragments : cache[p][f] # None =>
        \A m \in cache[p][f].map : cache[p][f].text[m.ent] = m.lab

PairInv == CachedPairs /\ \A t \in Clients : PairsOf(t)

\* A thread whose variables stay, at a step that asks no more of it.
LEMMA PairsStay ==
    ASSUME NEW t \in Clients, PairsOf(t), pc'[t] = pc[t], text'[t] = text[t],
           fmap'[t] = fmap[t], found'[t] = found[t], minting'[t] = minting[t],
           map'[t] = map[t], out'[t] = out[t]
    PROVE  PairsOf(t)'
BY DEF PairsOf, Working

\* Pairs that are overwritten are pairs of either side.
LEMMA OverwriteFrom ==
    ASSUME NEW m, NEW n, NEW x \in Overwrite(m, n)
    PROVE  x \in n \/ (x \in m /\ \A y \in n : y.lab # x.lab)
BY DEF Overwrite

LEMMA InitPairs == Init => PairInv
BY DEF Init, PairInv, PairsOf, CachedPairs, EmptyCache, Working

\* The steps that touch neither the texts nor the maps of a thread.
Turning(t) ==
    \/ Arrive(t) \/ EnterSession(t) \/ SkipEngine(t) \/ LoadEngine(t) \/ Persist(t)
    \/ WriteState(t) \/ Forward(t)

LEMMA TurningPairs ==
    ASSUME TypeOK, PairInv, NEW t \in Clients, Turning(t)
    PROVE  PairInv'
<1>1. UNCHANGED <<found, minting, text, fmap, map, out>>
  BY DEF Turning, Arrive, EnterSession, SkipEngine, LoadEngine, Persist, WriteState, Forward,
         frag, request
<1>2. /\ \A u \in Clients \ {t} : pc'[u] = pc[u]
      /\ pc'[t] \notin {"label", "mint"}
      /\ pc[t] \in Working <=> pc'[t] \in Working
  BY DEF Turning, Arrive, EnterSession, SkipEngine, LoadEngine, Persist, WriteState, Forward,
         Advance, TypeOK, PcType, Working
<1>3. PairsOf(t)'
  BY <1>1, <1>2 DEF PairInv, PairsOf
<1>4. \A u \in Clients \ {t} : PairsOf(u)'
  BY <1>1, <1>2, PairsStay DEF PairInv
<1>5. CachedPairs'
  <2>1. CASE UNCHANGED cache
    BY <2>1 DEF PairInv, CachedPairs
  <2>2. CASE EnterSession(t) /\ cache' # cache
    <3>1. cache' = [cache EXCEPT ![ProfileOf[t]] = EmptyCache]
      BY <2>2 DEF EnterSession
    <3> QED BY <3>1 DEF PairInv, CachedPairs, EmptyCache, TypeOK, SessionType
  <2> QED
    BY <2>1, <2>2 DEF Turning, Arrive, SkipEngine, LoadEngine, Persist, WriteState, Forward, session
<1> QED BY <1>3, <1>4, <1>5 DEF PairInv

\* The fragment at hand, while there is one.
LEMMA FragmentAtHand ==
    ASSUME TypeOK, NEW t \in Clients, todo[t] # <<>>
    PROVE  Head(todo[t]) \in Fragments /\ ProfileOf[t] \in Profiles
BY DataAssumption DEF TypeOK, RequestType

\* A cached pair comes with the cached text.
LEMMA CacheHitPairs ==
    ASSUME TypeOK, PairInv, NEW t \in Clients, CacheHit(t)
    PROVE  PairInv'
<1> DEFINE f == Head(todo[t])
           c == cache[ProfileOf[t]][f]
<1>1. f \in Fragments /\ ProfileOf[t] \in Profiles /\ c # None
  BY FragmentAtHand DEF CacheHit
<1>2. /\ out'[t] = out[t] \cup {<<f, c.text>>} /\ map'[t] = Overwrite(map[t], c.map)
      /\ \A u \in Clients \ {t} : out'[u] = out[u] /\ map'[u] = map[u]
      /\ UNCHANGED <<cache, pc, text, fmap, found, minting>>
  BY DEF CacheHit, TypeOK, RequestType, session, frag
<1>3. \A m \in c.map : c.text[m.ent] = m.lab
  BY <1>1 DEF PairInv, CachedPairs
<1>4. ASSUME NEW m \in map'[t]
      PROVE  text'[t][m.ent] = m.lab \/ \E r \in out'[t] : r[2][m.ent] = m.lab
  <2>1. CASE m \in c.map
    <3>1. <<f, c.text>>[2][m.ent] = m.lab
      BY <1>3, <2>1
    <3> QED BY <1>2, <3>1
  <2>2. CASE m \in map[t]
    BY <1>2, <2>2 DEF PairInv, PairsOf
  <2> QED BY <1>2, <1>4, <2>1, <2>2, OverwriteFrom
<1>5. PairsOf(t)'
  BY <1>2, <1>4 DEF PairInv, PairsOf
<1>6. \A u \in Clients \ {t} : PairsOf(u)'
  BY <1>2, PairsStay DEF PairInv
<1> QED BY <1>2, <1>5, <1>6 DEF PairInv, CachedPairs

\* A text in clear carries no pair, so what a map holds before it, the body has.
LEMMA CacheMissPairs ==
    ASSUME TypeOK, PairInv, NEW t \in Clients, CacheMiss(t)
    PROVE  PairInv'
<1>1. /\ text'[t] = Plain /\ fmap'[t] = {} /\ pc'[t] = "load" /\ pc[t] = "next"
      /\ \A u \in Clients \ {t} : text'[u] = text[u] /\ fmap'[u] = fmap[u] /\ pc'[u] = pc[u]
      /\ UNCHANGED <<cache, out, map, found, minting>>
  BY DEF CacheMiss, TypeOK, FragType, PcType, session, request
<1>2. text[t] = Plain
  BY <1>1 DEF PairInv, PairsOf, Working
<1>3. PairsOf(t)'
  BY <1>1, <1>2 DEF PairInv, PairsOf, Working
<1>4. \A u \in Clients \ {t} : PairsOf(u)'
  BY <1>1, PairsStay DEF PairInv
<1> QED BY <1>1, <1>3, <1>4 DEF PairInv, CachedPairs

\* An engine finds what the text shows.
LEMMA ScanPairs ==
    ASSUME TypeOK, PairInv, NEW t \in Clients, Scan(t)
    PROVE  PairInv'
<1>1. /\ found'[t] \subseteq Shown(Head(todo[t]), text[t]) /\ pc'[t] = "label" /\ pc[t] = "scan"
      /\ \A u \in Clients \ {t} : found'[u] = found[u] /\ pc'[u] = pc[u]
      /\ UNCHANGED <<cache, out, map, text, fmap, minting>>
  BY DEF Scan, TypeOK, FragType, PcType, session, request
<1>2. PairsOf(t)'
  BY <1>1 DEF PairInv, PairsOf, Working, Shown
<1>3. \A u \in Clients \ {t} : PairsOf(u)'
  BY <1>1, PairsStay DEF PairInv
<1> QED BY <1>1, <1>2, <1>3 DEF PairInv, CachedPairs

\* Another label changes no label that is there: what is found is in clear.
LEMMA ReplacePairs ==
    ASSUME TypeOK, PairInv, NEW t \in Clients, NEW e \in found[t], NEW lb \in Label,
           pc[t] \in {"label", "mint"}, pc' = [pc EXCEPT ![t] = "label"],
           Replace(t, e, lb), UNCHANGED <<cache, out, map>>,
           \A u \in Clients \ {t} : minting'[u] = minting[u]
    PROVE  PairInv'
<1>1. e \in Entities /\ text[t][e] = e /\ text[t] \in Rendering
  BY DEF TypeOK, FragType, PairInv, PairsOf
<1>2. /\ text'[t] = [text[t] EXCEPT ![e] = lb]
      /\ fmap'[t] = Overwrite(fmap[t], {[lab |-> lb, ent |-> e]})
      /\ found'[t] = found[t] \ {e} /\ pc'[t] = "label"
      /\ \A u \in Clients \ {t} : /\ text'[u] = text[u] /\ fmap'[u] = fmap[u]
                                  /\ found'[u] = found[u] /\ pc'[u] = pc[u]
  BY DEF Replace, TypeOK, FragType, PcType
<1>3. text'[t][e] = lb /\ \A d \in Entities \ {e} : text'[t][d] = text[t][d]
  BY <1>1, <1>2 DEF Rendering
<1>4. fmap[t] \subseteq Mapping /\ map[t] \subseteq Mapping /\ found[t] \subseteq Entities
  BY DEF TypeOK, FragType, RequestType
<1>5. \A m \in Mapping : text[t][m.ent] = m.lab => text'[t][m.ent] = m.lab
  <2> SUFFICES ASSUME NEW m \in Mapping, text[t][m.ent] = m.lab
               PROVE  text'[t][m.ent] = m.lab
    OBVIOUS
  <2>1. m.ent \in Entities /\ m.lab \in Label /\ m.lab \notin Entities
    BY NamesAssumption DEF Mapping
  <2>2. m.ent # e
    BY <1>1, <2>1
  <2> QED BY <1>3, <2>1, <2>2
<1>6. ASSUME NEW m \in fmap'[t] PROVE text'[t][m.ent] = m.lab
  <2>1. CASE m = [lab |-> lb, ent |-> e]
    BY <1>3, <2>1
  <2>2. CASE m \in fmap[t]
    BY <1>4, <1>5, <2>2 DEF PairInv, PairsOf
  <2> QED BY <1>2, <1>6, <2>1, <2>2, OverwriteFrom
<1>7. PairsOf(t)'
  BY <1>2, <1>3, <1>4, <1>5, <1>6 DEF PairInv, PairsOf, Working
<1>8. \A u \in Clients \ {t} : PairsOf(u)'
  BY <1>2, PairsStay DEF PairInv
<1> QED BY <1>7, <1>8 DEF PairInv, CachedPairs

LEMMA LabelPairs ==
    ASSUME TypeOK, ThreadInv, PairInv, NEW t \in Clients, ReuseLabel(t) \/ MintLabel(t)
    PROVE  PairInv'
<1> DEFINE p == ProfileOf[t]
           k == KindSeq[stage[t]]
<1>0. p \in Profiles /\ k \in Kinds
  BY KindSeqType, DataAssumption DEF TypeOK, FragType
<1>1. CASE ReuseLabel(t)
  <2>1. PICK e \in found[t] : labelOf[p][k][e] # Absent /\ Replace(t, e, <<k, labelOf[p][k][e]>>)
    BY <1>1 DEF ReuseLabel
  <2>2. <<k, labelOf[p][k][e]>> \in Label
    BY <1>0, <2>1 DEF TypeOK, SessionType, FragType, Label
  <2>3. pc[t] = "label" /\ pc' = [pc EXCEPT ![t] = "label"] /\ UNCHANGED <<cache, out, map, minting>>
    BY <1>1 DEF ReuseLabel, session, request, TypeOK, PcType
  <2> QED BY <2>1, <2>2, <2>3, ReplacePairs
<1>2. CASE MintLabel(t)
  <2> DEFINE e == minting[t][1]
             n == minting[t][2]
  <2>1. pc[t] = "mint" /\ pc' = [pc EXCEPT ![t] = "label"] /\ Replace(t, e, <<k, n>>)
        /\ UNCHANGED <<cache, out, map>> /\ \A u \in Clients \ {t} : minting'[u] = minting[u]
    BY <1>2 DEF MintLabel, request, TypeOK, FragType
  <2>2. e \in found[t] /\ n \in Number
    BY <2>1 DEF PairInv, PairsOf, ThreadInv, ThreadOK
  <2>3. <<k, n>> \in Label
    BY <1>0, <2>2 DEF Label
  <2> HIDE DEF e, n, k
  <2> QED BY <2>1, <2>2, <2>3, ReplacePairs
<1> QED BY <1>1, <1>2

LEMMA ReadCounterPairs ==
    ASSUME TypeOK, PairInv, NEW t \in Clients, ReadCounter(t)
    PROVE  PairInv'
<1>1. /\ pc[t] = "label" /\ pc'[t] = "mint" /\ minting'[t][1] \in found[t]
      /\ \A u \in Clients \ {t} : minting'[u] = minting[u] /\ pc'[u] = pc[u]
      /\ UNCHANGED <<cache, out, map, text, fmap, found>>
  <2>1. PICK e \in found[t] :
           minting' = [minting EXCEPT ![t] = <<e, counter[ProfileOf[t]][KindSeq[stage[t]]]>>]
    BY DEF ReadCounter
  <2>2. minting'[t][1] = e /\ \A u \in Clients \ {t} : minting'[u] = minting[u]
    BY <2>1 DEF TypeOK, FragType
  <2> QED BY <2>2 DEF ReadCounter, TypeOK, PcType, session, request
<1>2. PairsOf(t)'
  BY <1>1 DEF PairInv, PairsOf, Working
<1>3. \A u \in Clients \ {t} : PairsOf(u)'
  BY <1>1, PairsStay DEF PairInv
<1> QED BY <1>1, <1>2, <1>3 DEF PairInv, CachedPairs

\* The maps of a request take over what its fragment carries.
LEMMA FinishEnginePairs ==
    ASSUME TypeOK, PairInv, NEW t \in Clients, FinishEngine(t)
    PROVE  PairInv'
<1>1. /\ pc[t] = "label" /\ pc'[t] \in {"load", "propagate"} /\ map'[t] = Overwrite(map[t], fmap[t])
      /\ \A u \in Clients \ {t} : map'[u] = map[u] /\ pc'[u] = pc[u]
      /\ UNCHANGED <<cache, out, text, fmap, found, minting>>
  BY DEF FinishEngine, Advance, TypeOK, PcType, RequestType, session
<1>2. \A m \in map'[t] : m \in fmap[t] \/ m \in map[t]
  BY <1>1, OverwriteFrom
<1>3. PairsOf(t)'
  BY <1>1, <1>2 DEF PairInv, PairsOf, Working
<1>4. \A u \in Clients \ {t} : PairsOf(u)'
  BY <1>1, PairsStay DEF PairInv
<1> QED BY <1>1, <1>3, <1>4 DEF PairInv, CachedPairs

\* Propagation adds labels to a text, and keeps those it has.
LEMMA PropagatedKeeps ==
    ASSUME TypeOK, NEW t \in Clients, NEW via, NEW e \in Entities, text[t][e] \in Label
    PROVE  e \notin Leftover(t) /\ PropagatedText(t, via)[e] = text[t][e]
<1>1. text[t][e] # e
  BY NamesAssumption
<1>2. e \notin Leftover(t)
  BY <1>1 DEF Leftover, Shown
<1> QED BY <1>2 DEF PropagatedText

LEMMA PropagatePairs ==
    ASSUME TypeOK, ThreadInv, PairInv, NEW t \in Clients, Propagate(t)
    PROVE  PairInv'
<1> DEFINE p == ProfileOf[t]
           f == Head(todo[t])
<1>0. f \in Fragments /\ p \in Profiles
  BY FragmentAtHand DEF Propagate, ThreadInv, ThreadOK
<1>1. PICK via \in [Leftover(t) -> Kinds] :
         /\ cache' = [cache EXCEPT ![p][f] = [text |-> PropagatedText(t, via),
                                              map |-> PropagatedMap(t, via)]]
         /\ out' = [out EXCEPT ![t] = @ \cup {<<f, PropagatedText(t, via)>>}]
  BY DEF Propagate
<1>2. /\ pc[t] = "propagate" /\ pc'[t] = "next" /\ text'[t] = Plain /\ fmap'[t] = {}
      /\ UNCHANGED <<map, found, minting>>
      /\ \A u \in Clients \ {t} : pc'[u] = pc[u] /\ text'[u] = text[u] /\ fmap'[u] = fmap[u]
  BY DEF Propagate, TypeOK, PcType, FragType
<1>3. /\ out'[t] = out[t] \cup {<<f, PropagatedText(t, via)>>}
      /\ \A u \in Clients \ {t} : out'[u] = out[u]
  BY <1>1 DEF TypeOK, RequestType
<1>4. ASSUME NEW m \in Mapping, text[t][m.ent] = m.lab
      PROVE  PropagatedText(t, via)[m.ent] = m.lab
  BY <1>4, PropagatedKeeps DEF Mapping
<1>5. fmap[t] \subseteq Mapping /\ map[t] \subseteq Mapping
  BY DEF TypeOK, FragType, RequestType
<1>6. ASSUME NEW m \in map[t]
      PROVE  \E r \in out'[t] : r[2][m.ent] = m.lab
  <2>1. CASE text[t][m.ent] = m.lab
    <3>1. <<f, PropagatedText(t, via)>>[2][m.ent] = m.lab
      BY <1>4, <1>5, <2>1
    <3> QED BY <1>3, <3>1
  <2>2. CASE \E r \in out[t] : r[2][m.ent] = m.lab
    BY <1>3, <2>2
  <2> QED BY <2>1, <2>2 DEF PairInv, PairsOf
<1>7. PairsOf(t)'
  BY <1>2, <1>6 DEF PairInv, PairsOf, Working
<1>8. \A u \in Clients \ {t} : PairsOf(u)'
  BY <1>2, <1>3, PairsStay DEF PairInv
<1>9. ASSUME NEW m \in PropagatedMap(t, via)
      PROVE  PropagatedText(t, via)[m.ent] = m.lab
  <2>1. CASE m \in fmap[t]
    BY <1>4, <1>5, <2>1 DEF PairInv, PairsOf
  <2>2. CASE m \in {[lab |-> LabelVia(t, via, e), ent |-> e] : e \in Leftover(t)}
    <3>1. PICK e \in Leftover(t) : m = [lab |-> LabelVia(t, via, e), ent |-> e]
      BY <2>2
    <3>2. e \in Entities /\ m.ent = e /\ m.lab = LabelVia(t, via, e)
      BY <3>1 DEF Leftover, Shown
    <3> QED BY <3>2 DEF PropagatedText
  <2> QED BY <1>9, <2>1, <2>2, OverwriteFrom DEF PropagatedMap
<1>10. CachedPairs'
  <2> SUFFICES ASSUME NEW q \in Profiles, NEW g \in Fragments, cache'[q][g] # None,
                      NEW m \in cache'[q][g].map
               PROVE  cache'[q][g].text[m.ent] = m.lab
    BY DEF CachedPairs
  <2>1. CASE q = p /\ g = f
    <3>1. cache'[q][g] = [text |-> PropagatedText(t, via), map |-> PropagatedMap(t, via)]
      BY <1>0, <1>1, <2>1 DEF TypeOK, SessionType
    <3> QED BY <1>9, <3>1
  <2>2. CASE ~(q = p /\ g = f)
    <3>1. cache'[q][g] = cache[q][g]
      BY <1>0, <1>1, <2>2 DEF TypeOK, SessionType
    <3> QED BY <3>1 DEF PairInv, CachedPairs
  <2> QED BY <2>1, <2>2
<1> QED BY <1>7, <1>8, <1>10 DEF PairInv

LEMMA RespondPairs ==
    ASSUME TypeOK, PairInv, NEW t \in Clients, Respond(t)
    PROVE  PairInv'
<1>1. /\ pc[t] = "await" /\ pc'[t] = "idle" /\ map'[t] = {} /\ out'[t] = {}
      /\ \A u \in Clients \ {t} : map'[u] = map[u] /\ out'[u] = out[u] /\ pc'[u] = pc[u]
      /\ UNCHANGED <<cache, text, fmap, found, minting>>
  BY DEF Respond, TypeOK, PcType, RequestType, session, frag
<1>2. PairsOf(t)'
  BY <1>1 DEF PairInv, PairsOf, Working
<1>3. \A u \in Clients \ {t} : PairsOf(u)'
  BY <1>1, PairsStay DEF PairInv
<1> QED BY <1>1, <1>2, <1>3 DEF PairInv, CachedPairs

LEMMA NextPairs == TypeOK /\ ThreadInv /\ PairInv /\ [Next]_vars => PairInv'
<1> SUFFICES ASSUME TypeOK, ThreadInv, PairInv, [Next]_vars PROVE PairInv'
  OBVIOUS
<1>1. CASE \E t \in Clients : Arrive(t) \/ Work(t)
  BY <1>1, TurningPairs, CacheHitPairs, CacheMissPairs, ScanPairs, LabelPairs, ReadCounterPairs,
     FinishEnginePairs, PropagatePairs, RespondPairs
     DEF Work, Turning
<1>2. CASE LoadDetector \/ UNCHANGED vars \/ \E p \in Profiles : ChangeConfig(p)
  <2>1. UNCHANGED <<cache, pc, text, fmap, found, minting, map, out>>
    BY <1>2 DEF LoadDetector, ChangeConfig, vars, session, request, frag
  <2> QED BY <2>1, PairsStay DEF PairInv, CachedPairs
<1>3. CASE Restart
  BY <1>3 DEF Restart, PairInv, PairsOf, CachedPairs, EmptyCache, Working
<1> QED BY <1>1, <1>2, <1>3 DEF Next

\* The pairs of maps and texts go together, however requests overlap.
LEMMA PairsTogether == Spec => []PairInv
<1>1. Init => TypeOK /\ ThreadInv /\ PairInv
  BY InitType, InitThread, InitPairs
<1>2. TypeOK /\ ThreadInv /\ PairInv /\ [Next]_vars => (TypeOK /\ ThreadInv /\ PairInv)'
  BY TypeStep, NextPairs
<1> QED BY <1>1, <1>2, PTL DEF Spec

\* The answer to a request is never restored to another string than the one the
\* agent sent: the map of a request holds what its body says, and a label says
\* one thing (NeverMisrestored).
THEOREM RestoredRight == Spec /\ []InTurn => []NeverMisrestored
<1>1. LiveInv /\ PairInv => NeverMisrestored
  <2> SUFFICES ASSUME LiveInv, PairInv, NEW t \in InFlight, NEW r \in out[t], NEW m \in map[t],
                      NEW e \in Holds[r[1]], r[2][e] = m.lab
               PROVE  m.ent = e
    BY DEF NeverMisrestored
  <2>1. t \in Clients /\ text[t] = Plain
    BY DEF InFlight, PairInv, PairsOf, Working
  <2>2. r[1] \in Fragments /\ m.lab \in Label /\ m.ent \in Entities /\ ProfileOf[t] \in Profiles
    BY <2>1, DataAssumption DEF LiveInv, TypeOK, RequestType, Mapping
  <2>3. e \in Entities
    BY <2>2, DataAssumption
  <2>4. Mentions(ProfileOf[t], m.lab, e)
    BY <2>1 DEF Mentions
  <2>5. Mentions(ProfileOf[t], m.lab, m.ent)
    BY <2>1 DEF PairInv, PairsOf, Mentions
  <2> QED BY <2>2, <2>3, <2>4, <2>5 DEF LiveInv, LiveMeaning
<1> QED BY <1>1, LabelsLive, PairsTogether, PTL

-----------------------------------------------------------------------------
(* What bodies show, when requests come in order *)

\* The requests of one profile are redacted in turn, and so are the uses of one engine:
\* nobody loads it between the loading of a profile's settings and the scan.
Orderly ==
    /\ InTurn
    /\ \A s, t \in Clients : s # t /\ pc[s] = "scan" /\ pc[t] = "scan" => stage[s] # stage[t]

\* The PII model is there from the start: nothing was cached without it.
ModelFromStart == DetectorStart \subseteq {TRUE}

\* A body that is not JSON is scanned with the threshold that was set last: all
\* have the same, or there are no such bodies.
ThresholdFits ==
    "text" \notin Forms \/ \A c, d \in Configs \cup {None} : Confident[c] = Confident[d]

\* What engine k detects in fragment f with the settings of c.
Detects(c, k, f) ==
    {e \in Holds[f] : e \in Finds[c][k] /\ (k = "pii" => e \in Confident[c] \ Misses[f])}

\* Text x of fragment f shows nothing that an engine detects for c.
Hides(c, f, x) == \A k \in Kinds : Shown(f, x) \cap Detects(c, k, f) = {}

\* Engine i is done with the fragment of thread t.
Passed(t, i) == pc[t] = "propagate" \/ (pc[t] \in Working /\ i < stage[t])

SeenOf(t) ==
    LET f == Head(todo[t])
        k == KindSeq[stage[t]]
    IN  /\ pc[t] # "idle" => own[t] \in Configs /\ form[t] \in Forms
        /\ pc[t] \in {"idle", "enter"} => out[t] = {} /\ map[t] = {}
        /\ pc[t] \in InSession => own[t] = hash[ProfileOf[t]]
        /\ pc[t] = "scan" => (k # "pii" \/ form[t] = "json" => engine[k] = own[t])
        /\ pc[t] \in {"label", "mint"} =>
              found[t] = Shown(f, text[t]) \cap Detects(own[t], k, f)
        /\ \A i \in 1..3 : Passed(t, i) =>
              Shown(f, text[t]) \cap Detects(own[t], KindSeq[i], f) = {}
        /\ \A r \in out[t] : Hides(own[t], r[1], r[2])

CachedHide ==
    \A p \in Profiles, f \in Fragments : cache[p][f] # None =>
        Hides(hash[p], f, cache[p][f].text)

SeenInv == detectorUp /\ CachedHide /\ \A t \in Clients : SeenOf(t)

\* While the model is there, what a configuration finds is what its engines detect.
LEMMA SensitiveDetects ==
    ASSUME detectorUp, NEW c \in Configs, NEW f \in Fragments, NEW e \in Sensitive(c, f)
    PROVE  \E k \in Kinds : e \in Detects(c, k, f)
<1>1. e \in Holds[f]
  BY DEF Sensitive
<1>2. e \in Finds[c]["regex"] \/ e \in Finds[c]["keyword"]
      \/ e \in (Finds[c]["pii"] \cap Confident[c]) \ Misses[f]
  BY DEF Sensitive
<1>3. CASE e \in Finds[c]["regex"]
  BY <1>1, <1>3 DEF Kinds, Detects
<1>4. CASE e \in Finds[c]["keyword"]
  BY <1>1, <1>4 DEF Kinds, Detects
<1>5. CASE e \in (Finds[c]["pii"] \cap Confident[c]) \ Misses[f]
  BY <1>1, <1>5 DEF Kinds, Detects
<1> QED BY <1>2, <1>3, <1>4, <1>5

LEMMA HidesSensitive ==
    ASSUME detectorUp, NEW c \in Configs, NEW f \in Fragments, NEW x, Hides(c, f, x)
    PROVE  Shown(f, x) \cap Sensitive(c, f) = {}
BY SensitiveDetects DEF Hides

\* The session of another request stays what it is, and so does an engine that it is
\* about to scan with.
LEMMA OthersSeen ==
    ASSUME TypeOK, SeenInv, Orderly, Orderly', NEW t \in Clients, Arrive(t) \/ Work(t),
           NEW u \in Clients \ {t}
    PROVE  SeenOf(u)'
<1>1. /\ pc'[u] = pc[u] /\ out'[u] = out[u] /\ map'[u] = map[u]
      /\ own'[u] = own[u] /\ form'[u] = form[u] /\ todo'[u] = todo[u]
  BY DEF Arrive, Work, EnterSession, CacheHit, CacheMiss, SkipEngine, LoadEngine, Scan, ReuseLabel,
         ReadCounter, MintLabel, FinishEngine, Propagate, Persist, WriteState, Forward, Respond,
         Advance, request, TypeOK, PcType, RequestType
<1>2. stage'[u] = stage[u] /\ found'[u] = found[u] /\ text'[u] = text[u]
  BY DEF Arrive, Work, EnterSession, CacheHit, CacheMiss, SkipEngine, LoadEngine, Scan, ReuseLabel,
         ReadCounter, MintLabel, FinishEngine, Propagate, Persist, WriteState, Forward, Respond,
         Advance, Replace, frag, TypeOK, FragType
<1>3. pc[u] \in InSession => hash'[ProfileOf[u]] = hash[ProfileOf[u]]
  <2> SUFFICES ASSUME pc[u] \in InSession PROVE hash'[ProfileOf[u]] = hash[ProfileOf[u]]
    OBVIOUS
  <2>1. CASE EnterSession(t)
    <3>1. pc'[t] = "next"
      BY <2>1 DEF EnterSession, TypeOK, PcType
    <3>2. ProfileOf[u] # ProfileOf[t]
      BY <1>1, <3>1 DEF Orderly, InTurn, InSession, Steps
    <3> QED BY <2>1, <3>2, DataAssumption DEF EnterSession, TypeOK, SessionType
  <2>2. CASE ~EnterSession(t)
    BY <2>2 DEF Arrive, Work, CacheHit, CacheMiss, SkipEngine, LoadEngine, Scan, ReuseLabel,
       ReadCounter, MintLabel, FinishEngine, Propagate, Persist, WriteState, Forward, Respond, session
  <2> QED BY <2>1, <2>2
<1>4. pc[u] = "scan" => engine'[KindSeq[stage[u]]] = engine[KindSeq[stage[u]]]
  <2> SUFFICES ASSUME pc[u] = "scan"
               PROVE  engine'[KindSeq[stage[u]]] = engine[KindSeq[stage[u]]]
    OBVIOUS
  <2>1. CASE LoadEngine(t)
    <3>1. pc'[t] = "scan" /\ stage'[t] = stage[t]
      BY <2>1 DEF LoadEngine, frag, TypeOK, PcType
    <3>2. stage[u] # stage[t]
      BY <1>1, <1>2, <3>1 DEF Orderly
    <3>3. KindSeq[stage[u]] # KindSeq[stage[t]]
      BY <3>2 DEF KindSeq, TypeOK, FragType
    <3> QED BY <2>1, <3>3, KindSeqType DEF LoadEngine, TypeOK, EngineType, FragType
  <2>2. CASE ~LoadEngine(t)
    BY <2>2 DEF Arrive, Work, EnterSession, CacheHit, CacheMiss, SkipEngine, Scan, ReuseLabel,
       ReadCounter, MintLabel, FinishEngine, Propagate, Persist, WriteState, Forward, Respond, shared
  <2> QED BY <2>1, <2>2
<1>5. \A i \in 1..3 : Passed(u, i)' => Passed(u, i)
  BY <1>1, <1>2 DEF Passed
<1> QED BY <1>1, <1>2, <1>3, <1>4, <1>5 DEF SeenInv, SeenOf

LEMMA ArriveSeen ==
    ASSUME TypeOK, SeenInv, NEW t \in Clients, Arrive(t)
    PROVE  SeenOf(t)'
<1>1. pc[t] = "idle" /\ pc'[t] = "enter" /\ own'[t] \in Configs /\ form'[t] \in Forms
      /\ out'[t] = out[t] /\ map'[t] = map[t]
  BY DataAssumption DEF Arrive, TypeOK, EngineType, PcType, RequestType
<1>2. out[t] = {} /\ map[t] = {}
  BY <1>1 DEF SeenInv, SeenOf
<1> QED BY <1>1, <1>2 DEF SeenOf, InSession, Passed, Working

\* The session is the request's own once it has entered it.
LEMMA EnterSeen ==
    ASSUME TypeOK, SeenInv, NEW t \in Clients, EnterSession(t)
    PROVE  SeenOf(t)' /\ CachedHide'
<1>1. pc[t] = "enter" /\ pc'[t] = "next" /\ UNCHANGED request
  BY DEF EnterSession, TypeOK, PcType
<1>2. own'[t] \in Configs /\ form'[t] \in Forms /\ out'[t] = {}
  BY <1>1 DEF SeenInv, SeenOf, request
<1>3. hash'[ProfileOf[t]] = own[t] /\ own'[t] = own[t]
  BY <1>1, DataAssumption DEF EnterSession, TypeOK, SessionType, request
<1>4. SeenOf(t)'
  BY <1>1, <1>2, <1>3 DEF SeenOf, Passed, Working
<1>5. CachedHide'
  <2>1. CASE UNCHANGED <<hash, cache>>
    BY <2>1 DEF SeenInv, CachedHide
  <2>2. CASE /\ hash' = [hash EXCEPT ![ProfileOf[t]] = own[t]]
             /\ cache' = [cache EXCEPT ![ProfileOf[t]] = EmptyCache]
    BY <2>2 DEF SeenInv, CachedHide, EmptyCache, TypeOK, SessionType
  <2> QED BY <2>1, <2>2 DEF EnterSession
<1> QED BY <1>4, <1>5

\* What was cached for the session's configuration hides what it must.
LEMMA CacheHitSeen ==
    ASSUME TypeOK, SeenInv, NEW t \in Clients, CacheHit(t)
    PROVE  SeenOf(t)'
<1> DEFINE f == Head(todo[t])
           x == cache[ProfileOf[t]][f].text
<1>1. f \in Fragments /\ ProfileOf[t] \in Profiles /\ cache[ProfileOf[t]][f] # None
  BY FragmentAtHand DEF CacheHit
<1>2. /\ pc[t] = "next" /\ pc'[t] = "next" /\ out'[t] = out[t] \cup {<<f, x>>}
      /\ own'[t] = own[t] /\ form'[t] = form[t] /\ UNCHANGED hash
  BY DEF CacheHit, TypeOK, RequestType, session
<1>3. own[t] = hash[ProfileOf[t]]
  BY <1>2 DEF SeenInv, SeenOf, InSession, Steps
<1>4. Hides(own[t], <<f, x>>[1], <<f, x>>[2])
  BY <1>1, <1>3 DEF SeenInv, CachedHide
<1>5. \A r \in out'[t] : Hides(own'[t], r[1], r[2])
  BY <1>2, <1>4 DEF SeenInv, SeenOf
<1> QED BY <1>2, <1>3, <1>5 DEF SeenInv, SeenOf, Passed, Working

LEMMA CacheMissSeen ==
    ASSUME TypeOK, SeenInv, NEW t \in Clients, CacheMiss(t)
    PROVE  SeenOf(t)'
<1>1. /\ pc[t] = "next" /\ pc'[t] = "load" /\ stage'[t] = 1
      /\ UNCHANGED <<request, hash>>
  BY DEF CacheMiss, TypeOK, PcType, FragType, session
<1>2. \A i \in 1..3 : ~Passed(t, i)'
  BY <1>1 DEF Passed
<1> QED BY <1>1, <1>2 DEF SeenInv, SeenOf, InSession, Steps, request

\* An engine that is done leaves nothing in clear that it detects.
LEMMA AdvanceSeen ==
    ASSUME TypeOK, SeenInv, NEW t \in Clients, pc[t] \in {"load", "label"}, Advance(t),
           UNCHANGED <<own, form, todo, out, text, hash>>,
           Shown(Head(todo[t]), text[t])
             \cap Detects(own[t], KindSeq[stage[t]], Head(todo[t])) = {}
    PROVE  SeenOf(t)'
<1>1. pc'[t] \in {"load", "propagate"}
  BY DEF Advance, TypeOK, PcType
<1>2. ASSUME NEW i \in 1..3, Passed(t, i)' PROVE Passed(t, i) \/ i = stage[t]
  <2>1. CASE stage[t] < 3
    BY <1>2, <2>1 DEF Advance, Passed, Working, TypeOK, PcType, FragType
  <2>2. CASE stage[t] = 3
    BY <2>2 DEF Passed, Working
  <2> QED BY <2>1, <2>2 DEF TypeOK, FragType
<1>3. \A i \in 1..3 : Passed(t, i) =>
         Shown(Head(todo[t]), text[t]) \cap Detects(own[t], KindSeq[i], Head(todo[t])) = {}
  BY DEF SeenInv, SeenOf
<1>4. \A i \in 1..3 : Passed(t, i)' =>
         Shown(Head(todo'[t]), text'[t]) \cap Detects(own'[t], KindSeq[i], Head(todo'[t])) = {}
  BY <1>2, <1>3
<1> QED BY <1>1, <1>4 DEF SeenInv, SeenOf, InSession, Steps

LEMMA SkipSeen ==
    ASSUME TypeOK, SeenInv, NEW t \in Clients, SkipEngine(t)
    PROVE  SeenOf(t)'
<1>1. Finds[own[t]][KindSeq[stage[t]]] = {}
  BY DEF SkipEngine, Uses, SeenInv
<1>2. Detects(own[t], KindSeq[stage[t]], Head(todo[t])) = {}
  BY <1>1 DEF Detects
<1> QED BY <1>2, AdvanceSeen DEF SkipEngine, request, session

LEMMA FinishSeen ==
    ASSUME TypeOK, SeenInv, NEW t \in Clients, FinishEngine(t)
    PROVE  SeenOf(t)'
<1>1. found[t] = Shown(Head(todo[t]), text[t])
                   \cap Detects(own[t], KindSeq[stage[t]], Head(todo[t]))
  BY DEF FinishEngine, SeenInv, SeenOf
<1> QED BY <1>1, AdvanceSeen DEF FinishEngine, session

\* An engine scans with the settings of the request, or has them in common.
LEMMA LoadSeen ==
    ASSUME TypeOK, SeenInv, NEW t \in Clients, LoadEngine(t)
    PROVE  SeenOf(t)'
<1> DEFINE k == KindSeq[stage[t]]
<1>1. pc[t] = "load" /\ pc'[t] = "scan" /\ UNCHANGED <<request, hash, stage, text>>
  BY DEF LoadEngine, TypeOK, PcType, session, frag
<1>2. k \in Kinds /\ form[t] \in {"json", "text"}
  BY KindSeqType DEF TypeOK, FragType, RequestType
<1>3. k # "pii" \/ form[t] = "json" => engine'[k] = own[t]
  <2>1. CASE k = "pii" /\ form[t] = "text"
    BY <2>1
  <2>2. CASE ~(k = "pii" /\ form[t] = "text")
    BY <1>2, <2>2 DEF LoadEngine, TypeOK, EngineType
  <2> QED BY <2>1, <2>2
<1>4. own'[t] \in Configs /\ form'[t] \in Forms /\ own'[t] = hash'[ProfileOf[t]]
  BY <1>1 DEF SeenInv, SeenOf, InSession, Steps, request
<1>5. \A i \in 1..3 : Passed(t, i)' => Passed(t, i)
  BY <1>1 DEF Passed, Working
<1>6. \A i \in 1..3 : Passed(t, i)' =>
         Shown(Head(todo'[t]), text'[t]) \cap Detects(own'[t], KindSeq[i], Head(todo'[t])) = {}
  BY <1>1, <1>5 DEF SeenInv, SeenOf, request
<1>7. \A r \in out'[t] : Hides(own'[t], r[1], r[2])
  BY <1>1 DEF SeenInv, SeenOf, request
<1>8. k # "pii" \/ form'[t] = "json" => engine'[KindSeq[stage'[t]]] = own'[t]
  BY <1>1, <1>3 DEF request
<1> HIDE DEF k
<1>9. pc'[t] = "scan" => (KindSeq[stage'[t]] # "pii" \/ form'[t] = "json"
                             => engine'[KindSeq[stage'[t]]] = own'[t])
  BY <1>1, <1>8 DEF k
<1> QED BY <1>1, <1>4, <1>6, <1>7, <1>9 DEF SeenOf

\* An engine reports what it detects for the request.
LEMMA ReportsDetects ==
    ASSUME ThresholdFits, TypeOK, SeenInv, NEW t \in Clients, pc[t] = "scan", NEW f \in Fragments
    PROVE  Holds[f] \cap Reports(own[t], KindSeq[stage[t]], f)
             = Detects(own[t], KindSeq[stage[t]], f)
<1> DEFINE k == KindSeq[stage[t]]
<1>1. k \in Kinds /\ own[t] \in Configs /\ form[t] \in Forms
  BY KindSeqType DEF TypeOK, FragType, SeenInv, SeenOf
<1>2. k # "pii" \/ form[t] = "json" => engine[k] = own[t]
  BY DEF SeenInv, SeenOf
<1>3. own[t] # None
  BY <1>1, NamesAssumption
<1>4. CASE k # "pii"
  <2>1. engine[k] = own[t]
    BY <1>2, <1>4
  <2>2. Reports(own[t], k, f) = Finds[own[t]][k]
    BY <1>3, <1>4, <2>1 DEF Reports
  <2> HIDE DEF k
  <2> QED BY <1>4, <2>2 DEF Detects, k
<1>5. CASE k = "pii"
  <2>1. Confident[engine[k]] = Confident[own[t]]
    <3>1. CASE form[t] = "json"
      BY <1>2, <3>1
    <3>2. CASE form[t] # "json"
      <4>1. "text" \in Forms
        BY <1>1, <3>2, FlagAssumption
      <4>2. engine[k] \in Configs \cup {None}
        BY <1>1 DEF TypeOK, EngineType
      <4> QED BY <1>1, <4>1, <4>2 DEF ThresholdFits
    <3> QED BY <3>1, <3>2
  <2>2. Reports(own[t], k, f) = (Finds[own[t]][k] \cap Confident[own[t]]) \ Misses[f]
    BY <1>5, <2>1 DEF Reports
  <2> HIDE DEF k
  <2> QED BY <1>5, <2>2 DEF Detects, k
<1> QED BY <1>4, <1>5

LEMMA ScanSeen ==
    ASSUME ThresholdFits, TypeOK, ThreadInv, SeenInv, NEW t \in Clients, Scan(t)
    PROVE  SeenOf(t)'
<1> DEFINE f == Head(todo[t])
           k == KindSeq[stage[t]]
<1>1. /\ pc[t] = "scan" /\ pc'[t] = "label" /\ UNCHANGED <<request, hash, stage, text>>
      /\ found'[t] = Shown(f, text[t]) \cap Reports(own[t], k, f)
  BY DEF Scan, TypeOK, PcType, FragType, session
<1>2. f \in Fragments
  BY <1>1, FragmentAtHand DEF ThreadInv, ThreadOK
<1>3. Holds[f] \cap Reports(own[t], k, f) = Detects(own[t], k, f)
  BY <1>1, <1>2, ReportsDetects
<1>4. found'[t] = Shown(f, text[t]) \cap Detects(own[t], k, f)
  BY <1>1, <1>3 DEF Shown
<1>5. \A i \in 1..3 : Passed(t, i)' => Passed(t, i)
  BY <1>1 DEF Passed, Working
<1>6. \A i \in 1..3 : Passed(t, i) => Shown(f, text[t]) \cap Detects(own[t], KindSeq[i], f) = {}
  BY DEF SeenInv, SeenOf
<1>7. /\ own[t] \in Configs /\ form[t] \in Forms /\ own[t] = hash[ProfileOf[t]]
      /\ \A r \in out[t] : Hides(own[t], r[1], r[2])
  BY <1>1 DEF SeenInv, SeenOf, InSession, Steps
<1> QED BY <1>1, <1>4, <1>5, <1>6, <1>7 DEF SeenOf, request

\* A label hides one string and shows none.
LEMMA ReplaceSeen ==
    ASSUME TypeOK, SeenInv, NEW t \in Clients, NEW e \in found[t], NEW lb \in Label,
           pc[t] \in {"label", "mint"}, pc'[t] = "label", Replace(t, e, lb),
           UNCHANGED <<request, hash, stage>>
    PROVE  SeenOf(t)'
<1> DEFINE f == Head(todo[t])
<1>1. e \in Entities /\ lb \notin Entities /\ text[t] \in Rendering
  BY NamesAssumption DEF TypeOK, FragType
<1>2. text'[t] = [text[t] EXCEPT ![e] = lb] /\ found'[t] = found[t] \ {e}
  BY DEF Replace, TypeOK, FragType
<1>3. text'[t][e] = lb /\ \A d \in Entities \ {e} : text'[t][d] = text[t][d]
  BY <1>1, <1>2 DEF Rendering
<1>4. Shown(f, text'[t]) = Shown(f, text[t]) \ {e}
  BY <1>1, <1>3 DEF Shown
<1>5. found[t] = Shown(f, text[t]) \cap Detects(own[t], KindSeq[stage[t]], f)
  BY DEF SeenInv, SeenOf
<1>6. found'[t] = Shown(f, text'[t]) \cap Detects(own[t], KindSeq[stage[t]], f)
  BY <1>2, <1>4, <1>5
<1>7. \A i \in 1..3 : Passed(t, i)' => Passed(t, i)
  BY DEF Passed, Working
<1>8. \A i \in 1..3 : Passed(t, i)' => Shown(f, text'[t]) \cap Detects(own[t], KindSeq[i], f) = {}
  BY <1>4, <1>7 DEF SeenInv, SeenOf
<1>9. /\ own[t] \in Configs /\ form[t] \in Forms /\ own[t] = hash[ProfileOf[t]]
      /\ \A r \in out[t] : Hides(own[t], r[1], r[2])
  BY DEF SeenInv, SeenOf, InSession, Steps
<1> QED BY <1>6, <1>8, <1>9 DEF SeenOf, request

LEMMA LabelSeen ==
    ASSUME TypeOK, ThreadInv, PairInv, SeenInv, NEW t \in Clients, ReuseLabel(t) \/ MintLabel(t)
    PROVE  SeenOf(t)'
<1> DEFINE p == ProfileOf[t]
           k == KindSeq[stage[t]]
<1>0. p \in Profiles /\ k \in Kinds
  BY KindSeqType, DataAssumption DEF TypeOK, FragType
<1>1. CASE ReuseLabel(t)
  <2>1. PICK e \in found[t] : labelOf[p][k][e] # Absent /\ Replace(t, e, <<k, labelOf[p][k][e]>>)
    BY <1>1 DEF ReuseLabel
  <2>2. <<k, labelOf[p][k][e]>> \in Label
    BY <1>0, <2>1 DEF TypeOK, SessionType, FragType, Label
  <2>3. pc[t] = "label" /\ pc'[t] = "label" /\ UNCHANGED <<request, hash, stage>>
    BY <1>1 DEF ReuseLabel, session
  <2> QED BY <2>1, <2>2, <2>3, ReplaceSeen
<1>2. CASE MintLabel(t)
  <2> DEFINE e == minting[t][1]
             n == minting[t][2]
  <2>1. pc[t] = "mint" /\ pc'[t] = "label" /\ Replace(t, e, <<k, n>>)
        /\ UNCHANGED <<request, hash, stage>>
    BY <1>2 DEF MintLabel, TypeOK, PcType
  <2>2. e \in found[t] /\ n \in Number
    BY <2>1 DEF PairInv, PairsOf, ThreadInv, ThreadOK
  <2>3. <<k, n>> \in Label
    BY <1>0, <2>2 DEF Label
  <2> HIDE DEF e, n, k
  <2> QED BY <2>1, <2>2, <2>3, ReplaceSeen
<1> QED BY <1>1, <1>2

LEMMA ReadCounterSeen ==
    ASSUME TypeOK, SeenInv, NEW t \in Clients, ReadCounter(t)
    PROVE  SeenOf(t)'
<1>1. pc[t] = "label" /\ pc'[t] = "mint" /\ UNCHANGED <<request, hash, stage, text, found>>
  BY DEF ReadCounter, TypeOK, PcType, session
<1>2. \A i \in 1..3 : Passed(t, i)' => Passed(t, i)
  BY <1>1 DEF Passed, Working
<1> QED BY <1>1, <1>2 DEF SeenInv, SeenOf, InSession, Steps, request

\* Propagation shows no more than the engines have left.
LEMMA PropagateSeen ==
    ASSUME TypeOK, ThreadInv, SeenInv, NEW t \in Clients, Propagate(t)
    PROVE  SeenOf(t)' /\ CachedHide'
<1> DEFINE p == ProfileOf[t]
           f == Head(todo[t])
<1>0. f \in Fragments /\ p \in Profiles
  BY FragmentAtHand DEF Propagate, ThreadInv, ThreadOK
<1>1. PICK via \in [Leftover(t) -> Kinds] :
         /\ cache' = [cache EXCEPT ![p][f] = [text |-> PropagatedText(t, via),
                                              map |-> PropagatedMap(t, via)]]
         /\ out' = [out EXCEPT ![t] = @ \cup {<<f, PropagatedText(t, via)>>}]
  BY DEF Propagate
<1> DEFINE x == PropagatedText(t, via)
<1>2. pc[t] = "propagate" /\ pc'[t] = "next" /\ UNCHANGED <<own, form, hash>>
  BY DEF Propagate, TypeOK, PcType
<1>3. out'[t] = out[t] \cup {<<f, x>>}
  BY <1>1 DEF TypeOK, RequestType
<1>4. own[t] \in Configs /\ form[t] \in Forms /\ own[t] = hash[p]
  BY <1>2 DEF SeenInv, SeenOf, InSession, Steps
<1>5. Shown(f, x) \subseteq Shown(f, text[t])
  <2> SUFFICES ASSUME NEW e \in Entities, e \in Holds[f], x[e] = e
               PROVE  text[t][e] = e
    BY DEF Shown
  <2>1. CASE e \in Leftover(t)
    BY <2>1 DEF Leftover, Shown
  <2>2. CASE e \notin Leftover(t)
    BY <2>2 DEF PropagatedText
  <2> QED BY <2>1, <2>2
<1>6. \A i \in 1..3 : Shown(f, text[t]) \cap Detects(own[t], KindSeq[i], f) = {}
  BY <1>2 DEF SeenInv, SeenOf, Passed
<1>7. Hides(own[t], f, x)
  <2> SUFFICES ASSUME NEW k \in Kinds PROVE Shown(f, x) \cap Detects(own[t], k, f) = {}
    BY DEF Hides
  <2>1. PICK i \in 1..3 : KindSeq[i] = k
    BY DEF Kinds, KindSeq
  <2> QED BY <1>5, <1>6, <2>1
<1> HIDE DEF x
<1>8. Hides(own[t], <<f, x>>[1], <<f, x>>[2])
  BY <1>7
<1>9. \A r \in out'[t] : Hides(own'[t], r[1], r[2])
  BY <1>2, <1>3, <1>8 DEF SeenInv, SeenOf
<1>10. SeenOf(t)'
  BY <1>2, <1>4, <1>9 DEF SeenOf, Passed, Working
<1>11. CachedHide'
  <2> SUFFICES ASSUME NEW q \in Profiles, NEW g \in Fragments, cache'[q][g] # None
               PROVE  Hides(hash[q], g, cache'[q][g].text)
    BY <1>2 DEF CachedHide
  <2>1. CASE q = p /\ g = f
    <3>1. cache'[q][g] = [text |-> PropagatedText(t, via), map |-> PropagatedMap(t, via)]
      BY <1>0, <1>1, <2>1 DEF TypeOK, SessionType
    <3> QED BY <1>4, <1>7, <2>1, <3>1 DEF x
  <2>2. CASE ~(q = p /\ g = f)
    <3>1. cache'[q][g] = cache[q][g]
      BY <1>0, <1>1, <2>2 DEF TypeOK, SessionType
    <3> QED BY <3>1 DEF SeenInv, CachedHide
  <2> QED BY <2>1, <2>2
<1> QED BY <1>10, <1>11

LEMMA CloseSeen ==
    ASSUME TypeOK, SeenInv, NEW t \in Clients, Persist(t) \/ WriteState(t) \/ Forward(t) \/ Respond(t)
    PROVE  SeenOf(t)'
<1>1. CASE Respond(t)
  BY <1>1 DEF Respond, SeenOf, InSession, Passed, Working, TypeOK, PcType, RequestType
<1>2. CASE Persist(t) \/ WriteState(t) \/ Forward(t)
  <2>1. /\ pc[t] \in {"next", "save", "forward"} /\ pc'[t] \in {"save", "forward", "await"}
        /\ UNCHANGED <<request, hash>>
    BY <1>2 DEF Persist, WriteState, Forward, TypeOK, PcType, session
  <2> QED BY <2>1 DEF SeenInv, SeenOf, InSession, Steps, Passed, Working, request
<1> QED BY <1>1, <1>2

LEMMA InitSeen == ASSUME ModelFromStart PROVE Init => SeenInv
<1> SUFFICES ASSUME Init PROVE SeenInv
  OBVIOUS
<1>1. detectorUp
  BY DEF Init, ModelFromStart
<1>2. CachedHide
  BY DEF Init, CachedHide, EmptyCache
<1>3. ASSUME NEW t \in Clients PROVE SeenOf(t)
  <2>1. pc[t] = "idle" /\ out[t] = {} /\ map[t] = {}
    BY DEF Init
  <2> QED BY <2>1 DEF SeenOf, InSession, Passed, Working
<1> QED BY <1>1, <1>2, <1>3 DEF SeenInv

LEMMA NextSeen ==
    ASSUME ModelFromStart, ThresholdFits, TypeOK, ThreadInv, PairInv, SeenInv, Orderly, Orderly',
           [Next]_vars
    PROVE  SeenInv'
<1>1. ASSUME NEW t \in Clients, Arrive(t) \/ Work(t) PROVE SeenInv'
  <2>1. \A u \in Clients \ {t} : SeenOf(u)'
    BY <1>1, OthersSeen
  <2>2. SeenOf(t)'
    BY <1>1, ArriveSeen, EnterSeen, CacheHitSeen, CacheMissSeen, SkipSeen, LoadSeen, ScanSeen,
       LabelSeen, ReadCounterSeen, FinishSeen, PropagateSeen, CloseSeen DEF Work
  <2>3. CachedHide'
    <3>1. CASE EnterSession(t) \/ Propagate(t)
      BY <3>1, EnterSeen, PropagateSeen
    <3>2. CASE ~(EnterSession(t) \/ Propagate(t))
      <4>1. UNCHANGED <<hash, cache>>
        BY <1>1, <3>2 DEF Work, Arrive, CacheHit, CacheMiss, SkipEngine, LoadEngine, Scan, ReuseLabel,
           ReadCounter, MintLabel, FinishEngine, Persist, WriteState, Forward, Respond, session
      <4> QED BY <4>1 DEF SeenInv, CachedHide
    <3> QED BY <3>1, <3>2
  <2>4. detectorUp'
    <3>1. UNCHANGED detectorUp
      BY <1>1 DEF Work, Arrive, EnterSession, CacheHit, CacheMiss, SkipEngine, LoadEngine, Scan,
         ReuseLabel, ReadCounter, MintLabel, FinishEngine, Propagate, Persist, WriteState, Forward,
         Respond, shared
    <3> QED BY <3>1 DEF SeenInv
  <2> QED BY <2>1, <2>2, <2>3, <2>4 DEF SeenInv
<1>2. CASE UNCHANGED vars \/ \E p \in Profiles : ChangeConfig(p)
  <2>1. UNCHANGED <<session, shared, pc, request, frag>>
    BY <1>2 DEF ChangeConfig, vars
  <2> QED
    BY <2>1 DEF SeenInv, SeenOf, CachedHide, Passed, session, shared, request, frag
<1>3. CASE LoadDetector
  BY <1>3 DEF LoadDetector, SeenInv
<1>4. CASE Restart
  BY <1>4 DEF Restart, ModelFromStart, SeenInv, SeenOf, CachedHide, EmptyCache, InSession, Passed,
     Working
<1> QED BY <1>1, <1>2, <1>3, <1>4 DEF Next

\* While the requests of one profile and the uses of one engine take turns, the model is
\* there from the start and every body is scanned with the threshold of its own profile,
\* what leaves shows nothing that the request's configuration redacts (NothingLeaks),
\* whatever was cached, whatever configurations changed and however often the engine was
\* restarted before.
THEOREM NothingLeaksInOrder ==
    ASSUME ModelFromStart, ThresholdFits
    PROVE  Spec /\ []Orderly => []NothingLeaks
<1>1. TypeOK /\ SeenInv => NothingLeaks
  <2> SUFFICES ASSUME TypeOK, SeenInv, NEW t \in InFlight, NEW r \in out[t]
               PROVE  Shown(r[1], r[2]) \cap Sensitive(own[t], r[1]) = {}
    BY DEF NothingLeaks
  <2> QED BY HidesSensitive DEF SeenInv, SeenOf, InFlight, TypeOK, RequestType
<1>2. Init => TypeOK /\ ThreadInv /\ PairInv /\ SeenInv
  BY InitType, InitThread, InitPairs, InitSeen
<1>3. TypeOK /\ ThreadInv /\ PairInv /\ SeenInv /\ Orderly /\ Orderly' /\ [Next]_vars
        => (TypeOK /\ ThreadInv /\ PairInv /\ SeenInv)'
  BY TypeStep, NextPairs, NextSeen
<1> QED BY <1>1, <1>2, <1>3, PTL DEF Spec

-----------------------------------------------------------------------------
(* What the session knows, when requests come in order *)

\* A body grows by a cached fragment, or by one that propagation is through with.
LEMMA OnlyAdds ==
    ASSUME TypeOK, [Next]_vars, NEW t \in Clients, NEW r \in out'[t] \ out[t]
    PROVE  CacheHit(t) \/ Propagate(t)
<1>1. out'[t] # out[t] /\ out'[t] # {}
  OBVIOUS
<1>2. PICK u \in Clients : CacheHit(u) \/ Propagate(u)
  <2>1. ~Restart /\ \A u \in Clients : ~Respond(u)
    BY <1>1 DEF Restart, Respond, TypeOK, RequestType
  <2> QED
    BY <1>1, <2>1 DEF Next, Arrive, Work, EnterSession, CacheMiss, SkipEngine, LoadEngine, Scan,
       ReuseLabel, ReadCounter, MintLabel, FinishEngine, Persist, WriteState, Forward,
       ChangeConfig, LoadDetector, request, vars
<1>3. u = t
  BY <1>1, <1>2 DEF CacheHit, Propagate, TypeOK, RequestType
<1> QED BY <1>2, <1>3

\* Propagation lets nothing through that the session has a label for.
LEMMA PropagatedHides ==
    ASSUME TypeOK, ThreadInv, NEW t \in Clients, Propagate(t), NEW r \in out'[t] \ out[t],
           NEW e \in Shown(r[1], r[2]), NEW k \in Kinds
    PROVE  labelOf[ProfileOf[t]][k][e] = Absent
<1> DEFINE f == Head(todo[t])
           p == ProfileOf[t]
<1>1. f \in Fragments /\ p \in Profiles
  BY FragmentAtHand DEF Propagate, ThreadInv, ThreadOK
<1>2. PICK via \in [Leftover(t) -> Kinds] :
         /\ \A d \in Leftover(t) : labelOf[p][via[d]][d] # Absent
         /\ out' = [out EXCEPT ![t] = @ \cup {<<f, PropagatedText(t, via)>>}]
  BY DEF Propagate
<1>3. r = <<f, PropagatedText(t, via)>>
  BY <1>2 DEF TypeOK, RequestType
<1>4. e \in Entities /\ e \in Holds[f] /\ PropagatedText(t, via)[e] = e
  BY <1>3 DEF Shown
<1> SUFFICES ASSUME labelOf[p][k][e] # Absent PROVE FALSE
  OBVIOUS
<1>5. CASE e \in Leftover(t)
  <2>1. LabelVia(t, via, e) = e
    BY <1>4, <1>5 DEF PropagatedText
  <2>2. LabelVia(t, via, e) \in Label
    <3>1. via[e] \in Kinds /\ labelOf[p][via[e]][e] \in Number
      BY <1>1, <1>2, <1>4, <1>5 DEF TypeOK, SessionType
    <3> QED BY <3>1 DEF LabelVia, Label
  <2> QED BY <1>4, <2>1, <2>2, NamesAssumption
<1>6. CASE e \notin Leftover(t)
  <2>1. text[t][e] = e
    BY <1>4, <1>6 DEF PropagatedText
  <2> QED BY <1>4, <1>6, <2>1 DEF Leftover, Shown
<1> QED BY <1>5, <1>6

\* While the requests of one profile and the uses of one engine take turns, a string that
\* the session has a label for goes out in clear only in a fragment that was cached
\* before, and only where the request's own configuration misses it
\* (KnownSlipsFromCacheOnly): whatever the model misses, a fragment that is redacted now
\* shows nothing known.
THEOREM KnownSlipsOnlyFromCache ==
    ASSUME ModelFromStart, ThresholdFits
    PROVE  Spec /\ []Orderly => KnownSlipsFromCacheOnly
<1> DEFINE Slips == \A t \in Clients : \A r \in out'[t] \ out[t] :
                        \A e \in Shown(r[1], r[2]), k \in Kinds :
                            labelOf[ProfileOf[t]][k][e] # Absent =>
                                /\ cache[ProfileOf[t]][r[1]] # None
                                /\ e \notin Sensitive(own[t], r[1])
<1>1. Init => TypeOK /\ ThreadInv /\ PairInv /\ SeenInv
  BY InitType, InitThread, InitPairs, InitSeen
<1>2. TypeOK /\ ThreadInv /\ PairInv /\ SeenInv /\ Orderly /\ Orderly' /\ [Next]_vars
        => (TypeOK /\ ThreadInv /\ PairInv /\ SeenInv)'
  BY TypeStep, NextPairs, NextSeen
<1>3. TypeOK /\ ThreadInv /\ SeenInv /\ [Next]_vars => Slips
  <2> SUFFICES ASSUME TypeOK, ThreadInv, SeenInv, [Next]_vars, NEW t \in Clients,
                      NEW r \in out'[t] \ out[t], NEW e \in Shown(r[1], r[2]), NEW k \in Kinds,
                      labelOf[ProfileOf[t]][k][e] # Absent
               PROVE  /\ cache[ProfileOf[t]][r[1]] # None
                      /\ e \notin Sensitive(own[t], r[1])
    OBVIOUS
  <2>1. CacheHit(t)
    BY OnlyAdds, PropagatedHides
  <2> DEFINE f == Head(todo[t])
             c == cache[ProfileOf[t]][f]
  <2>2. f \in Fragments /\ ProfileOf[t] \in Profiles /\ c # None
    BY <2>1, FragmentAtHand DEF CacheHit
  <2>3. r = <<f, c.text>>
    BY <2>1 DEF CacheHit, TypeOK, RequestType
  <2>4. own[t] = hash[ProfileOf[t]] /\ own[t] \in Configs
    BY <2>1 DEF CacheHit, SeenInv, SeenOf, InSession, Steps
  <2>5. Shown(f, c.text) \cap Sensitive(own[t], f) = {}
    BY <2>2, <2>4, HidesSensitive DEF SeenInv, CachedHide
  <2> QED BY <2>2, <2>3, <2>5
<1> QED BY <1>1, <1>2, <1>3, PTL DEF Spec, KnownSlipsFromCacheOnly

-----------------------------------------------------------------------------
(* What answers get back, when requests come in order *)

\* Every label of text x has its pair in m.
Backed(x, m) == \A e \in Entities : x[e] \in Label => [lab |-> x[e], ent |-> e] \in m

\* Every label of text x of fragment f has its pair in m, but for what propagation put in
\* where c detects nothing.
FoundBacked(c, f, x, m) ==
    \A k \in Kinds : \A e \in Detects(c, k, f) :
        e \in Entities /\ x[e] \in Label => [lab |-> x[e], ent |-> e] \in m

BackOf(t) ==
    /\ Backed(text[t], fmap[t])
    /\ pc[t] \in {"load", "scan", "propagate"} => fmap[t] \subseteq map[t]
    /\ \A r \in out[t] : FoundBacked(own[t], r[1], r[2], map[t])

CachedBack ==
    \A p \in Profiles, f \in Fragments : cache[p][f] # None =>
        Backed(cache[p][f].text, cache[p][f].map)

BackInv == CachedBack /\ \A t \in Clients : BackOf(t)

\* Where no two pairs share a label, an overwriting assignment drops none.
LEMMA OverwriteJoins ==
    ASSUME NEW m \in SUBSET Mapping, NEW n \in SUBSET Mapping,
           \A x \in m, y \in n : x.lab = y.lab => x.ent = y.ent
    PROVE  Overwrite(m, n) = m \cup n
<1>1. \A x \in m, y \in n : x.lab = y.lab => x = y
  BY DEF Mapping
<1> QED BY <1>1 DEF Overwrite

\* Two strings that the texts and bodies of a thread, and what its session has cached,
\* give the same label are one.
LEMMA OneString ==
    ASSUME LiveMeaning, TypeOK, NEW t \in Clients, NEW l \in Label,
           NEW d \in Entities, Mentions(ProfileOf[t], l, d),
           NEW e \in Entities, Mentions(ProfileOf[t], l, e)
    PROVE  d = e
<1>1. ProfileOf[t] \in Profiles
  BY DataAssumption
<1> QED BY <1>1 DEF LiveMeaning

\* The pairs of a request are said by its texts.
LEMMA PairsSaid ==
    ASSUME TypeOK, PairInv, NEW t \in Clients, NEW m \in map[t] \cup fmap[t]
    PROVE  m \in Mapping /\ m.lab \in Label /\ m.ent \in Entities
           /\ Mentions(ProfileOf[t], m.lab, m.ent)
<1>1. m \in Mapping
  BY DEF TypeOK, RequestType, FragType
<1>2. m.lab \in Label /\ m.ent \in Entities
  BY <1>1 DEF Mapping
<1>3. text[t][m.ent] = m.lab \/ \E r \in out[t] : r[2][m.ent] = m.lab
  BY DEF PairInv, PairsOf
<1> QED BY <1>1, <1>2, <1>3 DEF Mentions

\* A thread whose maps stay, and which keeps its texts.
LEMMA BackStay ==
    ASSUME NEW t \in Clients, BackOf(t), text'[t] = text[t], fmap'[t] = fmap[t], out'[t] = out[t],
           map'[t] = map[t], own'[t] = own[t] \/ out[t] = {},
           pc'[t] \in {"load", "scan", "propagate"}
             => pc[t] \in {"load", "scan", "propagate"} \/ fmap[t] = {}
    PROVE  BackOf(t)'
BY DEF BackOf, FoundBacked

LEMMA InitBack == Init => BackInv
<1> SUFFICES ASSUME Init PROVE BackInv
  OBVIOUS
<1>1. CachedBack
  BY DEF Init, CachedBack, EmptyCache
<1>2. \A t \in Clients : BackOf(t)
  BY NamesAssumption DEF Init, BackOf, Backed, Plain
<1> QED BY <1>1, <1>2 DEF BackInv

LEMMA EnterBack ==
    ASSUME TypeOK, BackInv, NEW t \in Clients, EnterSession(t)
    PROVE  CachedBack'
<1>1. CASE UNCHANGED cache
  BY <1>1 DEF BackInv, CachedBack
<1>2. CASE cache' = [cache EXCEPT ![ProfileOf[t]] = EmptyCache]
  BY <1>2 DEF BackInv, CachedBack, EmptyCache, TypeOK, SessionType
<1> QED BY <1>1, <1>2 DEF EnterSession

\* A cached fragment brings all its pairs, and none in the place of another.
LEMMA CacheHitBack ==
    ASSUME LiveMeaning, TypeOK, PairInv, BackInv, NEW t \in Clients, CacheHit(t)
    PROVE  BackOf(t)'
<1> DEFINE f == Head(todo[t])
           c == cache[ProfileOf[t]][f]
<1>1. f \in Fragments /\ ProfileOf[t] \in Profiles /\ c # None
  BY FragmentAtHand DEF CacheHit
<1>2. /\ out'[t] = out[t] \cup {<<f, c.text>>} /\ map'[t] = Overwrite(map[t], c.map)
      /\ pc[t] = "next" /\ pc'[t] = "next" /\ text'[t] = text[t] /\ fmap'[t] = fmap[t]
  BY DEF CacheHit, TypeOK, RequestType, frag
<1>3. c.map \subseteq Mapping /\ map[t] \subseteq Mapping
  BY <1>1 DEF TypeOK, RequestType, SessionType, CacheEntry
<1>4. \A x \in map[t], y \in c.map : x.lab = y.lab => x.ent = y.ent
  <2> SUFFICES ASSUME NEW x \in map[t], NEW y \in c.map, x.lab = y.lab
               PROVE  x.ent = y.ent
    OBVIOUS
  <2>1. y.lab \in Label /\ y.ent \in Entities
    BY <1>3 DEF Mapping
  <2>2. c.text[y.ent] = y.lab
    BY <1>1 DEF PairInv, CachedPairs
  <2>3. Mentions(ProfileOf[t], y.lab, y.ent)
    BY <1>1, <2>2 DEF Mentions
  <2>4. x.ent \in Entities /\ Mentions(ProfileOf[t], y.lab, x.ent)
    BY PairsSaid
  <2> QED BY <2>1, <2>3, <2>4, OneString
<1>5. map'[t] = map[t] \cup c.map
  BY <1>2, <1>3, <1>4, OverwriteJoins
<1>6. Backed(<<f, c.text>>[2], c.map)
  BY <1>1 DEF BackInv, CachedBack
<1>7. ASSUME NEW r \in out'[t] PROVE FoundBacked(own[t], r[1], r[2], map'[t])
  <2>1. CASE r \in out[t]
    BY <1>5, <2>1 DEF BackInv, BackOf, FoundBacked
  <2>2. CASE r = <<f, c.text>>
    BY <1>5, <1>6, <2>2 DEF Backed, FoundBacked
  <2> QED BY <1>2, <2>1, <2>2
<1>8. own'[t] = own[t]
  BY DEF CacheHit
<1> QED BY <1>2, <1>7, <1>8 DEF BackInv, BackOf

LEMMA CacheMissBack ==
    ASSUME TypeOK, BackInv, NEW t \in Clients, CacheMiss(t)
    PROVE  BackOf(t)'
<1>1. text'[t] = Plain /\ fmap'[t] = {} /\ UNCHANGED <<out, map, own>>
  BY DEF CacheMiss, TypeOK, FragType, request
<1>2. Backed(Plain, {})
  BY NamesAssumption DEF Backed, Plain
<1> QED BY <1>1, <1>2 DEF BackInv, BackOf

\* A label that is set comes with its pair, and displaces no other.
LEMMA ReplaceBack ==
    ASSUME LiveMeaning', TypeOK, PairInv, BackInv, NEW t \in Clients, NEW e \in found[t],
           NEW lb \in Label, pc[t] \in {"label", "mint"}, pc'[t] = "label", Replace(t, e, lb),
           UNCHANGED <<out, map, own>>
    PROVE  BackOf(t)'
<1>1. e \in Entities /\ text[t][e] = e /\ text[t] \in Rendering
  BY DEF TypeOK, FragType, PairInv, PairsOf
<1>2. /\ text'[t] = [text[t] EXCEPT ![e] = lb]
      /\ fmap'[t] = Overwrite(fmap[t], {[lab |-> lb, ent |-> e]})
  BY DEF Replace, TypeOK, FragType
<1>3. text'[t][e] = lb /\ \A d \in Entities \ {e} : text'[t][d] = text[t][d]
  BY <1>1, <1>2 DEF Rendering
<1>4. fmap[t] \subseteq Mapping /\ {[lab |-> lb, ent |-> e]} \subseteq Mapping
  BY <1>1 DEF TypeOK, FragType, Mapping
<1>5. ASSUME NEW x \in fmap[t], x.lab = lb PROVE x.ent = e
  <2>1. x.ent \in Entities /\ text[t][x.ent] = lb
    BY <1>4, <1>5 DEF Mapping, PairInv, PairsOf
  <2>2. CASE x.ent # e
    <3>1. text'[t][x.ent] = lb
      BY <1>3, <2>1, <2>2
    <3>2. Mentions(ProfileOf[t], lb, x.ent)' /\ Mentions(ProfileOf[t], lb, e)'
      BY <1>3, <3>1 DEF Mentions
    <3>3. ProfileOf[t] \in Profiles
      BY DataAssumption
    <3> QED BY <1>1, <2>1, <3>2, <3>3 DEF LiveMeaning
  <2> QED BY <2>2
<1>6. fmap'[t] = fmap[t] \cup {[lab |-> lb, ent |-> e]}
  BY <1>2, <1>4, <1>5, OverwriteJoins
<1>7. Backed(text'[t], fmap'[t])
  BY <1>3, <1>6 DEF BackInv, BackOf, Backed
<1> QED BY <1>7 DEF BackInv, BackOf

LEMMA LabelBack ==
    ASSUME LiveMeaning', TypeOK, ThreadInv, PairInv, BackInv, NEW t \in Clients,
           ReuseLabel(t) \/ MintLabel(t)
    PROVE  BackOf(t)'
<1> DEFINE p == ProfileOf[t]
           k == KindSeq[stage[t]]
<1>0. p \in Profiles /\ k \in Kinds
  BY KindSeqType, DataAssumption DEF TypeOK, FragType
<1>1. CASE ReuseLabel(t)
  <2>1. PICK e \in found[t] : labelOf[p][k][e] # Absent /\ Replace(t, e, <<k, labelOf[p][k][e]>>)
    BY <1>1 DEF ReuseLabel
  <2>2. <<k, labelOf[p][k][e]>> \in Label
    BY <1>0, <2>1 DEF TypeOK, SessionType, FragType, Label
  <2>3. pc[t] = "label" /\ pc'[t] = "label" /\ UNCHANGED <<out, map, own>>
    BY <1>1 DEF ReuseLabel, request
  <2> QED BY <2>1, <2>2, <2>3, ReplaceBack
<1>2. CASE MintLabel(t)
  <2> DEFINE e == minting[t][1]
             n == minting[t][2]
  <2>1. pc[t] = "mint" /\ pc'[t] = "label" /\ Replace(t, e, <<k, n>>)
        /\ UNCHANGED <<out, map, own>>
    BY <1>2 DEF MintLabel, TypeOK, PcType, request
  <2>2. e \in found[t] /\ n \in Number
    BY <2>1 DEF PairInv, PairsOf, ThreadInv, ThreadOK
  <2>3. <<k, n>> \in Label
    BY <1>0, <2>2 DEF Label
  <2> HIDE DEF e, n, k
  <2> QED BY <2>1, <2>2, <2>3, ReplaceBack
<1> QED BY <1>1, <1>2

\* The request's maps take over every pair of the fragment.
LEMMA FinishBack ==
    ASSUME LiveMeaning, TypeOK, PairInv, BackInv, NEW t \in Clients, FinishEngine(t)
    PROVE  BackOf(t)'
<1>1. /\ map'[t] = Overwrite(map[t], fmap[t])
      /\ UNCHANGED <<own, out, text, fmap>>
  BY DEF FinishEngine, TypeOK, RequestType
<1>2. map[t] \subseteq Mapping /\ fmap[t] \subseteq Mapping
  BY DEF TypeOK, RequestType, FragType
<1>3. \A x \in map[t], y \in fmap[t] : x.lab = y.lab => x.ent = y.ent
  BY PairsSaid, OneString
<1>4. map'[t] = map[t] \cup fmap[t]
  BY <1>1, <1>2, <1>3, OverwriteJoins
<1> QED BY <1>1, <1>4 DEF BackInv, BackOf, FoundBacked

\* When all engines are done, propagation finds only what they do not detect here.
LEMMA OnlyMissedLeft ==
    ASSUME TypeOK, ThreadInv, SeenInv, NEW t \in Clients, pc[t] = "propagate", NEW k \in Kinds
    PROVE  Leftover(t) \cap Detects(own[t], k, Head(todo[t])) = {}
<1>1. PICK i \in 1..3 : KindSeq[i] = k
  BY DEF Kinds, KindSeq
<1>2. Shown(Head(todo[t]), text[t]) \cap Detects(own[t], k, Head(todo[t])) = {}
  BY <1>1 DEF SeenInv, SeenOf, Passed
<1> QED BY <1>2 DEF Leftover

\* So the body has the pairs of what the engines detect, and the cache, whose map has
\* the propagated ones too, has all.
LEMMA PropagateBack ==
    ASSUME LiveMeaning, TypeOK, ThreadInv, PairInv, SeenInv, BackInv, NEW t \in Clients,
           Propagate(t)
    PROVE  BackOf(t)' /\ CachedBack'
<1> DEFINE p == ProfileOf[t]
           f == Head(todo[t])
<1>0. f \in Fragments /\ p \in Profiles /\ pc[t] = "propagate"
  BY FragmentAtHand DEF Propagate, ThreadInv, ThreadOK
<1>1. PICK via \in [Leftover(t) -> Kinds] :
         /\ \A e \in Leftover(t) : labelOf[p][via[e]][e] # Absent
         /\ cache' = [cache EXCEPT ![p][f] = [text |-> PropagatedText(t, via),
                                              map |-> PropagatedMap(t, via)]]
         /\ out' = [out EXCEPT ![t] = @ \cup {<<f, PropagatedText(t, via)>>}]
  BY DEF Propagate
<1> DEFINE x == PropagatedText(t, via)
           new == {[lab |-> LabelVia(t, via, e), ent |-> e] : e \in Leftover(t)}
<1>2. ASSUME NEW e \in Leftover(t)
      PROVE  e \in Entities /\ x[e] = LabelVia(t, via, e) /\ x[e] \in Label
             /\ Mentions(p, x[e], e)
  <2>1. e \in Entities
    BY <1>2 DEF Leftover, Shown
  <2>2. via[e] \in Kinds /\ labelOf[p][via[e]][e] \in Number
    BY <1>0, <1>1, <1>2, <2>1 DEF TypeOK, SessionType
  <2>3. x[e] = LabelVia(t, via, e)
    BY <1>2, <2>1 DEF PropagatedText
  <2>4. x[e] = <<via[e], labelOf[p][via[e]][e]>>
    BY <2>3 DEF LabelVia
  <2>5. x[e] \in Label
    BY <2>2, <2>4 DEF Label
  <2>6. Mentions(p, x[e], e)
    BY <2>4 DEF Mentions
  <2> QED BY <2>1, <2>3, <2>5, <2>6
<1>3. ASSUME NEW e \in Entities, e \notin Leftover(t) PROVE x[e] = text[t][e]
  BY <1>3 DEF PropagatedText
<1>4. Backed(text[t], fmap[t]) /\ fmap[t] \subseteq map[t]
  BY <1>0 DEF BackInv, BackOf
<1>5. fmap[t] \subseteq Mapping /\ new \subseteq Mapping
  <2>1. \A e \in Leftover(t) : LabelVia(t, via, e) \in Label /\ e \in Entities
    BY <1>2
  <2> QED BY <2>1 DEF TypeOK, FragType, Mapping
<1>6. \A m \in fmap[t], n \in new : m.lab = n.lab => m.ent = n.ent
  <2> SUFFICES ASSUME NEW m \in fmap[t], NEW e \in Leftover(t), m.lab = LabelVia(t, via, e)
               PROVE  m.ent = e
    OBVIOUS
  <2>1. m.lab \in Label /\ m.ent \in Entities /\ Mentions(p, m.lab, m.ent)
    BY PairsSaid
  <2>2. e \in Entities /\ Mentions(p, m.lab, e)
    BY <1>2
  <2> QED BY <2>1, <2>2, OneString
<1>7. PropagatedMap(t, via) = fmap[t] \cup new
  BY <1>5, <1>6, OverwriteJoins DEF PropagatedMap
<1>8. Backed(x, PropagatedMap(t, via))
  <2> SUFFICES ASSUME NEW e \in Entities, x[e] \in Label
               PROVE  [lab |-> x[e], ent |-> e] \in fmap[t] \cup new
    BY <1>7 DEF Backed
  <2>1. CASE e \in Leftover(t)
    BY <1>2, <2>1
  <2>2. CASE e \notin Leftover(t)
    BY <1>3, <1>4, <2>2 DEF Backed
  <2> QED BY <2>1, <2>2
<1>9. FoundBacked(own[t], f, x, map[t])
  <2> SUFFICES ASSUME NEW k \in Kinds, NEW e \in Detects(own[t], k, f), e \in Entities, x[e] \in Label
               PROVE  [lab |-> x[e], ent |-> e] \in map[t]
    BY DEF FoundBacked
  <2>1. e \notin Leftover(t)
    BY <1>0, OnlyMissedLeft
  <2> QED BY <1>3, <1>4, <2>1 DEF Backed
<1>10. /\ text'[t] = Plain /\ fmap'[t] = {} /\ map'[t] = map[t] /\ own'[t] = own[t]
       /\ out'[t] = out[t] \cup {<<f, x>>}
  BY <1>1 DEF Propagate, TypeOK, FragType, RequestType
<1>11. BackOf(t)'
  <2> HIDE DEF x
  <2>1. ASSUME NEW r \in out'[t] PROVE FoundBacked(own[t], r[1], r[2], map[t])
    <3>1. CASE r \in out[t]
      BY <3>1 DEF BackInv, BackOf
    <3>2. CASE r = <<f, x>>
      BY <1>9, <3>2
    <3> QED BY <1>10, <3>1, <3>2
  <2>2. Backed(Plain, {})
    BY NamesAssumption DEF Backed, Plain
  <2> QED BY <1>10, <2>1, <2>2 DEF BackOf
<1>12. CachedBack'
  <2> SUFFICES ASSUME NEW q \in Profiles, NEW g \in Fragments, cache'[q][g] # None
               PROVE  Backed(cache'[q][g].text, cache'[q][g].map)
    BY DEF CachedBack
  <2>1. CASE q = p /\ g = f
    <3>1. cache'[q][g] = [text |-> x, map |-> PropagatedMap(t, via)]
      BY <1>0, <1>1, <2>1 DEF TypeOK, SessionType
    <3> QED BY <1>8, <3>1
  <2>2. CASE ~(q = p /\ g = f)
    <3>1. cache'[q][g] = cache[q][g]
      BY <1>0, <1>1, <2>2 DEF TypeOK, SessionType
    <3> QED BY <3>1 DEF BackInv, CachedBack
  <2> QED BY <2>1, <2>2
<1> QED BY <1>11, <1>12

\* The steps of a thread that change neither its texts nor its maps.
LEMMA TurningBack ==
    ASSUME TypeOK, PairInv, SeenInv, BackInv, NEW t \in Clients,
           Turning(t) \/ Scan(t) \/ ReadCounter(t)
    PROVE  BackOf(t)'
<1>1. UNCHANGED <<text, fmap, map, out>>
  BY DEF Turning, Arrive, EnterSession, SkipEngine, LoadEngine, Persist, WriteState, Forward,
         Scan, ReadCounter, frag, request
<1>2. pc'[t] \in {"load", "scan", "propagate"} => pc[t] \in {"load", "scan", "propagate"}
  BY DEF Turning, Arrive, EnterSession, SkipEngine, LoadEngine, Persist, WriteState, Forward,
         Scan, ReadCounter, Advance, TypeOK, PcType
<1>3. own'[t] = own[t] \/ out[t] = {}
  <2>1. CASE Arrive(t)
    BY <2>1 DEF Arrive, SeenInv, SeenOf
  <2>2. CASE ~Arrive(t)
    BY <2>2 DEF Turning, EnterSession, SkipEngine, LoadEngine, Persist, WriteState, Forward,
       Scan, ReadCounter, request
  <2> QED BY <2>1, <2>2
<1> QED BY <1>1, <1>2, <1>3, BackStay DEF BackInv

LEMMA RespondBack ==
    ASSUME TypeOK, BackInv, NEW t \in Clients, Respond(t)
    PROVE  BackOf(t)'
<1>1. pc'[t] = "idle" /\ out'[t] = {} /\ UNCHANGED <<text, fmap>>
  BY DEF Respond, TypeOK, PcType, RequestType, frag
<1> QED BY <1>1 DEF BackInv, BackOf

\* A step of one thread leaves the texts and the maps of the others alone.
LEMMA OthersBack ==
    ASSUME TypeOK, BackInv, NEW t \in Clients, Arrive(t) \/ Work(t), NEW u \in Clients \ {t}
    PROVE  BackOf(u)'
<1>1. pc'[u] = pc[u] /\ out'[u] = out[u] /\ map'[u] = map[u] /\ own'[u] = own[u]
  BY DEF Arrive, Work, EnterSession, CacheHit, CacheMiss, SkipEngine, LoadEngine, Scan, ReuseLabel,
         ReadCounter, MintLabel, FinishEngine, Propagate, Persist, WriteState, Forward, Respond,
         Advance, request, TypeOK, PcType, RequestType
<1>2. text'[u] = text[u] /\ fmap'[u] = fmap[u]
  BY DEF Arrive, Work, EnterSession, CacheHit, CacheMiss, SkipEngine, LoadEngine, Scan, ReuseLabel,
         ReadCounter, MintLabel, FinishEngine, Propagate, Persist, WriteState, Forward, Respond,
         Replace, frag, TypeOK, FragType
<1> QED BY <1>1, <1>2, BackStay DEF BackInv

LEMMA NextBack ==
    ASSUME LiveMeaning, LiveMeaning', TypeOK, ThreadInv, PairInv, SeenInv, BackInv, [Next]_vars
    PROVE  BackInv'
<1>1. ASSUME NEW t \in Clients, Arrive(t) \/ Work(t) PROVE BackInv'
  <2>1. \A u \in Clients \ {t} : BackOf(u)'
    BY <1>1, OthersBack
  <2>2. BackOf(t)'
    BY <1>1, TurningBack, CacheHitBack, CacheMissBack, LabelBack, FinishBack, PropagateBack,
       RespondBack DEF Work, Turning
  <2>3. CachedBack'
    <3>1. CASE EnterSession(t) \/ Propagate(t)
      BY <3>1, EnterBack, PropagateBack
    <3>2. CASE ~(EnterSession(t) \/ Propagate(t))
      <4>1. UNCHANGED cache
        BY <1>1, <3>2 DEF Work, Arrive, CacheHit, CacheMiss, SkipEngine, LoadEngine, Scan, ReuseLabel,
           ReadCounter, MintLabel, FinishEngine, Persist, WriteState, Forward, Respond, session
      <4> QED BY <4>1 DEF BackInv, CachedBack
    <3> QED BY <3>1, <3>2
  <2> QED BY <2>1, <2>2, <2>3 DEF BackInv
<1>2. CASE LoadDetector \/ UNCHANGED vars \/ \E p \in Profiles : ChangeConfig(p)
  <2>1. UNCHANGED <<session, pc, request, frag>>
    BY <1>2 DEF LoadDetector, ChangeConfig, vars
  <2>2. CachedBack'
    BY <2>1 DEF BackInv, CachedBack, session
  <2>3. \A t \in Clients : BackOf(t)'
    BY <2>1, BackStay DEF BackInv, request, frag
  <2> QED BY <2>2, <2>3 DEF BackInv
<1>3. CASE Restart
  <2>1. CachedBack'
    BY <1>3 DEF Restart, CachedBack, EmptyCache
  <2>2. \A t \in Clients : BackOf(t)'
    BY <1>3, NamesAssumption DEF Restart, BackOf, Backed, Plain
  <2> QED BY <2>1, <2>2 DEF BackInv
<1> QED BY <1>1, <1>2, <1>3 DEF Next

\* While the requests of one profile and the uses of one engine take turns, a string that
\* the request's own configuration finds in a fragment can be restored in the answer
\* (FoundIsRestorable), although propagation replaces what the model missed and adds no
\* pair, and although a fragment may come from the cache.
THEOREM FoundRestorableInOrder ==
    ASSUME ModelFromStart, ThresholdFits
    PROVE  Spec /\ []Orderly => []FoundIsRestorable
<1>1. TypeOK /\ SeenInv /\ BackInv => FoundIsRestorable
  <2> SUFFICES ASSUME TypeOK, SeenInv, BackInv, NEW t \in InFlight, NEW r \in out[t],
                      NEW e \in Sensitive(own[t], r[1]), r[2][e] \in Label
               PROVE  [lab |-> r[2][e], ent |-> e] \in map[t]
    BY DEF FoundIsRestorable
  <2>1. t \in Clients /\ r[1] \in Fragments /\ own[t] \in Configs
    BY DEF InFlight, TypeOK, RequestType, SeenInv, SeenOf
  <2>2. PICK k \in Kinds : e \in Detects(own[t], k, r[1])
    BY <2>1, SensitiveDetects DEF SeenInv
  <2>3. e \in Entities
    BY <2>1, <2>2, DataAssumption DEF Detects
  <2> QED BY <2>1, <2>2, <2>3 DEF BackInv, BackOf, FoundBacked
<1>2. Init => PairInv /\ SeenInv /\ BackInv
  BY InitPairs, InitSeen, InitBack
<1>3. LiveInv /\ LiveInv' /\ PairInv /\ SeenInv /\ BackInv /\ Orderly /\ Orderly' /\ [Next]_vars
        => (PairInv /\ SeenInv /\ BackInv)'
  BY NextPairs, NextSeen, NextBack DEF LiveInv
<1>4. LiveInv => TypeOK
  BY DEF LiveInv
<1>5. Orderly => InTurn
  BY DEF Orderly
<1> QED BY <1>1, <1>2, <1>3, <1>4, <1>5, LabelsLive, PTL DEF Spec
=============================================================================
