--------------------------- MODULE RedactionProofs ---------------------------
(***************************************************************************)
(* Proofs about Redaction: type correctness; that a label of the live      *)
(* engine stands for one string while the requests of a profile are        *)
(* redacted in turn; and, when saves are not torn either, that a label     *)
(* number that went upstream never comes to stand for a second string, and *)
(* that the pipeline implements LabelLedger.                               *)
(***************************************************************************)
EXTENDS Redaction, TLAPS

-----------------------------------------------------------------------------
(* What a step leaves alone keeps its type. *)

\* What an action leaves UNCHANGED keeps its type, one lemma per group of
\* variables.
LEMMA SessionFrame == SessionType /\ UNCHANGED session => SessionType'
  BY DEF SessionType, session

\* The state file and its copy in memory.
LEMMA StoreFrame == StoreType /\ UNCHANGED store => StoreType'
  BY DEF StoreType, store

\* The request of each thread.
LEMMA RequestFrame == RequestType /\ UNCHANGED request => RequestType'
  BY DEF RequestType, request

\* The fragment a thread works on.
LEMMA FragFrame == FragType /\ UNCHANGED frag => FragType'
  BY DEF FragType, frag

\* Settings, pattern engines and detector.
LEMMA EngineFrame == EngineType /\ UNCHANGED <<conf, shared>> => EngineType'
  BY DEF EngineType, shared

\* What was sent upstream.
LEMMA SentFrame == SentType /\ UNCHANGED sent => SentType'
  BY DEF SentType

\* Where the threads are.
LEMMA PcFrame == PcType /\ UNCHANGED pc => PcType'
  BY DEF PcType

\* Moving one thread keeps PcType.
LEMMA PcMove ==
    ASSUME PcType, NEW t \in Clients, NEW s \in Steps,
           pc' = [pc EXCEPT ![t] = s]
    PROVE  PcType'
  BY DEF PcType

-----------------------------------------------------------------------------
(* The operators of the model. *)

\* The engines run in an order of Kinds.
LEMMA KindSeqType == \A i \in 1..3 : KindSeq[i] \in Kinds
  BY DEF KindSeq, Kinds

\* A label is a kind and a number.
LEMMA LabelParts == \A l \in Label : l[1] \in Kinds /\ l[2] \in Number /\ l[2] \in Nat
  BY FlagAssumption DEF Label, Number

\* A text nothing is redacted in is a rendering.
LEMMA PlainType == Plain \in Rendering
  BY DEF Plain, Rendering, Token

\* std::map assignment keeps a mapping a mapping.
LEMMA OverwriteType ==
    ASSUME NEW m \in SUBSET Mapping, NEW n \in SUBSET Mapping
    PROVE  Overwrite(m, n) \in SUBSET Mapping
  BY DEF Overwrite

\* A label and its string are a mapping entry.
LEMMA PairType ==
    ASSUME NEW e \in Entities, NEW lb \in Label
    PROVE  [lab |-> lb, ent |-> e] \in Mapping
  BY DEF Mapping

\* What a fresh session starts with.
LEMMA FreshType ==
    /\ NoLabels \in [Kinds -> [Entities -> Number \cup {Absent}]]
    /\ Zero \in [Kinds -> Nat]
    /\ EmptyCache \in [Fragments -> {None} \cup CacheEntry]
  BY DEF NoLabels, Zero, EmptyCache

\* Replace keeps the types of the fragment.
LEMMA ReplaceType ==
    ASSUME FragType, NEW t \in Clients, NEW e \in Entities, NEW lb \in Label,
           Replace(t, e, lb)
    PROVE  /\ text' \in [Clients -> Rendering]
           /\ fmap' \in [Clients -> SUBSET Mapping]
           /\ found' \in [Clients -> SUBSET Entities]
<1>1. {[lab |-> lb, ent |-> e]} \in SUBSET Mapping
  BY PairType
<1>2. fmap[t] \in SUBSET Mapping /\ text[t] \in Rendering
  BY DEF FragType
<1>3. Overwrite(fmap[t], {[lab |-> lb, ent |-> e]}) \in SUBSET Mapping
  BY <1>1, <1>2, OverwriteType
<1>4. [text[t] EXCEPT ![e] = lb] \in Rendering
  BY <1>2 DEF Rendering, Token
<1>5. text' = [text EXCEPT ![t] = [text[t] EXCEPT ![e] = lb]]
  BY DEF Replace, FragType
<1>6. text' \in [Clients -> Rendering]
  BY <1>4, <1>5 DEF FragType
<1>7. fmap' \in [Clients -> SUBSET Mapping]
  BY <1>3 DEF Replace, FragType
<1>8. found' \in [Clients -> SUBSET Entities]
  BY DEF Replace, FragType
<1>9. QED
  BY <1>6, <1>7, <1>8

\* Advance keeps the types of stage and pc.
LEMMA AdvanceType ==
    ASSUME PcType, stage \in [Clients -> 1..3], NEW t \in Clients, Advance(t)
    PROVE  PcType' /\ stage' \in [Clients -> 1..3]
<1>1. CASE /\ stage[t] < 3
           /\ stage' = [stage EXCEPT ![t] = @ + 1]
           /\ pc' = [pc EXCEPT ![t] = "load"]
  <2>1. PcType'
    BY <1>1, PcMove DEF Steps
  <2>2. stage[t] + 1 \in 1..3
    BY <1>1
  <2>3. QED
    BY <1>1, <2>1, <2>2
<1>2. CASE /\ stage[t] = 3
           /\ stage' = [stage EXCEPT ![t] = 1]
           /\ pc' = [pc EXCEPT ![t] = "propagate"]
  <2>1. PcType'
    BY <1>2, PcMove DEF Steps
  <2>2. QED
    BY <1>2, <2>1
<1>3. QED
  BY <1>1, <1>2 DEF Advance

-----------------------------------------------------------------------------
(* Type correctness. *)

\* TypeOK holds initially.
LEMMA InitType == Init => TypeOK
<1> SUFFICES ASSUME Init PROVE TypeOK
  OBVIOUS
<1>1. EngineType
  BY FlagAssumption DEF Init, EngineType
<1>2. SessionType
  BY FreshType DEF Init, SessionType, Counters
<1>3. StoreType
  BY FreshType DEF Init, StoreType, Counters
<1>4. PcType
  BY DEF Init, PcType, Steps
<1>5. RequestType
  BY DEF Init, RequestType
<1>6. FragType
  BY PlainType DEF Init, FragType
<1>7. SentType
  BY DEF Init, SentType
<1>8. QED
  BY <1>1, <1>2, <1>3, <1>4, <1>5, <1>6, <1>7 DEF TypeOK

\* TypeOK is kept by Arrive.
LEMMA ArriveType == ASSUME TypeOK, NEW t \in Clients, Arrive(t) PROVE TypeOK'
<1>1. PcType'
  BY PcMove DEF TypeOK, Arrive, Steps
<1>2. RequestType'
  BY ZenonT(40), DataAssumption, FlagAssumption DEF TypeOK, Arrive, RequestType, EngineType
<1>3. QED
  BY <1>1, <1>2, SessionFrame, StoreFrame, FragFrame, EngineFrame, SentFrame
     DEF TypeOK, Arrive

\* TypeOK is kept by EnterSession.
LEMMA EnterSessionType ==
    ASSUME TypeOK, NEW t \in Clients, EnterSession(t) PROVE TypeOK'
<1>1. PcType'
  BY PcMove DEF TypeOK, EnterSession, Steps
<1>2. OnDisk \in Counters
  BY FreshType DEF OnDisk, TypeOK, StoreType, Counters
<1>3. StoreType'
  BY <1>2 DEF TypeOK, EnterSession, StoreType
<1>4. floor' \in Counters /\ ProfileOf[t] \in Profiles
  BY <1>3, DataAssumption DEF StoreType
<1>5. counter' \in Counters
  <2>1. counter' = [counter EXCEPT ![ProfileOf[t]] = [k \in Kinds |->
                      Bigger(counter[ProfileOf[t]][k], floor'[ProfileOf[t]][k])]]
    BY DEF EnterSession
  <2>2. [k \in Kinds |-> Bigger(counter[ProfileOf[t]][k], floor'[ProfileOf[t]][k])]
          \in [Kinds -> Nat]
    BY <1>4 DEF TypeOK, SessionType, Counters, Bigger
  <2>3. QED
    BY <2>1, <2>2, <1>4 DEF TypeOK, SessionType, Counters
<1>6. own[t] \in Configs \cup {None}
  BY DEF TypeOK, RequestType
<1>7. SessionType'
  <2>1. CASE UNCHANGED <<hash, labelOf, cache>>
    BY <2>1, <1>5 DEF TypeOK, SessionType
  <2>2. CASE /\ hash' = [hash EXCEPT ![ProfileOf[t]] = own[t]]
             /\ labelOf' = [labelOf EXCEPT ![ProfileOf[t]] = NoLabels]
             /\ cache' = [cache EXCEPT ![ProfileOf[t]] = EmptyCache]
    <3>1. hash' \in [Profiles -> Configs \cup {None}]
      BY <2>2, <1>6 DEF TypeOK, SessionType
    <3>2. labelOf' \in [Profiles -> [Kinds -> [Entities -> Number \cup {Absent}]]]
      BY <2>2, FreshType DEF TypeOK, SessionType
    <3>3. cache' \in [Profiles -> [Fragments -> {None} \cup CacheEntry]]
      BY <2>2, FreshType DEF TypeOK, SessionType
    <3>4. QED
      BY <3>1, <3>2, <3>3, <1>5 DEF SessionType
  <2>3. QED
    BY <2>1, <2>2 DEF EnterSession
<1>8. QED
  BY <1>1, <1>3, <1>7, RequestFrame, FragFrame, EngineFrame, SentFrame
     DEF TypeOK, EnterSession

\* TypeOK is kept by CacheHit.
LEMMA CacheHitType ==
    ASSUME TypeOK, NEW t \in Clients, CacheHit(t) PROVE TypeOK'
<1>1. todo[t] \in Seq(Fragments) /\ todo[t] # <<>>
  BY DEF TypeOK, RequestType, CacheHit
<1>2. Head(todo[t]) \in Fragments /\ Tail(todo[t]) \in Seq(Fragments)
  BY <1>1
<1>3. cache[ProfileOf[t]][Head(todo[t])] \in CacheEntry
  BY <1>2, DataAssumption DEF TypeOK, SessionType, CacheHit
<1>4. /\ cache[ProfileOf[t]][Head(todo[t])].text \in Rendering
      /\ cache[ProfileOf[t]][Head(todo[t])].map \in SUBSET Mapping
  BY <1>3 DEF CacheEntry
<1>5. Overwrite(map[t], cache[ProfileOf[t]][Head(todo[t])].map) \in SUBSET Mapping
  BY <1>4, OverwriteType DEF TypeOK, RequestType
<1>6. RequestType'
  BY <1>2, <1>4, <1>5 DEF TypeOK, CacheHit, RequestType
<1>7. QED
  BY <1>6, SessionFrame, StoreFrame, FragFrame, EngineFrame, SentFrame, PcFrame
     DEF TypeOK, CacheHit

\* TypeOK is kept by CacheMiss.
LEMMA CacheMissType ==
    ASSUME TypeOK, NEW t \in Clients, CacheMiss(t) PROVE TypeOK'
<1>1. PcType'
  BY PcMove DEF TypeOK, CacheMiss, Steps
<1>2. FragType'
  BY PlainType DEF TypeOK, CacheMiss, FragType
<1>3. QED
  BY <1>1, <1>2, SessionFrame, StoreFrame, RequestFrame, EngineFrame, SentFrame
     DEF TypeOK, CacheMiss

\* TypeOK is kept by SkipEngine.
LEMMA SkipEngineType ==
    ASSUME TypeOK, NEW t \in Clients, SkipEngine(t) PROVE TypeOK'
<1>1. PcType' /\ stage' \in [Clients -> 1..3]
  BY AdvanceType DEF TypeOK, FragType, SkipEngine
<1>2. FragType'
  BY <1>1 DEF TypeOK, FragType, SkipEngine
<1>3. QED
  BY <1>1, <1>2, SessionFrame, StoreFrame, RequestFrame, EngineFrame, SentFrame
     DEF TypeOK, SkipEngine

\* TypeOK is kept by LoadEngine.
LEMMA LoadEngineType ==
    ASSUME TypeOK, NEW t \in Clients, LoadEngine(t) PROVE TypeOK'
<1>1. PcType'
  BY PcMove DEF TypeOK, LoadEngine, Steps
<1>2. EngineType'
  BY DEF TypeOK, LoadEngine, EngineType, RequestType
<1>3. QED
  BY <1>1, <1>2, SessionFrame, StoreFrame, RequestFrame, FragFrame, SentFrame
     DEF TypeOK, LoadEngine

\* TypeOK is kept by Scan.
LEMMA ScanType == ASSUME TypeOK, NEW t \in Clients, Scan(t) PROVE TypeOK'
<1>1. PcType'
  BY PcMove DEF TypeOK, Scan, Steps
<1>2. Shown(Head(todo[t]), text[t]) \cap
        Reports(own[t], KindSeq[stage[t]], Head(todo[t])) \in SUBSET Entities
  BY DEF Shown
<1>3. FragType'
  BY <1>2 DEF TypeOK, Scan, FragType
<1>4. QED
  BY <1>1, <1>3, SessionFrame, StoreFrame, RequestFrame, EngineFrame, SentFrame
     DEF TypeOK, Scan

\* TypeOK is kept by ReuseLabel.
LEMMA ReuseLabelType ==
    ASSUME TypeOK, NEW t \in Clients, ReuseLabel(t) PROVE TypeOK'
<1> DEFINE k == KindSeq[stage[t]]
<1>1. k \in Kinds /\ ProfileOf[t] \in Profiles
  BY KindSeqType, DataAssumption DEF TypeOK, FragType
<1>2. PICK e \in found[t] :
        /\ labelOf[ProfileOf[t]][k][e] # Absent
        /\ Replace(t, e, <<k, labelOf[ProfileOf[t]][k][e]>>)
  BY DEF ReuseLabel
<1>3. e \in Entities
  BY <1>2 DEF TypeOK, FragType
<1>4. <<k, labelOf[ProfileOf[t]][k][e]>> \in Label
  BY <1>1, <1>2, <1>3 DEF TypeOK, SessionType, Label, Absent
<1>5. FragType'
  BY <1>2, <1>3, <1>4, ReplaceType DEF TypeOK, FragType, ReuseLabel
<1>6. QED
  BY <1>5, PcFrame, SessionFrame, StoreFrame, RequestFrame, EngineFrame, SentFrame
     DEF TypeOK, ReuseLabel

\* TypeOK is kept by ReadCounter.
LEMMA ReadCounterType ==
    ASSUME TypeOK, NEW t \in Clients, ReadCounter(t) PROVE TypeOK'
<1> DEFINE k == KindSeq[stage[t]]
<1>1. k \in Kinds /\ ProfileOf[t] \in Profiles
  BY KindSeqType, DataAssumption DEF TypeOK, FragType
<1>2. counter[ProfileOf[t]][k] \in Number
  BY <1>1, FlagAssumption DEF TypeOK, SessionType, Counters, ReadCounter, Number
<1>3. PcType'
  BY PcMove DEF TypeOK, ReadCounter, Steps
<1>4. FragType'
  BY <1>2 DEF TypeOK, ReadCounter, FragType
<1>5. QED
  BY <1>3, <1>4, SessionFrame, StoreFrame, RequestFrame, EngineFrame, SentFrame
     DEF TypeOK, ReadCounter

\* TypeOK is kept by MintLabel.
LEMMA MintLabelType ==
    ASSUME TypeOK, ThreadInv, NEW t \in Clients, MintLabel(t) PROVE TypeOK'
<1> DEFINE p == ProfileOf[t]
           k == KindSeq[stage[t]]
           e == minting[t][1]
           n == minting[t][2]
<1>1. k \in Kinds /\ p \in Profiles
  BY KindSeqType, DataAssumption DEF TypeOK, FragType
<1>2. e \in Entities /\ n \in Number /\ n \in Nat /\ <<k, n>> \in Label
  BY <1>1, FlagAssumption DEF ThreadInv, ThreadOK, MintLabel, Number, Label
<1>3. PcType'
  BY PcMove DEF TypeOK, MintLabel, Steps
<1>4. counter' \in Counters
  BY <1>1, <1>2 DEF TypeOK, SessionType, Counters, MintLabel
<1>5. labelOf' \in [Profiles -> [Kinds -> [Entities -> Number \cup {Absent}]]]
  BY <1>1, <1>2 DEF TypeOK, SessionType, MintLabel
<1>6. SessionType'
  BY <1>4, <1>5 DEF TypeOK, SessionType, MintLabel
<1>7. /\ text' \in [Clients -> Rendering]
      /\ fmap' \in [Clients -> SUBSET Mapping]
      /\ found' \in [Clients -> SUBSET Entities]
  BY <1>2, ReplaceType DEF TypeOK, MintLabel
<1>8. FragType'
  BY <1>7 DEF TypeOK, FragType, MintLabel
<1>9. QED
  BY <1>3, <1>6, <1>8, StoreFrame, RequestFrame, EngineFrame, SentFrame
     DEF TypeOK, MintLabel, shared

\* Propagation keeps a text a rendering and a mapping a mapping.
LEMMA PropagatedType ==
    ASSUME TypeOK, NEW t \in Clients, NEW via \in [Leftover(t) -> Kinds],
           \A e \in Leftover(t) : labelOf[ProfileOf[t]][via[e]][e] # Absent
    PROVE  /\ PropagatedText(t, via) \in Rendering
           /\ PropagatedMap(t, via) \in SUBSET Mapping
<1>1. ProfileOf[t] \in Profiles
  BY DataAssumption
<1>2. \A e \in Leftover(t) : e \in Entities
  BY DEF Leftover, Shown
<1>3. \A e \in Leftover(t) : LabelVia(t, via, e) \in Label
  BY <1>1, <1>2 DEF TypeOK, SessionType, LabelVia, Label
<1>4. text[t] \in [Entities -> Token]
  BY DEF TypeOK, FragType, Rendering
<1>5. \A e \in Entities :
        (IF e \in Leftover(t) THEN LabelVia(t, via, e) ELSE text[t][e]) \in Token
  BY <1>3, <1>4 DEF Token
<1>6. PropagatedText(t, via) \in Rendering
  BY <1>5 DEF PropagatedText, Rendering
<1>7. \A e \in Leftover(t) : [lab |-> LabelVia(t, via, e), ent |-> e] \in Mapping
  BY <1>2, <1>3, PairType
<1>8. {[lab |-> LabelVia(t, via, e), ent |-> e] : e \in Leftover(t)} \in SUBSET Mapping
  BY <1>7
<1>9. fmap[t] \in SUBSET Mapping
  BY DEF TypeOK, FragType
<1>10. PropagatedMap(t, via) \in SUBSET Mapping
  BY <1>8, <1>9, OverwriteType DEF PropagatedMap
<1>11. QED
  BY <1>6, <1>10

\* TypeOK is kept by Propagate.
LEMMA PropagateType ==
    ASSUME TypeOK, ThreadInv, NEW t \in Clients, Propagate(t) PROVE TypeOK'
<1> DEFINE p == ProfileOf[t]
           f == Head(todo[t])
<1>1. todo[t] \in Seq(Fragments) /\ todo[t] # <<>>
  BY DEF TypeOK, RequestType, ThreadInv, ThreadOK, Propagate
<1>2. p \in Profiles /\ f \in Fragments /\ Tail(todo[t]) \in Seq(Fragments)
  BY <1>1, DataAssumption
<1>3. PICK via \in [Leftover(t) -> Kinds] :
        /\ \A e \in Leftover(t) : labelOf[p][via[e]][e] # Absent
        /\ cache' = [cache EXCEPT ![p][f] = [text |-> PropagatedText(t, via),
                                            map |-> PropagatedMap(t, via)]]
        /\ out' = [out EXCEPT ![t] = @ \cup {<<f, PropagatedText(t, via)>>}]
  BY DEF Propagate
<1>4. /\ PropagatedText(t, via) \in Rendering
      /\ PropagatedMap(t, via) \in SUBSET Mapping
  BY <1>3, PropagatedType
<1>5. [text |-> PropagatedText(t, via), map |-> PropagatedMap(t, via)] \in CacheEntry
  BY <1>4 DEF CacheEntry
<1>6. SessionType'
  BY <1>2, <1>3, <1>5 DEF TypeOK, SessionType, Propagate
<1>7. <<f, PropagatedText(t, via)>> \in Fragments \X Rendering
  BY <1>2, <1>4
<1>8. out' \in [Clients -> SUBSET (Fragments \X Rendering)]
  BY <1>3, <1>7 DEF TypeOK, RequestType
<1>9. RequestType'
  BY <1>2, <1>8 DEF TypeOK, RequestType, Propagate
<1>10. FragType'
  BY PlainType DEF TypeOK, FragType, Propagate
<1>11. PcType'
  BY PcMove DEF TypeOK, Propagate, Steps
<1>12. QED
  BY <1>6, <1>9, <1>10, <1>11, StoreFrame, EngineFrame, SentFrame
     DEF TypeOK, Propagate, shared

\* TypeOK is kept by FinishEngine.
LEMMA FinishEngineType ==
    ASSUME TypeOK, NEW t \in Clients, FinishEngine(t) PROVE TypeOK'
<1>1. PcType' /\ stage' \in [Clients -> 1..3]
  BY AdvanceType DEF TypeOK, FragType, FinishEngine
<1>2. FragType'
  BY <1>1 DEF TypeOK, FragType, FinishEngine
<1>3. Overwrite(map[t], fmap[t]) \in SUBSET Mapping
  BY OverwriteType DEF TypeOK, RequestType, FragType
<1>4. RequestType'
  BY <1>3 DEF TypeOK, RequestType, FinishEngine
<1>5. QED
  BY <1>1, <1>2, <1>4, SessionFrame, StoreFrame, EngineFrame, SentFrame
     DEF TypeOK, FinishEngine

\* TypeOK is kept by Persist.
LEMMA PersistType ==
    ASSUME TypeOK, NEW t \in Clients, Persist(t) PROVE TypeOK'
<1> DEFINE p == ProfileOf[t]
<1>1. p \in Profiles
  BY DataAssumption
<1>2. [k \in Kinds |-> Bigger(counter[p][k], floor[p][k])] \in [Kinds -> Nat]
  BY <1>1 DEF TypeOK, SessionType, StoreType, Counters, Bigger
<1>3. StoreType'
  BY <1>1, <1>2 DEF TypeOK, Persist, StoreType, Counters
<1>4. PcType'
  BY PcMove DEF TypeOK, Persist, Steps
<1>5. QED
  BY <1>3, <1>4, SessionFrame, RequestFrame, FragFrame, EngineFrame, SentFrame
     DEF TypeOK, Persist

\* TypeOK is kept by WriteState.
LEMMA WriteStateType ==
    ASSUME TypeOK, NEW t \in Clients, WriteState(t) PROVE TypeOK'
<1>1. PcType'
  BY PcMove DEF TypeOK, WriteState, Steps
<1>2. StoreType'
  BY DEF TypeOK, WriteState, StoreType
<1>3. QED
  BY <1>1, <1>2, SessionFrame, RequestFrame, FragFrame, EngineFrame, SentFrame
     DEF TypeOK, WriteState

\* TypeOK is kept by Forward.
LEMMA ForwardType == ASSUME TypeOK, NEW t \in Clients, Forward(t) PROVE TypeOK'
<1>1. PcType'
  BY PcMove DEF TypeOK, Forward, Steps
<1>2. SentType'
  BY DataAssumption DEF TypeOK, Forward, Outgoing, SentType
<1>3. QED
  BY <1>1, <1>2, SessionFrame, StoreFrame, RequestFrame, FragFrame, EngineFrame
     DEF TypeOK, Forward

\* TypeOK is kept by Respond.
LEMMA RespondType == ASSUME TypeOK, NEW t \in Clients, Respond(t) PROVE TypeOK'
<1>1. PcType'
  BY PcMove DEF TypeOK, Respond, Steps
<1>2. RequestType'
  BY DEF TypeOK, Respond, RequestType
<1>3. QED
  BY <1>1, <1>2, SessionFrame, StoreFrame, FragFrame, EngineFrame, SentFrame
     DEF TypeOK, Respond

\* TypeOK is kept by ChangeConfig.
LEMMA ChangeConfigType ==
    ASSUME TypeOK, NEW p \in Profiles, ChangeConfig(p) PROVE TypeOK'
<1>1. EngineType'
  BY DEF TypeOK, ChangeConfig, EngineType, shared
<1>2. QED
  BY <1>1, SessionFrame, StoreFrame, RequestFrame, FragFrame, SentFrame, PcFrame
     DEF TypeOK, ChangeConfig

\* TypeOK is kept by LoadDetector.
LEMMA LoadDetectorType == ASSUME TypeOK, LoadDetector PROVE TypeOK'
<1>1. EngineType'
  BY DEF TypeOK, LoadDetector, EngineType
<1>2. QED
  BY <1>1, SessionFrame, StoreFrame, RequestFrame, FragFrame, SentFrame, PcFrame
     DEF TypeOK, LoadDetector

\* TypeOK is kept by Restart.
LEMMA RestartType == ASSUME TypeOK, Restart PROVE TypeOK'
<1>1. EngineType'
  BY FlagAssumption DEF TypeOK, Restart, EngineType
<1>2. SessionType'
  BY FreshType DEF Restart, SessionType, Counters
<1>3. StoreType'
  BY FreshType DEF TypeOK, Restart, StoreType, Counters
<1>4. PcType'
  BY DEF Restart, PcType, Steps
<1>5. RequestType'
  BY DEF Restart, RequestType
<1>6. FragType'
  BY PlainType DEF Restart, FragType
<1>7. QED
  BY <1>1, <1>2, <1>3, <1>4, <1>5, <1>6, SentFrame DEF TypeOK, Restart

-----------------------------------------------------------------------------
(* What a thread takes for granted of its own variables. *)

Working == {"load", "scan", "label", "mint", "propagate"}

\* A thread that moves and satisfies ThreadOK afterwards keeps ThreadInv.
LEMMA ThreadMove ==
    ASSUME PcType, ThreadInv, NEW t \in Clients, NEW s \in Steps,
           pc' = [pc EXCEPT ![t] = s],
           \A u \in Clients \ {t} : todo'[u] = todo[u] /\ minting'[u] = minting[u],
           s \in Working => todo'[t] # <<>>,
           s = "mint" => minting'[t][1] \in Entities /\ minting'[t][2] \in Number
    PROVE  ThreadInv'
<1> SUFFICES ASSUME NEW u \in Clients PROVE ThreadOK(u)'
  BY DEF ThreadInv
<1>1. pc'[u] = IF u = t THEN s ELSE pc[u]
  BY DEF PcType
<1>2. ThreadOK(u)
  BY DEF ThreadInv
<1>3. CASE u = t
  BY <1>1, <1>3 DEF ThreadOK, Working
<1>4. CASE u # t
  BY <1>1, <1>2, <1>4 DEF ThreadOK
<1>5. QED
  BY <1>3, <1>4

\* A step that changes nothing ThreadOK reads keeps ThreadInv.
LEMMA ThreadSame ==
    ThreadInv /\ UNCHANGED <<pc, todo, minting>> => ThreadInv'
  BY DEF ThreadInv, ThreadOK

\* Advance leads to steps that need a fragment, and there is one.
LEMMA AdvanceThread ==
    ASSUME PcType, ThreadInv, NEW t \in Clients, pc[t] \in Working, Advance(t),
           UNCHANGED <<todo, minting>>
    PROVE  ThreadInv'
<1>1. todo[t] # <<>>
  BY DEF ThreadInv, ThreadOK, Working
<1>2. PICK s \in {"load", "propagate"} : pc' = [pc EXCEPT ![t] = s]
  BY DEF Advance
<1>3. QED
  BY <1>1, <1>2, ThreadMove DEF Steps

\* Every step of a request keeps ThreadInv.
LEMMA WorkThread ==
    ASSUME TypeOK, ThreadInv, NEW t \in Clients, Arrive(t) \/ Work(t)
    PROVE  ThreadInv'
<1>0. PcType
  BY DEF TypeOK
<1>1. CASE Arrive(t)
  BY <1>0, <1>1, ThreadMove DEF Arrive, Steps, Working, TypeOK, RequestType, frag
<1>2. CASE EnterSession(t)
  BY <1>0, <1>2, ThreadMove DEF EnterSession, Steps, Working, request, frag
<1>3. CASE CacheHit(t)
  <2>1. ThreadOK(t)'
    BY <1>3 DEF CacheHit, ThreadOK
  <2>2. \A u \in Clients \ {t} : todo'[u] = todo[u]
    BY <1>3 DEF CacheHit, TypeOK, RequestType
  <2>3. QED
    BY <1>3, <2>1, <2>2 DEF CacheHit, frag, ThreadInv, ThreadOK
<1>4. CASE CacheMiss(t)
  BY <1>0, <1>4, ThreadMove DEF CacheMiss, Steps, request
<1>5. CASE SkipEngine(t)
  BY <1>0, <1>5, AdvanceThread DEF SkipEngine, Working, request
<1>6. CASE LoadEngine(t)
  BY <1>0, <1>6, ThreadMove DEF LoadEngine, Steps, request, frag, ThreadInv, ThreadOK
<1>7. CASE Scan(t)
  BY <1>0, <1>7, ThreadMove DEF Scan, Steps, request, ThreadInv, ThreadOK
<1>8. CASE ReuseLabel(t)
  BY <1>8, ThreadSame DEF ReuseLabel, request
<1>9. CASE ReadCounter(t)
  <2> DEFINE k == KindSeq[stage[t]]
             n == counter[ProfileOf[t]][k]
  <2>1. PICK e \in found[t] : minting' = [minting EXCEPT ![t] = <<e, n>>]
    BY <1>9 DEF ReadCounter
  <2>2. e \in Entities
    BY DEF TypeOK, FragType
  <2>3. k \in Kinds /\ ProfileOf[t] \in Profiles
    BY KindSeqType, DataAssumption DEF TypeOK, FragType
  <2>4. n \in Number
    BY <1>9, <2>3, FlagAssumption DEF TypeOK, SessionType, Counters, ReadCounter,
       Number
  <2>5. /\ minting'[t] = <<e, n>>
        /\ \A u \in Clients \ {t} : minting'[u] = minting[u]
    BY <2>1 DEF TypeOK, FragType
  <2>6. todo[t] # <<>> /\ todo' = todo /\ pc' = [pc EXCEPT ![t] = "mint"]
    BY <1>9 DEF ReadCounter, request, ThreadInv, ThreadOK
  <2>7. minting'[t][1] \in Entities /\ minting'[t][2] \in Number
    BY <2>2, <2>4, <2>5
  <2> HIDE DEF k, n
  <2>8. QED
    BY <1>0, <2>5, <2>6, <2>7, ThreadMove DEF Steps
<1>10. CASE MintLabel(t)
  <2>1. /\ todo[t] # <<>> /\ todo' = todo /\ pc' = [pc EXCEPT ![t] = "label"]
        /\ \A u \in Clients \ {t} : minting'[u] = minting[u]
    BY <1>10 DEF MintLabel, request, ThreadInv, ThreadOK, TypeOK, FragType
  <2>2. QED
    BY <1>0, <2>1, ThreadMove DEF Steps
<1>11. CASE FinishEngine(t)
  BY <1>0, <1>11, AdvanceThread DEF FinishEngine, Working
<1>12. CASE Propagate(t)
  <2>1. /\ pc' = [pc EXCEPT ![t] = "next"] /\ minting' = minting
        /\ \A u \in Clients \ {t} : todo'[u] = todo[u]
    BY <1>12 DEF Propagate, TypeOK, RequestType
  <2>2. QED
    BY <1>0, <2>1, ThreadMove DEF Steps, Working
<1>13. CASE Persist(t)
  <2>1. PICK s \in {"save", "forward"} : pc' = [pc EXCEPT ![t] = s]
    BY <1>13 DEF Persist
  <2>2. QED
    BY <1>0, <1>13, <2>1, ThreadMove DEF Steps, Working, Persist, request, frag
<1>14. CASE WriteState(t)
  BY <1>0, <1>14, ThreadMove DEF WriteState, Steps, Working, request, frag
<1>15. CASE Forward(t)
  BY <1>0, <1>15, ThreadMove DEF Forward, Steps, Working, request, frag
<1>16. CASE Respond(t)
  BY <1>0, <1>16, ThreadMove DEF Respond, Steps, Working, frag
<1>17. QED
  BY <1>1, <1>2, <1>3, <1>4, <1>5, <1>6, <1>7, <1>8, <1>9, <1>10, <1>11, <1>12,
     <1>13, <1>14, <1>15, <1>16 DEF Work

\* TypeOK, step by step of a request.
LEMMA WorkType ==
    ASSUME TypeOK, ThreadInv, NEW t \in Clients, Arrive(t) \/ Work(t)
    PROVE  TypeOK'
  BY ArriveType, EnterSessionType, CacheHitType, CacheMissType, SkipEngineType,
     LoadEngineType, ScanType, ReuseLabelType, ReadCounterType, MintLabelType,
     FinishEngineType, PropagateType, PersistType, WriteStateType, ForwardType,
     RespondType DEF Work

\* A stuttering step keeps TypeOK and ThreadInv.
LEMMA VarsFrame ==
    ASSUME TypeOK, ThreadInv, UNCHANGED vars PROVE TypeOK' /\ ThreadInv'
<1>1. TypeOK'
  BY SessionFrame, StoreFrame, RequestFrame, FragFrame, EngineFrame, SentFrame,
     PcFrame DEF TypeOK, vars
<1>2. ThreadInv'
  BY ThreadSame DEF vars, request, frag
<1>3. QED
  BY <1>1, <1>2

\* Every step keeps TypeOK and ThreadInv.
LEMMA TypeStep == TypeOK /\ ThreadInv /\ [Next]_vars => TypeOK' /\ ThreadInv'
<1> SUFFICES ASSUME TypeOK, ThreadInv, [Next]_vars PROVE TypeOK' /\ ThreadInv'
  OBVIOUS
<1>1. CASE \E t \in Clients : Arrive(t) \/ Work(t)
  BY <1>1, WorkType, WorkThread
<1>2. CASE \E p \in Profiles : ChangeConfig(p)
  BY <1>2, ChangeConfigType, ThreadSame DEF ChangeConfig, request, frag
<1>3. CASE LoadDetector
  BY <1>3, LoadDetectorType, ThreadSame DEF LoadDetector, request, frag
<1>4. CASE Restart
  <2>1. ThreadInv'
    BY <1>4 DEF Restart, ThreadInv, ThreadOK
  <2>2. QED
    BY <1>4, <2>1, RestartType
<1>5. CASE UNCHANGED vars
  BY <1>5, VarsFrame
<1>6. QED
  BY <1>1, <1>2, <1>3, <1>4, <1>5 DEF Next

\* ThreadInv holds initially.
LEMMA InitThread == Init => ThreadInv
  BY DEF Init, ThreadInv, ThreadOK

\* Every variable keeps its type, whatever threads share a profile and however
\* the engine dies: no label number exceeds its bound and no step of a request
\* takes a fragment from an empty list (proxy_engine.cpp, ProcessRequest).
THEOREM TypeCorrect == Spec => []TypeOK
<1>1. Init => TypeOK /\ ThreadInv
  BY InitType, InitThread
<1>2. TypeOK /\ ThreadInv /\ [Next]_vars => (TypeOK /\ ThreadInv)'
  BY TypeStep
<1>3. QED
  BY <1>1, <1>2, PTL DEF Spec

-----------------------------------------------------------------------------
(* What each step says of labels. *)

\* A text nothing is redacted in mentions no label.
LEMMA PlainSaysNothing ==
    ASSUME NEW l \in Label, NEW e \in Entities PROVE Plain[e] # l
  BY NamesAssumption DEF Plain

\* Labels stand for what they stood for.
Repeats == \A p \in Profiles, l \in Label, e \in Entities : Mentions(p, l, e)' => Mentions(p, l, e)

\* A cached text repeats labels of the session.
LEMMA CacheHitRepeats == ASSUME TypeOK, NEW t \in Clients, CacheHit(t) PROVE Repeats
<1> DEFINE f == Head(todo[t])
           c == cache[ProfileOf[t]][f]
<1>1. f \in Fragments /\ c # None
  <2>1. todo[t] \in Seq(Fragments) /\ todo[t] # <<>>
    BY DEF TypeOK, RequestType, CacheHit
  <2>2. QED
    BY <2>1 DEF CacheHit
<1>2. out' = [out EXCEPT ![t] = out[t] \cup {<<f, c.text>>}]
  BY DEF CacheHit
<1>3. \A u \in Clients : out'[u] = IF u = t THEN out[t] \cup {<<f, c.text>>} ELSE out[u]
  BY <1>2 DEF TypeOK, RequestType
<1>4. UNCHANGED <<labelOf, cache, text>>
  BY DEF CacheHit, session, frag
<1>5. ASSUME NEW p \in Profiles, NEW l \in Label, NEW e \in Entities,
             Mentions(p, l, e)'
      PROVE  Mentions(p, l, e)
  <2>1. CASE \E u \in Clients : ProfileOf[u] = p /\ \E r \in out'[u] : r[2][e] = l
    <3>1. PICK u \in Clients : ProfileOf[u] = p /\ \E r \in out'[u] : r[2][e] = l
      BY <2>1
    <3>2. PICK r \in out'[u] : r[2][e] = l
      BY <3>1
    <3>3. CASE r \in out[u]
      BY <3>1, <3>2, <3>3 DEF Mentions
    <3>4. CASE u = t /\ r = <<f, c.text>>
      <4>1. c.text[e] = l /\ p = ProfileOf[t]
        BY <3>1, <3>2, <3>4
      <4>2. QED
        BY <1>1, <4>1 DEF Mentions
    <3>5. QED
      BY <1>3, <3>2, <3>3, <3>4
  <2>2. CASE \A u \in Clients : ProfileOf[u] = p => \A r \in out'[u] : r[2][e] # l
    BY <1>4, <1>5, <2>2 DEF Mentions
  <2>3. QED
    BY <2>1, <2>2
<1>6. QED
  BY <1>5 DEF Repeats

\* A new fragment begins in clear.
LEMMA CacheMissRepeats == ASSUME TypeOK, NEW t \in Clients, CacheMiss(t) PROVE Repeats
<1>1. UNCHANGED <<labelOf, cache, out>>
  BY DEF CacheMiss, session, request
<1>2. \A u \in Clients : text'[u] = IF u = t THEN Plain ELSE text[u]
  BY DEF CacheMiss, TypeOK, FragType
<1>3. QED
  BY <1>1, <1>2, PlainSaysNothing DEF Mentions, Repeats

\* A label used again stands for the same string.
LEMMA ReuseLabelRepeats == ASSUME TypeOK, NEW t \in Clients, ReuseLabel(t) PROVE Repeats
<1> DEFINE k == KindSeq[stage[t]]
           q == ProfileOf[t]
<1>1. UNCHANGED <<labelOf, counter, cache, out, sent, store, pc, stage, minting>>
  BY DEF ReuseLabel, session, request
<1>2. PICK d \in found[t] : Replace(t, d, <<k, labelOf[q][k][d]>>)
  BY DEF ReuseLabel
<1>3. text' = [text EXCEPT ![t][d] = <<k, labelOf[q][k][d]>>]
  BY <1>2 DEF Replace
<1>4. \A u \in Clients, e \in Entities :
        text'[u][e] = IF u = t /\ e = d THEN <<k, labelOf[q][k][d]>> ELSE text[u][e]
  BY <1>3 DEF TypeOK, FragType, Rendering
<1>5. ASSUME NEW p \in Profiles, NEW l \in Label, NEW e \in Entities,
             Mentions(p, l, e)'
      PROVE  Mentions(p, l, e)
  <2>1. CASE \E u \in Clients : ProfileOf[u] = p /\ text'[u][e] = l
    <3>1. PICK u \in Clients : ProfileOf[u] = p /\ text'[u][e] = l
      BY <2>1
    <3>2. CASE text[u][e] = l
      BY <3>1, <3>2 DEF Mentions
    <3>3. CASE u = t /\ e = d /\ l = <<k, labelOf[q][k][d]>>
      <4>1. l[1] = k /\ l[2] = labelOf[q][k][d] /\ p = q
        BY <3>1, <3>3
      <4>2. QED
        BY <3>3, <4>1 DEF Mentions
    <3>4. QED
      BY <1>4, <3>1, <3>2, <3>3
  <2>2. CASE \A u \in Clients : ProfileOf[u] = p => text'[u][e] # l
    BY <1>1, <1>5, <2>2 DEF Mentions
  <2>3. QED
    BY <2>1, <2>2
<1>6. QED
  BY <1>5 DEF Repeats

\* The end of a request only forgets.
LEMMA RespondRepeats == ASSUME TypeOK, NEW t \in Clients, Respond(t) PROVE Repeats
<1>1. UNCHANGED <<labelOf, cache, text>>
  BY DEF Respond, session, frag
<1>2. \A u \in Clients : out'[u] = IF u = t THEN {} ELSE out[u]
  BY DEF Respond, TypeOK, RequestType
<1>3. QED
  BY <1>1, <1>2 DEF Mentions, Repeats

\* Propagation uses labels the session has.
LEMMA PropagateRepeats ==
    ASSUME TypeOK, ThreadInv, NEW t \in Clients, Propagate(t) PROVE Repeats
<1> DEFINE q == ProfileOf[t]
           f == Head(todo[t])
<1>0. f \in Fragments /\ q \in Profiles
  <2>1. todo[t] \in Seq(Fragments) /\ todo[t] # <<>>
    BY DEF TypeOK, RequestType, Propagate, ThreadInv, ThreadOK
  <2>2. QED
    BY <2>1, DataAssumption
<1>1. UNCHANGED labelOf
  BY DEF Propagate
<1>2. PICK via \in [Leftover(t) -> Kinds] :
        /\ \A e \in Leftover(t) : labelOf[q][via[e]][e] # Absent
        /\ cache' = [cache EXCEPT ![q][f] = [text |-> PropagatedText(t, via),
                                            map |-> PropagatedMap(t, via)]]
        /\ out' = [out EXCEPT ![t] = @ \cup {<<f, PropagatedText(t, via)>>}]
  BY DEF Propagate
<1>3. ASSUME NEW l \in Label, NEW e \in Entities, PropagatedText(t, via)[e] = l
      PROVE  Mentions(q, l, e)
  <2>1. CASE e \in Leftover(t)
    <3>1. l = <<via[e], labelOf[q][via[e]][e]>>
      BY <1>3, <2>1 DEF PropagatedText, LabelVia
    <3>2. QED
      BY <3>1 DEF Mentions
  <2>2. CASE e \notin Leftover(t)
    BY <1>3, <2>2 DEF PropagatedText, Mentions
  <2>3. QED
    BY <2>1, <2>2
<1>4. \A u \in Clients : out'[u] = IF u = t
            THEN out[t] \cup {<<f, PropagatedText(t, via)>>} ELSE out[u]
  BY <1>2 DEF TypeOK, RequestType
<1>5. \A p \in Profiles, g \in Fragments :
        cache'[p][g] = IF p = q /\ g = f
            THEN [text |-> PropagatedText(t, via), map |-> PropagatedMap(t, via)]
            ELSE cache[p][g]
  BY <1>0, <1>2 DEF TypeOK, SessionType
<1>6. \A u \in Clients : text'[u] = IF u = t THEN Plain ELSE text[u]
  BY DEF Propagate, TypeOK, FragType
<1>7. ASSUME NEW p \in Profiles, NEW l \in Label, NEW e \in Entities,
             Mentions(p, l, e)'
      PROVE  Mentions(p, l, e)
  <2>1. CASE labelOf'[p][l[1]][e] = l[2]
    BY <1>1, <2>1 DEF Mentions
  <2>2. CASE \E g \in Fragments : cache'[p][g] # None /\ cache'[p][g].text[e] = l
    <3>1. PICK g \in Fragments : cache'[p][g] # None /\ cache'[p][g].text[e] = l
      BY <2>2
    <3>2. CASE p = q /\ g = f
      <4>1. cache'[p][g].text = PropagatedText(t, via)
        BY <1>5, <3>2
      <4>2. QED
        BY <1>3, <3>1, <3>2, <4>1
    <3>3. CASE ~(p = q /\ g = f)
      <4>1. cache'[p][g] = cache[p][g]
        BY <1>5, <3>3
      <4>2. QED
        BY <3>1, <4>1 DEF Mentions
    <3>4. QED
      BY <3>2, <3>3
  <2>3. CASE \E u \in Clients : ProfileOf[u] = p /\ text'[u][e] = l
    BY <1>6, <2>3, PlainSaysNothing DEF Mentions
  <2>4. CASE \E u \in Clients : ProfileOf[u] = p /\ \E r \in out'[u] : r[2][e] = l
    <3>1. PICK u \in Clients : ProfileOf[u] = p /\ \E r \in out'[u] : r[2][e] = l
      BY <2>4
    <3>2. PICK r \in out'[u] : r[2][e] = l
      BY <3>1
    <3>3. CASE r \in out[u]
      BY <3>1, <3>2, <3>3 DEF Mentions
    <3>4. CASE u = t /\ r = <<f, PropagatedText(t, via)>>
      <4>1. PropagatedText(t, via)[e] = l /\ p = q
        BY <3>1, <3>2, <3>4
      <4>2. QED
        BY <1>3, <4>1
    <3>5. QED
      BY <1>4, <3>2, <3>3, <3>4
  <2>5. QED
    BY <1>7, <2>1, <2>2, <2>3, <2>4 DEF Mentions
<1>8. QED
  BY <1>7 DEF Repeats

\* A changed configuration forgets the labels of its session.
LEMMA EnterSessionRepeats == ASSUME TypeOK, NEW t \in Clients, EnterSession(t) PROVE Repeats
<1> DEFINE q == ProfileOf[t]
<1>1. UNCHANGED <<text, out>>
  BY DEF EnterSession, request, frag
<1>2. \/ UNCHANGED <<labelOf, cache>>
      \/ /\ \A p \in Profiles : labelOf'[p] = IF p = q THEN NoLabels ELSE labelOf[p]
         /\ \A p \in Profiles : cache'[p] = IF p = q THEN EmptyCache ELSE cache[p]
  BY DEF EnterSession, TypeOK, SessionType
<1>3. ASSUME NEW p \in Profiles, NEW l \in Label, NEW e \in Entities,
             Mentions(p, l, e)'
      PROVE  Mentions(p, l, e)
  <2>1. l[1] \in Kinds /\ l[2] # Absent
    BY FlagAssumption DEF Label, Number, Absent
  <2>2. NoLabels[l[1]][e] # l[2] /\ \A f \in Fragments : EmptyCache[f] = None
    BY <2>1 DEF NoLabels, EmptyCache
  <2>3. QED
    BY <1>1, <1>2, <1>3, <2>2 DEF Mentions
<1>4. QED
  BY <1>3 DEF Repeats

\* The label a thread makes.
Minted(t) == <<KindSeq[stage[t]], minting[t][2]>>

\* A new label is said of the string it was made for, and of no other.
LEMMA MintLabelAdds ==
    ASSUME TypeOK, ThreadInv, NEW t \in Clients, MintLabel(t),
           NEW p \in Profiles, NEW l \in Label, NEW e \in Entities, Mentions(p, l, e)'
    PROVE  Mentions(p, l, e) \/ (p = ProfileOf[t] /\ l = Minted(t) /\ e = minting[t][1])
<1> DEFINE q == ProfileOf[t]
           k == KindSeq[stage[t]]
           d == minting[t][1]
           n == minting[t][2]
<1>1. q \in Profiles /\ k \in Kinds /\ d \in Entities
  BY DataAssumption, KindSeqType DEF MintLabel, ThreadInv, ThreadOK, TypeOK, FragType
<1>2. /\ UNCHANGED <<cache, out>>
      /\ labelOf' = [labelOf EXCEPT ![q][k][d] = n]
      /\ text' = [text EXCEPT ![t][d] = <<k, n>>]
  BY DEF MintLabel, Replace, request
<1>3. \A g \in Profiles, j \in Kinds, f \in Entities : labelOf'[g][j][f] =
         IF g = q /\ j = k /\ f = d THEN n ELSE labelOf[g][j][f]
  BY <1>1, <1>2 DEF TypeOK, SessionType
<1>4. \A u \in Clients, f \in Entities : text'[u][f] =
         IF u = t /\ f = d THEN <<k, n>> ELSE text[u][f]
  BY <1>2 DEF TypeOK, FragType, Rendering
<1>5. l[1] \in Kinds /\ l = <<l[1], l[2]>>
  BY DEF Label
<1>6. CASE labelOf'[p][l[1]][e] = l[2]
  BY <1>3, <1>5, <1>6 DEF Mentions, Minted
<1>7. CASE \E u \in Clients : ProfileOf[u] = p /\ text'[u][e] = l
  BY <1>4, <1>7 DEF Mentions, Minted
<1>8. CASE /\ labelOf'[p][l[1]][e] # l[2]
           /\ \A u \in Clients : ProfileOf[u] = p => text'[u][e] # l
  BY <1>2, <1>8 DEF Mentions
<1>9. QED
  BY <1>6, <1>7, <1>8

\* A restart forgets every label.
LEMMA RestartForgets ==
    ASSUME Restart, NEW p \in Profiles, NEW l \in Label, NEW e \in Entities,
           Mentions(p, l, e)'
    PROVE  FALSE
<1>1. l[1] \in Kinds /\ l[2] # Absent
  BY LabelParts DEF Absent
<1>2. labelOf'[p][l[1]][e] # l[2]
  BY <1>1 DEF Restart, NoLabels
<1>3. \A f \in Fragments : cache'[p][f] = None
  BY DEF Restart, EmptyCache
<1>4. \A u \in Clients : text'[u][e] # l /\ out'[u] = {}
  BY PlainSaysNothing DEF Restart
<1>5. QED
  BY <1>2, <1>3, <1>4 DEF Mentions

\* At first nothing is said.
LEMMA InitSaysNothing ==
    ASSUME Init, NEW p \in Profiles, NEW l \in Label, NEW e \in Entities,
           Mentions(p, l, e)
    PROVE  FALSE
<1>1. l[1] \in Kinds /\ l[2] # Absent
  BY LabelParts DEF Absent
<1>2. labelOf[p][l[1]][e] # l[2]
  BY <1>1 DEF Init, NoLabels
<1>3. \A f \in Fragments : cache[p][f] = None
  BY DEF Init, EmptyCache
<1>4. \A u \in Clients : text[u][e] # l /\ out[u] = {}
  BY PlainSaysNothing DEF Init
<1>5. QED
  BY <1>2, <1>3, <1>4 DEF Mentions

-----------------------------------------------------------------------------
(* What most steps leave of the invariant. *)

\* A step that moves thread t within, or out of, the phases before the save.
LEMMA StoreQuiet ==
    ASSUME PcType, StoreInv, PersistedBeforeForward,
           NEW t \in Clients, NEW s \in Steps \ {"save", "forward"},
           pc' = [pc EXCEPT ![t] = s], pc[t] # "save",
           s \in InSession => pc[t] \in InSession,
           UNCHANGED <<store, counter, sent>>
    PROVE  StoreInv' /\ PersistedBeforeForward'
<1>1. \A u \in Clients : pc'[u] = IF u = t THEN s ELSE pc[u]
  BY DEF PcType
<1>2. StateFileFree' <=> StateFileFree
  BY <1>1 DEF StateFileFree
<1>3. StoreInv'
  BY <1>1, <1>2 DEF StoreInv, store
<1>4. PersistedBeforeForward'
  BY DEF PersistedBeforeForward, store
<1>5. QED
  BY <1>3, <1>4

\* A step that moves no thread and leaves the store alone keeps StoreInv.
LEMMA StoreSame ==
    ASSUME StoreInv, PersistedBeforeForward, UNCHANGED <<store, counter, sent, pc>>
    PROVE  StoreInv' /\ PersistedBeforeForward'
  BY DEF StoreInv, PersistedBeforeForward, StateFileFree, store

\* What is mentioned stays below counters that do not fall.
LEMMA BelowStays ==
    ASSUME TypeOK, MentionsBelow, Repeats, counter' \in Counters,
           \A p \in Profiles, k \in Kinds : counter[p][k] <= counter'[p][k]
    PROVE  MentionsBelow'
<1> SUFFICES ASSUME NEW p \in Profiles, NEW l \in Label, NEW e \in Entities,
                    Mentions(p, l, e)'
             PROVE  l[2] < counter'[p][l[1]]
  BY DEF MentionsBelow
<1>1. l[1] \in Kinds /\ l[2] \in Nat
  BY LabelParts
<1>2. l[2] < counter[p][l[1]]
  BY DEF MentionsBelow, Repeats
<1>3. counter[p][l[1]] \in Nat /\ counter'[p][l[1]] \in Nat
  BY <1>1 DEF TypeOK, SessionType, Counters
<1>4. QED
  BY <1>1, <1>2, <1>3

\* A step that says nothing the engine or the provider did not say before.
LEMMA EchoStep ==
    ASSUME TypeOK, MentionsBelow, OneMeaning, Repeats, counter' \in Counters,
           \A p \in Profiles, k \in Kinds : counter[p][k] <= counter'[p][k],
           \A p \in Profiles, l \in Label, e \in Entities : Says(p, l, e)' => Says(p, l, e)
    PROVE  MentionsBelow' /\ OneMeaning'
  BY BelowStays DEF OneMeaning

\* A step that adds no meaning to a label keeps the label part of Core.
LEMMA QuietStep ==
    ASSUME TypeOK, MentionsBelow, OneMeaning,
           UNCHANGED <<labelOf, counter, cache, text, out, sent>>
    PROVE  MentionsBelow' /\ OneMeaning'
  BY DEF MentionsBelow, OneMeaning, Says, Mentions

\* A thread that moves to another step than "mint" keeps ReadIsCurrent.
LEMMA ReadMove ==
    ASSUME PcType, ReadIsCurrent, NEW t \in Clients, NEW s \in Steps \ {"mint"},
           pc' = [pc EXCEPT ![t] = s],
           \A u \in Clients \ {t} :
               /\ stage'[u] = stage[u] /\ minting'[u] = minting[u]
               /\ pc[u] = "mint" => counter'[ProfileOf[u]] = counter[ProfileOf[u]]
    PROVE  ReadIsCurrent'
<1> SUFFICES ASSUME NEW u \in Clients, pc'[u] = "mint"
             PROVE  minting'[u][2] = counter'[ProfileOf[u]][KindSeq[stage'[u]]]
  BY DEF ReadIsCurrent
<1>1. u # t /\ pc[u] = "mint"
  BY DEF PcType
<1>2. minting[u][2] = counter[ProfileOf[u]][KindSeq[stage[u]]]
  BY <1>1 DEF ReadIsCurrent
<1>3. QED
  BY <1>1, <1>2

\* A step that leaves counters, pc and minting alone keeps ReadIsCurrent.
LEMMA ReadSame ==
    ReadIsCurrent /\ UNCHANGED <<pc, stage, minting, counter>> => ReadIsCurrent'
  BY DEF ReadIsCurrent

\* The part of the inductive invariant that needs its assumptions.
Core ==
    ReadIsCurrent /\ StoreInv /\ PersistedBeforeForward /\ MentionsBelow /\ OneMeaning

Good == TypeOK /\ ThreadInv /\ Core

-----------------------------------------------------------------------------
(* The steps that neither count, nor name, nor send. *)

\* Thread t moves on before its save, or after its answer.
LEMMA Walk ==
    ASSUME Good, NEW t \in Clients, NEW s \in Steps \ {"save", "forward", "mint"},
           pc' = [pc EXCEPT ![t] = s], pc[t] # "save",
           s \in InSession => pc[t] \in InSession,
           \A u \in Clients \ {t} : stage'[u] = stage[u] /\ minting'[u] = minting[u],
           UNCHANGED <<store, counter, sent>>
    PROVE  ReadIsCurrent' /\ StoreInv' /\ PersistedBeforeForward'
<1>1. PcType
  BY DEF Good, TypeOK
<1>2. ReadIsCurrent'
  BY <1>1, ReadMove DEF Good, Core
<1>3. StoreInv' /\ PersistedBeforeForward'
  BY <1>1, StoreQuiet DEF Good, Core
<1>4. QED
  BY <1>2, <1>3

\* Advance is a quiet move.
LEMMA AdvanceWalk ==
    ASSUME Good, NEW t \in Clients, pc[t] \in {"load", "label"}, Advance(t),
           UNCHANGED <<minting, store, counter, sent>>
    PROVE  ReadIsCurrent' /\ StoreInv' /\ PersistedBeforeForward'
<1>1. PICK s \in {"load", "propagate"} : pc' = [pc EXCEPT ![t] = s]
  BY DEF Advance
<1>2. \A u \in Clients \ {t} : stage'[u] = stage[u]
  BY DEF Advance, Good, TypeOK, FragType
<1>3. QED
  BY <1>1, <1>2, Walk DEF Steps, InSession

\* The steps of a request that touch neither labels nor counters keep Core.
LEMMA QuietSteps ==
    ASSUME Good, NEW t \in Clients,
           \/ Arrive(t) \/ SkipEngine(t) \/ LoadEngine(t) \/ Scan(t)
           \/ FinishEngine(t)
    PROVE  Core'
<1>1. UNCHANGED <<labelOf, counter, cache, text, sent, store, minting>>
  BY DEF Arrive, SkipEngine, LoadEngine, Scan, FinishEngine, session, frag
<1>2. UNCHANGED out
  BY DEF Arrive, SkipEngine, LoadEngine, Scan, FinishEngine, request
<1>3. MentionsBelow' /\ OneMeaning'
  BY <1>1, <1>2, QuietStep DEF Good, Core
<1>4. CASE Arrive(t)
  BY <1>1, <1>3, <1>4, Walk DEF Arrive, Core, frag, Steps, InSession
<1>5. CASE SkipEngine(t)
  BY <1>1, <1>3, <1>5, AdvanceWalk DEF SkipEngine, Core
<1>6. CASE LoadEngine(t)
  BY <1>1, <1>3, <1>6, Walk DEF LoadEngine, Core, frag, Steps, InSession
<1>7. CASE Scan(t)
  BY <1>1, <1>3, <1>7, Walk DEF Scan, Core, Steps, InSession
<1>8. CASE FinishEngine(t)
  BY <1>1, <1>3, <1>8, AdvanceWalk DEF FinishEngine, Core
<1>9. QED
  BY <1>4, <1>5, <1>6, <1>7, <1>8

\* Reading the counter: nobody else serves the profile, so the value stays
\* current.
LEMMA ReadCounterCore ==
    ASSUME Good, NEW t \in Clients, ReadCounter(t) PROVE Core'
<1> DEFINE k == KindSeq[stage[t]]
           n == counter[ProfileOf[t]][k]
<1>1. MentionsBelow' /\ OneMeaning'
  BY QuietStep DEF Good, Core, ReadCounter, session, request
<1>2. StoreInv' /\ PersistedBeforeForward'
  BY StoreQuiet DEF Good, Core, TypeOK, ReadCounter, session, Steps, InSession
<1>3. PICK e \in found[t] : minting' = [minting EXCEPT ![t] = <<e, n>>]
  BY DEF ReadCounter
<1>4. minting'[t][2] = n /\ \A u \in Clients \ {t} : minting'[u] = minting[u]
  BY <1>3 DEF Good, TypeOK, FragType
<1>5. \A u \in Clients : pc'[u] = IF u = t THEN "mint" ELSE pc[u]
  BY DEF ReadCounter, Good, TypeOK, PcType
<1>6. UNCHANGED <<counter, stage>>
  BY DEF ReadCounter, session
<1>7. ReadIsCurrent'
  BY <1>4, <1>5, <1>6 DEF ReadIsCurrent, Good, Core
<1>8. QED
  BY <1>1, <1>2, <1>7 DEF Core

\* A new request, new settings or a loaded detector keep Core.
LEMMA SurroundingsCore ==
    ASSUME Good, LoadDetector \/ \E p \in Profiles : ChangeConfig(p) PROVE Core'
<1>1. UNCHANGED <<labelOf, counter, cache, text, out, sent, store, pc, stage, minting>>
  BY DEF LoadDetector, ChangeConfig, session, request, frag
<1>2. QED
  BY <1>1, QuietStep, StoreSame, ReadSame DEF Good, Core

-----------------------------------------------------------------------------
(* The steps that repeat a label the session knows already. *)

\* A step that repeats what is already said keeps OneMeaning.
LEMMA Echo ==
    ASSUME Good, Repeats, UNCHANGED <<counter, sent>>
    PROVE  MentionsBelow' /\ OneMeaning'
<1>1. counter' \in Counters
  BY DEF Good, TypeOK, SessionType
<1>2. \A p \in Profiles, k \in Kinds : counter[p][k] <= counter'[p][k]
  BY <1>1 DEF Counters
<1>3. \A p \in Profiles, l \in Label, e \in Entities :
        Says(p, l, e)' => Says(p, l, e)
  BY DEF Says, Repeats
<1>4. QED
  BY <1>1, <1>2, <1>3, EchoStep DEF Good, Core

\* A cached text repeats labels of the session.
LEMMA CacheHitCore == ASSUME Good, NEW t \in Clients, CacheHit(t) PROVE Core'
<1>1. UNCHANGED <<counter, sent, store, pc, stage, minting>>
  BY DEF CacheHit, session, frag
<1>2. QED
  BY <1>1, CacheHitRepeats, Echo, StoreSame, ReadSame DEF Good, Core

\* A new fragment begins in clear.
LEMMA CacheMissCore == ASSUME Good, NEW t \in Clients, CacheMiss(t) PROVE Core'
<1>1. UNCHANGED <<counter, sent, store, minting>>
  BY DEF CacheMiss, session
<1>2. \A u \in Clients \ {t} : stage'[u] = stage[u]
  BY DEF CacheMiss, Good, TypeOK, FragType
<1>3. QED
  BY <1>1, <1>2, CacheMissRepeats, Echo, Walk DEF CacheMiss, Good, Core, Steps, InSession

\* A label used again stands for the same string.
LEMMA ReuseLabelCore == ASSUME Good, NEW t \in Clients, ReuseLabel(t) PROVE Core'
<1>1. UNCHANGED <<counter, sent, store, pc, stage, minting>>
  BY DEF ReuseLabel, session
<1>2. QED
  BY <1>1, ReuseLabelRepeats, Echo, StoreSame, ReadSame DEF Good, Core

\* The end of a request only forgets.
LEMMA RespondCore == ASSUME Good, NEW t \in Clients, Respond(t) PROVE Core'
<1>1. UNCHANGED <<counter, sent, store, stage, minting>>
  BY DEF Respond, session, frag
<1>2. QED
  BY <1>1, RespondRepeats, Echo, Walk DEF Respond, Good, Core, Steps, InSession

\* Propagation uses labels the session has.
LEMMA PropagateCore == ASSUME Good, NEW t \in Clients, Propagate(t) PROVE Core'
<1>1. UNCHANGED <<counter, sent, store, stage, minting>>
  BY DEF Propagate
<1>2. QED
  BY <1>1, PropagateRepeats, Echo, Walk DEF Propagate, Good, Core, Steps, InSession

-----------------------------------------------------------------------------
(* The steps that count, name, save and send. *)

\* What a thread in its session knows of the counts that outlive it.
LEMMA Durable ==
    ASSUME Good, NEW t \in Clients, pc[t] \in InSession,
           NEW s \in sent, s.prof = ProfileOf[t]
    PROVE  s.lab[2] < floor[ProfileOf[t]][s.lab[1]]
<1>1. disk \in {floor, Torn}
  BY KindSeqType DEF Good, Core, StoreInv, Kinds
<1>2. QED
  BY <1>1 DEF Good, Core, PersistedBeforeForward

\* Entering a session raises the counters to the persisted ones and forgets
\* labels at most.
LEMMA EnterSessionCore ==
    ASSUME InTurn', Good, NEW t \in Clients, EnterSession(t)
    PROVE  Core'
<1> DEFINE q == ProfileOf[t]
<1>1. q \in Profiles /\ disk # Torn /\ OnDisk = disk /\ "pii" \in Kinds
  BY DataAssumption DEF EnterSession, Good, Core, StoreInv, OnDisk, Kinds
<1>2. /\ loaded' = TRUE /\ disk' = disk /\ sent' = sent
      /\ UNCHANGED <<text, out, stage, minting>>
      /\ pc[t] = "enter" /\ pc' = [pc EXCEPT ![t] = "next"]
      /\ floor' = IF loaded THEN floor ELSE disk
  BY <1>1 DEF EnterSession, request, frag
<1>3. counter' \in Counters /\ floor' \in Counters
  BY EnterSessionType DEF Good, TypeOK, SessionType, StoreType
<1>4. counter \in Counters /\ floor \in Counters /\ pc \in [Clients -> Steps]
  BY DEF Good, TypeOK, SessionType, StoreType, PcType
<1>5. counter' = [counter EXCEPT ![q] =
                    [k \in Kinds |-> Bigger(counter[q][k], floor'[q][k])]]
  BY DEF EnterSession
<1>6. \A p \in Profiles, k \in Kinds : counter'[p][k] =
        IF p = q THEN Bigger(counter[q][k], floor'[q][k]) ELSE counter[p][k]
  <2>1. \A p \in Profiles : counter'[p] = IF p = q
          THEN [k \in Kinds |-> Bigger(counter[q][k], floor'[q][k])] ELSE counter[p]
    BY <1>4, <1>5 DEF Counters
  <2> HIDE DEF q
  <2>2. QED
    BY <2>1
<1>7. \A p \in Profiles, k \in Kinds : counter[p][k] <= counter'[p][k]
  <2> SUFFICES ASSUME NEW p \in Profiles, NEW k \in Kinds
               PROVE  counter[p][k] <= counter'[p][k]
    OBVIOUS
  <2>1. counter[p][k] \in Nat /\ counter[q][k] \in Nat /\ floor'[q][k] \in Nat
    BY <1>1, <1>3, <1>4 DEF Counters
  <2>2. QED
    BY <1>6, <2>1 DEF Bigger
<1>8. \A k \in Kinds : floor'[q][k] <= counter'[q][k]
  BY <1>1, <1>3, <1>4, <1>6 DEF Counters, Bigger
<1>9. \A u \in Clients : pc'[u] = IF u = t THEN "next" ELSE pc[u]
  BY <1>2, <1>4
<1>10. \A u \in Clients \ {t} : /\ ProfileOf[u] \in Profiles
                                /\ pc[u] \in InSession => ProfileOf[u] # q
  BY <1>9, DataAssumption DEF InTurn, InSession, Steps
<1>11. \A u \in Clients \ {t} : pc[u] \in InSession =>
          counter'[ProfileOf[u]] = counter[ProfileOf[u]]
  BY <1>1, <1>4, <1>5, <1>10 DEF Counters
<1>12. StoreInv'
  <2>1. disk' \in {floor', Torn} /\ (disk' = Torn => loaded' /\ ~StateFileFree')
    BY <1>1, <1>2 DEF Good, Core, StoreInv
  <2>2. \A s, u \in Clients : pc'[s] = "save" /\ pc'[u] = "save" => s = u
    BY <1>9 DEF Good, Core, StoreInv
  <2>3. \A u \in Clients : pc'[u] = "save" => disk' = Torn
    BY <1>2, <1>9 DEF Good, Core, StoreInv
  <2>4. ASSUME NEW u \in Clients, NEW k \in Kinds
        PROVE  /\ pc'[u] \in InSession =>
                    loaded' /\ floor'[ProfileOf[u]][k] <= counter'[ProfileOf[u]][k]
               /\ pc'[u] \in {"save", "forward"} =>
                    counter'[ProfileOf[u]][k] <= floor'[ProfileOf[u]][k]
    <3>1. CASE u = t
      BY <1>2, <1>8, <1>9, <3>1
    <3>2. CASE u # t
      <4>1. pc[u] \in InSession => loaded /\ floor[ProfileOf[u]][k] <= counter[ProfileOf[u]][k]
        BY DEF Good, Core, StoreInv
      <4>2. pc[u] \in {"save", "forward"} =>
              counter[ProfileOf[u]][k] <= floor[ProfileOf[u]][k]
        BY DEF Good, Core, StoreInv
      <4>3. /\ pc'[u] = pc[u]
            /\ pc[u] \in InSession => counter'[ProfileOf[u]] = counter[ProfileOf[u]]
        BY <1>9, <1>11, <3>2
      <4>4. {"save", "forward"} \subseteq InSession
        BY DEF InSession, Steps
      <4>5. QED
        BY <1>2, <4>1, <4>2, <4>3, <4>4
    <3>3. QED
      BY <3>1, <3>2
  <2>5. QED
    BY <2>1, <2>2, <2>3, <2>4 DEF StoreInv
<1>13. PersistedBeforeForward'
  BY <1>1, <1>2 DEF Good, Core, PersistedBeforeForward
<1>14. ReadIsCurrent'
  <2>1. \A u \in Clients \ {t} : pc[u] = "mint" =>
          counter'[ProfileOf[u]] = counter[ProfileOf[u]]
    BY <1>11 DEF InSession, Steps
  <2>2. QED
    BY <1>2, <1>4, <2>1, ReadMove DEF Good, Core, Steps, PcType
<1>15. Repeats
  BY EnterSessionRepeats DEF Good
<1>16. \A p \in Profiles, l \in Label, e \in Entities : Says(p, l, e)' => Says(p, l, e)
  BY <1>2, <1>15 DEF Says, Repeats
<1>17. MentionsBelow' /\ OneMeaning'
  BY <1>3, <1>7, <1>15, <1>16, EchoStep DEF Good, Core
<1>18. QED
  BY <1>12, <1>13, <1>14, <1>17 DEF Core

\* The save makes the counters durable that the thread is about to send labels
\* of.
LEMMA PersistCore == ASSUME Good, NEW t \in Clients, Persist(t) PROVE Core'
<1> DEFINE q == ProfileOf[t]
<1>1. q \in Profiles /\ disk # Torn /\ loaded /\ disk = floor /\ pc[t] = "next"
  BY DataAssumption DEF Persist, Good, Core, StoreInv, InSession, Steps, Kinds
<1>2. UNCHANGED <<labelOf, counter, cache, text, out, sent, loaded, stage, minting>>
  BY DEF Persist, session, request, frag
<1>3. MentionsBelow' /\ OneMeaning'
  BY <1>2, QuietStep DEF Good, Core
<1>4. PICK to \in {"save", "forward"} : pc' = [pc EXCEPT ![t] = to]
  BY DEF Persist
<1>5. ReadIsCurrent'
  BY <1>2, <1>4, ReadMove DEF Good, Core, TypeOK, Steps
<1>6. counter \in Counters /\ floor \in Counters /\ pc \in [Clients -> Steps]
  BY DEF Good, TypeOK, SessionType, StoreType, PcType
<1>7. {"save", "forward", "next"} \subseteq InSession
  BY DEF InSession, Steps
<1>8. CASE /\ floor' = [floor EXCEPT ![q] =
                           [k \in Kinds |-> Bigger(counter[q][k], floor[q][k])]]
           /\ disk' = Torn
           /\ pc' = [pc EXCEPT ![t] = "save"]
  <2>1. \A p \in Profiles, k \in Kinds : floor'[p][k] =
          IF p = q THEN Bigger(counter[q][k], floor[q][k]) ELSE floor[p][k]
    BY <1>1, <1>6, <1>8 DEF Counters
  <2>2. \A u \in Clients : pc'[u] = IF u = t THEN "save" ELSE pc[u]
    BY <1>6, <1>8
  <2>3. \A u \in Clients : pc[u] # "save"
    BY DEF Persist, StateFileFree
  <2>4. ASSUME NEW u \in Clients, NEW k \in Kinds
        PROVE  /\ pc'[u] \in InSession =>
                    loaded' /\ floor'[ProfileOf[u]][k] <= counter'[ProfileOf[u]][k]
               /\ pc'[u] \in {"save", "forward"} =>
                    counter'[ProfileOf[u]][k] <= floor'[ProfileOf[u]][k]
    <3>1. ProfileOf[u] \in Profiles
      BY DataAssumption
    <3>2. /\ counter[ProfileOf[u]][k] \in Nat /\ floor[ProfileOf[u]][k] \in Nat
          /\ counter[q][k] \in Nat /\ floor[q][k] \in Nat
      BY <1>1, <1>6, <3>1 DEF Counters
    <3>3. floor[q][k] <= counter[q][k]
      BY <1>1, <1>7 DEF Good, Core, StoreInv
    <3>4. /\ pc[u] \in InSession => loaded /\ floor[ProfileOf[u]][k] <= counter[ProfileOf[u]][k]
          /\ pc[u] \in {"save", "forward"} =>
                counter[ProfileOf[u]][k] <= floor[ProfileOf[u]][k]
      BY DEF Good, Core, StoreInv
    <3>5. floor'[ProfileOf[u]][k] = IF ProfileOf[u] = q
            THEN Bigger(counter[q][k], floor[q][k]) ELSE floor[ProfileOf[u]][k]
      BY <2>1, <3>1
    <3>6. CASE u = t
      BY <1>1, <1>2, <3>2, <3>3, <3>5, <3>6 DEF Bigger
    <3>7. CASE u # t
      BY <1>1, <1>2, <2>2, <3>2, <3>4, <3>5, <3>7 DEF Bigger
    <3>8. QED
      BY <3>6, <3>7
  <2>5. StoreInv'
    BY <1>1, <1>2, <1>8, <2>2, <2>3, <2>4 DEF StoreInv, StateFileFree
  <2>6. ASSUME NEW s \in sent' PROVE s.lab[2] < floor'[s.prof][s.lab[1]]
    <3>0. s \in [prof : Profiles, lab : Label, ent : Entities]
      BY <1>2 DEF Good, TypeOK, SentType
    <3>1. s.prof \in Profiles /\ s.lab[1] \in Kinds /\ s.lab[2] \in Nat
      BY <3>0, LabelParts
    <3>2. s.lab[2] < floor[s.prof][s.lab[1]]
      BY <1>1, <1>2 DEF Good, Core, PersistedBeforeForward
    <3>3. floor'[s.prof][s.lab[1]] = IF s.prof = q
            THEN Bigger(counter[q][s.lab[1]], floor[q][s.lab[1]])
            ELSE floor[s.prof][s.lab[1]]
      BY <2>1, <3>1
    <3>4. /\ counter[q][s.lab[1]] \in Nat /\ floor[q][s.lab[1]] \in Nat
          /\ floor[s.prof][s.lab[1]] \in Nat
      BY <1>1, <1>6, <3>1 DEF Counters
    <3>5. QED
      BY <3>1, <3>2, <3>3, <3>4 DEF Bigger
  <2>7. PersistedBeforeForward'
    BY <1>8, <2>6 DEF PersistedBeforeForward
  <2>8. QED
    BY <1>3, <1>5, <2>5, <2>7 DEF Core
<1>9. CASE /\ \A k \in Kinds : ~(counter[q][k] > floor[q][k])
           /\ pc' = [pc EXCEPT ![t] = "forward"]
           /\ UNCHANGED <<floor, disk>>
  <2>1. \A u \in Clients : pc'[u] = IF u = t THEN "forward" ELSE pc[u]
    BY <1>6, <1>9
  <2>2. \A k \in Kinds : counter[q][k] <= floor[q][k] /\ floor[q][k] <= counter[q][k]
    <3> SUFFICES ASSUME NEW k \in Kinds
                 PROVE  counter[q][k] <= floor[q][k] /\ floor[q][k] <= counter[q][k]
      OBVIOUS
    <3>1. counter[q][k] \in Nat /\ floor[q][k] \in Nat
      BY <1>1, <1>6 DEF Counters
    <3>2. floor[q][k] <= counter[q][k]
      BY <1>1, <1>7 DEF Good, Core, StoreInv
    <3>3. QED
      BY <1>9, <3>1, <3>2
  <2>3. StoreInv'
    BY <1>1, <1>2, <1>9, <2>1, <2>2 DEF Good, Core, StoreInv, StateFileFree
  <2>4. PersistedBeforeForward'
    BY <1>1, <1>2, <1>9 DEF Good, Core, PersistedBeforeForward
  <2>5. QED
    BY <1>3, <1>5, <2>3, <2>4 DEF Core
<1>10. QED
  BY <1>1, <1>8, <1>9 DEF Persist

\* The write completes what the truncation began.
LEMMA WriteStateCore == ASSUME Good, NEW t \in Clients, WriteState(t) PROVE Core'
<1>1. UNCHANGED <<labelOf, counter, cache, text, out, sent, loaded, floor, stage, minting>>
  BY DEF WriteState, session, request, frag
<1>2. MentionsBelow' /\ OneMeaning'
  BY <1>1, QuietStep DEF Good, Core
<1>3. ReadIsCurrent'
  BY <1>1, ReadMove DEF Good, Core, TypeOK, Steps, WriteState
<1>4. pc[t] = "save" /\ disk = Torn /\ disk' = floor /\ loaded
  BY DEF WriteState, Good, Core, StoreInv
<1>5. \A u \in Clients : pc'[u] = IF u = t THEN "forward" ELSE pc[u]
  BY DEF WriteState, Good, TypeOK, PcType
<1>6. floor # Torn
  BY NamesAssumption DEF Good, TypeOK, StoreType, Counters
<1>7. pc[t] \in InSession
  BY <1>4 DEF InSession, Steps
<1>8. StoreInv'
  BY <1>1, <1>4, <1>5, <1>6, <1>7 DEF Good, Core, StoreInv
<1>9. PersistedBeforeForward'
  BY <1>1, <1>4, <1>6 DEF Good, Core, PersistedBeforeForward
<1>10. QED
  BY <1>2, <1>3, <1>8, <1>9 DEF Core

\* What is forwarded was counted, and the count saved, before.
LEMMA ForwardCore == ASSUME Good, NEW t \in Clients, Forward(t) PROVE Core'
<1> DEFINE q == ProfileOf[t]
<1>1. /\ UNCHANGED <<labelOf, counter, cache, text, out, store, stage, minting>>
      /\ sent' = sent \cup Outgoing(t)
      /\ pc[t] = "forward" /\ pc' = [pc EXCEPT ![t] = "await"]
  BY DEF Forward, session, request, frag
<1>2. \A p \in Profiles, l \in Label, e \in Entities :
        Mentions(p, l, e)' <=> Mentions(p, l, e)
  BY <1>1 DEF Mentions
<1>3. ASSUME NEW s \in Outgoing(t)
      PROVE  /\ s.prof = q /\ s.lab \in Label /\ s.ent \in Entities
             /\ Mentions(q, s.lab, s.ent)
  <2>1. /\ s.prof = q /\ s.lab \in Label /\ s.ent \in Entities
        /\ \E r \in out[t] : r[2][s.ent] = s.lab
    BY DEF Outgoing
  <2>2. QED
    BY <2>1 DEF Mentions
<1>4. q \in Profiles /\ pc[t] \in InSession
  BY <1>1, DataAssumption DEF InSession, Steps
<1>5. ASSUME NEW p \in Profiles, NEW l \in Label, NEW e \in Entities,
             Says(p, l, e)'
      PROVE  Says(p, l, e)
  <2>1. CASE Mentions(p, l, e)'
    BY <1>2, <2>1 DEF Says
  <2>2. CASE [prof |-> p, lab |-> l, ent |-> e] \in sent
    BY <2>2 DEF Says
  <2>3. CASE [prof |-> p, lab |-> l, ent |-> e] \in Outgoing(t)
    BY <1>3, <2>3 DEF Says
  <2>4. QED
    BY <1>1, <1>5, <2>1, <2>2, <2>3 DEF Says
<1>6. counter' \in Counters /\ \A p \in Profiles, k \in Kinds : counter[p][k] <= counter'[p][k]
  BY <1>1 DEF Good, TypeOK, SessionType, Counters
<1>7. MentionsBelow' /\ OneMeaning'
  BY <1>2, <1>5, <1>6, EchoStep DEF Good, Core, Repeats
<1>8. ReadIsCurrent'
  BY <1>1, ReadMove DEF Good, Core, TypeOK, Steps
<1>9. \A u \in Clients : pc'[u] = IF u = t THEN "await" ELSE pc[u]
  BY <1>1 DEF Good, TypeOK, PcType
<1>10. StoreInv'
  BY <1>1, <1>9 DEF Good, Core, StoreInv, StateFileFree, store, InSession
<1>11. ASSUME NEW s \in Outgoing(t) PROVE s.lab[2] < floor[s.prof][s.lab[1]]
  <2>1. s.prof = q /\ s.lab[1] \in Kinds /\ s.lab[2] \in Nat
    BY <1>3, LabelParts
  <2>2. s.lab[2] < counter[q][s.lab[1]]
    BY <1>3, <1>4 DEF Good, Core, MentionsBelow
  <2>3. counter[q][s.lab[1]] <= floor[q][s.lab[1]]
    BY <1>1, <2>1 DEF Good, Core, StoreInv
  <2>4. counter[q][s.lab[1]] \in Nat /\ floor[q][s.lab[1]] \in Nat
    BY <1>4, <2>1 DEF Good, TypeOK, SessionType, StoreType, Counters
  <2>5. QED
    BY <2>1, <2>2, <2>3, <2>4
<1>12. disk \in {floor, Torn}
  BY <1>4 DEF Good, Core, StoreInv, Kinds
<1>13. PersistedBeforeForward'
  BY <1>1, <1>11, <1>12 DEF Good, Core, PersistedBeforeForward, store
<1>14. QED
  BY <1>7, <1>8, <1>10, <1>13 DEF Core

\* A new label is below the counter that is moved past it.
LEMMA MintLabelBelow ==
    ASSUME TypeOK, ThreadInv, ReadIsCurrent, MentionsBelow, NEW t \in Clients, MintLabel(t)
    PROVE  /\ MentionsBelow'
           /\ \A p \in Profiles, k \in Kinds : counter[p][k] <= counter'[p][k]
<1> DEFINE q == ProfileOf[t]
           k == KindSeq[stage[t]]
           n == minting[t][2]
<1>1. q \in Profiles /\ k \in Kinds
  BY DataAssumption, KindSeqType DEF TypeOK, FragType
<1>2. n \in Nat /\ n = counter[q][k]
  BY FlagAssumption DEF MintLabel, ThreadInv, ThreadOK, Number, ReadIsCurrent
<1>3. counter \in Counters /\ counter' = [counter EXCEPT ![q][k] = n + 1]
  BY DEF MintLabel, TypeOK, SessionType
<1>4. \A p \in Profiles, j \in Kinds :
        counter'[p][j] = IF p = q /\ j = k THEN n + 1 ELSE counter[p][j]
  BY <1>1, <1>2, <1>3 DEF Counters
<1>5. \A p \in Profiles, j \in Kinds :
        counter[p][j] \in Nat /\ counter'[p][j] \in Nat /\ counter[p][j] <= counter'[p][j]
  BY <1>2, <1>3, <1>4 DEF Counters
<1>6. MentionsBelow'
  <2> SUFFICES ASSUME NEW p \in Profiles, NEW l \in Label, NEW e \in Entities,
                      Mentions(p, l, e)'
               PROVE  l[2] < counter'[p][l[1]]
    BY DEF MentionsBelow
  <2>1. l[1] \in Kinds /\ l[2] \in Nat
    BY LabelParts
  <2>2. CASE Mentions(p, l, e)
    <3>1. l[2] < counter[p][l[1]]
      BY <2>2 DEF MentionsBelow
    <3>2. QED
      BY <1>5, <2>1, <3>1
  <2>3. CASE p = q /\ l = <<k, n>>
    BY <1>1, <1>2, <1>4, <2>3
  <2>4. QED
    BY <2>2, <2>3, MintLabelAdds DEF Minted
<1>7. QED
  BY <1>5, <1>6

\* The number a thread has just read stands for nothing yet.
LEMMA FreshLabel ==
    ASSUME Good, NEW t \in Clients, pc[t] = "mint", NEW e \in Entities,
           Says(ProfileOf[t], <<KindSeq[stage[t]], minting[t][2]>>, e)
    PROVE  FALSE
<1> DEFINE q == ProfileOf[t]
           k == KindSeq[stage[t]]
           n == minting[t][2]
<1>1. q \in Profiles /\ k \in Kinds /\ n \in Number /\ n \in Nat
  BY DataAssumption, FlagAssumption, KindSeqType
     DEF Good, TypeOK, FragType, ThreadInv, ThreadOK, Number
<1>2. n = counter[q][k]
  BY DEF Good, Core, ReadIsCurrent
<1>3. <<k, n>> \in Label
  BY <1>1 DEF Label
<1>4. CASE Mentions(q, <<k, n>>, e)
  <2>1. n < counter[q][k]
    BY <1>1, <1>3, <1>4 DEF Good, Core, MentionsBelow
  <2>2. QED
    BY <1>1, <1>2, <2>1
<1>5. CASE [prof |-> q, lab |-> <<k, n>>, ent |-> e] \in sent
  <2>1. n < floor[q][k]
    BY <1>5, Durable DEF InSession, Steps
  <2>2. floor[q][k] <= counter[q][k]
    BY <1>1 DEF Good, Core, StoreInv, InSession, Steps
  <2>3. floor[q][k] \in Nat /\ counter[q][k] \in Nat
    BY <1>1 DEF Good, TypeOK, SessionType, StoreType, Counters
  <2>4. QED
    BY <1>1, <1>2, <2>1, <2>2, <2>3
<1>6. QED
  BY <1>4, <1>5 DEF Says

\* A new label has a number that nothing mentions, and the counter moves past
\* it.
LEMMA MintLabelCore ==
    ASSUME InTurn, Good, NEW t \in Clients, MintLabel(t) PROVE Core'
<1> DEFINE q == ProfileOf[t]
           k == KindSeq[stage[t]]
           d == minting[t][1]
           n == minting[t][2]
<1>1. /\ q \in Profiles /\ k \in Kinds /\ d \in Entities /\ n \in Number
      /\ n \in Nat /\ pc[t] = "mint" /\ n = counter[q][k]
  <2>1. pc[t] = "mint"
    BY DEF MintLabel
  <2>2. q \in Profiles /\ k \in Kinds
    BY DataAssumption, KindSeqType DEF Good, TypeOK, FragType
  <2>3. d \in Entities /\ n \in Number /\ n \in Nat
    BY <2>1, FlagAssumption DEF Good, ThreadInv, ThreadOK, Number
  <2>4. n = counter[q][k]
    BY <2>1 DEF Good, Core, ReadIsCurrent
  <2>5. QED
    BY <2>1, <2>2, <2>3, <2>4
<1>2. /\ UNCHANGED <<cache, out, sent, store, stage>>
      /\ counter' = [counter EXCEPT ![q][k] = n + 1]
      /\ labelOf' = [labelOf EXCEPT ![q][k][d] = n]
      /\ text' = [text EXCEPT ![t][d] = <<k, n>>]
      /\ minting' = [minting EXCEPT ![t] = <<None, Absent>>]
      /\ pc' = [pc EXCEPT ![t] = "label"]
  BY DEF MintLabel, Replace, request
<1>3. counter \in Counters /\ pc \in [Clients -> Steps]
  BY DEF Good, TypeOK, SessionType, PcType
<1>4. \A p \in Profiles, j \in Kinds :
        counter'[p][j] = IF p = q /\ j = k THEN n + 1 ELSE counter[p][j]
  BY <1>1, <1>2, <1>3 DEF Counters
<1>5. \A p \in Profiles, j \in Kinds : counter[p][j] <= counter'[p][j]
  <2> SUFFICES ASSUME NEW p \in Profiles, NEW j \in Kinds
               PROVE  counter[p][j] <= counter'[p][j]
    OBVIOUS
  <2>1. counter[p][j] \in Nat
    BY <1>3 DEF Counters
  <2>2. QED
    BY <1>1, <1>4, <2>1
<1>6. \A u \in Clients \ {t} : /\ ProfileOf[u] \in Profiles
                               /\ pc[u] \in InSession => ProfileOf[u] # q
  BY <1>1, DataAssumption DEF InTurn, InSession, Steps
<1>7. \A u \in Clients \ {t} : pc[u] \in InSession =>
         counter'[ProfileOf[u]] = counter[ProfileOf[u]]
  BY <1>1, <1>2, <1>3, <1>6 DEF Counters
<1>8. \A u \in Clients \ {t} : minting'[u] = minting[u]
  BY <1>2 DEF Good, TypeOK, FragType
<1>9. ReadIsCurrent'
  <2>1. \A u \in Clients \ {t} : pc[u] = "mint" =>
          counter'[ProfileOf[u]] = counter[ProfileOf[u]]
    BY <1>7 DEF InSession, Steps
  <2>2. QED
    BY <1>2, <1>8, <2>1, ReadMove DEF Good, Core, TypeOK, Steps
<1>10. \A u \in Clients : pc'[u] = IF u = t THEN "label" ELSE pc[u]
  BY <1>2, <1>3
<1>11. ASSUME NEW u \in Clients, NEW j \in Kinds
       PROVE  /\ pc'[u] \in InSession =>
                    loaded /\ floor[ProfileOf[u]][j] <= counter'[ProfileOf[u]][j]
              /\ pc'[u] \in {"save", "forward"} =>
                    counter'[ProfileOf[u]][j] <= floor[ProfileOf[u]][j]
  <2>1. CASE u # t
    <3>1. /\ pc'[u] = pc[u]
          /\ pc[u] \in InSession => counter'[ProfileOf[u]] = counter[ProfileOf[u]]
      BY <1>7, <1>10, <2>1
    <3>2. {"save", "forward"} \subseteq InSession
      BY DEF InSession, Steps
    <3>3. QED
      BY <3>1, <3>2 DEF Good, Core, StoreInv
  <2>2. CASE u = t
    <3>1. loaded /\ floor[q][j] <= counter[q][j]
      BY <1>1 DEF Good, Core, StoreInv, InSession, Steps
    <3>2. floor[q][j] \in Nat /\ counter[q][j] \in Nat /\ counter'[q][j] \in Nat
      BY <1>1, <1>3, <1>4 DEF Good, TypeOK, StoreType, Counters
    <3>3. counter[q][j] <= counter'[q][j]
      BY <1>1, <1>5
    <3>4. floor[q][j] <= counter'[q][j]
      BY <3>1, <3>2, <3>3
    <3>5. QED
      BY <1>10, <2>2, <3>1, <3>4
  <2>3. QED
    BY <2>1, <2>2
<1>12. StoreInv'
  BY <1>2, <1>10, <1>11, <1>1 DEF Good, Core, StoreInv, StateFileFree, store
<1>13. PersistedBeforeForward'
  BY <1>2 DEF Good, Core, PersistedBeforeForward, store
<1>14. ASSUME NEW p \in Profiles, NEW l \in Label, NEW e \in Entities,
              Mentions(p, l, e)'
       PROVE  Mentions(p, l, e) \/ (p = q /\ l = <<k, n>> /\ e = d)
  BY <1>14, MintLabelAdds DEF Good, Minted
<1>15. \A e \in Entities : ~Says(q, <<k, n>>, e)
  BY <1>1, FreshLabel
<1>16. MentionsBelow'
  BY <1>1, MintLabelBelow DEF Good, Core
<1>17. OneMeaning'
  <2> SUFFICES ASSUME NEW p \in Profiles, NEW l \in Label, NEW e \in Entities,
                      NEW f \in Entities, Says(p, l, e)', Says(p, l, f)'
               PROVE  e = f
    BY DEF OneMeaning
  <2>1. Says(p, l, e) \/ (p = q /\ l = <<k, n>> /\ e = d)
    BY <1>2, <1>14 DEF Says
  <2>2. Says(p, l, f) \/ (p = q /\ l = <<k, n>> /\ f = d)
    BY <1>2, <1>14 DEF Says
  <2>3. QED
    BY <1>15, <2>1, <2>2 DEF Good, Core, OneMeaning
<1>18. QED
  BY <1>9, <1>12, <1>13, <1>16, <1>17 DEF Core

\* A restart forgets every label but what was sent, which the state file counts
\* past.
LEMMA RestartCore == ASSUME SaveIsAtomic, Good, Restart PROVE Core'
<1>1. disk # Torn /\ UNCHANGED <<disk, sent>> /\ loaded' = FALSE
  BY DEF Restart
<1>2. \A u \in Clients : pc'[u] = "idle"
  BY DEF Restart
<1>3. ReadIsCurrent'
  BY <1>2 DEF ReadIsCurrent
<1>4. StoreInv'
  BY <1>1, <1>2 DEF StoreInv, InSession
<1>5. PersistedBeforeForward'
  BY <1>1 DEF Good, Core, PersistedBeforeForward
<1>6. MentionsBelow'
  BY RestartForgets DEF MentionsBelow
<1>7. OneMeaning'
  BY <1>1, RestartForgets DEF OneMeaning, Says, Good, Core
<1>8. QED
  BY <1>3, <1>4, <1>5, <1>6, <1>7 DEF Core

-----------------------------------------------------------------------------
(* What the live engine says, whether saves are torn or not. *)

\* In what the engine holds, a label stands for one string.
LiveMeaning ==
    \A p \in Profiles, l \in Label, d, e \in Entities :
        Mentions(p, l, d) /\ Mentions(p, l, e) => d = e

LiveInv == TypeOK /\ ThreadInv /\ ReadIsCurrent /\ MentionsBelow /\ LiveMeaning

\* Entering a session raises counters.
LEMMA EnterSessionRaises ==
    ASSUME TypeOK, NEW t \in Clients, EnterSession(t)
    PROVE  /\ counter' \in Counters
           /\ \A p \in Profiles, k \in Kinds : counter[p][k] <= counter'[p][k]
           /\ \A p \in Profiles \ {ProfileOf[t]} : counter'[p] = counter[p]
<1> DEFINE q == ProfileOf[t]
           base == IF loaded THEN floor ELSE OnDisk
<1>1. counter' \in Counters
  BY EnterSessionType DEF TypeOK, SessionType
<1>2. counter \in Counters /\ floor \in Counters /\ disk \in Counters \cup {Torn}
  BY DEF TypeOK, SessionType, StoreType
<1>3. base \in Counters
  BY <1>2, FreshType DEF OnDisk, Counters
<1>4. counter' = [counter EXCEPT ![q] = [k \in Kinds |-> Bigger(counter[q][k], base[q][k])]]
  BY DEF EnterSession
<1>5. \A p \in Profiles \ {q} : counter'[p] = counter[p]
  BY <1>2, <1>4 DEF Counters
<1>6. ASSUME NEW k \in Kinds PROVE counter[q][k] <= counter'[q][k]
  <2>1. q \in Profiles
    BY DataAssumption
  <2>2. counter[q][k] \in Nat /\ base[q][k] \in Nat
    BY <1>2, <1>3, <2>1 DEF Counters
  <2>3. counter'[q][k] = Bigger(counter[q][k], base[q][k])
    BY <1>2, <1>4, <2>1 DEF Counters
  <2>4. QED
    BY <2>2, <2>3 DEF Bigger
<1>7. ASSUME NEW p \in Profiles, NEW k \in Kinds PROVE counter[p][k] <= counter'[p][k]
  <2>1. CASE p = q
    BY <1>6, <2>1
  <2>2. CASE p # q
    BY <1>2, <1>5, <2>2 DEF Counters
  <2>3. QED
    BY <2>1, <2>2
<1>8. QED
  BY <1>1, <1>5, <1>7

\* The steps of a thread that count nothing keep ReadIsCurrent.
LEMMA StillCurrent ==
    ASSUME TypeOK, ReadIsCurrent, NEW t \in Clients,
           Arrive(t) \/ Work(t), UNCHANGED counter, ~ReadCounter(t)
    PROVE  ReadIsCurrent'
<1> SUFFICES ASSUME NEW u \in Clients, pc'[u] = "mint"
             PROVE  minting'[u][2] = counter'[ProfileOf[u]][KindSeq[stage'[u]]]
  BY DEF ReadIsCurrent
<1>1. pc[u] = "mint" /\ stage'[u] = stage[u] /\ minting'[u] = minting[u]
  BY DEF Work, Arrive, EnterSession, CacheHit, CacheMiss, SkipEngine, LoadEngine, Scan, ReuseLabel,
     MintLabel, FinishEngine, Propagate, Persist, WriteState, Forward, Respond, Advance, frag,
     TypeOK, PcType, FragType
<1>2. QED
  BY <1>1 DEF ReadIsCurrent

\* Requests in turn: nobody counts while a thread is about to.
LEMMA ReadStep ==
    ASSUME TypeOK, ThreadInv, ReadIsCurrent, InTurn, InTurn', [Next]_vars
    PROVE  ReadIsCurrent'
<1>1. ASSUME NEW t \in Clients, EnterSession(t) PROVE ReadIsCurrent'
  <2>1. pc' = [pc EXCEPT ![t] = "next"] /\ UNCHANGED <<stage, minting>>
    BY <1>1 DEF EnterSession, frag
  <2>2. \A u \in Clients : pc'[u] = IF u = t THEN "next" ELSE pc[u]
    BY <2>1 DEF TypeOK, PcType
  <2>3. \A u \in Clients \ {t} : pc[u] = "mint" =>
          counter'[ProfileOf[u]] = counter[ProfileOf[u]]
    BY <1>1, <2>2, EnterSessionRaises, DataAssumption DEF InTurn, InSession, Steps
  <2>4. QED
    BY <2>1, <2>3, ReadMove DEF TypeOK, Steps
<1>2. ASSUME NEW t \in Clients, MintLabel(t) PROVE ReadIsCurrent'
  <2>1. /\ pc[t] = "mint" /\ pc' = [pc EXCEPT ![t] = "label"] /\ UNCHANGED stage
        /\ counter' = [counter EXCEPT ![ProfileOf[t]][KindSeq[stage[t]]] = minting[t][2] + 1]
        /\ minting' = [minting EXCEPT ![t] = <<None, Absent>>]
    BY <1>2 DEF MintLabel
  <2>2. \A u \in Clients \ {t} : minting'[u] = minting[u]
    BY <2>1 DEF TypeOK, FragType
  <2>3. \A u \in Clients \ {t} : pc[u] = "mint" => ProfileOf[u] # ProfileOf[t]
    BY <2>1 DEF InTurn, InSession, Steps
  <2>4. \A u \in Clients \ {t} : pc[u] = "mint" =>
          counter'[ProfileOf[u]] = counter[ProfileOf[u]]
    BY <2>1, <2>3, DataAssumption DEF TypeOK, SessionType, Counters
  <2>5. QED
    BY <2>1, <2>2, <2>4, ReadMove DEF TypeOK, Steps
<1>3. ASSUME NEW t \in Clients, ReadCounter(t) PROVE ReadIsCurrent'
  <2>1. PICK e \in found[t] :
          minting' = [minting EXCEPT ![t] = <<e, counter[ProfileOf[t]][KindSeq[stage[t]]]>>]
    BY <1>3 DEF ReadCounter
  <2>2. \A u \in Clients : pc'[u] = IF u = t THEN "mint" ELSE pc[u]
    BY <1>3 DEF ReadCounter, TypeOK, PcType
  <2>3. \A u \in Clients : minting'[u] =
          IF u = t THEN <<e, counter[ProfileOf[t]][KindSeq[stage[t]]]>> ELSE minting[u]
    BY <2>1 DEF TypeOK, FragType
  <2>4. UNCHANGED <<counter, stage>>
    BY <1>3 DEF ReadCounter, session
  <2>5. QED
    BY <2>2, <2>3, <2>4 DEF ReadIsCurrent
<1>4. ASSUME NEW t \in Clients,
             Arrive(t) \/ (Work(t) /\ ~EnterSession(t) /\ ~MintLabel(t) /\ ~ReadCounter(t))
      PROVE  ReadIsCurrent'
  <2>1. UNCHANGED counter /\ ~ReadCounter(t)
    BY <1>4
       DEF Work, Arrive, CacheHit, CacheMiss, SkipEngine, LoadEngine, Scan, ReuseLabel,
           ReadCounter, FinishEngine, Propagate, Persist, WriteState, Forward, Respond, session
  <2>2. QED
    BY <1>4, <2>1, StillCurrent
<1>5. CASE LoadDetector \/ (\E p \in Profiles : ChangeConfig(p)) \/ UNCHANGED vars
  BY <1>5, ReadSame DEF LoadDetector, ChangeConfig, vars, session, frag
<1>6. CASE Restart
  BY <1>6 DEF Restart, ReadIsCurrent
<1>7. QED
  BY <1>1, <1>2, <1>3, <1>4, <1>5, <1>6 DEF Next, Work

\* The steps that neither count nor name repeat what was said.
LEMMA StepsRepeat ==
    ASSUME TypeOK, ThreadInv, NEW t \in Clients, Arrive(t) \/ Work(t), ~MintLabel(t)
    PROVE  Repeats
<1>1. CASE \/ Arrive(t) \/ SkipEngine(t) \/ LoadEngine(t) \/ Scan(t) \/ ReadCounter(t)
           \/ FinishEngine(t) \/ Persist(t) \/ WriteState(t) \/ Forward(t)
  <2>1. UNCHANGED <<labelOf, cache, text, out>>
    BY <1>1 DEF Arrive, SkipEngine, LoadEngine, Scan, ReadCounter, FinishEngine, Persist, WriteState,
       Forward, session, frag, request
  <2>2. QED
    BY <2>1 DEF Repeats, Mentions
<1>2. QED
  BY <1>1, EnterSessionRepeats, CacheHitRepeats, CacheMissRepeats, ReuseLabelRepeats,
     PropagateRepeats, RespondRepeats DEF Work

\* Every step keeps LiveInv.
LEMMA LiveStep == LiveInv /\ InTurn /\ InTurn' /\ [Next]_vars => LiveInv'
<1> SUFFICES ASSUME LiveInv, InTurn, InTurn', [Next]_vars PROVE LiveInv'
  OBVIOUS
<1>1. TypeOK' /\ ThreadInv' /\ ReadIsCurrent'
  BY TypeStep, ReadStep DEF LiveInv
<1>2. counter \in Counters /\ counter' \in Counters
  BY <1>1 DEF LiveInv, TypeOK, SessionType
<1>3. ASSUME Repeats, \A p \in Profiles, k \in Kinds : counter[p][k] <= counter'[p][k]
      PROVE  MentionsBelow' /\ LiveMeaning'
  BY <1>2, <1>3, BelowStays DEF LiveInv, LiveMeaning, Repeats
<1>4. ASSUME NEW t \in Clients, MintLabel(t) PROVE MentionsBelow' /\ LiveMeaning'
  <2> DEFINE q == ProfileOf[t]
  <2>1. q \in Profiles /\ Minted(t) \in Label
    BY <1>4, DataAssumption, KindSeqType
       DEF MintLabel, Minted, Label, LiveInv, ThreadInv, ThreadOK, TypeOK, FragType
  <2>2. ASSUME NEW e \in Entities, Mentions(q, Minted(t), e) PROVE FALSE
    <3>1. Minted(t)[2] < counter[q][Minted(t)[1]]
      BY <2>1, <2>2 DEF LiveInv, MentionsBelow
    <3>2. Minted(t)[2] = counter[q][Minted(t)[1]]
      BY <1>4 DEF Minted, MintLabel, LiveInv, ReadIsCurrent
    <3>3. Minted(t)[2] \in Nat
      BY <2>1, LabelParts
    <3>4. QED
      BY <3>1, <3>2, <3>3
  <2>3. LiveMeaning'
    <3> SUFFICES ASSUME NEW p \in Profiles, NEW l \in Label, NEW d \in Entities, NEW e \in Entities,
                        Mentions(p, l, d)', Mentions(p, l, e)'
                 PROVE  d = e
      BY DEF LiveMeaning
    <3>1. Mentions(p, l, d) \/ (p = q /\ l = Minted(t) /\ d = minting[t][1])
      BY <1>4, MintLabelAdds DEF LiveInv
    <3>2. Mentions(p, l, e) \/ (p = q /\ l = Minted(t) /\ e = minting[t][1])
      BY <1>4, MintLabelAdds DEF LiveInv
    <3>3. QED
      BY <2>2, <3>1, <3>2 DEF LiveInv, LiveMeaning
  <2>4. QED
    BY <1>4, <2>3, MintLabelBelow DEF LiveInv
<1>5. ASSUME NEW t \in Clients, EnterSession(t) PROVE MentionsBelow' /\ LiveMeaning'
  BY <1>3, <1>5, EnterSessionRaises, EnterSessionRepeats DEF LiveInv
<1>6. ASSUME NEW t \in Clients, Arrive(t) \/ (Work(t) /\ ~EnterSession(t) /\ ~MintLabel(t))
      PROVE  MentionsBelow' /\ LiveMeaning'
  <2>1. ~MintLabel(t) /\ (Arrive(t) \/ Work(t))
    BY <1>6 DEF Arrive, MintLabel
  <2>2. Repeats
    BY <2>1, StepsRepeat DEF LiveInv
  <2>3. UNCHANGED counter
    BY <1>6
       DEF Work, Arrive, CacheHit, CacheMiss, SkipEngine, LoadEngine, Scan, ReuseLabel,
           ReadCounter, FinishEngine, Propagate, Persist, WriteState, Forward, Respond, session
  <2>4. \A p \in Profiles, k \in Kinds : counter[p][k] <= counter'[p][k]
    BY <1>2, <2>3 DEF Counters
  <2>5. QED
    BY <1>3, <2>2, <2>4
<1>7. CASE LoadDetector \/ (\E p \in Profiles : ChangeConfig(p)) \/ UNCHANGED vars
  <2>1. UNCHANGED <<labelOf, counter, cache, text, out>>
    BY <1>7 DEF LoadDetector, ChangeConfig, vars, session, request, frag
  <2>2. Repeats
    BY <2>1 DEF Repeats, Mentions
  <2>3. \A p \in Profiles, k \in Kinds : counter[p][k] <= counter'[p][k]
    BY <1>2, <2>1 DEF Counters
  <2>4. QED
    BY <1>1, <1>3, <2>2, <2>3 DEF LiveInv
<1>8. CASE Restart
  <2>1. \A p \in Profiles, l \in Label, e \in Entities : ~Mentions(p, l, e)'
    BY <1>8, RestartForgets
  <2>2. QED
    BY <1>1, <2>1 DEF LiveInv, MentionsBelow, LiveMeaning
<1>9. QED
  BY <1>1, <1>4, <1>5, <1>6, <1>7, <1>8 DEF Next, LiveInv, Work

\* While the requests of a profile are redacted in turn, a label that the engine holds,
\* in sessions, cached fragments and bodies, is below the counter of its session and
\* stands for one string, even after a crash in a save.
THEOREM LabelsLive == Spec /\ []InTurn => []LiveInv
<1>1. Init => LiveInv
  <2>1. Init => TypeOK /\ ThreadInv
    BY InitType, InitThread
  <2>2. Init => ReadIsCurrent
    BY DEF Init, ReadIsCurrent
  <2>3. Init => MentionsBelow /\ LiveMeaning
    BY InitSaysNothing DEF MentionsBelow, LiveMeaning
  <2>4. QED
    BY <2>1, <2>2, <2>3 DEF LiveInv
<1>2. QED
  BY <1>1, LiveStep, PTL DEF Spec

\* Within a session two strings never share a label: every new label takes the
\* next counter value (proxy_engine.cpp, RedactWithPIIModel; the engines alike).
THEOREM LabelsApart == Spec /\ []InTurn => []LabelsDistinct
<1>1. LiveInv => LabelsDistinct
  <2> SUFFICES ASSUME LiveInv, NEW p \in Profiles, NEW k \in Kinds,
                      NEW d \in Entities, NEW e \in Entities,
                      labelOf[p][k][d] = labelOf[p][k][e], d # e,
                      labelOf[p][k][d] # Absent
               PROVE  FALSE
    BY DEF LabelsDistinct
  <2> DEFINE l == <<k, labelOf[p][k][d]>>
  <2>1. l \in Label
    BY DEF LiveInv, TypeOK, SessionType, Label
  <2>2. Mentions(p, l, d) /\ Mentions(p, l, e)
    BY DEF Mentions
  <2>3. QED
    BY <2>1, <2>2 DEF LiveInv, LiveMeaning
<1>2. QED
  BY <1>1, LabelsLive, PTL

-----------------------------------------------------------------------------
(* The invariant and what follows from it. *)

\* Core holds initially.
LEMMA InitCore == Init => Core
<1> SUFFICES ASSUME Init PROVE Core
  OBVIOUS
<1>1. \A u \in Clients : pc[u] = "idle"
  BY DEF Init
<1>2. loaded = FALSE /\ disk # Torn /\ sent = {}
  BY NamesAssumption, FreshType DEF Init
<1>3. ReadIsCurrent /\ StoreInv /\ PersistedBeforeForward
  BY <1>1, <1>2 DEF ReadIsCurrent, StoreInv, InSession, PersistedBeforeForward
<1>4. MentionsBelow /\ OneMeaning
  BY <1>2, InitSaysNothing DEF MentionsBelow, OneMeaning, Says
<1>5. QED
  BY <1>3, <1>4 DEF Core

\* Every step keeps Core.
LEMMA CoreStep ==
    ASSUME InTurn, InTurn', SaveIsAtomic, Good, [Next]_vars PROVE Core'
<1>1. CASE \E t \in Clients : Arrive(t) \/ Work(t)
  BY <1>1, QuietSteps, EnterSessionCore, CacheHitCore, CacheMissCore, ReuseLabelCore,
     ReadCounterCore, MintLabelCore, PropagateCore, PersistCore, WriteStateCore,
     ForwardCore, RespondCore DEF Work
<1>2. CASE LoadDetector \/ \E p \in Profiles : ChangeConfig(p)
  BY <1>2, SurroundingsCore
<1>3. CASE Restart
  BY <1>3, RestartCore
<1>4. CASE UNCHANGED vars
  BY <1>4, QuietStep, StoreSame, ReadSame
     DEF Good, Core, vars, session, request, frag
<1>5. QED
  BY <1>1, <1>2, <1>3, <1>4 DEF Next

\* The two forms of the inductive invariant.
LEMMA GoodIsIInv == Good <=> IInv
  BY DEF Good, Core, IInv

\* While the requests of a profile are redacted in turn and no save is torn: the
\* inductive invariant, for any number of threads that serve the profile.
THEOREM Invariance ==
    ASSUME SaveIsAtomic PROVE Spec /\ []InTurn => []IInv
<1>1. Init => Good
  BY InitType, InitThread, InitCore DEF Good
<1>2. Good /\ InTurn /\ InTurn' /\ [Next]_vars => Good'
  BY TypeStep, CoreStep DEF Good
<1>3. QED
  BY <1>1, <1>2, GoodIsIInv, PTL DEF Spec

\* The counters reach the state file before any body that uses them is
\* forwarded (proxy_engine.cpp: SavePersistedCountersLocked precedes the
\* return of ProcessRequest).
THEOREM PersistsFirst ==
    ASSUME SaveIsAtomic PROVE Spec /\ []InTurn => []PersistedBeforeForward
<1>1. IInv => PersistedBeforeForward
  BY DEF IInv
<1>2. QED
  BY <1>1, Invariance, PTL

\* One meaning of what anybody says is one meaning of what was sent.
LEMMA SaidOnce == IInv => NeverReissued
<1> SUFFICES ASSUME IInv, NEW a \in sent, NEW b \in sent,
                    a.prof = b.prof, a.lab = b.lab
             PROVE  a.ent = b.ent
  BY DEF NeverReissued
<1>1. /\ a \in [prof : Profiles, lab : Label, ent : Entities]
      /\ b \in [prof : Profiles, lab : Label, ent : Entities]
  BY DEF IInv, TypeOK, SentType
<1>2. /\ a = [prof |-> a.prof, lab |-> a.lab, ent |-> a.ent]
      /\ b = [prof |-> a.prof, lab |-> a.lab, ent |-> b.ent]
  BY <1>1
<1>3. Says(a.prof, a.lab, a.ent) /\ Says(a.prof, a.lab, b.ent)
  BY <1>2 DEF Says
<1>4. QED
  BY <1>1, <1>3 DEF IInv, OneMeaning

\* A label number that went upstream never stands for a second string of its
\* profile: not after a configuration change, which forgets the labels, nor
\* after a restart, which forgets everything but the state file.
THEOREM LabelsAreForever ==
    ASSUME SaveIsAtomic PROVE Spec /\ []InTurn => []NeverReissued
<1> QED
  BY SaidOnce, Invariance, PTL

-----------------------------------------------------------------------------
(* The ledger *)

\* Counters, whether they are on disk or on their way.
LEMMA CountedType ==
    ASSUME TypeOK
    PROVE  (IF disk = Torn THEN floor ELSE disk) \in [Profiles -> [Kinds -> Nat]]
  BY DEF TypeOK, StoreType, Counters

\* No step but a save touches the counters that a restart would find, and a save
\* raises them.
LEMMA CountedGrows ==
    ASSUME SaveIsAtomic, Good, [Next]_vars
    PROVE  LET c == IF disk = Torn THEN floor ELSE disk
           IN  \A p \in Profiles, k \in Kinds : c[p][k] <= c'[p][k]
<1> DEFINE c == IF disk = Torn THEN floor ELSE disk
<1>1. c \in [Profiles -> [Kinds -> Nat]]
  BY CountedType DEF Good
<1>2. ASSUME UNCHANGED c PROVE \A p \in Profiles, k \in Kinds : c[p][k] <= c'[p][k]
  <2> HIDE DEF c
  <2> QED BY <1>1, <1>2
<1>3. ASSUME NEW t \in Clients, Persist(t)
      PROVE  \A p \in Profiles, k \in Kinds : c[p][k] <= c'[p][k]
  <2> DEFINE q == ProfileOf[t]
  <2>1. q \in Profiles /\ disk # Torn /\ disk = floor
    BY <1>3, DataAssumption DEF Persist, Good, Core, StoreInv, InSession, Steps, Kinds
  <2>2. floor \in Counters /\ counter \in Counters
    BY DEF Good, TypeOK, StoreType, SessionType
  <2>3. CASE UNCHANGED <<floor, disk>>
    BY <1>2, <2>3
  <2>4. CASE /\ floor' = [floor EXCEPT ![q] =
                            [k \in Kinds |-> Bigger(counter[q][k], floor[q][k])]]
             /\ disk' = Torn
    <3> SUFFICES ASSUME NEW p \in Profiles, NEW k \in Kinds
                 PROVE  floor[p][k] <= floor'[p][k]
      BY <2>1, <2>4
    <3>1. floor[p][k] \in Nat /\ floor[q][k] \in Nat /\ counter[q][k] \in Nat
      BY <2>1, <2>2 DEF Counters
    <3>2. floor'[p][k] = IF p = q THEN Bigger(counter[q][k], floor[q][k]) ELSE floor[p][k]
      BY <2>1, <2>2, <2>4 DEF Counters
    <3> QED BY <3>1, <3>2 DEF Bigger
  <2> QED BY <1>3, <2>3, <2>4 DEF Persist
<1>4. ASSUME NEW t \in Clients, EnterSession(t) PROVE UNCHANGED c
  <2>1. disk # Torn
    BY <1>4 DEF EnterSession, Good, Core, StoreInv
  <2> QED BY <1>4, <2>1 DEF EnterSession
<1>5. ASSUME NEW t \in Clients, WriteState(t) PROVE UNCHANGED c
  <2>1. disk = Torn /\ floor # Torn
    BY <1>5, NamesAssumption DEF WriteState, Good, Core, StoreInv, TypeOK, StoreType, Counters
  <2> QED BY <1>5, <2>1 DEF WriteState
<1>6. CASE Restart
  BY <1>2, <1>6 DEF Restart
<1>7. CASE UNCHANGED store
  BY <1>2, <1>7 DEF store
<1>8. ASSUME NEW t \in Clients,
             Arrive(t) \/ (Work(t) /\ ~EnterSession(t) /\ ~Persist(t) /\ ~WriteState(t))
      PROVE  UNCHANGED store
  BY <1>8
     DEF Work, Arrive, CacheHit, CacheMiss, SkipEngine, LoadEngine, Scan, ReuseLabel, ReadCounter,
         MintLabel, FinishEngine, Propagate, Forward, Respond
<1>9. ASSUME LoadDetector \/ (\E p \in Profiles : ChangeConfig(p)) \/ UNCHANGED vars
      PROVE  UNCHANGED store
  BY <1>9 DEF LoadDetector, ChangeConfig, vars
<1> QED BY <1>2, <1>3, <1>4, <1>5, <1>6, <1>7, <1>8, <1>9 DEF Next, Work

\* The pipeline implements the ledger: whatever sessions, configurations and
\* restarts forget, the provider's labels keep the meaning they went out with,
\* and the file counts past them (ProcessRequest saves the counters first).
THEOREM Refinement ==
    ASSUME SaveIsAtomic PROVE Spec /\ []InTurn => KeepsLedger
<1> DEFINE c == IF disk = Torn THEN floor ELSE disk
<1>a. Good' => NeverReissued'
  BY SaidOnce, GoodIsIInv, PTL
<1>b. Good' => c' \in [Profiles -> [Kinds -> Nat]]
  BY DEF Good, TypeOK, StoreType, Counters
<1>1. Init => Ledger!Init
  BY NamesAssumption DEF Init, Ledger!Init, Zero
<1>2. Good /\ Good' /\ [Next]_vars => [Ledger!Next]_Ledger!vars
  <2> SUFFICES ASSUME Good, Good', [Next]_vars PROVE Ledger!Next \/ UNCHANGED Ledger!vars
    OBVIOUS
  <2>1. c' \in [Profiles -> [Kinds -> Nat]]
    BY <1>b
  <2>2. \A p \in Profiles, k \in Kinds : c[p][k] <= c'[p][k]
    BY CountedGrows
  <2>3. CASE UNCHANGED sent
    <3>1. Ledger!Reserve
      BY <2>1, <2>2, <2>3 DEF Ledger!Reserve, Ledger!Counters
    <3> QED BY <3>1 DEF Ledger!Next
  <2>4. ASSUME NEW t \in Clients, Forward(t) PROVE Ledger!Forward
    <3>1. sent \subseteq sent' /\ UNCHANGED store
      BY <2>4 DEF Forward
    <3>2. sent' \subseteq Ledger!Meaning
      BY FlagAssumption DEF Good, TypeOK, SentType, Ledger!Meaning, Label, Number
    <3>3. \A s \in sent' : Ledger!Reserved(s)
      BY <3>1 DEF Good, Core, PersistedBeforeForward, Ledger!Reserved, store
    <3>4. Ledger!Unambiguous(sent')
      BY <1>a DEF Ledger!Unambiguous, NeverReissued
    <3> QED BY <3>1, <3>2, <3>3, <3>4 DEF Ledger!Forward, store
  <2>5. \/ UNCHANGED sent
        \/ \E t \in Clients : Forward(t)
    BY ZenonT(40) DEF Next, Work, Arrive, EnterSession, CacheHit, CacheMiss, SkipEngine, LoadEngine, Scan,
           ReuseLabel, ReadCounter, MintLabel, FinishEngine, Propagate, Persist, WriteState,
           Respond, ChangeConfig, LoadDetector, Restart, vars
  <2> QED BY <2>3, <2>4, <2>5 DEF Ledger!Next
<1>3. QED
  BY <1>1, <1>2, Invariance, GoodIsIInv, PTL DEF Spec, KeepsLedger, Ledger!Spec
=============================================================================
