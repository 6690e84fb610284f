---------------------------- MODULE SseStreamProofs ----------------------------
(***************************************************************************)
(* Proofs about SseStream, for texts of any length, any labels and channels,  *)
(* however upstream splits its text and however it arrives.                  *)
(*                                                                         *)
(* The argument: what the client has seen of a channel is a part x of its     *)
(* text, restored, and x is followed by what is held, what waits and what is  *)
(* left in rawBuffer_, up to what was sent (ChannelInv).  Restoring a text     *)
(* part by part gives the restored text if no part ends in the middle of a    *)
(* label (ReplaceSplits, SafeSplit), and RebuildSSE gives the restored text    *)
(* back to its channel whole, in whatever events (RebuildText).  What is sent  *)
(* on does not end in the middle of a label: channels follow one another      *)
(* (WireInv), so what is looked at ends with the text of the last one, and    *)
(* those before it are complete (EmittedIsSafe).  Conversely what is held     *)
(* ends in one, since every marker before the end begins a whole label        *)
(* (ClearLooksFine).                                                        *)
(*                                                                         *)
(* Restorable and MarkersBegin say for which responses this is so; the code    *)
(* guarantees neither.                                                       *)
(*                                                                         *)
(* The operators of SseStream are recursive functions of a text, so most of   *)
(* the lemmas are about them.  They are proved by induction, with the claim    *)
(* as a set: of numbers (NatSetInduction), or of sequences (SeqSetInduction).  *)
(***************************************************************************)
EXTENDS SseStream, SequenceTheorems, WellFoundedInduction, TLAPS

-----------------------------------------------------------------------------
(* Induction.  A theorem about an arbitrary predicate cannot be used here, so  *)
(* the predicate is a set of numbers.                                        *)

\* A set that holds 0 and, with a number, the next one holds them all.
LEMMA NatSetInduction ==
    ASSUME NEW S, 0 \in S, \A n \in Nat : n \in S => n + 1 \in S
    PROVE  Nat \subseteq S
<1> DEFINE Missing == Nat \ S
<1> DEFINE Less == OpToRel(<, Nat)
<1>1. IsWellFoundedOn(Less, Nat)
  BY NatLessThanWellFounded
<1>2. \A x, y \in Nat : x < y => <<x, y>> \in Less
  BY DEF OpToRel
<1> SUFFICES ASSUME Missing # {} PROVE FALSE
  OBVIOUS
<1>3. Missing \subseteq Nat
  OBVIOUS
<1> HIDE DEF Less
<1>4. PICK x \in Missing : \A y \in Missing : <<y, x>> \notin Less
  <2> HIDE DEF Missing
  <2> QED BY <1>1, <1>3, WFMin
<1>5. x - 1 \in Missing /\ x - 1 < x /\ x \in Nat /\ x - 1 \in Nat
  OBVIOUS
<1> QED BY <1>2, <1>4, <1>5

\* The same, where all the smaller numbers may be used.
LEMMA NatSetStrongInduction ==
    ASSUME NEW S, \A n \in Nat : (\A m \in Nat : m < n => m \in S) => n \in S
    PROVE  Nat \subseteq S
<1> DEFINE T == {n \in Nat : \A m \in Nat : m < n => m \in S}
<1>1. 0 \in T
  OBVIOUS
<1>2. \A n \in Nat : n \in T => n + 1 \in T
  OBVIOUS
<1>3. Nat \subseteq T
  <2> HIDE DEF T
  <2> QED BY <1>1, <1>2, NatSetInduction
<1> QED BY <1>3

\* rule[<<n, f>>] is the value for n, from the values of f for smaller numbers.
IsRule(rule, m, V) ==
    /\ rule \in [(0..m) \X [0..m -> V] -> V]
    /\ \A n \in 0..m : \A f, g \in [0..m -> V] :
        (\A i \in 0..m : i < n => f[i] = g[i]) => rule[<<n, f>>] = rule[<<n, g>>]

Follows(f, rule, m, V) ==
    f \in [0..m -> V] /\ \A n \in 0..m : f[n] = rule[<<n, f>>]

\* A value that is given for every number from those of the smaller numbers
\* defines a function.
LEMMA RecursionHasSolution ==
    ASSUME NEW V, V # {}, NEW m \in Nat, NEW rule, IsRule(rule, m, V)
    PROVE  \E f : Follows(f, rule, m, V)
<1> USE DEF IsRule
<1> PICK v \in V : TRUE
  OBVIOUS
<1> DEFINE Good(f, k) == \A n \in 0..m : n < k => f[n] = rule[<<n, f>>]
           S == {k \in Nat : \E f \in [0..m -> V] : Good(f, k)}
<1>1. 0 \in S
  <2>1. [i \in 0..m |-> v] \in [0..m -> V]
    OBVIOUS
  <2>2. \A f : Good(f, 0)
    OBVIOUS
  <2> HIDE DEF Good
  <2> QED BY <2>1, <2>2
<1>2. \A k \in Nat : k \in S => k + 1 \in S
  <2> TAKE k \in Nat
  <2> HAVE k \in S
  <2>1. PICK f \in [0..m -> V] : Good(f, k)
    OBVIOUS
  <2>2. CASE k \notin 0..m
    <3>1. \A n \in 0..m : n < k
      BY <2>2
    <3>2. Good(f, k + 1)
      BY <2>1, <3>1
    <3> HIDE DEF Good
    <3> QED BY <3>2
  <2>3. CASE k \in 0..m
    <3> DEFINE g == [f EXCEPT ![k] = rule[<<k, f>>]]
    <3>1. rule[<<k, f>>] \in V
      <4>1. <<k, f>> \in (0..m) \X [0..m -> V]
        BY <2>3
      <4> QED BY <4>1
    <3>2. g \in [0..m -> V]
      BY <3>1
    <3>3. g[k] = rule[<<k, f>>] /\ \A n \in 0..m : n < k => g[n] = f[n]
      BY <2>3
    <3> HIDE DEF g
    <3>4. \A n \in 0..m : n < k + 1 => rule[<<n, g>>] = rule[<<n, f>>]
      <4> TAKE n \in 0..m
      <4> HAVE n < k + 1
      <4>1. \A i \in 0..m : i < n => g[i] = f[i]
        BY <2>3, <3>3
      <4> QED BY <3>2, <4>1
    <3>5. \A n \in 0..m : n < k + 1 => n < k \/ n = k
      BY <2>3
    <3>6. Good(g, k + 1)
      BY <2>1, <3>3, <3>4, <3>5
    <3> HIDE DEF Good
    <3> QED BY <3>2, <3>6
  <2> QED BY <2>2, <2>3
<1>3. Nat \subseteq S
  <2> HIDE DEF S
  <2> QED BY <1>1, <1>2, NatSetInduction
<1>4. m + 1 \in S
  <2> HIDE DEF S
  <2> QED BY <1>3
<1>5. PICK f \in [0..m -> V] : Good(f, m + 1)
  <2> HIDE DEF Good
  <2> QED BY <1>4
<1>6. \A n \in 0..m : n < m + 1
  OBVIOUS
<1> QED BY <1>5, <1>6 DEF Follows

\* step[<<n, x>>] is the value for n, from the value x for n - 1.
IsStep(step, m, V) == step \in [(1..m) \X V -> V]

IsChain(f, v, step, m, V) ==
    /\ f \in [0..m -> V]
    /\ f[0] = v
    /\ \A n \in 1..m : f[n] = step[<<n, f[n - 1]>>]

\* The same, where a value is given by the one before it.
LEMMA ChainExists ==
    ASSUME NEW V, NEW v \in V, NEW m \in Nat, NEW step, IsStep(step, m, V)
    PROVE  \E f : IsChain(f, v, step, m, V)
<1> USE DEF IsStep
<1> DEFINE e(n, f) == IF n = 0 THEN v ELSE step[<<n, f[n - 1]>>]
           rule == [p \in (0..m) \X [0..m -> V] |-> e(p[1], p[2])]
<1>1. \A n \in 0..m, f \in [0..m -> V] : e(n, f) \in V
  <2> TAKE n \in 0..m, f \in [0..m -> V]
  <2>1. CASE n # 0
    <3>1. n \in 1..m /\ n - 1 \in 0..m
      BY <2>1
    <3>2. <<n, f[n - 1]>> \in (1..m) \X V
      BY <3>1
    <3> QED BY <2>1, <3>2
  <2> QED BY <2>1
<1>2. \A n \in 0..m, f \in [0..m -> V] : rule[<<n, f>>] = e(n, f)
  OBVIOUS
<1>3. rule \in [(0..m) \X [0..m -> V] -> V]
  <2> HIDE DEF e
  <2> QED BY <1>1
<1>4. \A n \in 0..m : \A f, g \in [0..m -> V] :
        (\A i \in 0..m : i < n => f[i] = g[i]) => rule[<<n, f>>] = rule[<<n, g>>]
  <2> TAKE n \in 0..m
  <2> TAKE f, g \in [0..m -> V]
  <2> HAVE \A i \in 0..m : i < n => f[i] = g[i]
  <2>1. n # 0 => n - 1 \in 0..m /\ n - 1 < n
    OBVIOUS
  <2>2. n # 0 => f[n - 1] = g[n - 1]
    BY <2>1
  <2>3. e(n, f) = e(n, g)
    BY <2>2
  <2> HIDE DEF rule, e
  <2> QED BY <1>2, <2>3
<1>5. IsRule(rule, m, V)
  <2> HIDE DEF rule
  <2> QED BY <1>3, <1>4 DEF IsRule
<1>6. PICK f : Follows(f, rule, m, V)
  <2> HIDE DEF rule
  <2> QED BY <1>5, RecursionHasSolution
<1>7. f \in [0..m -> V] /\ \A n \in 0..m : f[n] = e(n, f)
  <2> HIDE DEF rule, e
  <2> QED BY <1>2, <1>6 DEF Follows
<1>8. f[0] = v /\ \A n \in 1..m : f[n] = step[<<n, f[n - 1]>>]
  <2>1. 0 \in 0..m /\ \A n \in 1..m : n \in 0..m /\ n # 0
    OBVIOUS
  <2>2. e(0, f) = v /\ \A n \in 1..m : e(n, f) = step[<<n, f[n - 1]>>]
    BY <2>1
  <2> HIDE DEF e
  <2> QED BY <1>7, <2>1, <2>2
<1> QED BY <1>7, <1>8 DEF IsChain

-----------------------------------------------------------------------------
(* Joining texts *)

\* FlattenSeq, by the text joined so far.
LEMMA FlattenIsChain ==
    ASSUME NEW S, NEW ss \in Seq(Seq(S)), ss # <<>>
    PROVE  \E f \in [1..Len(ss) -> Seq(S)] :
            /\ f[1] = ss[1]
            /\ \A i \in 2..Len(ss) : f[i] = f[i - 1] \o ss[i]
            /\ FlattenSeq(ss) = f[Len(ss)]
<1> DEFINE m == Len(ss)
           step == [p \in (1..m) \X Seq(S) |-> p[2] \o ss[p[1]]]
           Step(f, i) == IF i = 1 THEN ss[i] ELSE f[i - 1] \o ss[i]
           Joins(f) == f = [i \in 1..Len(ss) |-> Step(f, i)]
<1>1. m \in Nat /\ m >= 1 /\ \A i \in 1..m : ss[i] \in Seq(S)
  OBVIOUS
<1>2. IsStep(step, m, Seq(S)) /\ \A i \in 1..m, t \in Seq(S) : step[<<i, t>>] = t \o ss[i]
  <2>1. \A i \in 1..m, t \in Seq(S) : t \o ss[i] \in Seq(S)
    BY <1>1, ConcatProperties
  <2> HIDE DEF m
  <2> QED BY <2>1 DEF IsStep
<1>3. PICK g : IsChain(g, <<>>, step, m, Seq(S))
  <2> HIDE DEF m, step
  <2>1. <<>> \in Seq(S)
    OBVIOUS
  <2> QED BY <1>1, <1>2, <2>1, ChainExists
<1>4. g \in [0..m -> Seq(S)] /\ \A i \in 1..m : g[i] = g[i - 1] \o ss[i]
  <2> HIDE DEF m, step
  <2>1. \A i \in 1..m : i - 1 \in 0..m
    BY <1>1
  <2> QED BY <1>2, <1>3, <2>1 DEF IsChain
<1>5. g[1] = ss[1]
  <2> HIDE DEF step, m
  <2>1. g[0] = <<>>
    BY <1>3 DEF IsChain
  <2>2. g[1] = <<>> \o ss[1]
    <3>1. 1 \in 1..m /\ 1 - 1 = 0
      BY <1>1
    <3> QED BY <1>4, <2>1, <3>1
  <2> QED BY <1>1, <2>2, ConcatEmptySeq
<1> DEFINE f0 == [i \in 1..m |-> g[i]]
<1>6. \A i \in 1..m : f0[i] = Step(f0, i)
  <2> HIDE DEF step
  <2> TAKE i \in 1..m
  <2>1. CASE i = 1
    BY <1>5, <2>1
  <2>2. CASE i # 1
    <3>1. i - 1 \in 1..m
      BY <2>2, <1>1
    <3>2. f0[i - 1] = g[i - 1]
      BY <3>1
    <3> QED BY <1>4, <2>2, <3>2
  <2> QED BY <2>1, <2>2
<1>7. Joins(f0)
  BY <1>6
<1> DEFINE f == CHOOSE x : Joins(x)
<1>8. Joins(f)
  <2> HIDE DEF Joins
  <2> QED BY <1>7, Zenon
<1>9. f = [i \in 1..m |-> Step(f, i)] /\ f0 = [i \in 1..m |-> Step(f0, i)]
  BY <1>7, <1>8
<1>10. \A i \in Nat : i + 1 \in 1..m => f[i + 1] = f0[i + 1]
  <2> DEFINE N == {i \in Nat : i + 1 \in 1..m => f[i + 1] = f0[i + 1]}
  <2>1. \A j \in 1..m : f[j] = Step(f, j) /\ f0[j] = Step(f0, j)
    <3> HIDE DEF f, f0, Step, m
    <3> QED BY <1>9
  <2> HIDE DEF f, f0, m
  <2>2. 0 \in N
    <3>1. 1 \in 1..m
      BY <1>1
    <3>2. f[1] = f0[1]
      BY <2>1, <3>1
    <3> QED BY <3>2
  <2>3. \A i \in Nat : i \in N => i + 1 \in N
    <3> TAKE i \in Nat
    <3> HAVE i \in N
    <3> SUFFICES ASSUME i + 1 + 1 \in 1..m PROVE f[i + 1 + 1] = f0[i + 1 + 1]
      OBVIOUS
    <3> DEFINE j == i + 1 + 1
    <3>1. j \in 1..m /\ j # 1 /\ j - 1 = i + 1 /\ i + 1 \in 1..m
      BY <1>1
    <3>2. f[j - 1] = f0[j - 1]
      BY <3>1
    <3> HIDE DEF j
    <3>3. f[j] = f0[j]
      BY <2>1, <3>1, <3>2
    <3> QED BY <3>3 DEF j
  <2>4. Nat \subseteq N
    <3> HIDE DEF N
    <3> QED BY <2>2, <2>3, NatSetInduction
  <2> QED BY <2>4
<1>11. \A i \in 1..m : f[i] = g[i]
  <2> TAKE i \in 1..m
  <2>1. i - 1 \in Nat /\ i - 1 + 1 = i
    BY <1>1
  <2>2. f[i] = f0[i]
    <3> HIDE DEF f, f0
    <3> QED BY <1>10, <2>1
  <2> QED BY <2>2
<1>12. FlattenSeq(ss) = f[Len(ss)]
  <2>1. Len(ss) # 0
    BY <1>1
  <2> QED BY <2>1, Zenon DEF FlattenSeq
<1>13. FlattenSeq(ss) = f0[Len(ss)]
  <2>1. m \in 1..m
    BY <1>1
  <2>2. f[m] = f0[m]
    <3> HIDE DEF f
    <3> QED BY <1>11, <2>1
  <2> HIDE DEF f, f0
  <2> QED BY <1>12, <2>2
<1>14. f0 \in [1..m -> Seq(S)] /\ f0[1] = ss[1] /\ \A i \in 2..m : f0[i] = f0[i - 1] \o ss[i]
  <2>1. f0 \in [1..m -> Seq(S)]
    <3> HIDE DEF step
    <3> QED BY <1>4
  <2>2. 1 \in 1..m /\ \A i \in 2..m : i \in 1..m /\ i # 1
    BY <1>1
  <2> HIDE DEF f0, step
  <2> QED BY <1>6, <2>1, <2>2
<1> HIDE DEF f0, f, step
<1> QED BY <1>13, <1>14

\* A set of sequences that holds the empty one and, with a sequence, all that
\* are one longer, holds them all.
LEMMA SeqSetInduction ==
    ASSUME NEW S, NEW T, <<>> \in T,
           \A s \in Seq(S), e \in S : s \in T => Append(s, e) \in T
    PROVE  Seq(S) \subseteq T
<1> DEFINE N == {n \in Nat : \A s \in Seq(S) : Len(s) = n => s \in T}
<1>1. 0 \in N
  <2>1. \A s \in Seq(S) : Len(s) = 0 => s = <<>>
    OBVIOUS
  <2> QED BY <2>1
<1>2. \A n \in Nat : n \in N => n + 1 \in N
  <2> TAKE n \in Nat
  <2> HAVE n \in N
  <2> SUFFICES ASSUME NEW s \in Seq(S), Len(s) = n + 1 PROVE s \in T
    OBVIOUS
  <2>1. s # <<>>
    OBVIOUS
  <2>2. PICK t \in Seq(S), e \in S : s = Append(t, e)
    BY <2>1, SequenceEmptyOrAppend
  <2>3. Len(t) = n
    BY <2>2, AppendProperties, LenProperties
  <2> QED BY <2>2, <2>3
<1>3. Nat \subseteq N
  <2> HIDE DEF N
  <2> QED BY <1>1, <1>2, NatSetInduction
<1> SUFFICES ASSUME NEW s \in Seq(S) PROVE s \in T
  OBVIOUS
<1>4. Len(s) \in N
  BY <1>3, LenProperties
<1> QED BY <1>4

\* Nothing joined is nothing.
LEMMA FlattenEmpty == FlattenSeq(<<>>) = <<>>
<1>1. Len(<<>>) = 0
  OBVIOUS
<1> QED BY <1>1 DEF FlattenSeq

\* Texts joined are a text.
LEMMA FlattenType ==
    ASSUME NEW S, NEW ss \in Seq(Seq(S))
    PROVE  FlattenSeq(ss) \in Seq(S)
<1>1. CASE ss = <<>>
  <2>1. <<>> \in Seq(S)
    OBVIOUS
  <2> QED BY <1>1, <2>1, FlattenEmpty
<1>2. CASE ss # <<>>
  <2>1. PICK f \in [1..Len(ss) -> Seq(S)] : FlattenSeq(ss) = f[Len(ss)]
    BY <1>2, FlattenIsChain
  <2>2. Len(ss) \in 1..Len(ss)
    BY <1>2
  <2> QED BY <2>1, <2>2
<1> QED BY <1>1, <1>2

\* One text more is joined at the end.
LEMMA FlattenAppend ==
    ASSUME NEW S, NEW ss \in Seq(Seq(S)), NEW t \in Seq(S)
    PROVE  FlattenSeq(Append(ss, t)) = FlattenSeq(ss) \o t
<1> DEFINE n == Len(ss)
           tt == Append(ss, t)
<1>1. /\ tt \in Seq(Seq(S)) /\ tt # <<>> /\ Len(tt) = n + 1
      /\ \A i \in 1..n : tt[i] = ss[i]
      /\ tt[n + 1] = t /\ n \in Nat
  BY AppendProperties, LenProperties
<1> HIDE DEF tt, n
<1>2. PICK g \in [1..Len(tt) -> Seq(S)] :
        /\ g[1] = tt[1]
        /\ \A i \in 2..Len(tt) : g[i] = g[i - 1] \o tt[i]
        /\ FlattenSeq(tt) = g[Len(tt)]
  BY <1>1, FlattenIsChain
<1>3. CASE ss = <<>>
  <2>1. n = 0
    BY <1>3 DEF n
  <2>2. FlattenSeq(tt) = t
    BY <1>1, <1>2, <2>1
  <2> QED BY <1>3, <2>2, FlattenEmpty, ConcatEmptySeq DEF tt
<1>4. CASE ss # <<>>
  <2>1. PICK f \in [1..n -> Seq(S)] :
        /\ f[1] = ss[1]
        /\ \A i \in 2..n : f[i] = f[i - 1] \o ss[i]
        /\ FlattenSeq(ss) = f[n]
    BY <1>4, FlattenIsChain DEF n
  <2> DEFINE N == {i \in Nat : i + 1 \in 1..n => f[i + 1] = g[i + 1]}
  <2>2. 0 \in N
    BY <1>1, <1>2, <2>1
  <2>3. \A i \in Nat : i \in N => i + 1 \in N
    <3>1. \A j \in 2..n : f[j - 1] = g[j - 1] => f[j] = g[j]
      <4> TAKE j \in 2..n
      <4>1. j \in 1..n /\ j \in 2..Len(tt)
        BY <1>1
      <4>2. f[j] = f[j - 1] \o ss[j] /\ g[j] = g[j - 1] \o tt[j]
        BY <1>2, <2>1, <4>1
      <4> QED BY <1>1, <4>1, <4>2
    <3> TAKE i \in Nat
    <3> HAVE i \in N
    <3> SUFFICES ASSUME i + 1 + 1 \in 1..n PROVE f[i + 1 + 1] = g[i + 1 + 1]
      OBVIOUS
    <3> DEFINE j == i + 1 + 1
    <3>2. j \in 2..n /\ j - 1 = i + 1 /\ i + 1 \in 1..n
      BY <1>1
    <3>3. f[i + 1] = g[i + 1]
      BY <3>2
    <3>4. f[j - 1] = g[j - 1]
      BY <3>2, <3>3
    <3> HIDE DEF j
    <3>5. f[j] = g[j]
      BY <3>1, <3>2, <3>4
    <3> QED BY <3>5 DEF j
  <2>4. Nat \subseteq N
    <3> HIDE DEF N
    <3> QED BY <2>2, <2>3, NatSetInduction
  <2>5. n \in 1..n /\ n - 1 \in Nat /\ n - 1 + 1 = n /\ n + 1 \in 2..Len(tt) /\ n + 1 - 1 = n
    BY <1>1, <1>4 DEF n
  <2>6. f[n] = g[n]
    BY <2>4, <2>5
  <2>7. g[n + 1] = g[n] \o t
    <3> DEFINE j == n + 1
    <3>1. j \in 2..Len(tt) /\ j - 1 = n
      BY <2>5
    <3> HIDE DEF j
    <3>2. g[j] = g[j - 1] \o tt[j]
      BY <1>2, <3>1
    <3> QED BY <1>1, <3>1, <3>2 DEF j
  <2> QED BY <1>1, <1>2, <2>1, <2>6, <2>7 DEF tt
<1> QED BY <1>3, <1>4

\* Joining goes part by part.
LEMMA FlattenConcat ==
    ASSUME NEW S, NEW ss \in Seq(Seq(S)), NEW tt \in Seq(Seq(S))
    PROVE  FlattenSeq(ss \o tt) = FlattenSeq(ss) \o FlattenSeq(tt)
<1> DEFINE T == {u \in Seq(Seq(S)) : FlattenSeq(ss \o u) = FlattenSeq(ss) \o FlattenSeq(u)}
<1>1. <<>> \in T
  <2>1. <<>> \in Seq(Seq(S)) /\ ss \o <<>> = ss
    BY ConcatEmptySeq
  <2>2. FlattenSeq(ss) \o <<>> = FlattenSeq(ss)
    BY FlattenType, ConcatEmptySeq
  <2> QED BY <2>1, <2>2, FlattenEmpty
<1>2. \A u \in Seq(Seq(S)), t \in Seq(S) : u \in T => Append(u, t) \in T
  <2> TAKE u \in Seq(Seq(S)), t \in Seq(S)
  <2> HAVE u \in T
  <2>1. ss \o Append(u, t) = Append(ss \o u, t) /\ Append(u, t) \in Seq(Seq(S)) /\ ss \o u \in Seq(Seq(S))
    OBVIOUS
  <2>2. FlattenSeq(ss \o Append(u, t)) = FlattenSeq(ss \o u) \o t
    BY <2>1, FlattenAppend
  <2>3. FlattenSeq(Append(u, t)) = FlattenSeq(u) \o t
    BY FlattenAppend
  <2>4. (FlattenSeq(ss) \o FlattenSeq(u)) \o t = FlattenSeq(ss) \o (FlattenSeq(u) \o t)
    <3> DEFINE a == FlattenSeq(ss)
               b == FlattenSeq(u)
    <3>1. a \in Seq(S) /\ b \in Seq(S)
      BY FlattenType
    <3> HIDE DEF a, b
    <3>2. (a \o b) \o t = a \o (b \o t)
      BY <3>1, ConcatAssociative
    <3> QED BY <3>2 DEF a, b
  <2> QED BY <2>1, <2>2, <2>3, <2>4
<1>3. Seq(Seq(S)) \subseteq T
  <2> HIDE DEF T
  <2> QED BY <1>1, <1>2, SeqSetInduction
<1> QED BY <1>3

-----------------------------------------------------------------------------
(* Replacing one label *)

\* The n-th symbol of the text is the last one of a label.
EndsAt(text, n, label) == n >= Len(label) /\ SubSeq(text, n - Len(label) + 1, n) = label

IsReplacing(f, text, label, value) ==
    /\ f[0] = <<>>
    /\ \A n \in 1..Len(text) :
        IF EndsAt(text, n, label) THEN f[n] = f[n - Len(label)] \o value
                                  ELSE f[n] = Append(f[n - 1], text[n])

\* ReplaceLabel, by the text restored so far.
LEMMA ReplaceHasSolution ==
    ASSUME NEW S, NEW text \in Seq(S), NEW value \in Seq(S),
           NEW label, Len(label) \in Nat, Len(label) > 0
    PROVE  \E f \in [0..Len(text) -> Seq(S)] :
            IsReplacing(f, text, label, value) /\ ReplaceLabel(text, label, value) = f[Len(text)]
<1> DEFINE m == Len(text)
           k == Len(label)
           e(n, f) == IF n = 0 THEN <<>>
                      ELSE IF n >= k /\ SubSeq(text, n - k + 1, n) = label
                           THEN f[n - k] \o value
                      ELSE Append(f[n - 1], text[n])
           rule == [p \in (0..m) \X [0..m -> Seq(S)] |-> e(p[1], p[2])]
           Restores(f) == f = [n \in 0..m |-> e(n, f)]
<1>1. m \in Nat /\ k \in Nat /\ k > 0 /\ \A n \in 1..m : text[n] \in S
  OBVIOUS
<1>2. \A n \in 0..m, f \in [0..m -> Seq(S)] : e(n, f) \in Seq(S)
  <2> HIDE DEF m, k
  <2> TAKE n \in 0..m, f \in [0..m -> Seq(S)]
  <2>1. CASE n = 0
    BY <2>1
  <2>2. n # 0 /\ n >= k => f[n - k] \in Seq(S)
    <3>1. n >= k => n - k \in 0..m
      BY <1>1
    <3> QED BY <3>1
  <2>3. n # 0 => f[n - 1] \in Seq(S) /\ text[n] \in S
    <3>1. n # 0 => n - 1 \in 0..m /\ n \in 1..m
      BY <1>1
    <3> QED BY <1>1, <3>1
  <2>4. n # 0 /\ n >= k => f[n - k] \o value \in Seq(S)
    BY <2>2, ConcatProperties
  <2>5. n # 0 => Append(f[n - 1], text[n]) \in Seq(S)
    BY <2>3, AppendProperties
  <2> QED BY <2>1, <2>4, <2>5
<1>3. \A n \in 0..m : \A f, g : (\A i \in 0..m : i < n => f[i] = g[i]) => e(n, f) = e(n, g)
  <2> HIDE DEF m, k
  <2> TAKE n \in 0..m
  <2> TAKE f, g
  <2> HAVE \A i \in 0..m : i < n => f[i] = g[i]
  <2>1. n # 0 => f[n - 1] = g[n - 1]
    <3>1. n # 0 => n - 1 \in 0..m /\ n - 1 < n
      BY <1>1
    <3> QED BY <3>1
  <2>2. n >= k => f[n - k] = g[n - k]
    <3>1. n >= k => n - k \in 0..m /\ n - k < n
      BY <1>1
    <3> QED BY <3>1
  <2> QED BY <2>1, <2>2
<1>4. \A n \in 0..m, f \in [0..m -> Seq(S)] : rule[<<n, f>>] = e(n, f)
  <2> HIDE DEF e
  <2> QED OBVIOUS
<1>5. IsRule(rule, m, Seq(S))
  <2>1. rule \in [(0..m) \X [0..m -> Seq(S)] -> Seq(S)]
    <3> HIDE DEF e
    <3> QED BY <1>2
  <2> HIDE DEF rule, e
  <2>2. \A n \in 0..m : \A f, g \in [0..m -> Seq(S)] :
        (\A i \in 0..m : i < n => f[i] = g[i]) => rule[<<n, f>>] = rule[<<n, g>>]
    BY <1>3, <1>4
  <2> QED BY <2>1, <2>2 DEF IsRule
<1>6. PICK g : Follows(g, rule, m, Seq(S))
  <2> HIDE DEF rule, m
  <2>1. Seq(S) # {}
    OBVIOUS
  <2> QED BY <1>1, <1>5, <2>1, RecursionHasSolution
<1>7. g \in [0..m -> Seq(S)] /\ \A n \in 0..m : g[n] = e(n, g)
  <2> HIDE DEF rule, e
  <2> QED BY <1>4, <1>6 DEF Follows
<1>8. Restores(g)
  <2> HIDE DEF e
  <2> QED BY <1>7
<1> DEFINE f == CHOOSE x : Restores(x)
<1>9. Restores(f)
  <2> HIDE DEF Restores
  <2> QED BY <1>8, Zenon
<1>10. f[m] = g[m]
  <2> DEFINE N == {n \in Nat : n \in 0..m => f[n] = g[n]}
  <2>1. \A n \in 0..m : f[n] = e(n, f)
    <3> HIDE DEF f, e
    <3> QED BY <1>9
  <2>2. \A n \in Nat : (\A i \in Nat : i < n => i \in N) => n \in N
    <3> HIDE DEF f, e
    <3> TAKE n \in Nat
    <3> HAVE \A i \in Nat : i < n => i \in N
    <3> SUFFICES ASSUME n \in 0..m PROVE f[n] = g[n]
      OBVIOUS
    <3>1. \A i \in 0..m : i < n => f[i] = g[i]
      OBVIOUS
    <3> QED BY <1>3, <1>7, <2>1, <3>1
  <2>3. Nat \subseteq N
    <3> HIDE DEF N
    <3> QED BY <2>2, NatSetStrongInduction
  <2> HIDE DEF f
  <2>4. m \in N /\ m \in 0..m
    <3> HIDE DEF N, m
    <3> QED BY <1>1, <2>3
  <2> QED BY <2>4
<1>11. ReplaceLabel(text, label, value) = f[m]
  BY Zenon DEF ReplaceLabel
<1>12. IsReplacing(g, text, label, value)
  <2> SUFFICES /\ g[0] = <<>>
               /\ \A n \in 1..m : IF EndsAt(text, n, label) THEN g[n] = g[n - k] \o value
                                                            ELSE g[n] = Append(g[n - 1], text[n])
    BY DEF IsReplacing
  <2>1. 0 \in 0..m /\ \A n \in 1..m : n \in 0..m /\ n # 0
    BY <1>1
  <2> QED BY <1>7, <2>1 DEF EndsAt
<1> HIDE DEF f
<1> QED BY <1>7, <1>10, <1>11, <1>12

\* Where a label ends depends on what comes before only.
LEMMA EndsAtPrefix ==
    ASSUME NEW S, NEW t \in Seq(S), NEW u \in Seq(S), NEW label,
           Len(label) \in Nat, Len(label) > 0, NEW n \in 1..Len(t)
    PROVE  EndsAt(t \o u, n, label) <=> EndsAt(t, n, label)
<1>1. n >= Len(label) => n - Len(label) + 1 \in 1..Len(t) /\ n \in 1..Len(t)
  OBVIOUS
<1>2. n >= Len(label) => SubSeq(t \o u, n - Len(label) + 1, n) = SubSeq(t, n - Len(label) + 1, n)
  BY <1>1, SubSeqOfConcat1
<1> QED BY <1>2 DEF EndsAt

\* What has been restored of a text does not depend on what follows.
LEMMA ReplacingPrefix ==
    ASSUME NEW S, NEW t \in Seq(S), NEW u \in Seq(S), NEW label, NEW value \in Seq(S),
           Len(label) \in Nat, Len(label) > 0,
           NEW f, NEW g, IsReplacing(f, t \o u, label, value), IsReplacing(g, t, label, value)
    PROVE  f[Len(t)] = g[Len(t)]
<1> DEFINE m == Len(t)
           k == Len(label)
           N == {n \in Nat : n \in 0..m => f[n] = g[n]}
<1>1. m \in Nat /\ k \in Nat /\ k > 0 /\ t \o u \in Seq(S)
      /\ Len(t \o u) \in Nat /\ Len(t \o u) >= m /\ \A n \in 1..m : (t \o u)[n] = t[n]
  BY ConcatProperties, LenProperties
<1>2. \A n \in 1..m : EndsAt(t \o u, n, label) <=> EndsAt(t, n, label)
  BY EndsAtPrefix
<1>3. \A n \in Nat : (\A i \in Nat : i < n => i \in N) => n \in N
  <2> TAKE n \in Nat
  <2> HAVE \A i \in Nat : i < n => i \in N
  <2> SUFFICES ASSUME n \in 0..m PROVE f[n] = g[n]
    OBVIOUS
  <2> HIDE DEF m, k
  <2>1. CASE n = 0
    BY <2>1 DEF IsReplacing
  <2>2. CASE n # 0
    <3>1. n \in 1..m /\ n \in 1..Len(t \o u) /\ n - 1 \in 0..m /\ n - 1 < n /\ n - 1 \in Nat
      BY <1>1, <2>2
    <3>2. f[n - 1] = g[n - 1]
      BY <3>1
    <3>3. CASE EndsAt(t, n, label)
      <4>1. n - k \in 0..m /\ n - k < n /\ n - k \in Nat
        BY <1>1, <3>1, <3>3 DEF EndsAt, k
      <4>2. f[n - k] = g[n - k]
        BY <4>1
      <4>3. f[n] = f[n - k] \o value /\ g[n] = g[n - k] \o value
        BY <1>2, <3>1, <3>3 DEF IsReplacing, k, m
      <4> QED BY <4>2, <4>3
    <3>4. CASE ~EndsAt(t, n, label)
      <4>1. f[n] = Append(f[n - 1], (t \o u)[n]) /\ g[n] = Append(g[n - 1], t[n])
        BY <1>2, <3>1, <3>4 DEF IsReplacing, m
      <4> QED BY <1>1, <3>1, <3>2, <4>1
    <3> QED BY <3>3, <3>4
  <2> QED BY <2>1, <2>2
<1>4. Nat \subseteq N
  <2> HIDE DEF N
  <2> QED BY <1>3, NatSetStrongInduction
<1>5. m \in N /\ m \in 0..m
  <2> HIDE DEF N, m
  <2> QED BY <1>1, <1>4
<1> QED BY <1>5

\* The same, without the type of what is restored so far.
LEMMA ReplaceSolution ==
    ASSUME NEW S, NEW value \in Seq(S), NEW label, Len(label) \in Nat, Len(label) > 0
    PROVE  \A text \in Seq(S) : \E f :
            IsReplacing(f, text, label, value) /\ ReplaceLabel(text, label, value) = f[Len(text)]
BY ReplaceHasSolution

\* A restored text is one of the symbols of the text and the value.
LEMMA ReplaceType ==
    ASSUME NEW S, NEW text \in Seq(S), NEW value \in Seq(S),
           NEW label, Len(label) \in Nat, Len(label) > 0
    PROVE  ReplaceLabel(text, label, value) \in Seq(S)
<1>1. PICK f \in [0..Len(text) -> Seq(S)] : ReplaceLabel(text, label, value) = f[Len(text)]
  BY ReplaceHasSolution
<1>2. Len(text) \in 0..Len(text)
  OBVIOUS
<1> QED BY <1>1, <1>2

\* In an empty text nothing is replaced.
LEMMA ReplaceEmpty ==
    ASSUME NEW label, Len(label) \in Nat, Len(label) > 0, NEW S, NEW value \in Seq(S)
    PROVE  ReplaceLabel(<<>>, label, value) = <<>>
<1> DEFINE t == <<>>
<1>1. t \in Seq(S) /\ Len(t) = 0
  OBVIOUS
<1> HIDE DEF t
<1>2. PICK f : IsReplacing(f, t, label, value) /\ ReplaceLabel(t, label, value) = f[Len(t)]
  BY <1>1, ReplaceSolution
<1> QED BY <1>1, <1>2 DEF IsReplacing, t

\* What is restored so far in a text is its first part, restored.
LEMMA ReplaceTwoParts ==
    ASSUME NEW S, NEW t \in Seq(S), NEW u \in Seq(S), NEW value \in Seq(S),
           NEW label, Len(label) \in Nat, Len(label) > 0
    PROVE  \E f : /\ IsReplacing(f, t \o u, label, value)
                  /\ ReplaceLabel(t \o u, label, value) = f[Len(t) + Len(u)]
                  /\ ReplaceLabel(t, label, value) = f[Len(t)]
<1> DEFINE tu == t \o u
<1>1. tu \in Seq(S) /\ Len(tu) = Len(t) + Len(u)
  BY ConcatProperties
<1> HIDE DEF tu
<1>2. PICK f : IsReplacing(f, tu, label, value) /\ ReplaceLabel(tu, label, value) = f[Len(tu)]
  <2>1. tu \in Seq(S)
    BY <1>1
  <2> QED BY <2>1, ReplaceSolution
<1>3. PICK g : IsReplacing(g, t, label, value) /\ ReplaceLabel(t, label, value) = g[Len(t)]
  BY ReplaceSolution
<1>4. f[Len(t)] = g[Len(t)]
  BY <1>2, <1>3, ReplacingPrefix DEF tu
<1> QED BY <1>1, <1>2, <1>3, <1>4 DEF tu

\* A symbol that does not complete a label stays.
LEMMA ReplaceStay ==
    ASSUME NEW S, NEW text \in Seq(S), NEW x \in S, NEW value \in Seq(S),
           NEW label, Len(label) \in Nat, Len(label) > 0,
           ~EndsAt(Append(text, x), Len(text) + 1, label)
    PROVE  ReplaceLabel(Append(text, x), label, value) = Append(ReplaceLabel(text, label, value), x)
<1> DEFINE xs == <<x>>
           t == text \o xs
           n == Len(text) + 1
<1>1. t = Append(text, x) /\ xs \in Seq(S) /\ Len(xs) = 1
  BY AppendIsConcat
<1>2. n \in 1..Len(t) /\ n - 1 = Len(text) /\ t[n] = x /\ ~EndsAt(t, n, label)
  <2>1. Len(t) = n /\ t[n] = x /\ Len(text) \in Nat
    <3> HIDE DEF t
    <3> QED BY <1>1, AppendProperties, LenProperties
  <2> HIDE DEF t
  <2> QED BY <1>1, <2>1
<1> HIDE DEF xs
<1>3. PICK f : /\ IsReplacing(f, t, label, value)
               /\ ReplaceLabel(t, label, value) = f[Len(text) + Len(xs)]
               /\ ReplaceLabel(text, label, value) = f[Len(text)]
  <2>1. xs \in Seq(S)
    BY <1>1
  <2> HIDE DEF n
  <2> QED BY <2>1, ReplaceTwoParts
<1>4. ReplaceLabel(t, label, value) = f[n]
  BY <1>1, <1>3
<1> HIDE DEF t, n
<1>5. f[n] = Append(f[n - 1], t[n])
  BY <1>2, <1>3 DEF IsReplacing
<1> QED BY <1>1, <1>2, <1>3, <1>4, <1>5

\* A label is replaced by its value.
LEMMA ReplaceWhole ==
    ASSUME NEW S, NEW text \in Seq(S), NEW label \in Seq(S), NEW value \in Seq(S), label # <<>>
    PROVE  ReplaceLabel(text \o label, label, value) = ReplaceLabel(text, label, value) \o value
<1> DEFINE t == text \o label
           m == Len(text)
           k == Len(label)
           n == m + k
<1>1. t \in Seq(S) /\ Len(t) = m + k /\ m \in Nat /\ k \in Nat /\ k > 0
  BY ConcatProperties, LenProperties, EmptySeq
<1>2. EndsAt(t, n, label)
  <2>1. n - k + 1 \in m + 1 .. m + k /\ n \in m + 1 .. m + k
        /\ n - k + 1 - m = 1 /\ n - m = k /\ n >= k
    BY <1>1
  <2>2. SubSeq(t, n - k + 1, n) = SubSeq(label, 1, k)
    BY <2>1, SubSeqOfConcat2
  <2>3. SubSeq(label, 1, k) = label
    BY SubSeqFull
  <2> HIDE DEF t, n
  <2> QED BY <2>1, <2>2, <2>3 DEF EndsAt
<1>3. PICK f : /\ IsReplacing(f, t, label, value)
               /\ ReplaceLabel(t, label, value) = f[Len(text) + Len(label)]
               /\ ReplaceLabel(text, label, value) = f[Len(text)]
  BY <1>1, ReplaceTwoParts
<1>4. n \in 1..Len(t) /\ n - k = m
  BY <1>1
<1>5. ReplaceLabel(t, label, value) = f[n]
  BY <1>3
<1> HIDE DEF t, n
<1>6. f[n] = f[n - k] \o value
  BY <1>2, <1>3, <1>4 DEF IsReplacing
<1> QED BY <1>3, <1>4, <1>5, <1>6 DEF t

-----------------------------------------------------------------------------
(* Labels: the marker and a closing symbol *)

IsLabel(label) ==
    label \in Seq(Char) /\ Len(label) = 3 /\ label[1] = "l" /\ label[2] = "m"

LastIs(text, x) == Len(text) >= 1 /\ text[Len(text)] = x
LastArePair(text) == Len(text) >= 2 /\ text[Len(text) - 1] = "l" /\ text[Len(text)] = "m"

\* The text ends in the middle of a marker, or of a label.
EndsInMarker(text) == LastIs(text, "l") \/ LastArePair(text)

\* A label ends where its three symbols stand.
LEMMA LabelEndsAt ==
    ASSUME NEW text \in Seq(Char), NEW label, IsLabel(label), NEW n \in 1..Len(text)
    PROVE  EndsAt(text, n, label) <=>
            n >= 3 /\ text[n - 2] = "l" /\ text[n - 1] = "m" /\ text[n] = label[3]
<1>1. label \in Seq(Char) /\ Len(label) = 3 /\ label[1] = "l" /\ label[2] = "m"
  BY DEF IsLabel
<1>2. CASE n < 3
  BY <1>1, <1>2 DEF EndsAt
<1>3. CASE n >= 3
  <2> DEFINE sub == SubSeq(text, n - 3 + 1, n)
  <2>1. n - 3 + 1 = n - 2 /\ n - 2 \in Int /\ n \in Int /\ \A i \in n - 2 .. n : text[i] \in Char
    BY <1>3, LenProperties
  <2>2. sub \in Seq(Char) /\ Len(sub) = 3 /\ sub[1] = text[n - 2] /\ sub[2] = text[n - 1] /\ sub[3] = text[n]
    <3> DEFINE k == n - 2
    <3>1. k \in Int /\ \A i \in k..n : text[i] \in Char
      BY <2>1
    <3>2. n - k + 1 = 3 /\ k <= n /\ k + 1 - 1 = n - 2 /\ k + 2 - 1 = n - 1 /\ k + 3 - 1 = n
          /\ n \in Int /\ sub = SubSeq(text, k, n)
      BY <1>3, <2>1
    <3> HIDE DEF k, sub
    <3>3. /\ SubSeq(text, k, n) \in Seq(Char)
          /\ Len(SubSeq(text, k, n)) = IF k <= n THEN n - k + 1 ELSE 0
          /\ \A i \in 1 .. n - k + 1 : SubSeq(text, k, n)[i] = text[k + i - 1]
      BY <3>1, <3>2, SubSeqProperties
    <3>4. sub \in Seq(Char) /\ Len(sub) = 3 /\ \A i \in 1..3 : sub[i] = text[k + i - 1]
      BY <3>2, <3>3
    <3>5. 1 \in 1..3 /\ 2 \in 1..3 /\ 3 \in 1..3
      OBVIOUS
    <3>6. sub[1] = text[k + 1 - 1] /\ sub[2] = text[k + 2 - 1] /\ sub[3] = text[k + 3 - 1]
      BY <3>4, <3>5
    <3> QED BY <3>2, <3>4, <3>6
  <2> HIDE DEF sub
  <2>3. sub = label <=> sub[1] = label[1] /\ sub[2] = label[2] /\ sub[3] = label[3]
    <3>1. \A i \in 1..3 : i = 1 \/ i = 2 \/ i = 3
      OBVIOUS
    <3> QED BY <1>1, <2>2, <3>1, SeqEqual
  <2>4. EndsAt(text, n, label) <=> sub = label
    BY <1>1, <1>3 DEF EndsAt, sub
  <2> QED BY <1>1, <1>3, <2>2, <2>3, <2>4
<1> QED BY <1>2, <1>3

\* A text that ends with a label is a text and the label.
LEMMA LabelCut ==
    ASSUME NEW text \in Seq(Char), NEW label, IsLabel(label), text # <<>>,
           EndsAt(text, Len(text), label)
    PROVE  \E t \in Seq(Char) : text = t \o label /\ Len(t) < Len(text)
<1> DEFINE n == Len(text)
           t == SubSeq(text, 1, n - 3)
<1>1. label \in Seq(Char) /\ Len(label) = 3
  BY DEF IsLabel
<1>2. n \in Nat /\ n >= 3 /\ SubSeq(text, n - 3 + 1, n) = label
  BY <1>1 DEF EndsAt
<1>3. 1 \in 1..n + 1 /\ n - 3 \in 1 - 1 .. n /\ n \in n - 3 .. n
  BY <1>2
<1>4. t \o SubSeq(text, n - 3 + 1, n) = SubSeq(text, 1, n)
  BY <1>3, ConcatAdjacentSubSeq
<1>5. SubSeq(text, 1, n) = text
  BY SubSeqFull
<1>6. t \in Seq(Char) /\ Len(t) = n - 3
  <2>1. \A i \in 1 .. n - 3 : text[i] \in Char
    BY <1>2, LenProperties
  <2>2. Len(t) = IF 1 <= n - 3 THEN n - 3 - 1 + 1 ELSE 0
    BY <1>2, <2>1, SubSeqProperties
  <2> QED BY <1>2, <2>1, <2>2, SubSeqProperties
<1> HIDE DEF t
<1>7. Len(t) < Len(text)
  BY <1>2, <1>6
<1> QED BY <1>2, <1>4, <1>5, <1>6, <1>7

\* Every text is made by adding labels and symbols that complete none.
LEMMA LabelInduction ==
    ASSUME NEW label, IsLabel(label), NEW T, <<>> \in T,
           \A t \in Seq(Char) : t \in T => t \o label \in T,
           \A t \in Seq(Char), x \in Char :
                t \in T /\ ~EndsAt(Append(t, x), Len(t) + 1, label) => Append(t, x) \in T
    PROVE  Seq(Char) \subseteq T
<1> DEFINE N == {n \in Nat : \A s \in Seq(Char) : Len(s) = n => s \in T}
<1>1. \A n \in Nat : (\A m \in Nat : m < n => m \in N) => n \in N
  <2> TAKE n \in Nat
  <2> HAVE \A m \in Nat : m < n => m \in N
  <2> SUFFICES ASSUME NEW s \in Seq(Char), Len(s) = n PROVE s \in T
    OBVIOUS
  <2>1. \A t \in Seq(Char) : Len(t) < n => t \in T
    OBVIOUS
  <2> HIDE DEF N
  <2>2. CASE s = <<>>
    BY <2>2
  <2>3. CASE s # <<>> /\ EndsAt(s, Len(s), label)
    <3>1. PICK t \in Seq(Char) : s = t \o label /\ Len(t) < Len(s)
      BY <2>3, LabelCut
    <3> QED BY <2>1, <3>1
  <2>4. CASE s # <<>> /\ ~EndsAt(s, Len(s), label)
    <3>1. PICK t \in Seq(Char), x \in Char : s = Append(t, x)
      BY <2>4, SequenceEmptyOrAppend
    <3>2. Len(s) = Len(t) + 1 /\ Len(t) < Len(s)
      BY <3>1, AppendProperties, LenProperties
    <3>3. t \in T
      BY <2>1, <3>2
    <3>4. ~EndsAt(Append(t, x), Len(t) + 1, label)
      BY <2>4, <3>1, <3>2
    <3> QED BY <3>1, <3>3, <3>4
  <2> QED BY <2>2, <2>3, <2>4
<1>2. Nat \subseteq N
  <2> HIDE DEF N
  <2> QED BY <1>1, NatSetStrongInduction
<1> SUFFICES ASSUME NEW s \in Seq(Char) PROVE s \in T
  OBVIOUS
<1>3. Len(s) \in N
  BY <1>2, LenProperties
<1> QED BY <1>3

IsValue(value) ==
    /\ value \in Seq(Char) /\ value # <<>>
    /\ \A i \in 1..Len(value) : value[i] \notin {"l", "m"}

\* A sequence with one element more, by its elements.
LEMMA AppendIndex ==
    ASSUME NEW S, NEW s \in Seq(S), NEW a \in S
    PROVE  /\ Append(s, a) \in Seq(S) /\ Len(Append(s, a)) = Len(s) + 1 /\ Append(s, a) # <<>>
           /\ Append(s, a)[Len(s) + 1] = a
           /\ \A i \in 1..Len(s) : Append(s, a)[i] = s[i]
<1>1. Len(s) \in Nat
  BY LenProperties
<1>2. Append(s, a) \in Seq(S) /\ Len(Append(s, a)) = Len(s) + 1 /\ Append(s, a)[Len(s) + 1] = a
  BY AppendProperties
<1>3. \A i \in 1..Len(s) : Append(s, a)[i] = s[i]
  BY AppendProperties
<1>4. Append(s, a) # <<>>
  BY AppendProperties
<1> QED BY <1>2, <1>3, <1>4

\* Concatenation of texts, without the set of their symbols to be found.
LEMMA TextAssociates ==
    ASSUME NEW x \in Text, NEW y \in Text, NEW z \in Text
    PROVE  x \o (y \o z) = (x \o y) \o z
<1>1. x \in Seq(Char) /\ y \in Seq(Char) /\ z \in Seq(Char)
  BY DEF Text
<1> QED BY <1>1, ConcatAssociative

LEMMA TextConcat ==
    ASSUME NEW x \in Text, NEW y \in Text
    PROVE  x \o y \in Text
<1>1. x \in Seq(Char) /\ y \in Seq(Char)
  BY DEF Text
<1> QED BY <1>1, ConcatProperties DEF Text

\* One symbol more after two texts.
LEMMA ConcatAppend ==
    ASSUME NEW S, NEW s \in Seq(S), NEW t \in Seq(S), NEW a \in S
    PROVE  s \o Append(t, a) = Append(s \o t, a)
OBVIOUS

\* How a text with one symbol more ends.
LEMMA LastOfAppend ==
    ASSUME NEW t \in Seq(Char), NEW a \in Char, NEW x
    PROVE  /\ LastIs(Append(t, a), x) <=> a = x
           /\ LastArePair(Append(t, a)) <=> a = "m" /\ LastIs(t, "l")
<1> DEFINE u == Append(t, a)
           n == Len(t)
<1>0. n \in Nat
  BY LenProperties
<1>1. Len(u) = n + 1 /\ u[n + 1] = a /\ \A i \in 1..n : u[i] = t[i]
  BY AppendIndex
<1> HIDE DEF u
<1>2. LastIs(u, x) <=> a = x
  <2>1. Len(u) >= 1 /\ u[Len(u)] = a
    BY <1>0, <1>1
  <2> QED BY <2>1 DEF LastIs
<1>3. n >= 1 => u[n] = t[n]
  <2>1. n >= 1 => n \in 1..n
    BY <1>0, <1>1
  <2> QED BY <1>1, <2>1
<1>4. Len(u) - 1 = n /\ (Len(u) >= 2 <=> n >= 1)
  BY <1>0, <1>1
<1>5. LastArePair(u) <=> n >= 1 /\ u[n] = "l" /\ u[n + 1] = "m"
  BY <1>1, <1>4 DEF LastArePair
<1>6. LastArePair(u) <=> a = "m" /\ LastIs(t, "l")
  BY <1>1, <1>3, <1>5 DEF LastIs
<1> QED BY <1>2, <1>6 DEF u

\* An empty text ends in nothing.
LEMMA LastOfEmpty == \A x : ~LastIs(<<>>, x) /\ ~LastArePair(<<>>) /\ ~EndsInMarker(<<>>)
<1>1. Len(<<>>) = 0
  OBVIOUS
<1> QED BY <1>1 DEF LastIs, LastArePair, EndsInMarker

\* Two texts end as the second does.
LEMMA LastOfConcat ==
    ASSUME NEW s \in Seq(Char), NEW t \in Seq(Char), t # <<>>, NEW x
    PROVE  LastIs(s \o t, x) <=> LastIs(t, x)
<1>1. PICK u \in Seq(Char), a \in Char : t = Append(u, a)
  BY SequenceEmptyOrAppend
<1>2. s \o t = Append(s \o u, a) /\ s \o u \in Seq(Char)
  <2>1. s \o u \in Seq(Char)
    OBVIOUS
  <2>2. s \o Append(u, a) = Append(s \o u, a)
    BY ConcatAppend
  <2> QED BY <1>1, <2>1, <2>2
<1>3. LastIs(t, x) <=> a = x
  BY <1>1, LastOfAppend
<1> DEFINE z == s \o u
<1>4. z \in Seq(Char)
  BY <1>2
<1> HIDE DEF z
<1>5. LastIs(Append(z, a), x) <=> a = x
  BY <1>4, LastOfAppend
<1> QED BY <1>2, <1>3, <1>5 DEF z

\* So do their markers, if the first does not end inside one.
LEMMA LastPairOfConcat ==
    ASSUME NEW s \in Seq(Char), NEW t \in Seq(Char), ~EndsInMarker(s)
    PROVE  /\ LastArePair(s \o t) <=> LastArePair(t)
           /\ LastIs(s \o t, "l") <=> LastIs(t, "l")
           /\ EndsInMarker(s \o t) <=> EndsInMarker(t)
<1>1. CASE t = <<>>
  <2>1. s \o t = s
    BY <1>1, ConcatEmptySeq
  <2> QED BY <1>1, <2>1, LastOfEmpty DEF EndsInMarker
<1>2. CASE t # <<>>
  <2>1. PICK u \in Seq(Char), a \in Char : t = Append(u, a)
    BY <1>2, SequenceEmptyOrAppend
  <2> DEFINE z == s \o u
  <2>2. s \o t = Append(z, a) /\ z \in Seq(Char)
    <3>1. z \in Seq(Char)
      OBVIOUS
    <3>2. s \o Append(u, a) = Append(s \o u, a)
      BY ConcatAppend
    <3> QED BY <2>1, <3>1, <3>2
  <2>3. LastIs(z, "l") <=> LastIs(u, "l")
    <3>1. CASE u = <<>>
      <4>1. z = s
        BY <3>1, ConcatEmptySeq
      <4> QED BY <3>1, <4>1, LastOfEmpty DEF EndsInMarker
    <3>2. CASE u # <<>>
      BY <3>2, LastOfConcat
    <3> QED BY <3>1, <3>2
  <2>4. z \in Seq(Char)
    BY <2>2
  <2> HIDE DEF z
  <2>5. LastArePair(Append(z, a)) <=> a = "m" /\ LastIs(z, "l")
    BY <2>4, LastOfAppend
  <2>6. LastArePair(Append(u, a)) <=> a = "m" /\ LastIs(u, "l")
    BY LastOfAppend
  <2>7. LastIs(s \o t, "l") <=> LastIs(t, "l")
    BY <1>2, LastOfConcat
  <2> QED BY <2>1, <2>2, <2>3, <2>5, <2>6, <2>7 DEF EndsInMarker
<1> QED BY <1>1, <1>2

\* A label ends with the symbol after its marker.
LEMMA AppendEndsAt ==
    ASSUME NEW t \in Seq(Char), NEW a \in Char, NEW label, IsLabel(label)
    PROVE  EndsAt(Append(t, a), Len(t) + 1, label) <=> LastArePair(t) /\ a = label[3]
<1> DEFINE u == Append(t, a)
           m == Len(t)
           n == m + 1
<1>0. m \in Nat
  BY LenProperties
<1>b. u \in Seq(Char) /\ Len(u) = n /\ u[n] = a /\ \A i \in 1..m : u[i] = t[i]
  BY AppendIndex
<1>1. m \in Nat /\ u \in Seq(Char) /\ Len(u) = n /\ u[n] = a /\ \A i \in 1..m : u[i] = t[i]
  BY <1>0, <1>b
<1> HIDE DEF u
<1>2. n \in 1..Len(u)
  BY <1>1
<1>3. EndsAt(u, n, label) <=> n >= 3 /\ u[n - 2] = "l" /\ u[n - 1] = "m" /\ u[n] = label[3]
  <2> HIDE DEF n
  <2>1. u \in Seq(Char)
    BY <1>1
  <2> QED BY <1>2, <2>1, LabelEndsAt
<1>4. n - 1 = m /\ n - 2 = m - 1 /\ (n >= 3 <=> m >= 2)
  BY <1>1
<1>5. m >= 2 => u[m] = t[m] /\ u[m - 1] = t[m - 1]
  <2>1. m >= 2 => m \in 1..m /\ m - 1 \in 1..m
    BY <1>1
  <2> QED BY <1>1, <2>1
<1> HIDE DEF n
<1>6. EndsAt(u, n, label) <=> LastArePair(t) /\ a = label[3]
  BY <1>1, <1>3, <1>4, <1>5 DEF LastArePair
<1> QED BY <1>6 DEF u, n

\* A text that does not end in the middle of a label may be restored without
\* what follows it.
LEMMA ReplaceSplits ==
    ASSUME NEW label, IsLabel(label), NEW value \in Seq(Char),
           NEW x \in Seq(Char), ~EndsInMarker(x)
    PROVE  \A y \in Seq(Char) :
            ReplaceLabel(x \o y, label, value)
                = ReplaceLabel(x, label, value) \o ReplaceLabel(y, label, value)
<1> DEFINE R(t) == ReplaceLabel(t, label, value)
           T == {y \in Seq(Char) : R(x \o y) = R(x) \o R(y)}
<1>1. label \in Seq(Char) /\ Len(label) \in Nat /\ Len(label) > 0
  BY DEF IsLabel
<1>a. label # <<>>
  <2>1. Len(<<>>) = 0
    OBVIOUS
  <2> QED BY <1>1, <2>1
<1>2. \A t \in Seq(Char) : R(t) \in Seq(Char)
  BY <1>1, ReplaceType
<1>3. \A t \in Seq(Char) : R(t \o label) = R(t) \o value
  BY <1>1, <1>a, ReplaceWhole
<1>4. \A t \in Seq(Char), a \in Char :
        ~EndsAt(Append(t, a), Len(t) + 1, label) => R(Append(t, a)) = Append(R(t), a)
  BY <1>1, ReplaceStay
<1>5. R(<<>>) = <<>>
  BY <1>1, ReplaceEmpty
<1> HIDE DEF R
<1>6. <<>> \in T
  <2>1. x \o <<>> = x /\ R(x) \o <<>> = R(x) /\ <<>> \in Seq(Char)
    BY <1>2, ConcatEmptySeq
  <2> QED BY <1>5, <2>1
<1>7. \A y \in Seq(Char) : y \in T => y \o label \in T
  <2> TAKE y \in Seq(Char)
  <2> HAVE y \in T
  <2>1. x \o (y \o label) = (x \o y) \o label
    BY <1>1, ConcatAssociative
  <2>4. x \o y \in Seq(Char) /\ y \o label \in Seq(Char)
    BY <1>1
  <2>2. (R(x) \o R(y)) \o value = R(x) \o (R(y) \o value)
    BY <1>2, ConcatAssociative
  <2> DEFINE z == x \o y
  <2>5. z \in Seq(Char) /\ R(z) = R(x) \o R(y)
    BY <2>4
  <2> HIDE DEF z
  <2>3. R(z \o label) = R(z) \o value
    BY <1>3, <2>5
  <2> QED BY <1>3, <2>1, <2>2, <2>3, <2>4, <2>5 DEF z
<1>8. \A y \in Seq(Char), a \in Char :
        y \in T /\ ~EndsAt(Append(y, a), Len(y) + 1, label) => Append(y, a) \in T
  <2> TAKE y \in Seq(Char), a \in Char
  <2> HAVE y \in T /\ ~EndsAt(Append(y, a), Len(y) + 1, label)
  <2> DEFINE z == x \o y
             ya == Append(y, a)
  <2>1. z \in Seq(Char) /\ ya \in Seq(Char) /\ x \o ya = Append(z, a) /\ R(z) = R(x) \o R(y)
    <3>1. z \in Seq(Char) /\ ya \in Seq(Char)
      OBVIOUS
    <3>2. x \o ya = Append(x \o y, a)
      BY ConcatAppend
    <3> QED BY <3>1, <3>2
  <2>2. LastArePair(z) <=> LastArePair(y)
    BY LastPairOfConcat
  <2> HIDE DEF z
  <2>3. ~EndsAt(Append(z, a), Len(z) + 1, label)
    BY <2>1, <2>2, AppendEndsAt
  <2>4. R(Append(z, a)) = Append(R(z), a)
    BY <1>4, <2>1, <2>3
  <2>5. R(ya) = Append(R(y), a)
    BY <1>4
  <2>6. Append(R(x) \o R(y), a) = R(x) \o Append(R(y), a)
    <3> DEFINE p == R(x)
               q == R(y)
    <3>1. p \in Seq(Char) /\ q \in Seq(Char)
      BY <1>2
    <3> HIDE DEF p, q
    <3>2. Append(p \o q, a) = p \o Append(q, a)
      BY <3>1, ConcatAppend
    <3> QED BY <3>2 DEF p, q
  <2> HIDE DEF ya
  <2>7. R(x \o ya) = R(x) \o R(ya)
    BY <2>1, <2>4, <2>5, <2>6
  <2> QED BY <2>1, <2>7 DEF ya
<1>9. Seq(Char) \subseteq T
  <2> HIDE DEF T
  <2> QED BY <1>6, <1>7, <1>8, LabelInduction
<1> QED BY <1>9 DEF R

\* Restoring with a value that holds no part of a marker begins none.
LEMMA ReplaceEndsInMarker ==
    ASSUME NEW label, IsLabel(label), label[3] \notin {"l", "m"}, NEW value, IsValue(value)
    PROVE  \A x \in Seq(Char) : 
            /\ LastIs(ReplaceLabel(x, label, value), "l") => LastIs(x, "l")
            /\ LastArePair(ReplaceLabel(x, label, value)) => LastArePair(x)
<1> DEFINE R(t) == ReplaceLabel(t, label, value)
           T == {y \in Seq(Char) : (LastIs(R(y), "l") => LastIs(y, "l"))
                               /\ (LastArePair(R(y)) => LastArePair(y))}
<1>1. label \in Seq(Char) /\ Len(label) \in Nat /\ Len(label) > 0 /\ value \in Seq(Char)
  BY DEF IsLabel, IsValue
<1>a. label # <<>>
  <2>1. Len(<<>>) = 0
    OBVIOUS
  <2> QED BY <1>1, <2>1
<1>2. \A t \in Seq(Char) : R(t) \in Seq(Char)
  BY <1>1, ReplaceType
<1>3. \A t \in Seq(Char) : R(t \o label) = R(t) \o value
  BY <1>1, <1>a, ReplaceWhole
<1>4. \A t \in Seq(Char), a \in Char :
        ~EndsAt(Append(t, a), Len(t) + 1, label) => R(Append(t, a)) = Append(R(t), a)
  BY <1>1, ReplaceStay
<1>5. R(<<>>) = <<>>
  BY <1>1, ReplaceEmpty
<1> HIDE DEF R
<1>6. <<>> \in T
  BY <1>5, LastOfEmpty
<1>7. \A y \in Seq(Char) : y \in T => y \o label \in T
  <2> TAKE y \in Seq(Char)
  <2>1. PICK w \in Seq(Char), b \in Char : value = Append(w, b)
    BY <1>1, SequenceEmptyOrAppend DEF IsValue
  <2>2. b \notin {"l", "m"}
    <3>1. Len(w) \in Nat /\ Len(value) = Len(w) + 1 /\ value[Len(w) + 1] = b
      BY <2>1, AppendIndex, LenProperties
    <3> QED BY <3>1 DEF IsValue
  <2> DEFINE z == R(y) \o w
  <2>3. R(y \o label) = Append(z, b) /\ z \in Seq(Char)
    <3>1. R(y) \in Seq(Char)
      BY <1>2
    <3>2. R(y) \o Append(w, b) = Append(R(y) \o w, b)
      BY <3>1, ConcatAppend
    <3>3. z \in Seq(Char)
      BY <3>1
    <3> QED BY <1>3, <2>1, <3>2, <3>3
  <2>4. z \in Seq(Char)
    BY <2>3
  <2>5. y \o label \in Seq(Char)
    BY <1>1
  <2> HIDE DEF z
  <2>6. ~LastIs(Append(z, b), "l") /\ ~LastArePair(Append(z, b))
    BY <2>2, <2>4, LastOfAppend
  <2> QED BY <2>3, <2>5, <2>6
<1>8. \A y \in Seq(Char), a \in Char :
        y \in T /\ ~EndsAt(Append(y, a), Len(y) + 1, label) => Append(y, a) \in T
  <2> TAKE y \in Seq(Char), a \in Char
  <2> HAVE y \in T /\ ~EndsAt(Append(y, a), Len(y) + 1, label)
  <2>1. R(Append(y, a)) = Append(R(y), a)
    BY <1>4
  <2>2. /\ LastIs(Append(R(y), a), "l") <=> a = "l"
        /\ LastArePair(Append(R(y), a)) <=> a = "m" /\ LastIs(R(y), "l")
    <3> DEFINE q == R(y)
    <3>1. q \in Seq(Char)
      BY <1>2
    <3> HIDE DEF q
    <3>2. /\ LastIs(Append(q, a), "l") <=> a = "l"
          /\ LastArePair(Append(q, a)) <=> a = "m" /\ LastIs(q, "l")
      BY <3>1, LastOfAppend
    <3> QED BY <3>2 DEF q
  <2>3. /\ LastIs(Append(y, a), "l") <=> a = "l"
        /\ LastArePair(Append(y, a)) <=> a = "m" /\ LastIs(y, "l")
    BY LastOfAppend
  <2>4. Append(y, a) \in Seq(Char)
    BY AppendIndex
  <2> QED BY <2>1, <2>2, <2>3, <2>4
<1>9. Seq(Char) \subseteq T
  <2> HIDE DEF T
  <2> QED BY <1>6, <1>7, <1>8, LabelInduction
<1> SUFFICES ASSUME NEW x \in Seq(Char)
             PROVE  (LastIs(R(x), "l") => LastIs(x, "l")) /\ (LastArePair(R(x)) => LastArePair(x))
  BY DEF R
<1>10. x \in T
  <2> HIDE DEF T
  <2> QED BY <1>9
<1> QED BY <1>10

\* No label is in the text.
Lacks(text, label) == \A n \in 1..Len(text) : ~EndsAt(text, n, label)

\* A text without a label, one symbol less.
LEMMA LacksAppend ==
    ASSUME NEW t \in Seq(Char), NEW a \in Char, NEW label, Len(label) \in Nat, Len(label) > 0,
           Lacks(Append(t, a), label)
    PROVE  Lacks(t, label) /\ ~EndsAt(Append(t, a), Len(t) + 1, label)
<1> DEFINE w == <<a>>
           u == Append(t, a)
<1>1. u = t \o w /\ w \in Seq(Char)
  BY AppendIsConcat
<1>2. Len(t) \in Nat /\ Len(u) = Len(t) + 1
  BY AppendIndex, LenProperties
<1> HIDE DEF w, u
<1>3. \A n \in 1..Len(t) : EndsAt(u, n, label) <=> EndsAt(t, n, label)
  <2>1. w \in Seq(Char)
    BY <1>1
  <2>2. \A n \in 1..Len(t) : EndsAt(t \o w, n, label) <=> EndsAt(t, n, label)
    BY <2>1, EndsAtPrefix
  <2> QED BY <1>1, <2>2
<1>4. \A n \in 1..Len(u) : ~EndsAt(u, n, label)
  BY DEF Lacks, u
<1>5. Len(t) + 1 \in 1..Len(u) /\ \A n \in 1..Len(t) : n \in 1..Len(u)
  BY <1>2
<1> QED BY <1>3, <1>4, <1>5 DEF Lacks, u

\* A text without the label is not changed.
LEMMA ReplaceNothing ==
    ASSUME NEW label, IsLabel(label), NEW value \in Seq(Char)
    PROVE  \A x \in Seq(Char) : Lacks(x, label) => ReplaceLabel(x, label, value) = x
<1> DEFINE R(t) == ReplaceLabel(t, label, value)
           T == {y \in Seq(Char) : Lacks(y, label) => R(y) = y}
<1>1. label \in Seq(Char) /\ Len(label) \in Nat /\ Len(label) > 0
  BY DEF IsLabel
<1>4. \A t \in Seq(Char), a \in Char :
        ~EndsAt(Append(t, a), Len(t) + 1, label) => R(Append(t, a)) = Append(R(t), a)
  BY <1>1, ReplaceStay
<1>5. R(<<>>) = <<>>
  BY <1>1, ReplaceEmpty
<1>6. \A t \in Seq(Char), a \in Char : Lacks(Append(t, a), label) =>
        Lacks(t, label) /\ ~EndsAt(Append(t, a), Len(t) + 1, label)
  BY <1>1, LacksAppend
<1> HIDE DEF R
<1>7. <<>> \in T
  <2>1. <<>> \in Seq(Char)
    OBVIOUS
  <2> QED BY <1>5, <2>1
<1>8. \A y \in Seq(Char), a \in Char : y \in T => Append(y, a) \in T
  <2> TAKE y \in Seq(Char), a \in Char
  <2> HAVE y \in T
  <2> DEFINE ya == Append(y, a)
  <2>1. ya \in Seq(Char)
    BY AppendIndex
  <2>2. Lacks(ya, label) => R(ya) = Append(R(y), a) /\ R(y) = y
    BY <1>4, <1>6
  <2>3. Lacks(ya, label) => R(ya) = ya
    <3> SUFFICES ASSUME Lacks(ya, label) PROVE R(ya) = ya
      OBVIOUS
    <3>1. R(y) = y
      BY <2>2
    <3>2. Append(R(y), a) = ya
      BY <3>1
    <3> QED BY <2>2, <3>2
  <2> HIDE DEF ya
  <2>4. ya \in T
    BY <2>1, <2>3
  <2> QED BY <2>4 DEF ya
<1>9. Seq(Char) \subseteq T
  <2> HIDE DEF T
  <2> QED BY <1>7, <1>8, SeqSetInduction
<1> SUFFICES ASSUME NEW x \in Seq(Char), Lacks(x, label) PROVE R(x) = x
  BY DEF R
<1>10. x \in T
  <2> HIDE DEF T
  <2> QED BY <1>9
<1> QED BY <1>10

-----------------------------------------------------------------------------
(* Restoring all labels *)

IsRestoring(f, text, ls) ==
    /\ f[0] = text
    /\ \A k \in 1..Len(ls) : f[k] = ReplaceLabel(f[k - 1], ls[k].text, ls[k].value)

\* Values of sequences over S, and labels that are not empty.
AreLabels(ls, S) ==
    /\ Len(ls) \in Nat
    /\ \A k \in 1..Len(ls) :
        ls[k].value \in Seq(S) /\ Len(ls[k].text) \in Nat /\ Len(ls[k].text) > 0

\* UnredactAll, by the labels restored so far.
LEMMA RestoreHasSolution ==
    ASSUME NEW S, NEW text \in Seq(S), AreLabels(Labels, S)
    PROVE  \E f \in [0..Len(Labels) -> Seq(S)] :
            IsRestoring(f, text, Labels) /\ UnredactAll(text) = f[Len(Labels)]
<1> DEFINE ls == Labels
           m == Len(ls)
           V == Seq(S)
           step == [p \in (1..m) \X V |-> ReplaceLabel(p[2], ls[p[1]].text, ls[p[1]].value)]
           Rec(f) == f = [k \in 0..m |-> IF k = 0 THEN text
                            ELSE ReplaceLabel(f[k - 1], ls[k].text, ls[k].value)]
           g == CHOOSE f : Rec(f)
<1>1. UnredactAll(text) = g[m]
  BY Zenon DEF UnredactAll
<1> HIDE DEF ls
<1>2. \A k \in 1..m, t \in V : ReplaceLabel(t, ls[k].text, ls[k].value) \in V
  BY ReplaceType DEF AreLabels, ls
<1>3. \A k \in 1..m, t \in V : step[<<k, t>>] = ReplaceLabel(t, ls[k].text, ls[k].value)
  OBVIOUS
<1>4. IsStep(step, m, V)
  <2>1. \A p \in (1..m) \X V : ReplaceLabel(p[2], ls[p[1]].text, ls[p[1]].value) \in V
    BY <1>2
  <2> QED BY <2>1 DEF IsStep
<1> HIDE DEF step
<1>5. m \in Nat
  BY DEF AreLabels, ls
<1>6. PICK f : IsChain(f, text, step, m, V)
  <2> HIDE DEF m, V
  <2>1. text \in V
    BY DEF V
  <2> QED BY <1>4, <1>5, <2>1, ChainExists
<1>7. f \in [0..m -> V] /\ f[0] = text /\ \A k \in 1..m : f[k] = step[<<k, f[k - 1]>>]
  BY <1>6 DEF IsChain
<1>8. \A k \in 1..m : f[k] = ReplaceLabel(f[k - 1], ls[k].text, ls[k].value)
  <2> TAKE k \in 1..m
  <2>1. k - 1 \in 0..m
    BY <1>5
  <2>2. f[k - 1] \in V
    BY <1>7, <2>1
  <2> QED BY <1>3, <1>7, <2>2
<1>9. Rec(f)
  <2>1. \A k \in 0..m : f[k] = IF k = 0 THEN text ELSE ReplaceLabel(f[k - 1], ls[k].text, ls[k].value)
    <3> TAKE k \in 0..m
    <3>1. k # 0 => k \in 1..m
      BY <1>5
    <3> QED BY <1>7, <1>8, <3>1
  <2> QED BY <1>7, <2>1
<1>10. Rec(g)
  <2> HIDE DEF Rec
  <2> QED BY <1>9, Zenon
<1>11. \A k \in 0..m : g[k] = IF k = 0 THEN text ELSE ReplaceLabel(g[k - 1], ls[k].text, ls[k].value)
  <2> HIDE DEF g
  <2> QED BY <1>10
<1>12. g = [k \in 0..m |-> IF k = 0 THEN text
                            ELSE ReplaceLabel(g[k - 1], ls[k].text, ls[k].value)]
  <2> HIDE DEF g
  <2> QED BY <1>10
<1> DEFINE N == {n \in Nat : n \in 0..m => g[n] \in V}
<1>13. Nat \subseteq N
  <2> HIDE DEF g
  <2>1. 0 \in N
    BY <1>5, <1>11
  <2>2. \A n \in Nat : n \in N => n + 1 \in N
    <3> TAKE n \in Nat
    <3> HAVE n \in N
    <3> SUFFICES ASSUME n + 1 \in 0..m PROVE g[n + 1] \in V
      OBVIOUS
    <3> DEFINE k == n + 1
    <3>1. k \in 1..m /\ k \in 0..m /\ k # 0 /\ k - 1 = n /\ n \in 0..m
      BY <1>5
    <3> HIDE DEF k
    <3>2. g[k] = ReplaceLabel(g[k - 1], ls[k].text, ls[k].value)
      BY <1>11, <3>1
    <3>3. g[k - 1] \in V
      BY <3>1
    <3> QED BY <1>2, <3>1, <3>2, <3>3 DEF k
  <2> HIDE DEF N
  <2> QED BY <2>1, <2>2, NatSetInduction
<1>14. \A k \in 0..m : g[k] \in V
  <2> HIDE DEF g, V
  <2> TAKE k \in 0..m
  <2>1. k \in N
    <3> HIDE DEF N
    <3> QED BY <1>5, <1>13
  <2> QED BY <2>1
<1>15. g \in [0..m -> V]
  <2>1. DOMAIN g = 0..m
    <3> DEFINE h == [k \in 0..m |-> IF k = 0 THEN text ELSE ReplaceLabel(g[k - 1], ls[k].text, ls[k].value)]
    <3>1. DOMAIN h = 0..m
      OBVIOUS
    <3> HIDE DEF g
    <3> QED BY <1>12, <3>1
  <2>2. g = [k \in DOMAIN g |-> g[k]]
    <3> HIDE DEF g, V
    <3> QED BY <1>12
  <2> HIDE DEF g, V
  <2> QED BY <1>14, <2>1, <2>2
<1>16. IsRestoring(g, text, ls)
  <2> HIDE DEF g
  <2>1. \A k \in 1..m : k \in 0..m /\ k # 0
    OBVIOUS
  <2> QED BY <1>5, <1>11, <2>1 DEF IsRestoring
<1> HIDE DEF g
<1> QED BY <1>1, <1>15, <1>16 DEF ls

\* Labels whose values are not empty and hold no part of a marker.
AreClean(ls) ==
    /\ Len(ls) \in Nat
    /\ \A k \in 1..Len(ls) :
        IsLabel(ls[k].text) /\ ls[k].text[3] \notin {"l", "m"} /\ IsValue(ls[k].value)

\* Labels of responses that can be restored are labels.
LEMMA CleanAreLabels == ASSUME NEW ls, AreClean(ls) PROVE AreLabels(ls, Char)
BY DEF AreClean, AreLabels, IsLabel, IsValue

\* A text with every label restored is a text.
LEMMA RestoreType ==
    ASSUME NEW S, NEW text \in Seq(S), AreLabels(Labels, S)
    PROVE  UnredactAll(text) \in Seq(S)
<1>1. PICK f \in [0..Len(Labels) -> Seq(S)] : UnredactAll(text) = f[Len(Labels)]
  BY RestoreHasSolution
<1>2. Len(Labels) \in 0..Len(Labels)
  BY DEF AreLabels
<1> QED BY <1>1, <1>2

\* A text that does not end in the middle of a label may be restored without
\* what follows it.
LEMMA RestoreSplits ==
    ASSUME NEW x \in Seq(Char), NEW y \in Seq(Char), AreClean(Labels), ~EndsInMarker(x)
    PROVE  UnredactAll(x \o y) = UnredactAll(x) \o UnredactAll(y)
<1> DEFINE m == Len(Labels)
           xy == x \o y
<1>1. xy \in Seq(Char) /\ AreLabels(Labels, Char) /\ m \in Nat
  BY CleanAreLabels DEF AreClean
<1>2. PICK f \in [0..m -> Seq(Char)] : IsRestoring(f, x, Labels) /\ UnredactAll(x) = f[m]
  BY <1>1, RestoreHasSolution
<1>3. PICK g \in [0..m -> Seq(Char)] : IsRestoring(g, y, Labels) /\ UnredactAll(y) = g[m]
  BY <1>1, RestoreHasSolution
<1> HIDE DEF xy
<1>4. PICK h \in [0..m -> Seq(Char)] : IsRestoring(h, xy, Labels) /\ UnredactAll(xy) = h[m]
  BY <1>1, RestoreHasSolution
<1> DEFINE N == {n \in Nat : n \in 0..m => h[n] = f[n] \o g[n] /\ ~EndsInMarker(f[n])}
<1>5. 0 \in N
  BY <1>2, <1>3, <1>4 DEF IsRestoring, xy
<1>6. \A n \in Nat : n \in N => n + 1 \in N
  <2> TAKE n \in Nat
  <2> HAVE n \in N
  <2> SUFFICES ASSUME n + 1 \in 0..m PROVE h[n + 1] = f[n + 1] \o g[n + 1] /\ ~EndsInMarker(f[n + 1])
    OBVIOUS
  <2> DEFINE k == n + 1
             a == f[n]
             b == g[n]
             lt == Labels[k].text
             lv == Labels[k].value
  <2>1. k \in 1..m /\ k - 1 = n /\ n \in 0..m
    BY <1>1
  <2>2. h[n] = a \o b /\ ~EndsInMarker(a) /\ a \in Seq(Char) /\ b \in Seq(Char)
    BY <2>1
  <2> HIDE DEF k, m
  <2>3. f[k] = ReplaceLabel(a, lt, lv) /\ g[k] = ReplaceLabel(b, lt, lv) /\ h[k] = ReplaceLabel(h[n], lt, lv)
    BY <1>2, <1>3, <1>4, <2>1 DEF IsRestoring, m
  <2>4. IsLabel(lt) /\ lt[3] \notin {"l", "m"} /\ IsValue(lv) /\ lv \in Seq(Char)
    BY <2>1 DEF AreClean, IsValue, m
  <2> HIDE DEF a, b, lt, lv
  <2>5. ReplaceLabel(a \o b, lt, lv) = ReplaceLabel(a, lt, lv) \o ReplaceLabel(b, lt, lv)
    <3>1. a \in Seq(Char) /\ b \in Seq(Char) /\ ~EndsInMarker(a) /\ IsLabel(lt) /\ lv \in Seq(Char)
      BY <2>2, <2>4
    <3>2. \A t \in Seq(Char) : ReplaceLabel(a \o t, lt, lv) = ReplaceLabel(a, lt, lv) \o ReplaceLabel(t, lt, lv)
      BY <3>1, ReplaceSplits
    <3> QED BY <3>1, <3>2
  <2>6. ~EndsInMarker(ReplaceLabel(a, lt, lv))
    BY <2>2, <2>4, ReplaceEndsInMarker DEF EndsInMarker
  <2>8. h[k] = f[k] \o g[k]
    BY <2>2, <2>3, <2>5, Zenon
  <2>7. h[k] = f[k] \o g[k] /\ ~EndsInMarker(f[k])
    BY <2>3, <2>6, <2>8, Zenon
  <2> QED BY <2>7 DEF k
<1>7. Nat \subseteq N
  <2> HIDE DEF N
  <2> QED BY <1>5, <1>6, NatSetInduction
<1>8. m \in N /\ m \in 0..m
  <2> HIDE DEF N, m
  <2> QED BY <1>1, <1>7
<1>9. h[m] = f[m] \o g[m]
  <2> HIDE DEF m
  <2> QED BY <1>8
<1> QED BY <1>2, <1>3, <1>4, <1>9 DEF xy

\* A text without labels is not changed.
LEMMA RestoreNothing ==
    ASSUME NEW x \in Seq(Char), AreClean(Labels),
           \A k \in 1..Len(Labels) : Lacks(x, Labels[k].text)
    PROVE  UnredactAll(x) = x
<1> DEFINE m == Len(Labels)
<1>1. AreLabels(Labels, Char) /\ m \in Nat
  BY CleanAreLabels DEF AreClean
<1>2. PICK f \in [0..m -> Seq(Char)] : IsRestoring(f, x, Labels) /\ UnredactAll(x) = f[m]
  BY <1>1, RestoreHasSolution
<1> DEFINE N == {n \in Nat : n \in 0..m => f[n] = x}
<1>5. 0 \in N
  BY <1>2 DEF IsRestoring
<1>6. \A n \in Nat : n \in N => n + 1 \in N
  <2> TAKE n \in Nat
  <2> HAVE n \in N
  <2> SUFFICES ASSUME n + 1 \in 0..m PROVE f[n + 1] = x
    OBVIOUS
  <2> DEFINE k == n + 1
  <2>1. k \in 1..m /\ k - 1 = n /\ n \in 0..m
    BY <1>1
  <2>2. f[n] = x
    BY <2>1
  <2> HIDE DEF k, m
  <2>3. f[k] = ReplaceLabel(x, Labels[k].text, Labels[k].value)
    BY <1>2, <2>1, <2>2 DEF IsRestoring, m
  <2>4. IsLabel(Labels[k].text) /\ Labels[k].value \in Seq(Char) /\ Lacks(x, Labels[k].text)
    BY <2>1 DEF AreClean, IsValue, m
  <2>5. ReplaceLabel(x, Labels[k].text, Labels[k].value) = x
    BY <2>4, ReplaceNothing
  <2> QED BY <2>3, <2>5 DEF k
<1>7. Nat \subseteq N
  <2> HIDE DEF N
  <2> QED BY <1>5, <1>6, NatSetInduction
<1>8. m \in N /\ m \in 0..m
  <2> HIDE DEF N, m
  <2> QED BY <1>1, <1>7
<1>9. f[m] = x
  <2> HIDE DEF m
  <2> QED BY <1>8
<1> QED BY <1>2, <1>9

\* An empty text stays empty.
LEMMA RestoreEmpty ==
    ASSUME AreClean(Labels)
    PROVE  UnredactAll(<<>>) = <<>>
<1> DEFINE t == <<>>
<1>1. t \in Seq(Char) /\ Len(t) = 0
  OBVIOUS
<1> HIDE DEF t
<1>2. \A k \in 1..Len(Labels) : Lacks(t, Labels[k].text)
  BY <1>1 DEF Lacks
<1>3. UnredactAll(t) = t
  BY <1>1, <1>2, RestoreNothing
<1> QED BY <1>3 DEF t

-----------------------------------------------------------------------------
(* The text of events: each gives a piece of its own *)

IsPiece(p, E, S) == p \in [E -> Seq(S)]

Pieces(evs, p) == [i \in DOMAIN evs |-> p[evs[i]]]
MapText(evs, p) == FlattenSeq(Pieces(evs, p))

\* The pieces of events are texts.
LEMMA MapIsSeq ==
    ASSUME NEW S, NEW E, NEW p, IsPiece(p, E, S), NEW evs \in Seq(E)
    PROVE  Pieces(evs, p) \in Seq(Seq(S)) /\ Len(Pieces(evs, p)) = Len(evs)
<1> DEFINE n == Len(evs)
           f == [i \in DOMAIN evs |-> p[evs[i]]]
<1>1. n \in Nat /\ DOMAIN evs = 1..n /\ \A i \in 1..n : evs[i] \in E
  BY LenProperties, ElementOfSeq
<1>2. f \in [1..n -> Seq(S)]
  <2> HIDE DEF n
  <2> QED BY <1>1 DEF IsPiece
<1> HIDE DEF f, n
<1>3. f \in Seq(Seq(S)) /\ Len(f) = n
  BY <1>1, <1>2
<1> QED BY <1>3 DEF f, n, Pieces

\* Joined, they are a text.
LEMMA MapType ==
    ASSUME NEW S, NEW E, NEW p, IsPiece(p, E, S), NEW evs \in Seq(E)
    PROVE  MapText(evs, p) \in Seq(S)
BY MapIsSeq, FlattenType DEF MapText

LEMMA MapEmpty == ASSUME NEW p PROVE MapText(<<>>, p) = <<>>
<1>1. [i \in DOMAIN <<>> |-> p[<<>>[i]]] = <<>>
  OBVIOUS
<1> QED BY <1>1, FlattenEmpty DEF MapText, Pieces

LEMMA MapConcat ==
    ASSUME NEW S, NEW E, NEW p, IsPiece(p, E, S), NEW a \in Seq(E), NEW b \in Seq(E)
    PROVE  MapText(a \o b, p) = MapText(a, p) \o MapText(b, p)
<1> DEFINE f == Pieces(a, p)
           g == Pieces(b, p)
           ab == a \o b
           h == Pieces(ab, p)
           fg == f \o g
<1>1. f \in Seq(Seq(S)) /\ Len(f) = Len(a)
  BY MapIsSeq
<1>2. g \in Seq(Seq(S)) /\ Len(g) = Len(b)
  BY MapIsSeq
<1>3. ab \in Seq(E) /\ Len(ab) = Len(a) + Len(b)
      /\ \A i \in 1..Len(a) + Len(b) : ab[i] = IF i <= Len(a) THEN a[i] ELSE b[i - Len(a)]
  BY ConcatProperties
<1>4. h \in Seq(Seq(S)) /\ Len(h) = Len(ab) /\ \A i \in 1..Len(ab) : h[i] = p[ab[i]]
  <2>1. ab \in Seq(E)
    BY <1>3
  <2> HIDE DEF ab
  <2>2. h \in Seq(Seq(S)) /\ Len(h) = Len(ab)
    BY <2>1, MapIsSeq
  <2>3. DOMAIN ab = 1..Len(ab)
    BY <2>1, LenProperties
  <2> QED BY <2>2, <2>3 DEF Pieces
<1>5. \A i \in 1..Len(a) : f[i] = p[a[i]]
  <2>1. DOMAIN a = 1..Len(a)
    BY LenProperties
  <2> QED BY <2>1 DEF Pieces
<1>6. \A i \in 1..Len(b) : g[i] = p[b[i]]
  <2>1. DOMAIN b = 1..Len(b)
    BY LenProperties
  <2> QED BY <2>1 DEF Pieces
<1>7. Len(a) \in Nat /\ Len(b) \in Nat
  BY LenProperties
<1> HIDE DEF f, g, ab, h
<1>8. fg \in Seq(Seq(S)) /\ Len(fg) = Len(f) + Len(g)
      /\ \A i \in 1..Len(f) + Len(g) : fg[i] = IF i <= Len(f) THEN f[i] ELSE g[i - Len(f)]
  BY <1>1, <1>2, ConcatProperties
<1> HIDE DEF fg
<1>9. \A i \in 1..Len(h) : h[i] = fg[i]
  <2> TAKE i \in 1..Len(h)
  <2>1. i \in 1..Len(ab) /\ i \in 1..Len(a) + Len(b)
    BY <1>3, <1>4
  <2>2. CASE i <= Len(a)
    <3>1. i \in 1..Len(a)
      BY <1>7, <2>1, <2>2
    <3> QED BY <1>1, <1>2, <1>3, <1>4, <1>5, <1>8, <2>1, <2>2, <3>1
  <2>3. CASE ~(i <= Len(a))
    <3> DEFINE j == i - Len(a)
    <3>1. j \in 1..Len(b)
      BY <1>7, <2>1, <2>3
    <3>2. ab[i] = b[j] /\ fg[i] = g[j]
      BY <1>1, <1>2, <1>3, <1>8, <2>1, <2>3
    <3> HIDE DEF j
    <3> QED BY <1>4, <1>6, <2>1, <3>1, <3>2
  <2> QED BY <2>2, <2>3
<1>10. h = fg
  BY <1>1, <1>2, <1>3, <1>4, <1>8, <1>9, SeqEqual
<1>11. FlattenSeq(f \o g) = FlattenSeq(f) \o FlattenSeq(g)
  BY <1>1, <1>2, FlattenConcat
<1>12. FlattenSeq(h) = FlattenSeq(f) \o FlattenSeq(g)
  BY <1>10, <1>11 DEF fg
<1> QED BY <1>12, Zenon DEF MapText, f, g, h, ab

LEMMA MapSingle ==
    ASSUME NEW S, NEW E, NEW p, IsPiece(p, E, S), NEW e \in E
    PROVE  MapText(<<e>>, p) = p[e]
<1> DEFINE w == <<e>>
           f == Pieces(w, p)
           x == p[e]
<1>1. f = <<x>>
  BY DEF Pieces
<1>2. x \in Seq(S)
  BY DEF IsPiece
<1>3. <<x>> = Append(<<>>, x)
  OBVIOUS
<1> HIDE DEF x
<1>4. <<>> \in Seq(Seq(S))
  OBVIOUS
<1>5. FlattenSeq(Append(<<>>, x)) = FlattenSeq(<<>>) \o x
  <2> DEFINE z == <<>>
  <2>1. z \in Seq(Seq(S))
    BY <1>4
  <2> HIDE DEF z
  <2>2. FlattenSeq(Append(z, x)) = FlattenSeq(z) \o x
    BY <1>2, <2>1, FlattenAppend
  <2> QED BY <2>2 DEF z
<1>6. <<>> \o x = x
  BY <1>2, ConcatEmptySeq
<1>7. FlattenSeq(f) = x
  <2> HIDE DEF f
  <2> QED BY <1>1, <1>3, <1>5, <1>6, FlattenEmpty
<1> QED BY <1>7 DEF MapText, x

LEMMA MapAppend ==
    ASSUME NEW S, NEW E, NEW p, IsPiece(p, E, S), NEW a \in Seq(E), NEW e \in E
    PROVE  MapText(Append(a, e), p) = MapText(a, p) \o p[e]
<1> DEFINE w == <<e>>
<1>1. w \in Seq(E) /\ Append(a, e) = a \o w
  BY AppendIsConcat
<1>2. MapText(w, p) = p[e]
  BY MapSingle
<1> HIDE DEF w
<1>3. MapText(a \o w, p) = MapText(a, p) \o MapText(w, p)
  BY <1>1, MapConcat
<1> QED BY <1>1, <1>2, <1>3

\* Pieces count only for the events that are there.
LEMMA MapAgrees ==
    ASSUME NEW evs, NEW p, NEW q, \A i \in DOMAIN evs : p[evs[i]] = q[evs[i]]
    PROVE  MapText(evs, p) = MapText(evs, q)
<1>1. Pieces(evs, p) = Pieces(evs, q)
  BY DEF Pieces
<1> QED BY <1>1 DEF MapText

LEMMA MapNone ==
    ASSUME NEW S, NEW E, NEW p, IsPiece(p, E, S), NEW evs \in Seq(E),
           \A i \in DOMAIN evs : p[evs[i]] = <<>>
    PROVE  MapText(evs, p) = <<>>
<1> DEFINE T == {u \in Seq(E) : (\A i \in DOMAIN u : p[u[i]] = <<>>) => MapText(u, p) = <<>>}
<1>1. <<>> \in T
  <2>1. <<>> \in Seq(E)
    OBVIOUS
  <2> QED BY <2>1, MapEmpty
<1>2. \A u \in Seq(E), e \in E : u \in T => Append(u, e) \in T
  <2> TAKE u \in Seq(E), e \in E
  <2> HAVE u \in T
  <2> DEFINE v == Append(u, e)
  <2>1. v \in Seq(E) /\ Len(v) = Len(u) + 1 /\ v[Len(u) + 1] = e /\ \A i \in 1..Len(u) : v[i] = u[i]
    BY AppendIndex
  <2>2. DOMAIN u = 1..Len(u) /\ Len(u) \in Nat
    BY LenProperties
  <2>3. MapText(v, p) = MapText(u, p) \o p[e]
    BY MapAppend
  <2> HIDE DEF v
  <2>4. DOMAIN v = 1..Len(u) + 1
    BY <2>1, <2>2, LenProperties
  <2>5. (\A i \in DOMAIN v : p[v[i]] = <<>>) => MapText(v, p) = <<>>
    <3> HAVE \A i \in DOMAIN v : p[v[i]] = <<>>
    <3>1. \A i \in DOMAIN u : i \in DOMAIN v
      BY <2>2, <2>4
    <3>2. \A i \in DOMAIN u : p[u[i]] = <<>>
      BY <2>1, <2>2, <3>1
    <3>3. MapText(u, p) = <<>>
      BY <3>2
    <3>4. p[e] = <<>>
      <4>1. Len(u) + 1 \in DOMAIN v
        BY <2>2, <2>4
      <4> QED BY <2>1, <4>1
    <3> QED BY <2>3, <3>3, <3>4
  <2> QED BY <2>1, <2>5 DEF v
<1>3. Seq(E) \subseteq T
  <2> HIDE DEF T
  <2> QED BY <1>1, <1>2, SeqSetInduction
<1>4. evs \in T
  <2> HIDE DEF T
  <2> QED BY <1>3
<1> QED BY <1>4

\* Pieces cut from a text one after the other give its beginning.
LEMMA FlattenPieces ==
    ASSUME NEW S, NEW text \in Seq(S), NEW ss \in Seq(Seq(S)), NEW cut, cut[0] = 0,
           \A i \in 1..Len(ss) :
                /\ cut[i - 1] \in 0..Len(text) /\ cut[i] \in cut[i - 1]..Len(text)
                /\ ss[i] = SubSeq(text, cut[i - 1] + 1, cut[i])
    PROVE  FlattenSeq(ss) = SubSeq(text, 1, cut[Len(ss)])
<1> DEFINE m == Len(ss)
           L == Len(text)
<1>1. m \in Nat /\ L \in Nat
  BY LenProperties
<1>2. CASE ss = <<>>
  <2>1. SubSeq(text, 1, 0) = <<>>
    BY SubSeqEmpty
  <2>2. Len(ss) = 0
    BY <1>2
  <2> QED BY <1>2, <2>1, <2>2, FlattenEmpty
<1>3. CASE ss # <<>>
  <2>1. PICK f \in [1..Len(ss) -> Seq(S)] :
            /\ f[1] = ss[1]
            /\ \A i \in 2..Len(ss) : f[i] = f[i - 1] \o ss[i]
            /\ FlattenSeq(ss) = f[Len(ss)]
    BY <1>3, FlattenIsChain
  <2> DEFINE N == {n \in Nat : n + 1 \in 1..m => f[n + 1] = SubSeq(text, 1, cut[n + 1])}
  <2>2. 0 \in N
    <3>1. 1 \in 1..m => ss[1] = SubSeq(text, cut[0] + 1, cut[1])
      <4>1. 1 - 1 = 0
        OBVIOUS
      <4> QED BY <4>1
    <3> QED BY <2>1, <3>1
  <2>3. \A n \in Nat : n \in N => n + 1 \in N
    <3> TAKE n \in Nat
    <3> HAVE n \in N
    <3> DEFINE j == n + 1
               k == n + 1 + 1
    <3> SUFFICES ASSUME k \in 1..m PROVE f[k] = SubSeq(text, 1, cut[k])
      OBVIOUS
    <3>1. j \in 1..m /\ k - 1 = j /\ k \in 2..m
      BY <1>1
    <3>2. f[j] = SubSeq(text, 1, cut[j])
      BY <3>1
    <3> HIDE DEF j, k, m
    <3>3. f[k] = f[j] \o ss[k]
      BY <2>1, <3>1 DEF m
    <3> DEFINE a == cut[j]
               b == cut[k]
    <3>4. a \in 0..L /\ b \in a..L /\ ss[k] = SubSeq(text, a + 1, b)
      <4>1. cut[k - 1] \in 0..Len(text) /\ cut[k] \in cut[k - 1]..Len(text)
            /\ ss[k] = SubSeq(text, cut[k - 1] + 1, cut[k])
        BY DEF m
      <4> QED BY <3>1, <4>1
    <3> HIDE DEF a, b
    <3>5. SubSeq(text, 1, a) \o SubSeq(text, a + 1, b) = SubSeq(text, 1, b)
      <4>1. 1 \in 1..Len(text) + 1 /\ a \in 1 - 1 .. Len(text) /\ b \in a..Len(text)
        BY <1>1, <3>4
      <4> QED BY <4>1, ConcatAdjacentSubSeq
    <3> QED BY <3>2, <3>3, <3>4, <3>5 DEF a, b
  <2>4. Nat \subseteq N
    <3> HIDE DEF N
    <3> QED BY <2>2, <2>3, NatSetInduction
  <2>5. m - 1 \in N /\ m - 1 + 1 = m /\ m \in 1..m
    <3>1. m - 1 \in Nat
      BY <1>1, <1>3
    <3> HIDE DEF N
    <3> QED BY <1>1, <2>4, <3>1
  <2>6. f[m] = SubSeq(text, 1, cut[m])
    <3> HIDE DEF m
    <3> QED BY <2>5
  <2> QED BY <2>1, <2>6
<1> QED BY <1>2, <1>3

-----------------------------------------------------------------------------
(* Giving the restored text back to its events *)

EventSet(C, S) == [ch : C, text : Seq(S), json : BOOLEAN]

ChannelPiece(c, E) == [e \in E |-> IF e.ch = c /\ e.json THEN e.text ELSE <<>>]
GroupPiece(g, E) == [e \in E |-> IF InGroup(g, e) THEN e.text ELSE <<>>]

\* What a client reads of an event, and what is redistributed, are such pieces.
LEMMA PieceTypes ==
    ASSUME NEW C, NEW S, NEW x
    PROVE  /\ IsPiece(ChannelPiece(x, EventSet(C, S)), EventSet(C, S), S)
           /\ IsPiece(GroupPiece(x, EventSet(C, S)), EventSet(C, S), S)
<1>1. <<>> \in Seq(S)
  OBVIOUS
<1>2. \A e \in EventSet(C, S) : e.text \in Seq(S)
  BY DEF EventSet
<1> QED BY <1>1, <1>2 DEF IsPiece, ChannelPiece, GroupPiece

\* TextIn and GroupText join pieces of events.
LEMMA TextInMap ==
    ASSUME NEW E, NEW evs \in Seq(E), NEW c
    PROVE  TextIn(evs, c) = MapText(evs, ChannelPiece(c, E))
<1>1. \A i \in DOMAIN evs : evs[i] \in E
  OBVIOUS
<1>2. [i \in DOMAIN evs |-> IF evs[i].ch = c /\ evs[i].json THEN evs[i].text ELSE <<>>]
        = Pieces(evs, ChannelPiece(c, E))
  BY <1>1 DEF Pieces, ChannelPiece
<1> QED BY <1>2, Zenon DEF TextIn, MapText

LEMMA GroupTextMap ==
    ASSUME NEW E, NEW evs \in Seq(E), NEW g
    PROVE  GroupText(evs, g) = MapText(evs, GroupPiece(g, E))
<1>1. \A i \in DOMAIN evs : evs[i] \in E
  OBVIOUS
<1>2. [i \in DOMAIN evs |-> IF InGroup(g, evs[i]) THEN evs[i].text ELSE <<>>]
        = Pieces(evs, GroupPiece(g, E))
  BY <1>1 DEF Pieces, GroupPiece
<1> QED BY <1>2, Zenon DEF GroupText, MapText

\* cut[i] symbols of the text go into the first i events: an event outside the
\* group takes none, and the last one in it all that is left.
IsCut(cut, text, evs, g) ==
    /\ cut \in [0..Len(evs) -> 0..Len(text)]
    /\ cut[0] = 0
    /\ \A i \in 1..Len(evs) :
        /\ cut[i - 1] <= cut[i]
        /\ ~InGroup(g, evs[i]) => cut[i] = cut[i - 1]
        /\ InGroup(g, evs[i]) /\ (\A j \in i + 1 .. Len(evs) : ~InGroup(g, evs[j])) => cut[i] = Len(text)

\* Redistribute cuts the text at rising places.
LEMMA RedistributeCuts ==
    ASSUME NEW C, NEW S, NEW text \in Seq(S), NEW evs \in Seq(EventSet(C, S)), NEW g,
           GroupText(evs, g) # <<>>
    PROVE  \E cut : /\ IsCut(cut, text, evs, g)
                    /\ \A i \in 1..Len(evs) :
                        Redistribute(text, evs, g)[i] = SubSeq(text, cut[i - 1] + 1, cut[i])
<1> DEFINE total == Len(GroupText(evs, g))
           m == Len(evs)
           L == Len(text)
           V == 0..L
           Least(a, b) == IF a < b THEN a ELSE b
           share(i) == LET s == (Len(evs[i].text) * Len(text)) \div total
                       IN IF s = 0 THEN 1 ELSE s
           isLast(i) == \A j \in i + 1 .. Len(evs) : ~InGroup(g, evs[j])
           next(i, v) == IF ~InGroup(g, evs[i]) THEN v
                         ELSE IF isLast(i) THEN Len(text)
                         ELSE Least(Len(text), v + share(i))
           Rec(f) == f = [i \in 0..Len(evs) |->
                            IF i = 0 THEN 0
                            ELSE IF ~InGroup(g, evs[i]) THEN f[i - 1]
                            ELSE IF isLast(i) THEN Len(text)
                            ELSE Least(Len(text), f[i - 1] + share(i))]
           cut == CHOOSE f : Rec(f)
           step == [p \in (1..m) \X V |-> next(p[1], p[2])]
<1>1. m \in Nat /\ L \in Nat /\ DOMAIN evs = 1..m /\ \A i \in 1..m : evs[i].text \in Seq(S)
  <2>1. m \in Nat /\ L \in Nat /\ DOMAIN evs = 1..m
    BY LenProperties
  <2>2. \A i \in 1..m : evs[i] \in EventSet(C, S)
    BY ElementOfSeq
  <2>3. \A e \in EventSet(C, S) : e.text \in Seq(S)
    BY DEF EventSet
  <2> QED BY <2>1, <2>2, <2>3
<1>2. total \in Nat /\ total > 0
  <2>1. GroupText(evs, g) \in Seq(S)
    BY GroupTextMap, PieceTypes, MapType
  <2> QED BY <2>1
<1>3. Redistribute(text, evs, g) = [i \in DOMAIN evs |->
            IF total = 0 THEN <<>> ELSE SubSeq(text, cut[i - 1] + 1, cut[i])]
  BY Zenon DEF Redistribute
<1>4. \A i \in 1..m : share(i) \in Nat
  <2> TAKE i \in 1..m
  <2> DEFINE a == Len(evs[i].text)
  <2>1. a \in Nat
    BY <1>1, LenProperties
  <2>2. a * L \in Nat
    BY <1>1, <2>1
  <2> HIDE DEF a, total, L
  <2>3. (a * L) \div total \in Nat
    BY <1>2, <2>2
  <2> QED BY <2>3 DEF a, L
<1> HIDE DEF total, share, isLast
<1>5. \A i \in 1..m, v \in V : next(i, v) \in V /\ next(i, v) >= v
  BY <1>1, <1>4
<1>6. \A i \in 1..m, v \in V : step[<<i, v>>] = next(i, v)
  <2> HIDE DEF next
  <2> QED OBVIOUS
<1>7. IsStep(step, m, V)
  <2> HIDE DEF next
  <2> QED BY <1>5 DEF IsStep
<1> HIDE DEF step
<1>8. PICK f : IsChain(f, 0, step, m, V)
  <2>1. 0 \in V
    BY <1>1
  <2> HIDE DEF m, V
  <2> QED BY <1>1, <1>7, <2>1, ChainExists
<1>9. f \in [0..m -> V] /\ f[0] = 0 /\ \A i \in 1..m : f[i] = next(i, f[i - 1])
  <2>1. f \in [0..m -> V] /\ f[0] = 0 /\ \A i \in 1..m : f[i] = step[<<i, f[i - 1]>>]
    BY <1>8 DEF IsChain
  <2>2. \A i \in 1..m : f[i - 1] \in V
    <3>1. \A i \in 1..m : i - 1 \in 0..m
      BY <1>1
    <3> QED BY <2>1, <3>1
  <2> HIDE DEF next
  <2> QED BY <1>6, <2>1, <2>2
<1>10. Rec(f)
  <2>1. \A i \in 0..m : f[i] = IF i = 0 THEN 0 ELSE next(i, f[i - 1])
    <3> TAKE i \in 0..m
    <3>1. i # 0 => i \in 1..m
      BY <1>1
    <3> HIDE DEF next
    <3> QED BY <1>9, <3>1
  <2>2. f = [i \in 0..m |-> f[i]]
    BY <1>9
  <2> QED BY <2>1, <2>2
<1>11. Rec(cut)
  <2> HIDE DEF Rec
  <2> QED BY <1>10, Zenon
<1>12. \A i \in 0..m : cut[i] = IF i = 0 THEN 0 ELSE next(i, cut[i - 1])
  <2> HIDE DEF cut
  <2> QED BY <1>11
<1>13. DOMAIN cut = 0..m /\ cut = [i \in DOMAIN cut |-> cut[i]]
  <2> HIDE DEF cut
  <2> QED BY <1>11
<1> HIDE DEF cut, next
<1>14. \A n \in Nat : n \in 0..m => cut[n] \in V
  <2> DEFINE N == {n \in Nat : n \in 0..m => cut[n] \in V}
  <2>1. 0 \in N
    BY <1>1, <1>12
  <2>2. \A n \in Nat : n \in N => n + 1 \in N
    <3> TAKE n \in Nat
    <3> HAVE n \in N
    <3> DEFINE k == n + 1
    <3> SUFFICES ASSUME k \in 0..m PROVE cut[k] \in V
      OBVIOUS
    <3>1. k \in 1..m /\ k # 0 /\ k - 1 = n /\ n \in 0..m
      BY <1>1
    <3> HIDE DEF k
    <3>2. cut[k] = next(k, cut[k - 1])
      BY <1>12, <3>1
    <3>3. cut[k - 1] \in V
      BY <3>1
    <3> HIDE DEF V
    <3> QED BY <1>5, <3>1, <3>2, <3>3
  <2>3. Nat \subseteq N
    <3> HIDE DEF N
    <3> QED BY <2>1, <2>2, NatSetInduction
  <2> TAKE n \in Nat
  <2>4. n \in N
    <3> HIDE DEF N
    <3> QED BY <2>3
  <2> QED BY <2>4
<1>15. cut \in [0..m -> V]
  <2>1. \A n \in 0..m : cut[n] \in V
    BY <1>1, <1>14
  <2> HIDE DEF V
  <2> QED BY <1>13, <2>1
<1>16. \A i \in 1..m : cut[i] = next(i, cut[i - 1]) /\ cut[i - 1] \in V
  <2> TAKE i \in 1..m
  <2>1. i \in 0..m /\ i # 0 /\ i - 1 \in 0..m
    BY <1>1
  <2>2. cut[i] = next(i, cut[i - 1])
    BY <1>12, <2>1
  <2>3. cut[i - 1] \in V
    <3> HIDE DEF V
    <3> QED BY <1>15, <2>1
  <2> QED BY <2>2, <2>3
<1>17. IsCut(cut, text, evs, g)
  <2>1. cut[0] = 0
    BY <1>1, <1>12
  <2>2. \A i \in 1..m : cut[i - 1] <= cut[i]
    <3> TAKE i \in 1..m
    <3> DEFINE v == cut[i - 1]
    <3>1. v \in V /\ cut[i] = next(i, v)
      BY <1>16
    <3> HIDE DEF v
    <3>2. next(i, v) \in V /\ next(i, v) >= v
      BY <1>5, <3>1
    <3> QED BY <1>1, <3>1, <3>2 DEF v
  <2>3. \A i \in 1..m : ~InGroup(g, evs[i]) => cut[i] = cut[i - 1]
    BY <1>16 DEF next
  <2>4. \A i \in 1..m : InGroup(g, evs[i]) /\ (\A j \in i + 1 .. Len(evs) : ~InGroup(g, evs[j])) => cut[i] = Len(text)
    BY <1>16 DEF next, isLast
  <2> QED BY <1>15, <2>1, <2>2, <2>3, <2>4 DEF IsCut
<1>18. \A i \in 1..m : Redistribute(text, evs, g)[i] = SubSeq(text, cut[i - 1] + 1, cut[i])
  <2> DEFINE R == Redistribute(text, evs, g)
  <2>1. R = [i \in DOMAIN evs |-> IF total = 0 THEN <<>> ELSE SubSeq(text, cut[i - 1] + 1, cut[i])]
    BY <1>3
  <2> HIDE DEF R
  <2>2. \A i \in DOMAIN evs : R[i] = IF total = 0 THEN <<>> ELSE SubSeq(text, cut[i - 1] + 1, cut[i])
    BY <2>1, Zenon
  <2>3. total # 0
    BY <1>2
  <2> QED BY <1>1, <2>2, <2>3 DEF R
<1> QED BY <1>17, <1>18

\* Where the group has an event, all of the text is given back.
LEMMA CutIsWhole ==
    ASSUME NEW E, NEW evs \in Seq(E), NEW cut, NEW text, NEW g, IsCut(cut, text, evs, g),
           NEW i \in 1..Len(evs), InGroup(g, evs[i])
    PROVE  cut[Len(evs)] = Len(text)
<1> DEFINE m == Len(evs)
           In(k) == InGroup(g, evs[k])
           N == {n \in Nat : n \in 0..m /\ (\A j \in n + 1 .. m : ~In(j)) /\ (\E j \in 1..n : In(j))
                                => cut[n] = Len(text)}
<1>1. m \in Nat
  BY LenProperties
<1>2. \A k \in 1..m : /\ ~In(k) => cut[k] = cut[k - 1]
                      /\ In(k) /\ (\A j \in k + 1 .. m : ~In(j)) => cut[k] = Len(text)
  BY DEF IsCut
<1> HIDE DEF m, In
<1>3. 0 \in N
  OBVIOUS
<1>4. \A n \in Nat : n \in N => n + 1 \in N
  <2> TAKE n \in Nat
  <2> HAVE n \in N
  <2> DEFINE k == n + 1
  <2> SUFFICES ASSUME k \in 0..m, \A j \in k + 1 .. m : ~In(j), NEW j \in 1..k, In(j)
               PROVE  cut[k] = Len(text)
    OBVIOUS
  <2>1. k \in 1..m /\ k - 1 = n /\ n \in 0..m
    BY <1>1
  <2>2. CASE In(k)
    <3> HIDE DEF k
    <3> QED BY <1>2, <2>1, <2>2
  <2>3. CASE ~In(k)
    <3>1. cut[k] = cut[n]
      <4> HIDE DEF k
      <4> QED BY <1>2, <2>1, <2>3
    <3>2. \A h \in n + 1 .. m : ~In(h)
      <4>1. \A h \in n + 1 .. m : h = k \/ h \in k + 1 .. m
        BY <1>1
      <4> QED BY <2>3, <4>1
    <3>3. j \in 1..n
      BY <2>3
    <3>4. cut[n] = Len(text)
      BY <2>1, <3>2, <3>3
    <3> QED BY <3>1, <3>4
  <2> QED BY <2>2, <2>3
<1>5. Nat \subseteq N
  <2> HIDE DEF N
  <2> QED BY <1>3, <1>4, NatSetInduction
<1>6. m \in N
  <2> HIDE DEF N
  <2> QED BY <1>1, <1>5
<1>7. m \in 0..m /\ (\A j \in m + 1 .. m : ~In(j)) /\ (\E j \in 1..m : In(j))
  BY <1>1 DEF In, m
<1>8. cut[m] = Len(text)
  BY <1>6, <1>7
<1> QED BY <1>8 DEF m

\* RebuildSSE, event by event.
LEMMA RebuildEvent ==
    ASSUME NEW S, NEW evs \in Seq(EventSet(Channel, S))
    PROVE  /\ DOMAIN RebuildSSE(evs) = 1..Len(evs)
           /\ \A i \in 1..Len(evs) :
                /\ RebuildSSE(evs)[i].ch = evs[i].ch
                /\ RebuildSSE(evs)[i].json = evs[i].json
                /\ ~IsRestored(evs[i]) => RebuildSSE(evs)[i] = evs[i]
                /\ IsRestored(evs[i]) => RebuildSSE(evs)[i] = [evs[i] EXCEPT !.text =
                        Redistribute(UnredactAll(GroupText(evs, Group(evs[i].ch))), evs, Group(evs[i].ch))[i]]
<1> DEFINE chunks == [g \in {Group(c) : c \in Channel} |->
                        Redistribute(UnredactAll(GroupText(evs, g)), evs, g)]
           out == RebuildSSE(evs)
<1>1. out = [i \in DOMAIN evs |-> IF IsRestored(evs[i])
                                  THEN [evs[i] EXCEPT !.text = chunks[Group(evs[i].ch)][i]]
                                  ELSE evs[i]]
  BY Zenon DEF RebuildSSE
<1>2. DOMAIN evs = 1..Len(evs) /\ \A i \in 1..Len(evs) : evs[i] \in EventSet(Channel, S)
  BY LenProperties, ElementOfSeq
<1>3. \A i \in 1..Len(evs) : evs[i].ch \in Channel
  BY <1>2 DEF EventSet
<1>4. \A i \in 1..Len(evs) : chunks[Group(evs[i].ch)] =
        Redistribute(UnredactAll(GroupText(evs, Group(evs[i].ch))), evs, Group(evs[i].ch))
  BY <1>3
<1> HIDE DEF chunks, out
<1>5. DOMAIN out = DOMAIN evs
  BY <1>1
<1>6. \A i \in 1..Len(evs) : out[i] = IF IsRestored(evs[i])
                                      THEN [evs[i] EXCEPT !.text = chunks[Group(evs[i].ch)][i]]
                                      ELSE evs[i]
  BY <1>1, <1>2
<1>7. \A i \in 1..Len(evs) : out[i].ch = evs[i].ch /\ out[i].json = evs[i].json
  <2> TAKE i \in 1..Len(evs)
  <2> DEFINE e == evs[i]
             t == chunks[Group(evs[i].ch)][i]
  <2>1. e \in EventSet(Channel, S)
    BY <1>2
  <2>2. out[i] = [e EXCEPT !.text = t] \/ out[i] = e
    BY <1>6
  <2> HIDE DEF e, t
  <2>3. out[i].ch = e.ch /\ out[i].json = e.json
    BY <2>1, <2>2 DEF EventSet
  <2> QED BY <2>3 DEF e
<1>8. \A i \in 1..Len(evs) : ~IsRestored(evs[i]) => out[i] = evs[i]
  BY <1>6
<1>9. \A i \in 1..Len(evs) : IsRestored(evs[i]) => out[i] = [evs[i] EXCEPT !.text =
                        Redistribute(UnredactAll(GroupText(evs, Group(evs[i].ch))), evs, Group(evs[i].ch))[i]]
  BY <1>4, <1>6
<1> QED BY <1>2, <1>5, <1>7, <1>8, <1>9 DEF out

\* A group without text gets none.
LEMMA RedistributeNone ==
    ASSUME NEW evs, NEW text, NEW g, GroupText(evs, g) = <<>>
    PROVE  \A i \in DOMAIN evs : Redistribute(text, evs, g)[i] = <<>>
<1>1. Len(GroupText(evs, g)) = 0
  <2>1. Len(<<>>) = 0
    OBVIOUS
  <2> QED BY <2>1
<1> DEFINE T == Len(GroupText(evs, g))
<1>2. \E f : Redistribute(text, evs, g) = [i \in DOMAIN evs |-> IF T = 0 THEN <<>> ELSE f[i]]
  <2> DEFINE total == Len(GroupText(evs, g))
             Least(a, b) == IF a < b THEN a ELSE b
             share(i) == LET s == (Len(evs[i].text) * Len(text)) \div total
                         IN IF s = 0 THEN 1 ELSE s
             isLast(i) == \A j \in i + 1 .. Len(evs) : ~InGroup(g, evs[j])
             Rec(f) == f = [i \in 0..Len(evs) |->
                            IF i = 0 THEN 0
                            ELSE IF ~InGroup(g, evs[i]) THEN f[i - 1]
                            ELSE IF isLast(i) THEN Len(text)
                            ELSE Least(Len(text), f[i - 1] + share(i))]
             cut == CHOOSE f : Rec(f)
             h == [i \in DOMAIN evs |-> SubSeq(text, cut[i - 1] + 1, cut[i])]
  <2>1. Redistribute(text, evs, g) = [i \in DOMAIN evs |->
            IF T = 0 THEN <<>> ELSE SubSeq(text, cut[i - 1] + 1, cut[i])]
    BY Zenon DEF Redistribute
  <2> HIDE DEF cut, T
  <2>2. \A i \in DOMAIN evs : h[i] = SubSeq(text, cut[i - 1] + 1, cut[i])
    OBVIOUS
  <2> HIDE DEF h
  <2>3. Redistribute(text, evs, g) = [i \in DOMAIN evs |-> IF T = 0 THEN <<>> ELSE h[i]]
    BY <2>1, <2>2
  <2> QED BY <2>3
<1> QED BY <1>1, <1>2

\* What is given back is text.
LEMMA RedistributeType ==
    ASSUME NEW C, NEW S, NEW text \in Seq(S), NEW evs \in Seq(EventSet(C, S)), NEW g,
           NEW i \in 1..Len(evs)
    PROVE  Redistribute(text, evs, g)[i] \in Seq(S)
<1>0. DOMAIN evs = 1..Len(evs)
  BY LenProperties
<1>1. CASE GroupText(evs, g) = <<>>
  <2>1. Redistribute(text, evs, g)[i] = <<>>
    BY <1>0, <1>1, RedistributeNone
  <2> QED BY <2>1
<1>2. CASE GroupText(evs, g) # <<>>
  <2>1. PICK cut : /\ IsCut(cut, text, evs, g)
                   /\ \A k \in 1..Len(evs) :
                        Redistribute(text, evs, g)[k] = SubSeq(text, cut[k - 1] + 1, cut[k])
    BY <1>2, RedistributeCuts
  <2> DEFINE a == cut[i - 1] + 1
             b == cut[i]
  <2>2. a \in Int /\ b \in Int /\ a >= 1 /\ b <= Len(text) /\ Len(text) \in Nat
    <3>1. i - 1 \in 0..Len(evs) /\ i \in 0..Len(evs) /\ Len(text) \in Nat
      BY LenProperties
    <3>2. cut \in [0..Len(evs) -> 0..Len(text)]
      BY <2>1 DEF IsCut
    <3>3. cut[i - 1] \in 0..Len(text) /\ cut[i] \in 0..Len(text)
      BY <3>1, <3>2
    <3> QED BY <3>1, <3>3
  <2> HIDE DEF a, b
  <2>3. \A k \in a..b : text[k] \in S
    <3>1. \A k \in a..b : k \in 1..Len(text)
      BY <2>2
    <3> QED BY <3>1, ElementOfSeq
  <2>4. SubSeq(text, a, b) \in Seq(S)
    BY <2>2, <2>3, SubSeqProperties
  <2> QED BY <2>1, <2>4 DEF a, b
<1> QED BY <1>1, <1>2

\* Rebuilt events are events.
LEMMA RebuildType ==
    ASSUME NEW S, AreLabels(Labels, S), NEW evs \in Seq(EventSet(Channel, S))
    PROVE  RebuildSSE(evs) \in Seq(EventSet(Channel, S)) /\ Len(RebuildSSE(evs)) = Len(evs)
<1> DEFINE out == RebuildSSE(evs)
           n == Len(evs)
<1>1. n \in Nat /\ DOMAIN out = 1..n
  BY RebuildEvent, LenProperties
<1>2. \A i \in 1..n : out[i] \in EventSet(Channel, S)
  <2> TAKE i \in 1..n
  <2> DEFINE e == evs[i]
             g == Group(evs[i].ch)
             r == UnredactAll(GroupText(evs, g))
             t == Redistribute(r, evs, g)[i]
  <2>1. e \in EventSet(Channel, S)
    BY ElementOfSeq
  <2>2. r \in Seq(S)
    <3> HIDE DEF g
    <3>1. GroupText(evs, g) \in Seq(S)
      BY GroupTextMap, PieceTypes, MapType
    <3> QED BY <3>1, RestoreType
  <2>3. t \in Seq(S)
    <3> HIDE DEF r, g
    <3> QED BY <2>2, RedistributeType
  <2>4. out[i] = e \/ out[i] = [e EXCEPT !.text = t]
    BY RebuildEvent
  <2> HIDE DEF e, t, out
  <2> QED BY <2>1, <2>3, <2>4 DEF EventSet
<1>3. out = [i \in DOMAIN out |-> out[i]]
  BY DEF RebuildSSE
<1> HIDE DEF out, n
<1>4. out \in Seq(EventSet(Channel, S)) /\ Len(out) = n
  BY <1>1, <1>2, <1>3
<1> QED BY <1>4 DEF out, n

\* Rebuilt events keep their channel, and whether they are JSON.
LEMMA RebuildKeeps ==
    ASSUME NEW S, NEW evs \in Seq(EventSet(Channel, S))
    PROVE  /\ DOMAIN RebuildSSE(evs) = 1..Len(evs)
           /\ \A i \in 1..Len(evs) : RebuildSSE(evs)[i].ch = evs[i].ch
           /\ \A i \in 1..Len(evs) : RebuildSSE(evs)[i].json = evs[i].json
BY RebuildEvent

\* What is not restored comes out as it went in.
LEMMA RebuildUnrestored ==
    ASSUME NEW S, NEW evs \in Seq(EventSet(Channel, S)), NEW c, Kind[c] \in Unrestored
    PROVE  TextIn(RebuildSSE(evs), c) = TextIn(evs, c)
<1> DEFINE out == RebuildSSE(evs)
           f == [i \in DOMAIN evs |-> IF evs[i].ch = c /\ evs[i].json THEN evs[i].text ELSE <<>>]
           h == [i \in DOMAIN out |-> IF out[i].ch = c /\ out[i].json THEN out[i].text ELSE <<>>]
<1>1. DOMAIN out = DOMAIN evs
      /\ \A i \in DOMAIN evs : /\ out[i].ch = evs[i].ch /\ out[i].json = evs[i].json
                               /\ ~IsRestored(evs[i]) => out[i] = evs[i]
  <2>1. DOMAIN evs = 1..Len(evs)
    BY LenProperties
  <2> QED BY <2>1, RebuildEvent
<1>2. \A i \in DOMAIN evs : evs[i].ch = c => ~IsRestored(evs[i])
  BY DEF IsRestored
<1> HIDE DEF out
<1>3. f = h
  BY <1>1, <1>2
<1> QED BY <1>3, Zenon DEF TextIn, out, f, h

\* What the client reads of a channel of its own group is its text, restored,
\* however the pieces were cut.
LEMMA RebuildText ==
    ASSUME NEW S, AreLabels(Labels, S), NEW evs \in Seq(EventSet(Channel, S)), NEW c,
           UnredactAll(<<>>) = <<>>,
           Kind[c] \notin Unrestored,
           \A i \in DOMAIN evs : evs[i].json /\ (InGroup(Group(c), evs[i]) <=> evs[i].ch = c)
    PROVE  TextIn(RebuildSSE(evs), c) = UnredactAll(TextIn(evs, c))
<1> DEFINE out == RebuildSSE(evs)
           g == Group(c)
           m == Len(evs)
           U == UnredactAll(GroupText(evs, g))
           h == [i \in DOMAIN out |-> IF out[i].ch = c /\ out[i].json THEN out[i].text ELSE <<>>]
<1>1. m \in Nat /\ DOMAIN evs = 1..m
  BY LenProperties
<1>2. GroupText(evs, g) = TextIn(evs, c)
  <2> DEFINE E == EventSet(Channel, S)
             p == GroupPiece(g, E)
             q == ChannelPiece(c, E)
  <2>1. GroupText(evs, g) = MapText(evs, p) /\ TextIn(evs, c) = MapText(evs, q)
    BY GroupTextMap, TextInMap
  <2>2. \A i \in DOMAIN evs : p[evs[i]] = q[evs[i]]
    <3>1. \A i \in DOMAIN evs : evs[i] \in E
      OBVIOUS
    <3> HIDE DEF E
    <3> QED BY <3>1 DEF GroupPiece, ChannelPiece
  <2> HIDE DEF p, q
  <2> QED BY <2>1, <2>2, MapAgrees
<1>3. DOMAIN out = 1..m
      /\ \A i \in 1..m : /\ out[i].ch = evs[i].ch /\ out[i].json = evs[i].json
                         /\ evs[i].ch = c => out[i].text = Redistribute(U, evs, g)[i]
  <2>1. \A i \in 1..m : evs[i].ch = c => IsRestored(evs[i]) /\ Group(evs[i].ch) = g
    BY <1>1 DEF IsRestored
  <2>2. \A i \in 1..m : evs[i].ch = c => out[i] = [evs[i] EXCEPT !.text = Redistribute(U, evs, g)[i]]
    <3> TAKE i \in 1..m
    <3> HAVE evs[i].ch = c
    <3>1. IsRestored(evs[i]) /\ Group(evs[i].ch) = g
      BY <2>1
    <3> HIDE DEF g
    <3> QED BY <3>1, RebuildEvent
  <2>3. \A i \in 1..m : evs[i] \in EventSet(Channel, S)
    BY ElementOfSeq
  <2>4. DOMAIN out = 1..m /\ \A i \in 1..m : out[i].ch = evs[i].ch /\ out[i].json = evs[i].json
    BY RebuildKeeps
  <2> HIDE DEF out, U
  <2>5. \A i \in 1..m : evs[i].ch = c => out[i].text = Redistribute(U, evs, g)[i]
    <3> TAKE i \in 1..m
    <3> HAVE evs[i].ch = c
    <3> DEFINE e == evs[i]
               t == Redistribute(U, evs, g)[i]
    <3>1. e \in EventSet(Channel, S) /\ out[i] = [e EXCEPT !.text = t]
      BY <2>2, <2>3
    <3> HIDE DEF e, t
    <3>2. out[i].text = t
      BY <3>1 DEF EventSet
    <3> QED BY <3>2 DEF t
  <2> QED BY <2>4, <2>5
<1>4. U \in Seq(S)
  <2> HIDE DEF g
  <2>1. GroupText(evs, g) \in Seq(S)
    BY GroupTextMap, PieceTypes, MapType
  <2> QED BY <2>1, RestoreType
<1>5. TextIn(out, c) = FlattenSeq(h)
  BY Zenon DEF TextIn
<1>6. \A i \in 1..m : h[i] = IF evs[i].ch = c THEN Redistribute(U, evs, g)[i] ELSE <<>>
  <2> HIDE DEF out, U, g
  <2> QED BY <1>1, <1>3
<1>7. h \in Seq(Seq(S)) /\ Len(h) = m
  <2> HIDE DEF out, U, g
  <2>1. \A i \in 1..m : Redistribute(U, evs, g)[i] \in Seq(S)
    BY <1>4, RedistributeType
  <2>4. <<>> \in Seq(S)
    OBVIOUS
  <2>2. \A i \in 1..m : h[i] \in Seq(S)
    <3> HIDE DEF h
    <3> QED BY <1>6, <2>1, <2>4
  <2>3. DOMAIN h = 1..m /\ h = [i \in DOMAIN h |-> h[i]]
    BY <1>3
  <2> HIDE DEF h, m
  <2> QED BY <1>1, <2>2, <2>3
<1>8. CASE GroupText(evs, g) = <<>>
  <2>1. \A i \in 1..m : h[i] = <<>>
    <3> HIDE DEF h, U, g
    <3> QED BY <1>1, <1>6, <1>8, RedistributeNone
  <2>2. FlattenSeq(h) = <<>>
    <3> DEFINE t == <<>>
               cut == [i \in 0..m |-> 0]
    <3>1. t \in Seq(S) /\ Len(t) = 0
      OBVIOUS
    <3>2. cut[0] = 0 /\ \A i \in 1..m : cut[i - 1] = 0 /\ cut[i] = 0
      BY <1>1
    <3>3. SubSeq(t, 1, 0) = <<>>
      BY SubSeqEmpty
    <3> HIDE DEF h, t, cut
    <3>4. \A i \in 1..Len(h) :
            /\ cut[i - 1] \in 0..Len(t) /\ cut[i] \in cut[i - 1]..Len(t)
            /\ h[i] = SubSeq(t, cut[i - 1] + 1, cut[i])
      BY <1>7, <2>1, <3>1, <3>2, <3>3
    <3>7. t \in Seq(S) /\ h \in Seq(Seq(S)) /\ cut[0] = 0
      BY <1>7, <3>1, <3>2
    <3>5. FlattenSeq(h) = SubSeq(t, 1, cut[Len(h)])
      BY <3>4, <3>7, FlattenPieces
    <3>6. cut[Len(h)] = 0
      BY <1>1, <1>7, <3>2
    <3> QED BY <3>3, <3>5, <3>6
  <2> QED BY <1>2, <1>5, <1>8, <2>2
<1>9. CASE GroupText(evs, g) # <<>>
  <2>1. PICK cut : /\ IsCut(cut, U, evs, g)
                   /\ \A i \in 1..Len(evs) :
                        Redistribute(U, evs, g)[i] = SubSeq(U, cut[i - 1] + 1, cut[i])
    <3> HIDE DEF U, g
    <3> QED BY <1>4, <1>9, RedistributeCuts
  <2>2. PICK k \in 1..m : InGroup(g, evs[k])
    <3> SUFFICES ASSUME \A i \in 1..m : ~InGroup(g, evs[i]) PROVE FALSE
      OBVIOUS
    <3> DEFINE E == EventSet(Channel, S)
               p == GroupPiece(g, E)
    <3>1. \A i \in DOMAIN evs : p[evs[i]] = <<>>
      <4>1. \A i \in DOMAIN evs : evs[i] \in E
        OBVIOUS
      <4> HIDE DEF E, g
      <4> QED BY <1>1, <4>1 DEF GroupPiece
    <3>2. IsPiece(p, E, S)
      BY PieceTypes
    <3>3. GroupText(evs, g) = MapText(evs, p)
      BY GroupTextMap
    <3> HIDE DEF p, E, g
    <3>4. evs \in Seq(E)
      BY DEF E
    <3>5. MapText(evs, p) = <<>>
      BY <3>1, <3>2, <3>4, MapNone
    <3> QED BY <1>9, <3>3, <3>5
  <2>3. cut[m] = Len(U)
    <3> HIDE DEF U, g
    <3> QED BY <2>1, <2>2, CutIsWhole
  <2>4. cut[0] = 0 /\ \A i \in 1..m : /\ cut[i - 1] \in 0..Len(U) /\ cut[i] \in cut[i - 1]..Len(U)
                                      /\ ~InGroup(g, evs[i]) => cut[i] = cut[i - 1]
    <3> HIDE DEF U, g
    <3>1. cut \in [0..m -> 0..Len(U)] /\ cut[0] = 0
          /\ \A i \in 1..m : cut[i - 1] <= cut[i] /\ (~InGroup(g, evs[i]) => cut[i] = cut[i - 1])
      BY <2>1 DEF IsCut
    <3>2. \A i \in 1..m : i \in 0..m /\ i - 1 \in 0..m
      BY <1>1
    <3>3. Len(U) \in Nat
      BY <1>4, LenProperties
    <3>4. \A i \in 1..m : cut[i] \in 0..Len(U) /\ cut[i - 1] \in 0..Len(U)
      BY <3>1, <3>2
    <3> QED BY <3>1, <3>3, <3>4
  <2>5. \A i \in 1..m : h[i] = SubSeq(U, cut[i - 1] + 1, cut[i])
    <3> TAKE i \in 1..m
    <3> HIDE DEF U, h
    <3>1. CASE evs[i].ch = c
      BY <1>6, <2>1, <3>1
    <3>2. CASE evs[i].ch # c
      <4>1. h[i] = <<>> /\ ~InGroup(g, evs[i])
        BY <1>1, <1>6, <3>2
      <4> DEFINE a == cut[i - 1]
      <4>2. cut[i] = a /\ a \in Int
        BY <2>4, <4>1
      <4> HIDE DEF a
      <4>3. SubSeq(U, a + 1, a) = <<>>
        BY <4>2, SubSeqEmpty
      <4> QED BY <4>1, <4>2, <4>3 DEF a
    <3> QED BY <3>1, <3>2
  <2> HIDE DEF U, h, g
  <2>6. FlattenSeq(h) = SubSeq(U, 1, cut[Len(h)])
    <3>1. \A i \in 1..Len(h) :
            /\ cut[i - 1] \in 0..Len(U) /\ cut[i] \in cut[i - 1]..Len(U)
            /\ h[i] = SubSeq(U, cut[i - 1] + 1, cut[i])
      BY <1>7, <2>4, <2>5
    <3> QED BY <1>4, <1>7, <2>4, <3>1, FlattenPieces
  <2>7. SubSeq(U, 1, Len(U)) = U
    BY <1>4, SubSeqFull
  <2>8. FlattenSeq(h) = U
    BY <1>7, <2>3, <2>6, <2>7
  <2> QED BY <1>2, <1>5, <2>8 DEF U, g
<1> QED BY <1>8, <1>9

-----------------------------------------------------------------------------
(* Types *)

\* What the assumption says of the channels of the response,
LEMMA ChannelFacts ==
    ASSUME response \in Responses
    PROVE  /\ Said \in [Channel -> Text]
           /\ Channels \in Seq(STRING) /\ Channel = ToSet(Channels)
           /\ Api \in Apis /\ response.marked \in BOOLEAN
           /\ response.interleaved \in BOOLEAN /\ response.terminated \in BOOLEAN
BY SseAssumption DEF Kind, Said, Channels, Channel, Api

\* of its labels,
LEMMA LabelFacts ==
    ASSUME response \in Responses
    PROVE  /\ Len(Labels) \in Nat /\ DOMAIN Labels = 1..Len(Labels) /\ Labels \in Seq([text : Text, value : Text])
           /\ \A k \in 1..Len(Labels) : IsLabel(Labels[k].text) /\ Labels[k].value \in Seq(Char)
<1>1. Labels \in Seq([text : Text, value : Text])
      /\ \A i \in DOMAIN Labels : Len(Labels[i].text) = 3 /\ IsPrefix(Marker, Labels[i].text)
  BY SseAssumption DEF Labels
<1>2. Len(Labels) \in Nat /\ DOMAIN Labels = 1..Len(Labels)
  <2>1. Labels \in Seq([text : Text, value : Text])
    BY <1>1
  <2> QED BY <2>1, LenProperties
<1>3. \A k \in 1..Len(Labels) : IsLabel(Labels[k].text) /\ Labels[k].value \in Seq(Char)
  <2> TAKE k \in 1..Len(Labels)
  <2> DEFINE t == Labels[k].text
  <2>1. Labels[k] \in [text : Text, value : Text]
    <3>1. Labels \in Seq([text : Text, value : Text])
      BY <1>1
    <3> QED BY <3>1, ElementOfSeq
  <2>2. t \in Seq(Char) /\ Labels[k].value \in Seq(Char)
    BY <2>1 DEF Text
  <2>3. Len(t) = 3 /\ IsPrefix(Marker, t)
    BY <1>1, <1>2
  <2> HIDE DEF t
  <2> DEFINE w == SubSeq(t, 1, 2)
  <2>4. w = SubSeq(Marker, 1, 2) /\ Len(Marker) = 2
    BY <2>3 DEF IsPrefix, Marker
  <2>5. SubSeq(Marker, 1, 2)[1] = "l" /\ SubSeq(Marker, 1, 2)[2] = "m"
    BY DEF Marker
  <2>6. w[1] = t[1] /\ w[2] = t[2]
    <3>0. \A i \in 1..2 : i \in 1..Len(t)
      BY <2>3
    <3>1. \A i \in 1..2 : t[i] \in Char
      BY <2>2, <3>0, ElementOfSeq
    <3>2. \A i \in 1 .. 2 - 1 + 1 : SubSeq(t, 1, 2)[i] = t[1 + i - 1]
      BY <3>1, SubSeqProperties
    <3> HIDE DEF w
    <3>3. 1 \in 1 .. 2 - 1 + 1 /\ 2 \in 1 .. 2 - 1 + 1 /\ 1 + 1 - 1 = 1 /\ 1 + 2 - 1 = 2
      OBVIOUS
    <3> QED BY <3>2, <3>3 DEF w
  <2> HIDE DEF w
  <2>7. IsLabel(t)
    BY <2>2, <2>3, <2>4, <2>5, <2>6 DEF IsLabel
  <2> QED BY <2>2, <2>7 DEF t
<1> QED BY <1>1, <1>2, <1>3

\* and of the symbols of both.
LEMMA SymbolFacts ==
    ASSUME response \in Responses
    PROVE  /\ AreLabels(Labels, Symbols) /\ \A c \in Channel : Said[c] \in Seq(Symbols)
           /\ Symbols \subseteq Char
<1>1. \A s \in Seq(Char) : s \in Seq(ToSet(s)) /\ ToSet(s) \subseteq Char
  BY RangeOfSeq, LenProperties, ElementOfSeq DEF ToSet, Range
<1>2. \A c \in Channel : Said[c] \in Seq(Char)
  BY ChannelFacts DEF Text
<1>3. \A k \in 1..Len(Labels) : IsLabel(Labels[k].text) /\ Labels[k].value \in Seq(Char)
  BY LabelFacts
<1>4. Len(Labels) \in Nat /\ DOMAIN Labels = 1..Len(Labels)
  BY LabelFacts
<1>5. \A c \in Channel : ToSet(Said[c]) \subseteq Symbols
  BY DEF Symbols
<1>6. \A k \in 1..Len(Labels) : ToSet(Labels[k].value) \subseteq Symbols
  <2> TAKE k \in 1..Len(Labels)
  <2> DEFINE sets == {ToSet(Labels[i].value) : i \in DOMAIN Labels}
  <2>1. ToSet(Labels[k].value) \in sets
    BY <1>4
  <2> HIDE DEF sets
  <2>2. ToSet(Labels[k].value) \subseteq UNION sets
    BY <2>1
  <2> DEFINE B == UNION {ToSet(Labels[i].value) : i \in DOMAIN Labels}
  <2>3. B \subseteq Symbols
    <3> HIDE DEF B
    <3> QED BY Zenon DEF Symbols, B
  <2> HIDE DEF B
  <2> QED BY <2>2, <2>3 DEF B, sets
<1>7. Symbols \subseteq Char
  <2>1. \A c \in Channel : ToSet(Said[c]) \subseteq Char
    BY <1>1, <1>2
  <2>2. \A i \in DOMAIN Labels : ToSet(Labels[i].value) \subseteq Char
    BY <1>1, <1>3, <1>4
  <2> DEFINE A == UNION {ToSet(Said[c]) : c \in Channel}
             B == UNION {ToSet(Labels[i].value) : i \in DOMAIN Labels}
  <2>3. A \subseteq Char
    BY <2>1
  <2>4. B \subseteq Char
    BY <2>2
  <2>5. Symbols = A \cup B
    BY DEF Symbols
  <2> HIDE DEF A, B
  <2> QED BY <2>3, <2>4, <2>5
<1>8. \A c \in Channel : Said[c] \in Seq(Symbols)
  <2> TAKE c \in Channel
  <2>1. Said[c] \in Seq(ToSet(Said[c])) /\ ToSet(Said[c]) \subseteq Symbols
    BY <1>1, <1>2, <1>5
  <2> QED BY <2>1, SeqMonotonic
<1>9. \A k \in 1..Len(Labels) : Labels[k].value \in Seq(Symbols)
  <2> TAKE k \in 1..Len(Labels)
  <2>1. Labels[k].value \in Seq(ToSet(Labels[k].value)) /\ ToSet(Labels[k].value) \subseteq Symbols
    BY <1>1, <1>3, <1>6
  <2> QED BY <2>1, SeqMonotonic
<1>10. AreLabels(Labels, Symbols)
  <2>1. \A k \in 1..Len(Labels) : Len(Labels[k].text) \in Nat /\ Len(Labels[k].text) > 0
    BY <1>3 DEF IsLabel
  <2> QED BY <1>4, <1>9, <2>1 DEF AreLabels
<1> QED BY <1>7, <1>8, <1>10

\* What a client reads is a text, joined event by event.
LEMMA TextInType ==
    ASSUME NEW C, NEW S, NEW evs \in Seq(EventSet(C, S)), NEW c
    PROVE  TextIn(evs, c) \in Seq(S)
BY TextInMap, PieceTypes, MapType

LEMMA TextInEmpty == ASSUME NEW c PROVE TextIn(<<>>, c) = <<>>
<1> DEFINE E == EventSet({}, {})
<1>1. <<>> \in Seq(E)
  OBVIOUS
<1> HIDE DEF E
<1> DEFINE t == <<>>
<1>2. t \in Seq(E)
  BY <1>1
<1> HIDE DEF t
<1>3. TextIn(t, c) = MapText(t, ChannelPiece(c, E))
  BY <1>2, TextInMap
<1> QED BY <1>3, MapEmpty DEF t

LEMMA TextInConcat ==
    ASSUME NEW C, NEW S, NEW a \in Seq(EventSet(C, S)), NEW b \in Seq(EventSet(C, S)), NEW c
    PROVE  TextIn(a \o b, c) = TextIn(a, c) \o TextIn(b, c)
<1> DEFINE E == EventSet(C, S)
           p == ChannelPiece(c, E)
           ab == a \o b
<1>1. ab \in Seq(E) /\ a \in Seq(E) /\ b \in Seq(E)
  BY ConcatProperties
<1>2. IsPiece(p, E, S)
  BY PieceTypes
<1>3. TextIn(a, c) = MapText(a, p) /\ TextIn(b, c) = MapText(b, p)
  BY TextInMap
<1> HIDE DEF ab, E
<1>4. TextIn(ab, c) = MapText(ab, p)
  BY <1>1, TextInMap
<1> HIDE DEF p
<1>5. MapText(a \o b, p) = MapText(a, p) \o MapText(b, p)
  BY <1>1, <1>2, MapConcat
<1> QED BY <1>3, <1>4, <1>5 DEF ab

LEMMA TextInAppend ==
    ASSUME NEW C, NEW S, NEW a \in Seq(EventSet(C, S)), NEW e \in EventSet(C, S), NEW c
    PROVE  TextIn(Append(a, e), c) = TextIn(a, c) \o (IF e.ch = c /\ e.json THEN e.text ELSE <<>>)
<1> DEFINE E == EventSet(C, S)
           p == ChannelPiece(c, E)
           ae == Append(a, e)
<1>1. ae \in Seq(E) /\ a \in Seq(E) /\ e \in E
  BY AppendIndex
<1>2. IsPiece(p, E, S)
  BY PieceTypes
<1>3. TextIn(a, c) = MapText(a, p)
  BY TextInMap
<1> HIDE DEF ae, E
<1>4. TextIn(ae, c) = MapText(ae, p)
  BY <1>1, TextInMap
<1>5. p[e] = IF e.ch = c /\ e.json THEN e.text ELSE <<>>
  BY <1>1 DEF ChannelPiece
<1> HIDE DEF p
<1>6. MapText(Append(a, e), p) = MapText(a, p) \o p[e]
  BY <1>1, <1>2, MapAppend
<1> QED BY <1>3, <1>4, <1>5, <1>6 DEF ae

\* What is sent to the client keeps its type.
LEMMA EmitType ==
    ASSUME response \in Responses, NEW evs \in Seq(Event), Emit(evs),
           shown \in [Channel -> Seq(Symbols)]
    PROVE  shown' \in [Channel -> Seq(Symbols)]
<1>1. \A c \in Channel : shown[c] \o TextIn(evs, c) \in Seq(Symbols)
  <2> TAKE c \in Channel
  <2>1. TextIn(evs, c) \in Seq(Symbols)
    BY TextInType DEF Event, EventSet
  <2>2. shown[c] \in Seq(Symbols)
    OBVIOUS
  <2> QED BY <2>1, <2>2
<1> QED BY <1>1 DEF Emit

\* RebuildSSE keeps the types of events.
LEMMA RebuildEvents ==
    ASSUME response \in Responses, NEW evs \in Seq(Event)
    PROVE  RebuildSSE(evs) \in Seq(Event)
<1>1. AreLabels(Labels, Symbols) /\ Event = EventSet(Channel, Symbols)
  BY SymbolFacts DEF Event, EventSet
<1> QED BY <1>1, RebuildType

\* The response never changes, and nothing that is read from it.
LEMMA SameResponse ==
    ASSUME response' = response
    PROVE  /\ Channel' = Channel /\ Channels' = Channels /\ Said' = Said /\ Labels' = Labels /\ Kind' = Kind /\ Api' = Api
           /\ Symbols' = Symbols /\ Event' = Event
BY DEF Channel, Channels, Said, Labels, Kind, Api, Symbols, Event

\* What is left in rawBuffer_ are events, too.
LEMMA UnparsedType ==
    ASSUME NEW C, NEW S, NEW evs \in Seq(EventSet(C, S))
    PROVE  Unparsed(evs) \in Seq(EventSet(C, S)) /\ Len(Unparsed(evs)) = Len(evs)
<1> DEFINE n == Len(evs)
           u == Unparsed(evs)
<1>1. n \in Nat /\ DOMAIN evs = 1..n /\ \A i \in 1..n : evs[i] \in EventSet(C, S)
  BY LenProperties, ElementOfSeq
<1>2. \A e \in EventSet(C, S) : [e EXCEPT !.json = FALSE] \in EventSet(C, S)
  BY DEF EventSet
<1>3. u = [i \in 1..n |-> [evs[i] EXCEPT !.json = FALSE]]
  BY <1>1 DEF Unparsed
<1>4. u \in [1..n -> EventSet(C, S)]
  <2> HIDE DEF n, u
  <2> QED BY <1>1, <1>2, <1>3
<1> HIDE DEF u, n
<1>5. u \in Seq(EventSet(C, S)) /\ Len(u) = n
  BY <1>1, <1>4
<1> QED BY <1>5 DEF u, n

\* A piece of what is said is an event.
LEMMA PieceIsEvent ==
    ASSUME response \in Responses, NEW c \in Channel, NEW n \in 0..Len(Said[c]), NEW m \in 0..n
    PROVE  [ch |-> c, text |-> SubSeq(Said[c], m + 1, n), json |-> TRUE] \in Event
<1>1. Said[c] \in Seq(Symbols)
  BY SymbolFacts
<1>2. \A i \in m + 1 .. n : i \in 1..Len(Said[c])
  BY <1>1, LenProperties
<1>3. \A i \in m + 1 .. n : Said[c][i] \in Symbols
  BY <1>1, <1>2, ElementOfSeq
<1> DEFINE k == m + 1
<1>4. k \in Int /\ n \in Int
  OBVIOUS
<1>5. \A i \in k..n : Said[c][i] \in Symbols
  BY <1>3
<1> HIDE DEF k
<1>6. SubSeq(Said[c], k, n) \in Seq(Symbols)
  BY <1>4, <1>5, SubSeqProperties
<1> QED BY <1>6 DEF k, Event

\* Types hold at the start,
LEMMA InitType == Init => TypeOK
<1> SUFFICES ASSUME Init PROVE TypeOK
  OBVIOUS
<1>1. response \in Responses
  BY DEF Init
<1>2. \A c \in Channel : Len(Said[c]) \in Nat
  BY <1>1, SymbolFacts, LenProperties
<1>3. <<>> \in Seq(Event) /\ <<>> \in Seq(Symbols) /\ Len(<<>>) <= 1
  OBVIOUS
<1> QED BY <1>1, <1>2, <1>3 DEF Init, TypeOK

\* and every step keeps them.
LEMMA TypeStep == TypeOK /\ [Next]_vars => TypeOK'
<1> SUFFICES ASSUME TypeOK, [Next]_vars PROVE TypeOK'
  OBVIOUS
<1>1. CASE UNCHANGED vars
  <2>1. response' = response /\ sent' = sent /\ wire' = wire /\ rawBuffer_' = rawBuffer_
        /\ events_' = events_ /\ shown' = shown /\ phase' = phase
    BY <1>1 DEF vars
  <2> QED BY <2>1, SameResponse DEF TypeOK
<1> SUFFICES ASSUME Next PROVE TypeOK'
  BY <1>1
<1>2. response' = response /\ response \in Responses
  BY DEF Next, Say, OnChunk, Flush, Cut, TypeOK
<1>3. Channel' = Channel /\ Said' = Said /\ Symbols' = Symbols /\ Event' = Event
  BY <1>2, SameResponse
<1>4. <<>> \in Seq(Event) /\ Len(<<>>) <= 1
  OBVIOUS
<1>5. ASSUME NEW c \in Channel, Say(c) PROVE TypeOK'
  <2>1. PICK n \in sent[c] + 1 .. Len(Said[c]) :
        LET e == [ch |-> c, text |-> SubSeq(Said[c], sent[c] + 1, n), json |-> TRUE]
        IN /\ sent' = [sent EXCEPT ![c] = n]
           /\ IF AllSent(sent') /\ ~response.terminated
              THEN rawBuffer_' = <<e>> /\ UNCHANGED wire
              ELSE wire' = Append(wire, e) /\ UNCHANGED rawBuffer_
    BY <1>5 DEF Say
  <2> DEFINE e == [ch |-> c, text |-> SubSeq(Said[c], sent[c] + 1, n), json |-> TRUE]
  <2>2. sent[c] \in Nat /\ Len(Said[c]) \in Nat
    BY <1>2, SymbolFacts, LenProperties DEF TypeOK
  <2>3. n \in Nat /\ n <= Len(Said[c]) /\ n \in 0..Len(Said[c]) /\ sent[c] \in 0..n
    BY <2>2
  <2>4. e \in Event
    BY <1>2, <2>3, PieceIsEvent
  <2>5. sent' \in [Channel -> Nat] /\ \A d \in Channel : sent'[d] <= Len(Said[d])
    BY <2>1, <2>3 DEF TypeOK
  <2> HIDE DEF e
  <2>6. wire' \in Seq(Event) /\ rawBuffer_' \in Seq(Event) /\ Len(rawBuffer_') <= 1
    <3>1. (rawBuffer_' = <<e>> /\ wire' = wire) \/ (wire' = Append(wire, e) /\ rawBuffer_' = rawBuffer_)
      BY <2>1 DEF e
    <3>2. <<e>> \in Seq(Event) /\ Len(<<e>>) <= 1
      BY <2>4
    <3>3. Append(wire, e) \in Seq(Event)
      BY <2>4, AppendIndex DEF TypeOK
    <3>4. wire \in Seq(Event) /\ rawBuffer_ \in Seq(Event) /\ Len(rawBuffer_) <= 1
      BY DEF TypeOK
    <3> QED BY <3>1, <3>2, <3>3, <3>4, Zenon
  <2>7. events_' = events_ /\ shown' = shown /\ phase' = phase
    BY <1>5 DEF Say
  <2> QED BY <1>2, <1>3, <2>5, <2>6, <2>7 DEF TypeOK
<1>6. CASE OnChunk
  <2>1. wire' = <<>> /\ sent' = sent /\ rawBuffer_' = rawBuffer_ /\ phase' = phase
    BY <1>6 DEF OnChunk
  <2> DEFINE all == events_ \o wire
  <2>2. all \in Seq(Event) /\ wire \in Seq(Event) /\ events_ \in Seq(Event)
    BY ConcatProperties DEF TypeOK
  <2>3. (events_' = all /\ shown' = shown) \/ (Emit(wire) /\ events_' = events_)
        \/ (events_' = <<>> /\ Emit(RebuildSSE(all)))
    BY <1>6 DEF OnChunk, MaybeProcess
  <2> HIDE DEF all
  <2>4. RebuildSSE(all) \in Seq(Event)
    BY <1>2, <2>2, RebuildEvents
  <2>5. shown \in [Channel -> Seq(Symbols)]
    BY DEF TypeOK
  <2>6. events_' \in Seq(Event)
    BY <1>4, <2>2, <2>3
  <2>7. shown' \in [Channel -> Seq(Symbols)]
    BY <1>2, <2>2, <2>3, <2>4, <2>5, EmitType
  <2> QED BY <1>2, <1>3, <1>4, <2>1, <2>6, <2>7 DEF TypeOK
<1>7. CASE Flush
  <2>1. wire' = wire /\ sent' = sent /\ rawBuffer_' = <<>> /\ events_' = <<>> /\ phase' = "done"
    BY <1>7 DEF Flush
  <2> DEFINE all == events_ \o rawBuffer_
             lost == events_ \o Unparsed(rawBuffer_)
  <2>2. all \in Seq(Event) /\ rawBuffer_ \in Seq(Event)
    BY ConcatProperties DEF TypeOK
  <2>3. lost \in Seq(Event)
    <3>1. Unparsed(rawBuffer_) \in Seq(Event) /\ events_ \in Seq(Event)
      BY UnparsedType DEF TypeOK, Event, EventSet
    <3> QED BY <3>1, ConcatProperties
  <2>4. Emit(RebuildSSE(all)) \/ Emit(RebuildSSE(lost)) \/ Emit(all) \/ Emit(rawBuffer_) \/ shown' = shown
    BY <1>7 DEF Flush
  <2> HIDE DEF all, lost
  <2>5. shown \in [Channel -> Seq(Symbols)]
    BY DEF TypeOK
  <2>6. RebuildSSE(all) \in Seq(Event) /\ RebuildSSE(lost) \in Seq(Event)
    BY <1>2, <2>2, <2>3, RebuildEvents
  <2>7. shown' \in [Channel -> Seq(Symbols)]
    BY <1>2, <2>2, <2>4, <2>5, <2>6, EmitType
  <2> QED BY <1>2, <1>3, <1>4, <2>1, <2>7 DEF TypeOK
<1>8. CASE Cut
  BY <1>2, <1>3, <1>4, <1>8 DEF Cut, TypeOK
<1> QED BY <1>5, <1>6, <1>7, <1>8 DEF Next

\* Texts stay sequences of the symbols of the response and of the values restored
\* into it, whatever upstream answers and however it is cut into events.
THEOREM TypeCorrect == Spec => []TypeOK
BY InitType, TypeStep, PTL DEF Spec

-----------------------------------------------------------------------------
(* Restorable responses *)

\* No label is in the text of the channel.
Plain(c) == \A k \in 1..Len(Labels) : Lacks(Said[c], Labels[k].text)

\* Parts of a text without a label have none.
LEMMA LacksParts ==
    ASSUME NEW x \in Seq(Char), NEW y \in Seq(Char), NEW label, Len(label) \in Nat, Len(label) > 0,
           Lacks(x \o y, label)
    PROVE  Lacks(x, label) /\ Lacks(y, label)
<1> DEFINE z == x \o y
           k == Len(label)
<1>1. Len(x) \in Nat /\ Len(y) \in Nat /\ Len(z) = Len(x) + Len(y)
  BY ConcatProperties, LenProperties
<1>2. \A n \in 1..Len(x) : EndsAt(z, n, label) <=> EndsAt(x, n, label)
  BY EndsAtPrefix
<1>3. \A n \in 1..Len(y) : EndsAt(y, n, label) => EndsAt(z, Len(x) + n, label)
  <2> TAKE n \in 1..Len(y)
  <2> HAVE EndsAt(y, n, label)
  <2> DEFINE a == Len(x) + n - k + 1
             b == Len(x) + n
  <2>1. n >= k /\ SubSeq(y, n - k + 1, n) = label
    BY DEF EndsAt
  <2>2. a \in Len(x) + 1 .. Len(x) + Len(y) /\ b \in Len(x) + 1 .. Len(x) + Len(y)
        /\ a - Len(x) = n - k + 1 /\ b - Len(x) = n /\ b >= k /\ b - k + 1 = a
    BY <1>1, <2>1
  <2> HIDE DEF a, b
  <2>3. SubSeq(z, a, b) = SubSeq(y, a - Len(x), b - Len(x))
    BY <2>2, SubSeqOfConcat2
  <2> HIDE DEF z
  <2>4. EndsAt(z, b, label)
    BY <2>1, <2>2, <2>3 DEF EndsAt
  <2> QED BY <2>4 DEF b
<1>4. \A n \in 1..Len(z) : ~EndsAt(z, n, label)
  BY DEF Lacks
<1> HIDE DEF z
<1>5. \A n \in 1..Len(y) : Len(x) + n \in 1..Len(z)
  BY <1>1
<1>6. \A n \in 1..Len(x) : n \in 1..Len(z)
  BY <1>1
<1> QED BY <1>2, <1>3, <1>4, <1>5, <1>6 DEF Lacks

\* What Restorable says, in the terms of the lemmas above.
LEMMA RestorableFacts ==
    ASSUME response \in Responses, Restorable(response)
    PROVE  /\ AreClean(Labels)
           /\ \A c \in Channel : Kind[c] \in Unlooked \cup Unrestored => Plain(c)
           /\ Rebuilt(response) => \A c, d \in Channel :
                Kind[c] \notin Unrestored /\ Kind[d] \notin Unrestored /\ Group(c) = Group(d) => c = d
           /\ Api # "responses" /\ Labels # <<>> => response.marked
           /\ Api # "responses" /\ response.marked => ~response.interleaved /\ response.terminated
           /\ Api = "anthropic" => response.terminated
<1>1. AreClean(Labels)
  <2>1. \A k \in 1..Len(Labels) : /\ Labels[k].text[3] \notin {"l", "m"} /\ Labels[k].value # <<>>
                                  /\ \A i \in DOMAIN Labels[k].value : Labels[k].value[i] \notin {"l", "m"}
    BY LabelFacts DEF Restorable, Labels
  <2>2. \A k \in 1..Len(Labels) : DOMAIN Labels[k].value = 1..Len(Labels[k].value)
    BY LabelFacts, LenProperties
  <2> QED BY <2>1, <2>2, LabelFacts DEF AreClean, IsValue
<1>2. ASSUME NEW c \in Channel, Kind[c] \in Unlooked \cup Unrestored
      PROVE  Plain(c)
  <2>1. ~HoldsLabel(response, Said[c])
    <3>1. c \in DOMAIN Said
      BY ChannelFacts
    <3> QED BY <1>2, <3>1 DEF Restorable, Said, Kind
  <2> SUFFICES ASSUME NEW k \in 1..Len(Labels), NEW n \in 1..Len(Said[c]), EndsAt(Said[c], n, Labels[k].text)
               PROVE  FALSE
    BY DEF Plain, Lacks
  <2> DEFINE p == n - 2
  <2>2. Len(Labels[k].text) = 3 /\ k \in DOMAIN Labels
    BY LabelFacts DEF IsLabel
  <2>3. Len(Said[c]) \in Nat
    BY ChannelFacts, LenProperties DEF Text
  <2>4. n >= 3 /\ SubSeq(Said[c], n - 3 + 1, n) = Labels[k].text
    BY <2>2 DEF EndsAt
  <2>5. p \in 1..Len(Said[c]) - 2 /\ p + 2 = n /\ n - 3 + 1 = p
    BY <2>3, <2>4
  <2> HIDE DEF p
  <2>6. SubSeq(Said[c], p, p + 2) = Labels[k].text
    BY <2>4, <2>5
  <2> QED BY <2>1, <2>2, <2>5, <2>6 DEF HoldsLabel, Labels
<1>3. ASSUME Rebuilt(response), NEW c \in Channel, NEW d \in Channel,
             Kind[c] \notin Unrestored, Kind[d] \notin Unrestored, Group(c) = Group(d)
      PROVE  c = d
  <2>1. c \in DOMAIN Said /\ d \in DOMAIN Said
    BY ChannelFacts
  <2> QED BY <1>3, <2>1 DEF Restorable, Said, Kind, Group
<1>4. /\ Api # "responses" /\ Labels # <<>> => response.marked
      /\ Api # "responses" /\ response.marked => ~response.interleaved /\ response.terminated
      /\ Api = "anthropic" => response.terminated
  BY DEF Restorable, Api, Labels
<1> QED BY <1>1, <1>2, <1>3, <1>4

\* x, and then y, of what a channel says.
Parts(c, x, y, z) ==
    /\ x \in Seq(Char) /\ y \in Seq(Char) /\ z \in Seq(Char)
    /\ Said[c] = (x \o y) \o z

\* The first part of what follows x follows x.
LEMMA FirstPart ==
    ASSUME NEW c, NEW x, NEW t \in Text, NEW r \in Text, NEW u, u = t \o r, NEW z, Parts(c, x, u, z)
    PROVE  \E v : Parts(c, x, t, v)
<1> DEFINE v == r \o z
           y == x \o t
           s == x \o u
<1>1. x \in Text /\ z \in Text /\ Said[c] = s \o z
  BY DEF Parts, Text
<1>2. y \in Text /\ v \in Text
  BY <1>1, TextConcat
<1>3. s = y \o r
  BY <1>1, TextAssociates
<1> HIDE DEF s
<1>4. y \o v = (y \o r) \o z
  <2> HIDE DEF y
  <2> QED BY <1>1, <1>2, TextAssociates
<1> HIDE DEF v
<1>5. Said[c] = y \o v
  BY <1>1, <1>3, <1>4
<1>6. Parts(c, x, t, v)
  BY <1>1, <1>2, <1>5 DEF Parts, Text
<1> QED BY <1>6

\* Parts of a channel without labels are not changed.
LEMMA PlainParts ==
    ASSUME response \in Responses, Restorable(response), NEW c \in Channel, Plain(c),
           NEW x, NEW y, NEW z, Parts(c, x, y, z)
    PROVE  UnredactAll(x) = x /\ UnredactAll(y) = y /\ UnredactAll(x \o y) = x \o y
<1>0. x \in Seq(Char) /\ y \in Seq(Char) /\ z \in Seq(Char) /\ Said[c] = (x \o y) \o z
  BY DEF Parts
<1> DEFINE xy == x \o y
<1>1. xy \in Seq(Char)
  BY <1>0
<1>2. \A k \in 1..Len(Labels) : Len(Labels[k].text) \in Nat /\ Len(Labels[k].text) > 0
  BY LabelFacts DEF IsLabel
<1>3. \A k \in 1..Len(Labels) : Lacks(xy \o z, Labels[k].text)
  BY <1>0 DEF Plain
<1> HIDE DEF xy
<1>4. \A k \in 1..Len(Labels) : Lacks(xy, Labels[k].text)
  BY <1>0, <1>1, <1>2, <1>3, LacksParts
<1>5. \A k \in 1..Len(Labels) : Lacks(x, Labels[k].text) /\ Lacks(y, Labels[k].text)
  <2>1. \A k \in 1..Len(Labels) : Lacks(x \o y, Labels[k].text)
    BY <1>4 DEF xy
  <2> QED BY <1>0, <1>2, <2>1, LacksParts
<1>6. AreClean(Labels)
  BY RestorableFacts
<1>7. UnredactAll(x) = x /\ UnredactAll(y) = y
  BY <1>0, <1>5, <1>6, RestoreNothing
<1>8. UnredactAll(xy) = xy
  BY <1>1, <1>4, <1>6, RestoreNothing
<1> QED BY <1>7, <1>8 DEF xy

\* Without labels in the request nothing is changed.
LEMMA NoLabels == ASSUME response \in Responses, Restorable(response), Labels = <<>>
                  PROVE  \A c \in Channel : Plain(c)
<1>1. Len(Labels) = 0
  BY DEF Labels
<1> QED BY <1>1 DEF Plain

-----------------------------------------------------------------------------
(* Events that wait *)

Held == events_ \o wire

\* Each is an event with a piece of a channel that has begun.
Good(evs, s) == \A i \in DOMAIN evs : evs[i].json /\ s[evs[i].ch] > 0

\* A channel that another one follows is complete.
Ordered(evs, s) ==
    \A i, j \in DOMAIN evs :
        i < j /\ evs[i].ch # evs[j].ch => s[evs[i].ch] = Len(Said[evs[i].ch])

\* The events of a channel follow one another.
Contiguous(evs) ==
    \A i, j, k \in DOMAIN evs : i < j /\ j < k /\ evs[i].ch = evs[k].ch => evs[j].ch = evs[i].ch

\* The channels come in their turn.
Turns(s) ==
    \A i, j \in DOMAIN Channels :
        i < j /\ s[Channels[j]] > 0 => s[Channels[i]] = Len(Said[Channels[i]])

Looked(evs) == FlattenSeq([i \in DOMAIN evs |-> ExtractRedactableText(evs[i])])

WireInv ==
    /\ Good(events_, sent) /\ Good(wire, sent) /\ Good(rawBuffer_, sent)
    /\ rawBuffer_ # <<>> => AllSent(sent) /\ ~response.terminated
    /\ ~response.interleaved => Ordered(Held, sent) /\ Contiguous(Held) /\ Turns(sent)
    /\ Api # "responses" /\ ~response.marked => events_ = <<>>
    /\ Api # "responses" /\ Labels # <<>> /\ events_ # <<>> => HasIncompleteLabel(Looked(events_))

\* Orders of events, for none, one more, or two parts.
LEMMA EmptyIsInOrder == \A s : Good(<<>>, s) /\ Ordered(<<>>, s) /\ Contiguous(<<>>)
BY DEF Good, Ordered, Contiguous

LEMMA GoodAppend ==
    ASSUME NEW E, NEW evs \in Seq(E), NEW e \in E, NEW s, Good(evs, s), e.json, s[e.ch] > 0
    PROVE  Good(Append(evs, e), s)
<1> DEFINE u == Append(evs, e)
           m == Len(evs)
<1>1. u \in Seq(E) /\ Len(u) = m + 1 /\ u[m + 1] = e /\ \A i \in 1..m : u[i] = evs[i]
  BY AppendIndex
<1>2. m \in Nat /\ DOMAIN evs = 1..m
  BY LenProperties
<1> HIDE DEF u, m
<1>3. DOMAIN u = 1..m + 1
  BY <1>1, LenProperties
<1>4. \A i \in 1..m + 1 : i \in 1..m \/ i = m + 1
  BY <1>2
<1>5. Good(u, s)
  BY <1>1, <1>2, <1>3, <1>4 DEF Good
<1> QED BY <1>5 DEF u

LEMMA GoodConcat ==
    ASSUME NEW E, NEW a \in Seq(E), NEW b \in Seq(E), NEW s, Good(a, s), Good(b, s)
    PROVE  Good(a \o b, s)
<1> DEFINE z == a \o b
<1>1. z \in Seq(E) /\ Len(z) = Len(a) + Len(b)
      /\ \A i \in 1..Len(a) + Len(b) : z[i] = IF i <= Len(a) THEN a[i] ELSE b[i - Len(a)]
  BY ConcatProperties
<1>2. Len(a) \in Nat /\ Len(b) \in Nat /\ DOMAIN a = 1..Len(a) /\ DOMAIN b = 1..Len(b)
  BY LenProperties
<1> HIDE DEF z
<1>3. DOMAIN z = 1..Len(a) + Len(b)
  BY <1>1, LenProperties
<1>4. ASSUME NEW i \in 1..Len(a) + Len(b) PROVE z[i].json /\ s[z[i].ch] > 0
  <2>1. CASE i <= Len(a)
    <3>1. i \in DOMAIN a /\ z[i] = a[i]
      BY <1>1, <1>2, <2>1
    <3> QED BY <3>1 DEF Good
  <2>2. CASE ~(i <= Len(a))
    <3> DEFINE j == i - Len(a)
    <3>1. j \in DOMAIN b /\ z[i] = b[j]
      BY <1>1, <1>2, <2>2
    <3> HIDE DEF j
    <3> QED BY <3>1 DEF Good
  <2> QED BY <2>1, <2>2
<1>5. Good(z, s)
  BY <1>3, <1>4 DEF Good
<1> QED BY <1>5 DEF z

\* A channel says more only when it is its turn.
LEMMA InTurn ==
    ASSUME response \in Responses, ~response.interleaved, Turns(sent),
           NEW c \in Channel, Say(c), sent[c] < Len(Said[c]), sent[c] \in Nat, Len(Said[c]) \in Nat,
           NEW d \in Channel, d # c, sent[d] > 0
    PROVE  sent[d] = Len(Said[d])
<1>1. PICK q \in DOMAIN Channels : Channels[q] = c
  BY DEF Channel, ToSet
<1>2. PICK p \in DOMAIN Channels : Channels[p] = d
  BY DEF Channel, ToSet
<1>3. p \in Nat /\ q \in Nat /\ p # q
  <2>1. Channels \in Seq(STRING)
    BY ChannelFacts
  <2>2. DOMAIN Channels = 1..Len(Channels) /\ Len(Channels) \in Nat
    BY <2>1, LenProperties
  <2> QED BY <1>1, <1>2, <2>2
<1>4. CASE p < q
  <2>1. \A i, j \in DOMAIN Channels :
            i < j /\ Channels[j] = c => sent[Channels[i]] = Len(Said[Channels[i]])
    BY DEF Say
  <2> QED BY <1>1, <1>2, <1>4, <2>1
<1>5. CASE q < p
  <2>1. sent[c] = Len(Said[c])
    BY <1>1, <1>2, <1>5 DEF Turns
  <2> QED BY <2>1
<1> QED BY <1>3, <1>4, <1>5

\* What a step of upstream does.
LEMMA SayStep ==
    ASSUME TypeOK, WireInv, NEW c \in Channel, Say(c)
    PROVE  \E n \in sent[c] + 1 .. Len(Said[c]), e \in Event :
            /\ e = [ch |-> c, text |-> SubSeq(Said[c], sent[c] + 1, n), json |-> TRUE]
            /\ rawBuffer_ = <<>> /\ sent' = [sent EXCEPT ![c] = n]
            /\ \/ wire' = Append(wire, e) /\ rawBuffer_' = <<>>
               \/ wire' = wire /\ rawBuffer_' = <<e>> /\ AllSent(sent') /\ ~response.terminated
            /\ response' = response /\ events_' = events_ /\ shown' = shown /\ phase' = phase /\ phase = "open"
<1>1. PICK n \in sent[c] + 1 .. Len(Said[c]) :
        LET e == [ch |-> c, text |-> SubSeq(Said[c], sent[c] + 1, n), json |-> TRUE]
        IN /\ sent' = [sent EXCEPT ![c] = n]
           /\ IF AllSent(sent') /\ ~response.terminated
              THEN rawBuffer_' = <<e>> /\ UNCHANGED wire
              ELSE wire' = Append(wire, e) /\ UNCHANGED rawBuffer_
  BY DEF Say
<1> DEFINE e == [ch |-> c, text |-> SubSeq(Said[c], sent[c] + 1, n), json |-> TRUE]
<1>2. sent[c] \in Nat /\ Len(Said[c]) \in Nat
  BY SymbolFacts, LenProperties DEF TypeOK
<1>3. n \in 0..Len(Said[c]) /\ sent[c] \in 0..n
  BY <1>2
<1>4. e \in Event
  BY <1>3, PieceIsEvent DEF TypeOK
<1>5. rawBuffer_ = <<>>
  <2>1. sent[c] # Len(Said[c])
    BY <1>2
  <2> QED BY <2>1 DEF WireInv, AllSent
<1>6. \/ wire' = Append(wire, e) /\ rawBuffer_' = <<>>
      \/ wire' = wire /\ rawBuffer_' = <<e>> /\ AllSent(sent') /\ ~response.terminated
  <2> HIDE DEF e
  <2> QED BY <1>1, <1>5 DEF e
<1>7. response' = response /\ events_' = events_ /\ shown' = shown /\ phase' = phase /\ phase = "open"
  BY DEF Say
<1>8. sent' = [sent EXCEPT ![c] = n]
  BY <1>1
<1>9. e = [ch |-> c, text |-> SubSeq(Said[c], sent[c] + 1, n), json |-> TRUE]
  OBVIOUS
<1> HIDE DEF e
<1> QED BY <1>4, <1>5, <1>6, <1>7, <1>8, <1>9

\* The events that wait stay in order when upstream says more.
LEMMA SayOrder ==
    ASSUME response \in Responses, ~response.interleaved, NEW evs \in Seq(Event), NEW c \in Channel,
           Say(c), sent[c] < Len(Said[c]), sent[c] \in Nat, Len(Said[c]) \in Nat,
           Ordered(evs, sent), Contiguous(evs), Turns(sent), Good(evs, sent),
           NEW n, sent' = [sent EXCEPT ![c] = n], sent \in [Channel -> Nat],
           NEW e \in Event, e.ch = c
    PROVE  /\ Ordered(evs, sent') /\ Ordered(Append(evs, e), sent')
           /\ Contiguous(Append(evs, e)) /\ Turns(sent')
<1> DEFINE u == Append(evs, e)
           m == Len(evs)
<1>1. u \in Seq(Event) /\ Len(u) = m + 1 /\ u[m + 1] = e /\ \A i \in 1..m : u[i] = evs[i]
  BY AppendIndex
<1>2. m \in Nat /\ DOMAIN evs = 1..m /\ \A i \in 1..m : evs[i] \in Event
  BY LenProperties, ElementOfSeq
<1> HIDE DEF u, m
<1>3. DOMAIN u = 1..m + 1
  BY <1>1, LenProperties
<1>4. \A i \in 1..m + 1 : i \in 1..m \/ i = m + 1
  BY <1>2
<1>5. \A i \in 1..m : evs[i].ch \in Channel
  BY <1>2 DEF Event
<1>6. \A d \in Channel : sent[d] = Len(Said[d]) => sent'[d] = sent[d] /\ d # c
  OBVIOUS
<1>7. Ordered(evs, sent')
  BY <1>2, <1>5, <1>6 DEF Ordered
<1>8. \A i \in 1..m : evs[i].ch # c => sent'[evs[i].ch] = Len(Said[evs[i].ch])
  <2> TAKE i \in 1..m
  <2> DEFINE d == evs[i].ch
  <2> SUFFICES ASSUME d # c PROVE sent'[d] = Len(Said[d])
    OBVIOUS
  <2>1. d \in Channel /\ sent[d] > 0
    BY <1>2, <1>5 DEF Good
  <2> HIDE DEF d
  <2>2. sent[d] = Len(Said[d])
    BY <2>1, InTurn
  <2> QED BY <1>6, <2>1, <2>2
<1>9. Ordered(u, sent')
  <2> SUFFICES ASSUME NEW i \in 1..m + 1, NEW j \in 1..m + 1, i < j, u[i].ch # u[j].ch
               PROVE  sent'[u[i].ch] = Len(Said[u[i].ch])
    BY <1>3 DEF Ordered
  <2>1. i \in 1..m /\ u[i] = evs[i]
    BY <1>1, <1>2
  <2>2. CASE j \in 1..m
    BY <1>1, <1>2, <1>7, <2>1, <2>2 DEF Ordered
  <2>3. CASE j = m + 1
    BY <1>1, <1>8, <2>1, <2>3
  <2> QED BY <1>4, <2>2, <2>3
<1>10. Contiguous(u)
  <2> SUFFICES ASSUME NEW i \in 1..m + 1, NEW j \in 1..m + 1, NEW k \in 1..m + 1, i < j, j < k, u[i].ch = u[k].ch
               PROVE  u[j].ch = u[i].ch
    BY <1>3 DEF Contiguous
  <2>1. i \in 1..m /\ u[i] = evs[i] /\ j \in 1..m /\ u[j] = evs[j]
    BY <1>1, <1>2
  <2>2. CASE k \in 1..m
    BY <1>1, <1>2, <2>1, <2>2 DEF Contiguous
  <2>3. CASE k = m + 1
    <3>1. evs[i].ch = c
      BY <1>1, <2>1, <2>3
    <3>2. evs[j].ch # c => sent[c] = Len(Said[c])
      BY <1>2, <2>1, <3>1 DEF Ordered
    <3> QED BY <2>1, <3>1, <3>2
  <2> QED BY <1>4, <2>2, <2>3
<1>11. Turns(sent')
  <2> SUFFICES ASSUME NEW i \in DOMAIN Channels, NEW j \in DOMAIN Channels, i < j, sent'[Channels[j]] > 0
               PROVE  sent'[Channels[i]] = Len(Said[Channels[i]])
    BY DEF Turns
  <2> DEFINE a == Channels[i]
             b == Channels[j]
  <2>1. a \in Channel /\ b \in Channel
    BY DEF Channel, ToSet
  <2>2. CASE b = c
    <3>1. sent[a] = Len(Said[a])
      BY <2>2 DEF Say
    <3> QED BY <1>6, <2>1, <3>1
  <2>3. CASE b # c
    <3>1. sent[b] > 0
      BY <2>1, <2>3
    <3>2. sent[a] = Len(Said[a])
      BY <3>1 DEF Turns
    <3> QED BY <1>6, <2>1, <3>2
  <2> QED BY <2>2, <2>3
<1> QED BY <1>7, <1>9, <1>10, <1>11 DEF u

\* What is looked at, when nothing of it changes.
LEMMA SameLooks ==
    ASSUME response' = response, events_' = events_
    PROVE  HasIncompleteLabel(Looked(events_))' <=> HasIncompleteLabel(Looked(events_))
BY DEF HasIncompleteLabel, Looked, ExtractRedactableText, Kind, Labels, Closing, MaxLabelLen

\* Events stay good as more is sent.
LEMMA GoodLater ==
    ASSUME NEW evs \in Seq(Event), sent \in [Channel -> Nat], NEW c \in Channel,
           NEW n \in sent[c] + 1 .. Len(Said[c]), sent' = [sent EXCEPT ![c] = n], Good(evs, sent)
    PROVE  Good(evs, sent')
<1>1. \A d \in Channel : sent[d] > 0 => sent'[d] > 0
  OBVIOUS
<1>2. \A i \in DOMAIN evs : evs[i].ch \in Channel
  <2>1. \A i \in DOMAIN evs : evs[i] \in Event
    OBVIOUS
  <2> QED BY <2>1 DEF Event
<1> QED BY <1>1, <1>2 DEF Good

\* Events are in order at the start,
LEMMA InitWire == Init => WireInv
<1> SUFFICES ASSUME Init PROVE WireInv
  OBVIOUS
<1>1. events_ = <<>> /\ wire = <<>> /\ rawBuffer_ = <<>> /\ Held = <<>>
  BY DEF Init, Held
<1>2. Turns(sent)
  <2>1. \A i \in DOMAIN Channels : sent[Channels[i]] = 0
    BY DEF Init, Channel, ToSet
  <2> QED BY <2>1 DEF Turns
<1> QED BY <1>1, <1>2, EmptyIsInOrder DEF WireInv

\* and every step keeps them so.
LEMMA WireStep == TypeOK /\ WireInv /\ [Next]_vars => WireInv'
<1> SUFFICES ASSUME TypeOK, WireInv, [Next]_vars PROVE WireInv'
  OBVIOUS
<1>0. response' = response /\ response \in Responses
  BY DEF Next, Say, OnChunk, Flush, Cut, vars, TypeOK
<1>1. Channel' = Channel /\ Channels' = Channels /\ Said' = Said /\ Labels' = Labels /\ Kind' = Kind /\ Api' = Api /\ Event' = Event
  BY <1>0, SameResponse
<1>2. events_ \in Seq(Event) /\ wire \in Seq(Event) /\ rawBuffer_ \in Seq(Event) /\ Held \in Seq(Event)
  BY DEF TypeOK, Held
<1>3. \A d \in Channel : sent[d] \in Nat /\ Len(Said[d]) \in Nat
  BY <1>0, SymbolFacts, LenProperties DEF TypeOK
<1> DEFINE Order(evs, s) == ~response.interleaved => Ordered(evs, s) /\ Contiguous(evs) /\ Turns(s)
<1>4. /\ Good(events_, sent) /\ Good(wire, sent) /\ Good(rawBuffer_, sent)
      /\ rawBuffer_ # <<>> => AllSent(sent) /\ ~response.terminated
      /\ Order(Held, sent)
      /\ Api # "responses" /\ ~response.marked => events_ = <<>>
      /\ Api # "responses" /\ Labels # <<>> /\ events_ # <<>> => HasIncompleteLabel(Looked(events_))
  BY DEF WireInv
<1>5. Order(<<>>, sent)
  BY <1>4, EmptyIsInOrder
<1>6. ASSUME /\ Good(events_', sent') /\ Good(wire', sent') /\ Good(rawBuffer_', sent')
             /\ rawBuffer_' # <<>> => AllSent(sent') /\ ~response.terminated
             /\ ~response.interleaved => Ordered(Held', sent') /\ Contiguous(Held') /\ Turns(sent')
             /\ Api # "responses" /\ ~response.marked => events_' = <<>>
             /\ Api # "responses" /\ Labels # <<>> /\ events_' # <<>> => HasIncompleteLabel(Looked(events_))'
      PROVE  WireInv'
  BY <1>0, <1>1, <1>6 DEF WireInv, Good, AllSent, Ordered, Contiguous, Turns
<1> SUFFICES /\ Good(events_', sent') /\ Good(wire', sent') /\ Good(rawBuffer_', sent')
             /\ rawBuffer_' # <<>> => AllSent(sent') /\ ~response.terminated
             /\ Order(Held', sent')
             /\ Api # "responses" /\ ~response.marked => events_' = <<>>
             /\ Api # "responses" /\ Labels # <<>> /\ events_' # <<>> => HasIncompleteLabel(Looked(events_))'
  BY <1>6
<1> HIDE DEF Order
<1>7. ASSUME NEW c \in Channel, Say(c) PROVE
             /\ Good(events_', sent') /\ Good(wire', sent') /\ Good(rawBuffer_', sent')
             /\ rawBuffer_' # <<>> => AllSent(sent') /\ ~response.terminated
             /\ Order(Held', sent')
             /\ Api # "responses" /\ ~response.marked => events_' = <<>>
             /\ Api # "responses" /\ Labels # <<>> /\ events_' # <<>> => HasIncompleteLabel(Looked(events_))'
  <2>1. PICK n \in sent[c] + 1 .. Len(Said[c]), e \in Event :
            /\ e = [ch |-> c, text |-> SubSeq(Said[c], sent[c] + 1, n), json |-> TRUE]
            /\ rawBuffer_ = <<>> /\ sent' = [sent EXCEPT ![c] = n]
            /\ \/ wire' = Append(wire, e) /\ rawBuffer_' = <<>>
               \/ wire' = wire /\ rawBuffer_' = <<e>> /\ AllSent(sent') /\ ~response.terminated
            /\ response' = response /\ events_' = events_ /\ shown' = shown /\ phase' = phase /\ phase = "open"
    BY <1>7, SayStep
  <2>2. e.ch = c /\ e.json /\ sent'[e.ch] > 0 /\ sent[c] < Len(Said[c])
    BY <1>3, <2>1 DEF TypeOK
  <2>3. Good(events_, sent') /\ Good(wire, sent')
    BY <1>2, <1>4, <2>1, GoodLater DEF TypeOK
  <2>4. Good(Append(wire, e), sent') /\ Good(<<e>>, sent') /\ Good(<<>>, sent')
    <3>1. Good(Append(wire, e), sent')
      BY <1>2, <2>2, <2>3, GoodAppend
    <3>2. Good(<<e>>, sent')
      BY <2>2 DEF Good
    <3> QED BY <3>1, <3>2, EmptyIsInOrder
  <2>5. Good(events_', sent') /\ Good(wire', sent') /\ Good(rawBuffer_', sent')
    BY <2>1, <2>3, <2>4, Zenon
  <2>6. rawBuffer_' # <<>> => AllSent(sent') /\ ~response.terminated
    BY <2>1
  <2>7. Held' = Held \/ Held' = Append(Held, e)
    <3>1. events_ \o Append(wire, e) = Append(events_ \o wire, e)
      BY <1>2, ConcatAppend
    <3> QED BY <2>1, <3>1, Zenon DEF Held
  <2>8. ~response.interleaved => /\ Ordered(Held, sent') /\ Ordered(Append(Held, e), sent')
                                 /\ Contiguous(Append(Held, e)) /\ Turns(sent')
    <3> SUFFICES ASSUME ~response.interleaved
                 PROVE  /\ Ordered(Held, sent') /\ Ordered(Append(Held, e), sent')
                        /\ Contiguous(Append(Held, e)) /\ Turns(sent')
      OBVIOUS
    <3>1. Good(Held, sent)
      BY <1>2, <1>4, GoodConcat DEF Held
    <3>2. Ordered(Held, sent) /\ Contiguous(Held) /\ Turns(sent)
      BY <1>4 DEF Order
    <3>3. sent[c] \in Nat /\ Len(Said[c]) \in Nat /\ sent \in [Channel -> Nat]
      BY <1>3 DEF TypeOK
    <3>4. sent' = [sent EXCEPT ![c] = n]
      BY <2>1
    <3> QED BY <1>0, <1>2, <1>7, <2>2, <3>1, <3>2, <3>3, <3>4, SayOrder
  <2>9. Order(Held', sent')
    <3>1. Order(Held, sent') /\ Order(Append(Held, e), sent')
      BY <1>4, <2>8 DEF Order
    <3> QED BY <2>7, <3>1, Zenon
  <2>10. HasIncompleteLabel(Looked(events_))' <=> HasIncompleteLabel(Looked(events_))
    BY <2>1, SameLooks
  <2> QED BY <1>4, <2>1, <2>5, <2>6, <2>9, <2>10
<1>8. ASSUME sent' = sent, rawBuffer_' = rawBuffer_ \/ rawBuffer_' = <<>>,
             wire' = wire \/ wire' = <<>>, events_' = events_ \/ events_' = <<>>
      PROVE  /\ Good(events_', sent') /\ Good(wire', sent') /\ Good(rawBuffer_', sent')
             /\ rawBuffer_' # <<>> => AllSent(sent') /\ ~response.terminated
             /\ Api # "responses" /\ ~response.marked => events_' = <<>>
             /\ Api # "responses" /\ Labels # <<>> /\ events_' # <<>> => HasIncompleteLabel(Looked(events_))'
  <2>1. Good(events_', sent') /\ Good(wire', sent') /\ Good(rawBuffer_', sent')
    BY <1>4, <1>8, EmptyIsInOrder
  <2>2. rawBuffer_' # <<>> => AllSent(sent') /\ ~response.terminated
    BY <1>4, <1>8
  <2>3. Api # "responses" /\ Labels # <<>> /\ events_' # <<>> => HasIncompleteLabel(Looked(events_))'
    BY <1>0, <1>4, <1>8, SameLooks
  <2> QED BY <1>4, <1>8, <2>1, <2>2, <2>3
<1>9. CASE OnChunk
  <2>1. wire' = <<>> /\ sent' = sent /\ rawBuffer_' = rawBuffer_
    BY <1>9 DEF OnChunk
  <2>2. \/ events_' = Held /\ Api = "responses"
        \/ events_' = events_ /\ ~response.marked /\ Api # "responses"
        \/ events_' = Held /\ response.marked /\ (Labels = <<>> \/ HasIncompleteLabel(Looked(Held)))
        \/ events_' = <<>>
    <3>1. MaxLabelLen = 0 => Labels = <<>>
      BY DEF MaxLabelLen
    <3>2. CASE Api = "responses"
      BY <1>9, <3>2 DEF OnChunk, Held
    <3>3. CASE Api # "responses" /\ ~response.marked
      BY <1>9, <3>3 DEF OnChunk, NeedsUnredaction
    <3>4. CASE Api # "responses" /\ response.marked
      <4>1. MaybeProcess(Held)
        BY <1>9, <3>4 DEF OnChunk, NeedsUnredaction, Held
      <4> QED BY <3>1, <3>4, <4>1 DEF MaybeProcess, Looked
    <3>5. response.marked \in BOOLEAN
      BY <1>0, ChannelFacts
    <3> QED BY <3>2, <3>3, <3>4, <3>5
  <2>3. CASE events_' = Held
    <3>1. Held' = Held
      <4>1. Held \o <<>> = Held
        BY <1>2, ConcatEmptySeq
      <4> QED BY <2>1, <2>3, <4>1 DEF Held
    <3>2. Good(events_', sent') /\ Good(wire', sent') /\ Good(rawBuffer_', sent')
      <4>1. Good(Held, sent)
        BY <1>2, <1>4, GoodConcat DEF Held
      <4> QED BY <1>4, <2>1, <2>3, <4>1, EmptyIsInOrder
    <3>3. Api # "responses" /\ ~response.marked => events_' = <<>>
      BY <1>4, <2>2, <2>3
    <3>4. Api # "responses" /\ Labels # <<>> /\ events_' # <<>> => HasIncompleteLabel(Looked(events_))'
      <4>1. Api # "responses" /\ Labels # <<>> /\ events_' # <<>> /\ events_' # events_ => HasIncompleteLabel(Looked(Held))
        BY <2>2
      <4>2. events_' = events_ => (HasIncompleteLabel(Looked(events_))' <=> HasIncompleteLabel(Looked(events_)))
        BY <1>0, SameLooks
      <4>3. HasIncompleteLabel(Looked(events_))' <=> HasIncompleteLabel(Looked(Held))
        <5> DEFINE h == Held
        <5>1. events_' = h
          BY <2>3
        <5> HIDE DEF h
        <5>2. HasIncompleteLabel(Looked(events_))' <=> HasIncompleteLabel(Looked(h))
          BY <1>0, <5>1 DEF HasIncompleteLabel, Looked, ExtractRedactableText, Kind, Labels, Closing, MaxLabelLen
        <5> QED BY <5>2 DEF h
      <4> QED BY <1>4, <4>1, <4>2, <4>3
    <3>5. Order(Held', sent')
      BY <1>4, <2>1, <3>1
    <3>6. rawBuffer_' # <<>> => AllSent(sent') /\ ~response.terminated
      BY <1>4, <2>1
    <3> QED BY <3>2, <3>3, <3>4, <3>5, <3>6
  <2>4. CASE events_' = <<>>
    <3>1. Held' = <<>>
      <4>1. <<>> \o <<>> = <<>>
        OBVIOUS
      <4> QED BY <2>1, <2>4, <4>1 DEF Held
    <3>2. Order(Held', sent')
      BY <1>5, <2>1, <3>1
    <3> QED BY <1>8, <2>1, <2>4, <3>2
  <2>5. CASE events_' = events_ /\ ~response.marked /\ Api # "responses"
    <3>1. events_' = <<>>
      BY <1>4, <2>5
    <3> QED BY <2>4, <3>1
  <2> QED BY <2>2, <2>3, <2>4, <2>5
<1>10. CASE Flush \/ Cut
  <2>1. sent' = sent /\ rawBuffer_' = <<>> /\ events_' = <<>> /\ wire' = <<>>
    BY <1>10 DEF Flush, Cut
  <2>2. Held' = <<>>
    <3>1. <<>> \o <<>> = <<>>
      OBVIOUS
    <3> QED BY <2>1, <3>1 DEF Held
  <2>3. Order(Held', sent')
    BY <1>5, <2>1, <2>2
  <2> QED BY <1>8, <2>1, <2>3
<1>11. CASE UNCHANGED vars
  <2>1. sent' = sent /\ rawBuffer_' = rawBuffer_ /\ events_' = events_ /\ wire' = wire
    BY <1>11 DEF vars
  <2>2. Held' = Held
    BY <2>1 DEF Held
  <2>3. Order(Held', sent')
    BY <1>4, <2>1, <2>2
  <2> QED BY <1>8, <2>1, <2>3
<1> QED BY <1>7, <1>9, <1>10, <1>11 DEF Next

-----------------------------------------------------------------------------
(* Labels that have only begun *)

\* IsSuffix, symbol by symbol.
LEMMA SuffixIndex ==
    ASSUME NEW S, NEW s \in Seq(S), NEW t \in Seq(S)
    PROVE  IsSuffix(s, t) <=>
            Len(s) <= Len(t) /\ \A i \in 1..Len(s) : t[Len(t) - i + 1] = s[Len(s) - i + 1]
<1> DEFINE m == Len(s)
           n == Len(t)
           rs == Reverse(s)
           rt == Reverse(t)
           w == SubSeq(rt, 1, m)
<1>1. m \in Nat /\ n \in Nat
  BY LenProperties
<1>2. rs \in Seq(S) /\ Len(rs) = m /\ \A i \in 1..m : rs[i] = s[m - i + 1]
  <2>1. rs = [i \in 1..m |-> s[m - i + 1]]
    BY DEF Reverse
  <2>2. \A i \in 1..m : s[m - i + 1] \in S
    BY <1>1
  <2> HIDE DEF rs, m
  <2>3. rs \in [1..m -> S]
    BY <2>1, <2>2
  <2> QED BY <1>1, <2>1, <2>3
<1>3. rt \in Seq(S) /\ Len(rt) = n /\ \A i \in 1..n : rt[i] = t[n - i + 1]
  <2>1. rt = [i \in 1..n |-> t[n - i + 1]]
    BY DEF Reverse
  <2>2. \A i \in 1..n : t[n - i + 1] \in S
    BY <1>1
  <2> HIDE DEF rt, n
  <2>3. rt \in [1..n -> S]
    BY <2>1, <2>2
  <2> QED BY <1>1, <2>1, <2>3
<1> HIDE DEF rs, rt
<1>4. SubSeq(rs, 1, m) = rs
  BY <1>2, SubSeqFull
<1>5. IsSuffix(s, t) <=> m <= n /\ rs = w
  BY <1>2, <1>3, <1>4 DEF IsSuffix, IsPrefix, rs, rt
<1>6. CASE m > n
  BY <1>1, <1>5, <1>6
<1>7. CASE m <= n
  <2>1. \A i \in 1..m : rt[i] \in S
    BY <1>1, <1>3, <1>7, ElementOfSeq
  <2>2. w \in Seq(S) /\ Len(w) = m /\ \A i \in 1..m : w[i] = rt[i]
    <3>1. /\ w \in Seq(S)
          /\ Len(w) = IF 1 <= m THEN m - 1 + 1 ELSE 0
          /\ \A i \in 1 .. m - 1 + 1 : w[i] = rt[1 + i - 1]
      BY <1>1, <2>1, SubSeqProperties
    <3> HIDE DEF w, m
    <3> QED BY <1>1, <3>1
  <2> HIDE DEF w, m, n
  <2>3. rs = w <=> \A i \in 1..m : rs[i] = w[i]
    <3>1. ASSUME \A i \in 1..m : rs[i] = w[i] PROVE rs = w
      BY <1>2, <2>2, <3>1, SeqEqual
    <3> QED BY <3>1
  <2>4. \A i \in 1..m : i \in 1..n
    BY <1>1, <1>7
  <2>5. \A i \in 1..m : (rs[i] = w[i] <=> t[n - i + 1] = s[m - i + 1])
    BY <1>2, <1>3, <2>2, <2>4
  <2> QED BY <1>5, <1>7, <2>3, <2>5 DEF m, n
<1> QED BY <1>1, <1>6, <1>7

\* A text ends with the beginning of a label if it ends in a marker.
LEMMA BeginningIsSuffix ==
    ASSUME NEW label, IsLabel(label), NEW x \in Seq(Char)
    PROVE  /\ 1 <= Len(x) /\ IsSuffix(SubSeq(label, 1, 1), x) <=> LastIs(x, "l")
           /\ 2 <= Len(x) /\ IsSuffix(SubSeq(label, 1, 2), x) <=> LastArePair(x)
           /\ 3 <= Len(x) /\ IsSuffix(SubSeq(label, 1, 3), x) => LastIs(x, label[3])
<1>1. label \in Seq(Char) /\ Len(label) = 3 /\ label[1] = "l" /\ label[2] = "m"
  BY DEF IsLabel
<1>2. Len(x) \in Nat
  BY LenProperties
<1>3. ASSUME NEW k \in 1..3
      PROVE  SubSeq(label, 1, k) \in Seq(Char) /\ Len(SubSeq(label, 1, k)) = k
             /\ \A i \in 1..k : SubSeq(label, 1, k)[i] = label[i]
  <2> DEFINE w == SubSeq(label, 1, k)
  <2>0. \A i \in 1..k : i \in 1..Len(label)
    BY <1>1
  <2>1. \A i \in 1..k : label[i] \in Char
    BY <1>1, <2>0, ElementOfSeq
  <2>2. /\ w \in Seq(Char)
        /\ Len(w) = IF 1 <= k THEN k - 1 + 1 ELSE 0
        /\ \A i \in 1 .. k - 1 + 1 : w[i] = label[1 + i - 1]
    BY <2>1, SubSeqProperties
  <2> HIDE DEF w
  <2>3. w \in Seq(Char) /\ Len(w) = k /\ \A i \in 1..k : w[i] = label[i]
    BY <2>2
  <2> QED BY <2>3 DEF w
<1>4. ASSUME NEW k \in 1..3
      PROVE  k <= Len(x) /\ IsSuffix(SubSeq(label, 1, k), x) <=>
                k <= Len(x) /\ \A i \in 1..k : x[Len(x) - i + 1] = label[k - i + 1]
  <2> DEFINE w == SubSeq(label, 1, k)
  <2>1. w \in Seq(Char) /\ Len(w) = k /\ \A i \in 1..k : w[i] = label[i]
    BY <1>3
  <2> HIDE DEF w
  <2>2. IsSuffix(w, x) <=> Len(w) <= Len(x) /\ \A i \in 1..Len(w) : x[Len(x) - i + 1] = w[Len(w) - i + 1]
    BY <2>1, SuffixIndex
  <2>3. \A i \in 1..k : w[k - i + 1] = label[k - i + 1]
    <3>1. \A i \in 1..k : k - i + 1 \in 1..k
      OBVIOUS
    <3> QED BY <2>1, <3>1
  <2>4. IsSuffix(w, x) <=> k <= Len(x) /\ \A i \in 1..k : x[Len(x) - i + 1] = w[k - i + 1]
    <3>1. Len(w) = k
      BY <2>1
    <3> QED BY <2>2, <3>1
  <2>5. (\A i \in 1..k : x[Len(x) - i + 1] = w[k - i + 1])
            <=> (\A i \in 1..k : x[Len(x) - i + 1] = label[k - i + 1])
    BY <2>3
  <2> HIDE DEF w
  <2> QED BY <2>4, <2>5 DEF w
<1>5. 1 <= Len(x) /\ IsSuffix(SubSeq(label, 1, 1), x) <=> LastIs(x, "l")
  <2>1. 1 <= Len(x) /\ IsSuffix(SubSeq(label, 1, 1), x) <=>
            1 <= Len(x) /\ \A i \in 1..1 : x[Len(x) - i + 1] = label[1 - i + 1]
    BY <1>4
  <2>2. (\A i \in 1..1 : x[Len(x) - i + 1] = label[1 - i + 1]) <=> x[Len(x)] = label[1]
    <3>1. \A i \in 1..1 : i = 1 /\ Len(x) - i + 1 = Len(x) /\ 1 - i + 1 = 1
      BY <1>2
    <3> QED BY <3>1
  <2> QED BY <1>1, <2>1, <2>2 DEF LastIs
<1>6. 2 <= Len(x) /\ IsSuffix(SubSeq(label, 1, 2), x) <=> LastArePair(x)
  <2>1. 2 <= Len(x) /\ IsSuffix(SubSeq(label, 1, 2), x) <=>
            2 <= Len(x) /\ \A i \in 1..2 : x[Len(x) - i + 1] = label[2 - i + 1]
    BY <1>4
  <2>2. (\A i \in 1..2 : x[Len(x) - i + 1] = label[2 - i + 1])
            <=> x[Len(x)] = label[2] /\ x[Len(x) - 1] = label[1]
    <3>1. \A i \in 1..2 : i = 1 \/ i = 2
      OBVIOUS
    <3>2. 1 \in 1..2 /\ 2 \in 1..2 /\ Len(x) - 1 + 1 = Len(x) /\ Len(x) - 2 + 1 = Len(x) - 1
          /\ 2 - 1 + 1 = 2 /\ 2 - 2 + 1 = 1
      BY <1>2
    <3> QED BY <3>1, <3>2
  <2> QED BY <1>1, <2>1, <2>2 DEF LastArePair
<1>7. 3 <= Len(x) /\ IsSuffix(SubSeq(label, 1, 3), x) => LastIs(x, label[3])
  <2>1. 3 <= Len(x) /\ IsSuffix(SubSeq(label, 1, 3), x) =>
            3 <= Len(x) /\ \A i \in 1..3 : x[Len(x) - i + 1] = label[3 - i + 1]
    BY <1>4
  <2>2. 1 \in 1..3 /\ Len(x) - 1 + 1 = Len(x) /\ 3 - 1 + 1 = 3
    BY <1>2
  <2>3. (\A i \in 1..3 : x[Len(x) - i + 1] = label[3 - i + 1]) => x[Len(x)] = label[3]
    BY <2>2
  <2> QED BY <1>2, <2>1, <2>3 DEF LastIs
<1> QED BY <1>5, <1>6, <1>7

\* Closing symbols are the third ones of the labels.
LEMMA ClosingFacts ==
    ASSUME response \in Responses
    PROVE  Closing = {Labels[i].text[3] : i \in 1..Len(Labels)}
<1>1. \A i \in 1..Len(Labels) : Last(Labels[i].text) = Labels[i].text[3]
  BY LabelFacts DEF Last, IsLabel
<1> QED BY <1>1, LabelFacts DEF Closing

\* A text that ends in the middle of a label is held back.
LEMMA IncompleteAtEnd ==
    ASSUME response \in Responses, AreClean(Labels), Labels # <<>>, NEW x \in Seq(Char),
           EndsInMarker(x)
    PROVE  HasIncompleteLabel(x)
<1>1. 1 \in 1..Len(Labels) /\ DOMAIN Labels = 1..Len(Labels)
  <2>1. Labels \in Seq([text : Text, value : Text]) /\ DOMAIN Labels = 1..Len(Labels)
    BY LabelFacts
  <2> QED BY <2>1
<1> DEFINE label == Labels[1].text
<1>2. IsLabel(label)
  BY <1>1 DEF AreClean
<1>3. "l" \notin Closing /\ "m" \notin Closing
  BY ClosingFacts DEF AreClean
<1>4. x # <<>> /\ Last(x) \notin Closing /\ Len(x) \in Nat
  <2>1. Len(x) \in Nat /\ Len(x) >= 1 /\ (x[Len(x)] = "l" \/ x[Len(x)] = "m")
    BY LenProperties DEF EndsInMarker, LastIs, LastArePair
  <2>2. Len(<<>>) = 0
    OBVIOUS
  <2> QED BY <1>3, <2>1, <2>2 DEF Last
<1>5. \E n \in 1..3 : n <= Len(x) /\ IsSuffix(SubSeq(label, 1, n), x)
  <2> HIDE DEF label
  <2>1. CASE LastIs(x, "l")
    <3>1. 1 <= Len(x) /\ IsSuffix(SubSeq(label, 1, 1), x)
      BY <1>2, <2>1, BeginningIsSuffix
    <3> QED BY <3>1
  <2>2. CASE LastArePair(x)
    <3>1. 2 <= Len(x) /\ IsSuffix(SubSeq(label, 1, 2), x)
      BY <1>2, <2>2, BeginningIsSuffix
    <3> QED BY <3>1
  <2> QED BY <2>1, <2>2 DEF EndsInMarker
<1> QED BY <1>1, <1>4, <1>5 DEF HasIncompleteLabel

CharEvent == EventSet(Channel, Char)

\* Events and texts, with the set of symbols forgotten.
LEMMA CharEvents ==
    ASSUME response \in Responses
    PROVE  /\ Event \subseteq CharEvent /\ \A evs \in Seq(Event) : evs \in Seq(CharEvent)
           /\ \A c \in Channel : Said[c] \in Seq(Char) /\ Len(Said[c]) \in Nat
<1>1. Seq(Symbols) \subseteq Seq(Char)
  BY SymbolFacts, SeqMonotonic
<1>2. Event \subseteq CharEvent
  BY <1>1 DEF Event, CharEvent, EventSet
<1>3. \A evs \in Seq(Event) : evs \in Seq(CharEvent)
  BY <1>2, SeqMonotonic
<1>4. \A c \in Channel : Said[c] \in Seq(Char) /\ Len(Said[c]) \in Nat
  BY ChannelFacts, LenProperties DEF Text
<1> QED BY <1>2, <1>3, <1>4

LookPiece == [e \in CharEvent |-> ExtractRedactableText(e)]

\* What is looked at is joined event by event, too.
LEMMA LookedMap ==
    ASSUME NEW evs \in Seq(CharEvent)
    PROVE  Looked(evs) = MapText(evs, LookPiece) /\ IsPiece(LookPiece, CharEvent, Char)
<1>1. \A i \in DOMAIN evs : evs[i] \in CharEvent
  OBVIOUS
<1>2. [i \in DOMAIN evs |-> ExtractRedactableText(evs[i])] = Pieces(evs, LookPiece)
  BY <1>1 DEF Pieces, LookPiece
<1>3. Looked(evs) = MapText(evs, LookPiece)
  BY <1>2, Zenon DEF Looked, MapText
<1>4. \A e \in CharEvent : ExtractRedactableText(e) \in Seq(Char)
  <2> TAKE e \in CharEvent
  <2> DEFINE t == e.text
  <2>1. t \in Seq(Char) /\ <<>> \in Seq(Char) /\ t \o t \in Seq(Char)
    <3>1. t \in Seq(Char)
      BY DEF CharEvent, EventSet
    <3> HIDE DEF t
    <3> QED BY <3>1, ConcatProperties
  <2>2. ExtractRedactableText(e) \in {<<>>, t \o t, t}
    BY DEF ExtractRedactableText
  <2> HIDE DEF t
  <2> QED BY <2>1, <2>2
<1>5. IsPiece(LookPiece, CharEvent, Char)
  BY <1>4 DEF IsPiece, LookPiece
<1> QED BY <1>3, <1>5

LEMMA LookedAppend ==
    ASSUME NEW evs \in Seq(CharEvent), NEW e \in CharEvent
    PROVE  /\ Looked(Append(evs, e)) = Looked(evs) \o ExtractRedactableText(e)
           /\ Looked(evs) \in Seq(Char) /\ ExtractRedactableText(e) \in Seq(Char)
<1> DEFINE u == Append(evs, e)
<1>1. u \in Seq(CharEvent)
  BY AppendIndex
<1>2. IsPiece(LookPiece, CharEvent, Char)
  BY LookedMap
<1>3. MapText(u, LookPiece) = MapText(evs, LookPiece) \o LookPiece[e] /\ MapText(evs, LookPiece) \in Seq(Char)
  BY <1>2, MapAppend, MapType
<1>4. LookPiece[e] = ExtractRedactableText(e) /\ LookPiece[e] \in Seq(Char)
  BY <1>2 DEF LookPiece, IsPiece
<1> HIDE DEF u
<1>5. Looked(u) = MapText(u, LookPiece) /\ Looked(evs) = MapText(evs, LookPiece)
  BY <1>1, LookedMap
<1> QED BY <1>3, <1>4, <1>5 DEF u

LEMMA LookedType == \A evs \in Seq(CharEvent) : Looked(evs) \in Seq(Char)
BY LookedMap, MapType

LEMMA LookedEmpty == Looked(<<>>) = <<>>
<1> DEFINE t == <<>>
<1>1. t \in Seq(CharEvent)
  OBVIOUS
<1> HIDE DEF t
<1>2. Looked(t) = MapText(t, LookPiece)
  BY <1>1, LookedMap
<1> QED BY <1>2, MapEmpty DEF t

\* Of a channel without events nothing is read.
LEMMA TextInNone ==
    ASSUME NEW C, NEW S, NEW evs \in Seq(EventSet(C, S)), NEW c, \A i \in DOMAIN evs : evs[i].ch # c
    PROVE  TextIn(evs, c) = <<>>
<1> DEFINE E == EventSet(C, S)
           p == ChannelPiece(c, E)
<1>1. \A i \in DOMAIN evs : p[evs[i]] = <<>>
  <2>1. \A i \in DOMAIN evs : evs[i] \in E
    OBVIOUS
  <2> HIDE DEF E
  <2> QED BY <2>1 DEF ChannelPiece
<1>2. TextIn(evs, c) = MapText(evs, p) /\ IsPiece(p, E, S)
  BY TextInMap, PieceTypes
<1> HIDE DEF p, E
<1>3. evs \in Seq(E)
  BY DEF E
<1> QED BY <1>1, <1>2, <1>3, MapNone

\* Nothing follows the events of the channel.
IsLastChannel(evs, c) == \A i, j \in DOMAIN evs : i < j /\ evs[i].ch = c => evs[j].ch = c

\* What is looked at ends with the text of the last channel.
LEMMA LookedEnd ==
    ASSUME NEW c, Kind[c] \notin Unlooked \cup Unrestored
    PROVE  \A evs \in Seq(CharEvent) :
            IsLastChannel(evs, c) /\ (\A i \in DOMAIN evs : evs[i].json)
                => \E a \in Seq(Char) : Looked(evs) = a \o TextIn(evs, c)
<1> DEFINE Claim(u) == IsLastChannel(u, c) /\ (\A i \in DOMAIN u : u[i].json)
                            => \E a \in Seq(Char) : Looked(u) = a \o TextIn(u, c)
           T == {u \in Seq(CharEvent) : Claim(u)}
<1>1. <<>> \in T
  <2>1. <<>> \in Seq(Char) /\ <<>> \o <<>> = <<>> /\ <<>> \in Seq(CharEvent)
    OBVIOUS
  <2>2. Looked(<<>>) = <<>> \o TextIn(<<>>, c)
    BY <2>1, LookedEmpty, TextInEmpty
  <2> QED BY <2>1, <2>2
<1>2. \A u \in Seq(CharEvent), e \in CharEvent : u \in T => Append(u, e) \in T
  <2> TAKE u \in Seq(CharEvent), e \in CharEvent
  <2> HAVE u \in T
  <2> DEFINE v == Append(u, e)
             m == Len(u)
             t == TextIn(u, c)
             x == Looked(u)
  <2>1. v \in Seq(CharEvent) /\ Len(v) = m + 1 /\ v[m + 1] = e /\ \A i \in 1..m : v[i] = u[i]
    BY AppendIndex
  <2>2. DOMAIN u = 1..m /\ m \in Nat
    BY LenProperties
  <2>3. Looked(v) = x \o ExtractRedactableText(e) /\ x \in Seq(Char)
    BY LookedAppend
  <2>4. TextIn(v, c) = t \o (IF e.ch = c /\ e.json THEN e.text ELSE <<>>) /\ t \in Seq(Char)
    BY TextInAppend, TextInType DEF CharEvent
  <2>5. Claim(u)
    OBVIOUS
  <2> HIDE DEF v, m, t, x, Claim
  <2>6. DOMAIN v = 1..m + 1
    BY <2>1, LenProperties
  <2>7. SUFFICES ASSUME IsLastChannel(v, c), \A i \in DOMAIN v : v[i].json
                 PROVE  \E a \in Seq(Char) : Looked(v) = a \o TextIn(v, c)
    BY <2>1 DEF v, Claim
  <2>8. \A i \in 1..m : i \in DOMAIN v /\ i < m + 1
    BY <2>2, <2>6
  <2>9. IsLastChannel(u, c) /\ \A i \in DOMAIN u : u[i].json
    BY <2>1, <2>2, <2>7, <2>8 DEF IsLastChannel
  <2>10. PICK a \in Seq(Char) : x = a \o t
    BY <2>5, <2>9 DEF Claim, x, t
  <2>11. m + 1 \in DOMAIN v
    BY <2>2, <2>6
  <2>12. CASE e.ch = c
    <3> DEFINE w == e.text
    <3>1. w \in Seq(Char)
      BY DEF CharEvent, EventSet
    <3>2. ExtractRedactableText(e) = w /\ e.json
      BY <2>1, <2>7, <2>11, <2>12 DEF ExtractRedactableText, Unrestored
    <3> HIDE DEF w
    <3>3. Looked(v) = (a \o t) \o w /\ TextIn(v, c) = t \o w
      BY <2>3, <2>4, <2>10, <2>12, <3>2 DEF w
    <3>4. (a \o t) \o w = a \o (t \o w)
      BY <2>4, <3>1, ConcatAssociative
    <3> QED BY <3>3, <3>4
  <2>13. CASE e.ch # c
    <3>1. \A i \in DOMAIN u : u[i].ch # c
      BY <2>1, <2>2, <2>7, <2>8, <2>11, <2>13 DEF IsLastChannel
    <3>2. t = <<>>
      BY <3>1, TextInNone DEF t, CharEvent
    <3>3. TextIn(v, c) = <<>>
      <4>1. t \o <<>> = t
        BY <2>4, ConcatEmptySeq
      <4> QED BY <2>4, <2>13, <3>2, <4>1
    <3> DEFINE b == Looked(v)
    <3>4. b \in Seq(Char)
      BY <2>1, LookedType
    <3> HIDE DEF b
    <3>5. b = b \o <<>>
      BY <3>4, ConcatEmptySeq
    <3> QED BY <3>3, <3>4, <3>5 DEF b
  <2> QED BY <2>12, <2>13
<1>3. Seq(CharEvent) \subseteq T
  <2> HIDE DEF T
  <2> QED BY <1>1, <1>2, SeqSetInduction
<1>4. \A evs \in Seq(CharEvent) : evs \in T
  <2> HIDE DEF T
  <2> QED BY <1>3
<1> QED BY <1>4

-----------------------------------------------------------------------------
(* What the client is shown *)

\* The text may be cut here: no label continues after it.
Safe(c, x) == ~EndsInMarker(x) \/ x = Said[c] \/ Plain(c)

\* Restoring goes part by part where the text may be cut.
LEMMA SafeSplit ==
    ASSUME response \in Responses, Restorable(response), NEW c \in Channel,
           NEW x, NEW t, NEW z, Parts(c, x, t, z), Safe(c, x)
    PROVE  UnredactAll(x \o t) = UnredactAll(x) \o UnredactAll(t)
<1>0. x \in Seq(Char) /\ t \in Seq(Char) /\ z \in Seq(Char) /\ Said[c] = (x \o t) \o z
  BY DEF Parts
<1>1. AreClean(Labels)
  BY RestorableFacts
<1>2. CASE ~EndsInMarker(x)
  BY <1>0, <1>1, <1>2, RestoreSplits
<1>3. CASE x = Said[c]
  <2> DEFINE u == UnredactAll(x)
             y == x \o t
  <2>1. y \in Seq(Char) /\ Len(y) = Len(x) + Len(t)
    BY <1>0, ConcatProperties
  <2>2. Len(y \o z) = Len(y) + Len(z)
    <3> HIDE DEF y
    <3> QED BY <1>0, <2>1, ConcatProperties
  <2>3. Len(x) \in Nat /\ Len(t) \in Nat /\ Len(z) \in Nat
    BY <1>0, LenProperties
  <2>4. Len(x) = Len(y) + Len(z)
    BY <1>0, <1>3, <2>2
  <2> HIDE DEF y
  <2>5. Len(t) = 0
    BY <2>1, <2>3, <2>4
  <2>6. t = <<>>
    BY <1>0, <2>5, EmptySeq
  <2>7. u \in Seq(Char)
    BY <1>0, <1>1, CleanAreLabels, RestoreType
  <2> HIDE DEF u
  <2>8. u \o <<>> = u /\ x \o <<>> = x
    BY <1>0, <2>7, ConcatEmptySeq
  <2>9. UnredactAll(<<>>) = <<>>
    BY <1>1, RestoreEmpty
  <2>10. UnredactAll(x \o t) = u
    BY <2>6, <2>8, Zenon DEF u
  <2>11. u \o UnredactAll(t) = u
    BY <2>6, <2>8, <2>9, Zenon
  <2>12. UnredactAll(x \o t) = u \o UnredactAll(t)
    BY <2>10, <2>11
  <2> QED BY <2>12 DEF u
<1>4. CASE Plain(c)
  <2>1. UnredactAll(x) = x /\ UnredactAll(t) = t /\ UnredactAll(x \o t) = x \o t
    BY <1>4, PlainParts
  <2> QED BY <2>1
<1> QED BY <1>2, <1>3, <1>4 DEF Safe

\* Restored events hold the text of a channel with its labels restored.
LEMMA RestoredText ==
    ASSUME response \in Responses, Restorable(response), NEW c \in Channel,
           Rebuilt(response),
           NEW evs \in Seq(Event), \A i \in DOMAIN evs : evs[i].json,
           NEW x, NEW z, Parts(c, x, TextIn(evs, c), z)
    PROVE  TextIn(RebuildSSE(evs), c) = UnredactAll(TextIn(evs, c))
<1> DEFINE t == TextIn(evs, c)
<1>1. evs \in Seq(CharEvent)
  BY CharEvents
<1>2. t \in Seq(Char)
  BY <1>1, TextInType DEF CharEvent
<1>3. evs \in Seq(EventSet(Channel, Char))
  BY <1>1 DEF CharEvent
<1>4. CASE Kind[c] \in Unrestored
  <2>1. Plain(c)
    BY <1>4, RestorableFacts
  <2>2. UnredactAll(t) = t
    BY <2>1, PlainParts
  <2>3. TextIn(RebuildSSE(evs), c) = t
    BY <1>3, <1>4, RebuildUnrestored
  <2> QED BY <2>2, <2>3
<1>5. CASE Kind[c] \notin Unrestored
  <2>1. AreLabels(Labels, Char) /\ UnredactAll(<<>>) = <<>>
    BY RestorableFacts, CleanAreLabels, RestoreEmpty
  <2>2. \A i \in DOMAIN evs : evs[i].ch \in Channel
    <3>1. \A i \in DOMAIN evs : evs[i] \in Event
      OBVIOUS
    <3> QED BY <3>1 DEF Event
  <2>3. \A i \in DOMAIN evs : InGroup(Group(c), evs[i]) <=> evs[i].ch = c
    <3>1. \A d \in Channel : Kind[d] \notin Unrestored /\ Group(d) = Group(c) => d = c
      BY <1>5, RestorableFacts
    <3> QED BY <1>5, <2>2, <3>1 DEF InGroup, IsRestored
  <2> QED BY <1>3, <1>5, <2>1, <2>3, RebuildText
<1> QED BY <1>4, <1>5

\* What is emitted never ends in the middle of a label.
LEMMA EmittedIsSafe ==
    ASSUME TypeOK, WireInv, Restorable(response), Api # "responses", Labels # <<>>,
           ~HasIncompleteLabel(Looked(Held)), NEW c \in Channel, NEW x \in Seq(Char),
           x \o TextIn(Held, c) = SubSeq(Said[c], 1, sent[c]), Safe(c, x)
    PROVE  Safe(c, x \o TextIn(Held, c))
<1> DEFINE t == TextIn(Held, c)
<1>0. response \in Responses
  BY DEF TypeOK
<1>1. Held \in Seq(Event) /\ Held \in Seq(CharEvent)
  BY <1>0, CharEvents DEF TypeOK, Held
<1>2. t \in Seq(Char)
  BY <1>1, TextInType DEF CharEvent
<1>3. Said[c] \in Seq(Char) /\ Len(Said[c]) \in Nat
  BY <1>0, CharEvents
<1>4. \A i \in DOMAIN Held : Held[i].json /\ Held[i].ch \in Channel
  <2>1. Good(Held, sent)
    BY GoodConcat DEF WireInv, TypeOK, Held
  <2>2. \A i \in DOMAIN Held : Held[i] \in Event
    BY <1>1
  <2> QED BY <2>1, <2>2 DEF Good, Event
<1> HIDE DEF t
<1>5. x \o t = SubSeq(Said[c], 1, sent[c])
  BY DEF t
<1>6. CASE Plain(c)
  BY <1>6 DEF Safe
<1>7. CASE sent[c] = Len(Said[c])
  <2>1. SubSeq(Said[c], 1, Len(Said[c])) = Said[c]
    BY <1>3, SubSeqFull
  <2>2. x \o t = Said[c]
    BY <1>5, <1>7, <2>1
  <2> QED BY <2>2 DEF Safe, t
<1>8. CASE t = <<>>
  <2>1. x \o t = x
    BY <1>8, ConcatEmptySeq
  <2> QED BY <2>1 DEF t
<1>9. CASE ~Plain(c) /\ sent[c] # Len(Said[c]) /\ t # <<>>
  <2>1. Kind[c] \notin Unlooked \cup Unrestored
    BY <1>0, <1>9, RestorableFacts
  <2>2. Ordered(Held, sent)
    BY <1>0, RestorableFacts DEF WireInv
  <2>3. IsLastChannel(Held, c)
    BY <1>9, <2>2 DEF Ordered, IsLastChannel
  <2>4. PICK a \in Seq(Char) : Looked(Held) = a \o t
    BY <1>1, <1>4, <2>1, <2>3, LookedEnd DEF t
  <2> DEFINE w == a \o t
             y == x \o t
  <2>5. w \in Seq(Char) /\ y \in Seq(Char)
    BY <1>2, ConcatProperties
  <2>6. ~EndsInMarker(w)
    <3> HIDE DEF w
    <3>1. Looked(Held) = w
      BY <2>4 DEF w
    <3> QED BY <1>0, <2>5, <3>1, IncompleteAtEnd, RestorableFacts
  <2>7. ~EndsInMarker(y)
    <3>1. PICK s \in Seq(Char), b \in Char : t = Append(s, b)
      <4>1. PICK s \in Seq(Char) : \E b \in Char : t = Append(s, b)
        BY <1>2, <1>9, SequenceEmptyOrAppend
      <4> QED BY <4>1
    <3>2. a \o t = Append(a \o s, b) /\ x \o t = Append(x \o s, b)
      BY <3>1, ConcatAppend
    <3> DEFINE p == a \o s
               q == x \o s
    <3>3. p \in Seq(Char) /\ q \in Seq(Char)
      BY ConcatProperties
    <3>4. w = Append(p, b) /\ y = Append(q, b)
      BY <3>2
    <3>5. CASE s # <<>>
      <4>1. LastIs(p, "l") <=> LastIs(q, "l")
        BY <3>5, LastOfConcat
      <4> HIDE DEF p, q, w, y
      <4> QED BY <2>6, <3>3, <3>4, <4>1, LastOfAppend DEF EndsInMarker
    <3>6. CASE s = <<>>
      <4>1. q = x
        BY <3>6, ConcatEmptySeq
      <4>2. ~EndsInMarker(x)
        <5>1. x # Said[c]
          <6>1. Len(y) = Len(x) + Len(t)
            BY <1>2, ConcatProperties
          <6>2. Len(y) <= Len(Said[c])
            <7>1. sent[c] \in Nat /\ sent[c] <= Len(Said[c])
              BY DEF TypeOK
            <7>2. Len(SubSeq(Said[c], 1, sent[c])) = sent[c]
              <8> DEFINE sd == Said[c]
                         sn == sent[c]
              <8>1. \A i \in 1..sn : sd[i] \in Char
                <9>1. \A i \in 1..sn : i \in 1..Len(sd)
                  BY <1>3, <7>1
                <9>2. sd \in Seq(Char)
                  BY <1>3
                <9> HIDE DEF sd, sn
                <9> QED BY <9>1, <9>2, ElementOfSeq
              <8>2. sn \in Nat
                BY <7>1
              <8> HIDE DEF sd, sn
              <8>3. Len(SubSeq(sd, 1, sn)) = IF 1 <= sn THEN sn - 1 + 1 ELSE 0
                BY <8>1, <8>2, SubSeqProperties
              <8>4. Len(SubSeq(sd, 1, sn)) = sn
                BY <8>2, <8>3
              <8> QED BY <8>4 DEF sd, sn
            <7> QED BY <1>5, <7>1, <7>2
          <6>3. Len(t) > 0 /\ Len(x) \in Nat
            <7>1. Len(t) \in Nat /\ Len(x) \in Nat
              BY <1>2, LenProperties
            <7>2. Len(t) # 0
              BY <1>2, <1>9, EmptySeq
            <7> QED BY <7>1, <7>2
          <6> HIDE DEF y
          <6> QED BY <6>1, <6>2, <6>3
        <5> QED BY <1>9, <5>1 DEF Safe
      <4> HIDE DEF p, q, w, y
      <4> QED BY <2>6, <3>3, <3>4, <4>1, <4>2, LastOfAppend DEF EndsInMarker
    <3> QED BY <3>5, <3>6
  <2> QED BY <2>7 DEF Safe, t
<1> QED BY <1>6, <1>7, <1>8, <1>9

\* What has been sent and is not shown: what is held, what waits, what is left.
Pending == Held \o rawBuffer_

\* The client has seen the text x of the channel, restored.
IsShown(c, x, text) ==
    /\ text = UnredactAll(x) /\ Safe(c, x)
    /\ \E z \in Seq(Char) : Said[c] = x \o z

\* What the client has seen of a channel, and what is on its way to it.
ChannelInv(c) ==
    \E x \in Seq(Char) :
        /\ IsShown(c, x, shown[c])
        /\ phase = "open" => x \o TextIn(Pending, c) = SubSeq(Said[c], 1, sent[c])
        /\ phase = "done" => x = Said[c]

\* What is shown, when the response stays.
LEMMA SameShown ==
    ASSUME response' = response
    PROVE  \A c, x, text : IsShown(c, x, text)' <=> IsShown(c, x, text)
<1>1. \A x : UnredactAll(x)' = UnredactAll(x)
  BY DEF UnredactAll, Labels
<1>2. \A c, x : Safe(c, x)' <=> Safe(c, x)
  BY DEF Safe, Plain, Labels, Said
<1> QED BY <1>1, <1>2 DEF IsShown, Said

\* Types of what has not been shown.
LEMMA PendingEvents ==
    ASSUME TypeOK
    PROVE  /\ Held \in Seq(CharEvent) /\ Pending \in Seq(CharEvent)
           /\ \A c \in Channel : TextIn(Held, c) \in Seq(Char) /\ TextIn(Pending, c) \in Seq(Char)
<1>1. events_ \in Seq(CharEvent) /\ wire \in Seq(CharEvent) /\ rawBuffer_ \in Seq(CharEvent)
  BY CharEvents DEF TypeOK
<1>2. Held \in Seq(CharEvent)
  BY <1>1, ConcatProperties DEF Held
<1>3. Pending \in Seq(CharEvent)
  BY <1>1, <1>2, ConcatProperties DEF Pending
<1> QED BY <1>2, <1>3, TextInType DEF CharEvent

\* What has been sent is a beginning of what is said.
LEMMA SentPart ==
    ASSUME TypeOK, NEW c \in Channel
    PROVE  /\ \A n \in 0..Len(Said[c]) : SubSeq(Said[c], 1, n) \in Seq(Char)
           /\ \A n \in 0..Len(Said[c]) : \A m \in 0..n :
                SubSeq(Said[c], 1, n) = SubSeq(Said[c], 1, m) \o SubSeq(Said[c], m + 1, n)
           /\ \A n \in 0..Len(Said[c]) : \A m \in 0..n : SubSeq(Said[c], m + 1, n) \in Seq(Char)
           /\ SubSeq(Said[c], 1, Len(Said[c])) = Said[c]
           /\ sent[c] \in 0..Len(Said[c])
<1> DEFINE s == Said[c]
           m == Len(s)
<1>1. s \in Seq(Char) /\ m \in Nat
  BY CharEvents DEF TypeOK
<1>2. sent[c] \in 0..m
  BY <1>1 DEF TypeOK
<1> HIDE DEF s, m
<1>3. \A i \in 1..m : s[i] \in Char
  BY <1>1, ElementOfSeq DEF m
<1>4. SubSeq(s, 1, m) = s
  BY <1>1, SubSeqFull DEF m
<1>5. \A n \in 0..m : \A k \in 0..n : SubSeq(s, k + 1, n) \in Seq(Char)
  <2> TAKE n \in 0..m
  <2> TAKE k \in 0..n
  <2>1. \A i \in k + 1 .. n : s[i] \in Char
    BY <1>1, <1>3
  <2>2. k + 1 \in Int /\ n \in Int
    OBVIOUS
  <2> QED BY <2>1, <2>2, SubSeqProperties
<1>6. \A n \in 0..m : SubSeq(s, 1, n) \in Seq(Char)
  <2> TAKE n \in 0..m
  <2>1. \A i \in 1 .. n : s[i] \in Char
    BY <1>1, <1>3
  <2> QED BY <2>1, SubSeqProperties
<1>7. \A n \in 0..m : \A k \in 0..n : SubSeq(s, 1, n) = SubSeq(s, 1, k) \o SubSeq(s, k + 1, n)
  <2> TAKE n \in 0..m
  <2> TAKE k \in 0..n
  <2>1. 1 \in 1..Len(s) + 1 /\ k \in 1 - 1 .. Len(s) /\ n \in k .. Len(s)
    BY <1>1 DEF m
  <2> QED BY <1>1, <2>1, ConcatAdjacentSubSeq
<1> QED BY <1>2, <1>4, <1>5, <1>6, <1>7 DEF s, m

\* Pieces that are shown restored leave a channel shown restored.
LEMMA MoreIsShown ==
    ASSUME response \in Responses, Restorable(response), NEW c \in Channel,
           NEW x, NEW t, NEW z, Parts(c, x, t, z), IsShown(c, x, shown[c]),
           shown'[c] = shown[c] \o UnredactAll(t), Safe(c, x \o t)
    PROVE  IsShown(c, x \o t, shown'[c])
<1>1. Safe(c, x) /\ shown[c] = UnredactAll(x)
  BY DEF IsShown
<1>2. UnredactAll(x \o t) = UnredactAll(x) \o UnredactAll(t)
  BY <1>1, SafeSplit
<1>3. \E v \in Seq(Char) : Said[c] = (x \o t) \o v
  BY DEF Parts
<1> QED BY <1>1, <1>2, <1>3 DEF IsShown

\* Of a channel as it is, its text splits into what is shown, what is on its way
\* and the rest.
LEMMA PendingPart ==
    ASSUME TypeOK, phase = "open", NEW c \in Channel, NEW x \in Seq(Char),
           x \o TextIn(Pending, c) = SubSeq(Said[c], 1, sent[c])
    PROVE  /\ \E z : Parts(c, x, TextIn(Pending, c), z)
           /\ sent[c] = Len(Said[c]) => x \o TextIn(Pending, c) = Said[c]
<1> DEFINE t == TextIn(Pending, c)
           b == SubSeq(Said[c], 1, sent[c])
           z == SubSeq(Said[c], sent[c] + 1, Len(Said[c]))
<1>1. t \in Seq(Char)
  BY PendingEvents
<1>2. b \in Seq(Char) /\ z \in Seq(Char) /\ Said[c] = b \o z
        /\ (sent[c] = Len(Said[c]) => b = Said[c])
  <2>1. sent[c] \in 0..Len(Said[c]) /\ Len(Said[c]) \in 0..Len(Said[c])
    BY CharEvents DEF TypeOK
  <2> QED BY <2>1, SentPart
<1> HIDE DEF t, b, z
<1>3. x \o t = b
  BY DEF t, b
<1>4. Said[c] = (x \o t) \o z
  BY <1>2, <1>3
<1>5. Parts(c, x, t, z)
  BY <1>1, <1>2, <1>4 DEF Parts
<1> QED BY <1>2, <1>3, <1>5 DEF t

\* Nothing is shown of a channel at the start.
LEMMA InitShown == Init /\ Restorable(response) => \A c \in Channel : ChannelInv(c)
<1> SUFFICES ASSUME Init, Restorable(response), NEW c \in Channel PROVE ChannelInv(c)
  OBVIOUS
<1>0. response \in Responses /\ TypeOK
  BY InitType DEF Init
<1> DEFINE x == <<>>
           s == Said[c]
<1>1. x \in Seq(Char) /\ x \o x = x
  OBVIOUS
<1>2. s \in Seq(Char)
  BY <1>0, CharEvents
<1>3. shown[c] = x /\ sent[c] = 0 /\ phase = "open" /\ Pending = <<>>
  BY <1>1 DEF Init, Pending, Held
<1> HIDE DEF x, s
<1>4. s = x \o s
  BY <1>2, ConcatEmptySeq DEF x
<1>5. IsShown(c, x, shown[c])
  <2>1. UnredactAll(x) = x
    BY <1>0, RestorableFacts, RestoreEmpty DEF x
  <2>2. ~EndsInMarker(x)
    BY LastOfEmpty DEF x
  <2>3. \E z \in Seq(Char) : Said[c] = x \o z
    BY <1>2, <1>4 DEF s
  <2> QED BY <1>3, <2>1, <2>2, <2>3 DEF IsShown, Safe
<1>6. x \o TextIn(Pending, c) = SubSeq(Said[c], 1, sent[c])
  <2>1. TextIn(Pending, c) = x
    BY <1>3, TextInEmpty DEF x
  <2>2. SubSeq(s, 1, 0) = x
    BY <1>2, SubSeqEmpty DEF x
  <2> QED BY <1>1, <1>3, <2>1, <2>2 DEF s
<1> QED BY <1>1, <1>3, <1>5, <1>6 DEF ChannelInv

\* Upstream says more: it is on its way to the client.
LEMMA SayShown ==
    ASSUME TypeOK, WireInv, NEW d \in Channel, Say(d), NEW c \in Channel, ChannelInv(c)
    PROVE  ChannelInv(c)'
<1>1. PICK n \in sent[d] + 1 .. Len(Said[d]), e \in Event :
            /\ e = [ch |-> d, text |-> SubSeq(Said[d], sent[d] + 1, n), json |-> TRUE]
            /\ rawBuffer_ = <<>> /\ sent' = [sent EXCEPT ![d] = n]
            /\ \/ wire' = Append(wire, e) /\ rawBuffer_' = <<>>
               \/ wire' = wire /\ rawBuffer_' = <<e>> /\ AllSent(sent') /\ ~response.terminated
            /\ response' = response /\ events_' = events_ /\ shown' = shown /\ phase' = phase /\ phase = "open"
  BY SayStep
<1>2. PICK x \in Seq(Char) : /\ IsShown(c, x, shown[c])
                             /\ x \o TextIn(Pending, c) = SubSeq(Said[c], 1, sent[c])
  BY <1>1 DEF ChannelInv
<1>3. e \in CharEvent /\ wire \in Seq(CharEvent) /\ events_ \in Seq(CharEvent)
  BY CharEvents DEF TypeOK
<1>4. Pending' = Append(Pending, e)
  <2> DEFINE h == Held
  <2>1. h \in Seq(CharEvent)
    BY PendingEvents
  <2> HIDE DEF h
  <2>2. h \o <<>> = h /\ h \o <<e>> = Append(h, e)
    BY <1>3, <2>1, ConcatEmptySeq, AppendIsConcat
  <2>3. Append(h, e) \o <<>> = Append(h, e)
    BY <1>3, <2>1, AppendIndex, ConcatEmptySeq
  <2>4. Pending = h
    BY <1>1, <2>2 DEF Pending, h
  <2>5. CASE wire' = Append(wire, e) /\ rawBuffer_' = <<>>
    <3>1. Held' = Append(h, e)
      BY <1>1, <1>3, <2>5, ConcatAppend DEF Held, h
    <3> QED BY <2>3, <2>4, <2>5, <3>1 DEF Pending
  <2>6. CASE wire' = wire /\ rawBuffer_' = <<e>>
    <3>1. Held' = h
      BY <1>1, <2>6 DEF Held, h
    <3> QED BY <2>2, <2>4, <2>6, <3>1 DEF Pending
  <2> QED BY <1>1, <2>5, <2>6
<1> DEFINE t == TextIn(Pending, c)
           b == SubSeq(Said[c], 1, sent[c])
<1>5. t \in Seq(Char)
  BY PendingEvents
<1>6. TextIn(Pending', c) = t \o (IF e.ch = c /\ e.json THEN e.text ELSE <<>>)
  BY <1>3, <1>4, PendingEvents, TextInAppend DEF CharEvent
<1>7. x \o TextIn(Pending', c) = SubSeq(Said[c], 1, sent'[c])
  <2>1. CASE c # d
    <3>1. t \o <<>> = t
      BY <1>5, ConcatEmptySeq
    <3>2. sent'[c] = sent[c]
      BY <1>1, <2>1 DEF TypeOK
    <3>3. TextIn(Pending', c) = t
      BY <1>1, <1>6, <2>1, <3>1
    <3> QED BY <1>2, <3>2, <3>3
  <2>2. CASE c = d
    <3> DEFINE w == SubSeq(Said[c], sent[c] + 1, n)
    <3>1. sent'[c] = n /\ n \in 0..Len(Said[c]) /\ sent[c] \in 0..n
      BY <1>1, <2>2, SentPart DEF TypeOK
    <3>2. w \in Seq(Char) /\ SubSeq(Said[c], 1, n) = b \o w
      BY <3>1, SentPart
    <3>3. TextIn(Pending', c) = t \o w
      BY <1>1, <1>6, <2>2
    <3> HIDE DEF w, t, b
    <3>4. x \o (t \o w) = (x \o t) \o w
      BY <1>5, <3>2, ConcatAssociative
    <3> QED BY <1>2, <3>1, <3>2, <3>3, <3>4 DEF t, b
  <2> QED BY <2>1, <2>2
<1>8. IsShown(c, x, shown[c])'
  BY <1>1, <1>2, SameShown
<1>9. Said' = Said
  BY <1>1, SameResponse
<1> QED BY <1>1, <1>7, <1>8, <1>9 DEF ChannelInv

\* A chunk arrives: what may be in the middle of a label is held, the rest shown.
LEMMA ChunkShown ==
    ASSUME TypeOK, WireInv, Restorable(response), OnChunk, NEW c \in Channel, ChannelInv(c)
    PROVE  ChannelInv(c)'
<1>0. response \in Responses /\ response' = response /\ phase = "open" /\ phase' = phase
  BY DEF TypeOK, OnChunk
<1>1. PICK x \in Seq(Char) : /\ IsShown(c, x, shown[c])
                             /\ x \o TextIn(Pending, c) = SubSeq(Said[c], 1, sent[c])
  BY <1>0 DEF ChannelInv
<1>2. wire' = <<>> /\ sent' = sent /\ rawBuffer_' = rawBuffer_
  BY DEF OnChunk
<1>3. events_ \in Seq(CharEvent) /\ wire \in Seq(CharEvent) /\ rawBuffer_ \in Seq(CharEvent)
  BY <1>0, CharEvents DEF TypeOK
<1>4. Said' = Said
  BY <1>0, SameResponse
<1>5. \/ events_' = Held /\ shown' = shown
      \/ Api # "responses" /\ ~response.marked /\ Emit(wire) /\ events_' = events_
      \/ Api # "responses" /\ Labels # <<>> /\ ~HasIncompleteLabel(Looked(Held))
            /\ response.marked /\ events_' = <<>> /\ Emit(RebuildSSE(Held))
  BY DEF OnChunk, MaybeProcess, NeedsUnredaction, Held, Looked, MaxLabelLen
<1>6. CASE events_' = Held /\ shown' = shown
  <2> DEFINE h == Held
  <2>1. h \o <<>> = h
    BY PendingEvents, ConcatEmptySeq
  <2> HIDE DEF h
  <2>2. events_' = h
    BY <1>6 DEF h
  <2>3. Held' = h
    BY <1>2, <2>1, <2>2 DEF Held
  <2>4. Pending' = Pending
    BY <1>2, <2>3 DEF Pending, h
  <2>5. IsShown(c, x, shown[c])'
    BY <1>0, <1>1, <1>6, SameShown
  <2> QED BY <1>0, <1>1, <1>2, <1>4, <2>4, <2>5 DEF ChannelInv
<1>7. ASSUME NEW t, NEW rest, Pending' = rest,
             TextIn(Pending, c) = t \o TextIn(rest, c), t \in Seq(Char), TextIn(rest, c) \in Seq(Char),
             shown'[c] = shown[c] \o UnredactAll(t), Safe(c, x \o t)
      PROVE  ChannelInv(c)'
  <2> DEFINE r == TextIn(rest, c)
             y == x \o t
  <2>1. PICK z : Parts(c, x, TextIn(Pending, c), z)
    BY <1>0, <1>1, PendingPart
  <2>2. t \in Text /\ r \in Text /\ x \in Text /\ y \in Text
    <3>1. t \in Text /\ r \in Text /\ x \in Text
      BY <1>7 DEF Text
    <3> QED BY <3>1, TextConcat
  <2>3. x \o (t \o r) = y \o r
    <3> HIDE DEF r
    <3> QED BY <2>2, TextAssociates
  <2>4. PICK v : Parts(c, x, t, v)
    <3>1. TextIn(Pending, c) = t \o r
      BY <1>7
    <3> HIDE DEF r
    <3> QED BY <2>1, <2>2, <3>1, FirstPart
  <2>7. IsShown(c, y, shown'[c])
    BY <1>0, <1>1, <1>7, <2>4, MoreIsShown
  <2>8. IsShown(c, y, shown[c])'
    <3> HIDE DEF y
    <3> QED BY <1>0, <2>7, SameShown
  <2>9. y \o r = SubSeq(Said[c], 1, sent[c])
    <3>1. TextIn(Pending, c) = t \o r
      BY <1>7
    <3> HIDE DEF r, y
    <3> QED BY <1>1, <2>3, <3>1
  <2>10. TextIn(Pending', c) = r
    BY <1>7
  <2> HIDE DEF r, y
  <2> QED BY <1>0, <1>2, <1>4, <2>2, <2>8, <2>9, <2>10 DEF ChannelInv, Text
<1>8. CASE Api # "responses" /\ ~response.marked /\ Emit(wire) /\ events_' = events_
  <2> DEFINE t == TextIn(wire, c)
             raw == rawBuffer_
  <2>1. events_ = <<>> /\ events_' = <<>>
    BY <1>8 DEF WireInv
  <2>2. <<>> \o wire = wire /\ <<>> \o <<>> = <<>> /\ <<>> \o rawBuffer_ = rawBuffer_
    BY <1>3, ConcatEmptySeq
  <2>3. Pending = wire \o rawBuffer_ /\ Pending' = rawBuffer_
    BY <1>2, <2>1, <2>2 DEF Pending, Held
  <2>4. t \in Seq(Char) /\ TextIn(rawBuffer_, c) \in Seq(Char)
    BY <1>3, TextInType DEF CharEvent
  <2>5. TextIn(Pending, c) = t \o TextIn(rawBuffer_, c)
    <3>1. wire \in Seq(EventSet(Channel, Char)) /\ rawBuffer_ \in Seq(EventSet(Channel, Char))
      BY <1>3 DEF CharEvent
    <3>2. TextIn(wire \o rawBuffer_, c) = t \o TextIn(rawBuffer_, c)
      BY <3>1, TextInConcat
    <3> QED BY <2>3, <3>2
  <2>6. Plain(c)
    BY <1>0, <1>8, RestorableFacts, NoLabels
  <2>7. UnredactAll(t) = t
    <3>1. PICK z : Parts(c, x, TextIn(Pending, c), z)
      BY <1>0, <1>1, PendingPart
    <3>2. t \in Text /\ TextIn(rawBuffer_, c) \in Text
      BY <2>4 DEF Text
    <3> HIDE DEF t
    <3>3. \E v : Parts(c, x, t, v)
      BY <2>5, <3>1, <3>2, FirstPart
    <3> QED BY <1>0, <2>6, <3>3, PlainParts
  <2>8. shown'[c] = shown[c] \o t
    BY <1>8 DEF Emit
  <2>9. Safe(c, x \o t)
    BY <2>6 DEF Safe
  <2> HIDE DEF t
  <2> QED BY <1>7, <2>3, <2>4, <2>5, <2>7, <2>8, <2>9
<1>9. CASE Api # "responses" /\ Labels # <<>> /\ ~HasIncompleteLabel(Looked(Held))
            /\ response.marked /\ events_' = <<>> /\ Emit(RebuildSSE(Held))
  <2> DEFINE t == TextIn(Held, c)
  <2>1. rawBuffer_ = <<>>
    BY <1>0, <1>9, RestorableFacts DEF WireInv
  <2>2. Pending = Held /\ Pending' = <<>>
    <3>1. Held \o <<>> = Held /\ <<>> \o <<>> = <<>>
      BY PendingEvents, ConcatEmptySeq
    <3> QED BY <1>2, <1>9, <2>1, <3>1 DEF Pending, Held
  <2>3. t \in Seq(Char)
    BY PendingEvents
  <2>4. TextIn(<<>>, c) = <<>> /\ <<>> \in Seq(Char)
    BY TextInEmpty
  <2>5. TextIn(Pending, c) = t \o TextIn(<<>>, c)
    <3>1. t \o <<>> = t
      BY <2>3, ConcatEmptySeq
    <3> QED BY <2>2, <2>4, <3>1
  <2>6. PICK z : Parts(c, x, t, z)
    BY <1>0, <1>1, <2>2, PendingPart
  <2>7. shown'[c] = shown[c] \o UnredactAll(t)
    <3>1. TextIn(RebuildSSE(Held), c) = UnredactAll(t)
      <4>1. Held \in Seq(Event)
        BY DEF TypeOK, Held
      <4>2. \A i \in DOMAIN Held : Held[i].json
        <5>1. Good(Held, sent)
          BY GoodConcat DEF WireInv, TypeOK, Held
        <5> QED BY <5>1 DEF Good
      <4>3. Rebuilt(response)
        BY <1>9 DEF Rebuilt, Api
      <4> QED BY <1>0, <2>6, <4>1, <4>2, <4>3, RestoredText
    <3> QED BY <1>9, <3>1 DEF Emit
  <2>8. Safe(c, x \o t)
    BY <1>1, <1>9, <2>2, EmittedIsSafe DEF IsShown
  <2> HIDE DEF t
  <2> QED BY <1>7, <2>2, <2>3, <2>4, <2>5, <2>7, <2>8
<1> QED BY <1>5, <1>6, <1>8, <1>9

\* The body is complete: the rest is shown.
LEMMA FlushShown ==
    ASSUME TypeOK, WireInv, Restorable(response), Flush, NEW c \in Channel, ChannelInv(c)
    PROVE  ChannelInv(c)'
<1> DEFINE t == TextIn(Pending, c)
<1>0. response \in Responses /\ response' = response /\ phase = "open" /\ phase' = "done"
      /\ sent[c] = Len(Said[c]) /\ wire = <<>>
  BY DEF TypeOK, Flush, AllSent
<1>1. PICK x \in Seq(Char) : IsShown(c, x, shown[c]) /\ x \o t = SubSeq(Said[c], 1, sent[c])
  BY <1>0 DEF ChannelInv
<1>2. PICK z : Parts(c, x, t, z)
  BY <1>0, <1>1, PendingPart
<1>3. x \o t = Said[c]
  BY <1>0, <1>1, PendingPart
<1>4. events_ \in Seq(CharEvent) /\ rawBuffer_ \in Seq(CharEvent)
  BY <1>0, CharEvents DEF TypeOK
<1>5. events_ \o <<>> = events_ /\ Pending = events_ \o rawBuffer_
  <2>1. events_ \o <<>> = events_
    BY <1>4, ConcatEmptySeq
  <2> QED BY <1>0, <2>1 DEF Pending, Held
<1>6. SUFFICES shown'[c] = shown[c] \o UnredactAll(t)
  <2>1. Safe(c, x \o t)
    BY <1>3 DEF Safe
  <2>2. IsShown(c, x \o t, shown'[c])
    BY <1>0, <1>1, <1>2, <1>6, <2>1, MoreIsShown
  <2>3. IsShown(c, Said[c], shown'[c])
    BY <1>3, <2>2
  <2>4. PICK s \in Seq(Char) : s = Said[c]
    BY <1>0, CharEvents
  <2>5. IsShown(c, s, shown[c])'
    <3>1. IsShown(c, s, shown'[c])
      BY <2>3, <2>4
    <3> QED BY <1>0, <3>1, SameShown
  <2>6. Said' = Said
    BY <1>0, SameResponse
  <2> QED BY <1>0, <2>4, <2>5, <2>6 DEF ChannelInv
<1>7. ASSUME Emit(RebuildSSE(Pending)), Rebuilt(response)
      PROVE  shown'[c] = shown[c] \o UnredactAll(t)
  <2>1. Pending \in Seq(Event) /\ \A i \in DOMAIN Pending : Pending[i].json
    <3>1. events_ \in Seq(Event) /\ rawBuffer_ \in Seq(Event) /\ Pending \in Seq(Event)
      BY <1>5 DEF TypeOK
    <3>2. Good(Pending, sent)
      BY <1>5, <3>1, GoodConcat DEF WireInv
    <3> QED BY <3>1, <3>2 DEF Good
  <2>2. TextIn(RebuildSSE(Pending), c) = UnredactAll(t)
    BY <1>0, <1>2, <1>7, <2>1, RestoredText
  <2> QED BY <1>7, <2>2 DEF Emit
<1>8. CASE Api = "responses" /\ Labels # <<>>
  <2>1. Emit(RebuildSSE(events_ \o rawBuffer_))
    BY <1>8 DEF Flush
  <2>2. Rebuilt(response)
    BY <1>8 DEF Rebuilt, Api, Labels
  <2> QED BY <1>5, <1>7, <2>1, <2>2
<1>11. CASE Api = "responses" /\ Labels = <<>>
  <2>1. Emit(events_ \o rawBuffer_)
    BY <1>11 DEF Flush
  <2>2. UnredactAll(t) = t
    BY <1>0, <1>2, <1>11, NoLabels, PlainParts
  <2> QED BY <1>5, <2>1, <2>2 DEF Emit
<1>9. CASE Api # "responses" /\ response.marked
  <2>1. rawBuffer_ = <<>>
    BY <1>0, <1>9, RestorableFacts DEF WireInv
  <2>2. Emit(RebuildSSE(events_ \o Unparsed(rawBuffer_)))
    BY <1>9 DEF Flush, NeedsUnredaction
  <2>3. Unparsed(rawBuffer_) = <<>>
    BY <2>1 DEF Unparsed
  <2>4. Rebuilt(response)
    BY <1>9 DEF Rebuilt, Api
  <2> QED BY <1>5, <1>7, <2>1, <2>2, <2>3, <2>4
<1>10. CASE Api # "responses" /\ ~response.marked
  <2>1. events_ = <<>>
    BY <1>10 DEF WireInv
  <2>2. Pending = rawBuffer_
    <3>1. <<>> \o rawBuffer_ = rawBuffer_
      BY <1>4, ConcatEmptySeq
    <3> QED BY <1>5, <2>1, <3>1
  <2>3. UnredactAll(t) = t
    BY <1>0, <1>2, <1>10, RestorableFacts, NoLabels, PlainParts
  <2>4. CASE Api = "chat"
    <3>1. Emit(rawBuffer_)
      BY <1>10, <2>4 DEF Flush, NeedsUnredaction
    <3> QED BY <2>2, <2>3, <3>1 DEF Emit
  <2>5. CASE Api = "anthropic"
    <3>1. rawBuffer_ = <<>>
      BY <1>0, <2>5, RestorableFacts DEF WireInv
    <3>2. t = <<>>
      BY <2>2, <3>1, TextInEmpty
    <3>3. shown' = shown
      BY <1>10, <2>5 DEF Flush, NeedsUnredaction
    <3>4. shown[c] \in Seq(Symbols)
      BY DEF TypeOK
    <3>5. shown[c] \o <<>> = shown[c]
      <4> DEFINE s == shown[c]
      <4>1. s \in Seq(Symbols)
        BY <3>4
      <4> HIDE DEF s
      <4>2. s \o <<>> = s
        BY <4>1, ConcatEmptySeq
      <4> QED BY <4>2 DEF s
    <3> QED BY <2>3, <3>2, <3>3, <3>5
  <2> QED BY <1>0, <1>10, <2>4, <2>5, ChannelFacts DEF Apis
<1>12. response.marked \in BOOLEAN
  BY <1>0, ChannelFacts
<1> QED BY <1>8, <1>9, <1>10, <1>11, <1>12

\* What is shown is a beginning of the restored text.
LEMMA RestoredBeginning ==
    ASSUME response \in Responses, Restorable(response), NEW c \in Channel, NEW x \in Seq(Char),
           NEW text, IsShown(c, x, text)
    PROVE  IsPrefix(text, UnredactAll(Said[c]))
<1>1. PICK z \in Seq(Char) : Said[c] = x \o z
  BY DEF IsShown
<1> DEFINE a == UnredactAll(x)
           b == UnredactAll(z)
           w == x \o z
<1>2. UnredactAll(w) = a \o b
  <2>1. w \in Seq(Char) /\ <<>> \in Seq(Char)
    BY ConcatProperties
  <2>2. w \o <<>> = w
    <3> HIDE DEF w
    <3> QED BY <2>1, ConcatEmptySeq
  <2>3. Parts(c, x, z, <<>>)
    BY <1>1, <2>1, <2>2 DEF Parts
  <2>4. Safe(c, x)
    BY DEF IsShown
  <2> QED BY <2>3, <2>4, SafeSplit
<1>3. a \in Seq(Char) /\ b \in Seq(Char)
  BY RestorableFacts, CleanAreLabels, RestoreType
<1>4. text = a /\ UnredactAll(Said[c]) = a \o b
  BY <1>1, <1>2 DEF IsShown
<1> HIDE DEF a, b
<1>5. SubSeq(a \o b, 1, Len(a)) = a /\ SubSeq(a, 1, Len(a)) = a
  <2>1. Len(a) \in Nat
    BY <1>3, LenProperties
  <2>2. SubSeq(a \o b, 1, Len(a)) = SubSeq(a, 1, Len(a))
    BY <1>3, <2>1, SubSeqOfConcat1
  <2> QED BY <1>3, <2>2, SubSeqFull
<1>6. Len(a) <= Len(a \o b)
  BY <1>3, ConcatProperties, LenProperties
<1> QED BY <1>4, <1>5, <1>6 DEF IsPrefix

\* The invariant behind ShownIsRestored and AllShown.
RestoreInv == TypeOK /\ WireInv /\ \A c \in Channel : ChannelInv(c)

\* The invariant holds at the start, every step keeps it, and it is strong enough.
LEMMA ShownStep ==
    ASSUME \A r \in Responses : Restorable(r)
    PROVE  /\ Init => RestoreInv
           /\ RestoreInv /\ [Next]_vars => RestoreInv'
           /\ RestoreInv => ShownIsRestored /\ AllShown
<1>1. Init => RestoreInv
  BY InitType, InitWire, InitShown DEF RestoreInv, TypeOK
<1>2. ASSUME RestoreInv, [Next]_vars PROVE RestoreInv'
  <2>1. TypeOK' /\ WireInv'
    BY <1>2, TypeStep, WireStep DEF RestoreInv
  <2>2. response' = response /\ response \in Responses /\ Restorable(response)
    BY <1>2 DEF RestoreInv, TypeOK, Next, Say, OnChunk, Flush, Cut, vars
  <2>3. Channel' = Channel /\ Said' = Said
    BY <2>2, SameResponse
  <2>4. ASSUME NEW c \in Channel PROVE ChannelInv(c)'
    <3>1. TypeOK /\ WireInv /\ ChannelInv(c)
      BY <1>2, <2>4 DEF RestoreInv
    <3>2. ASSUME NEW d \in Channel, Say(d) PROVE ChannelInv(c)'
      BY <2>4, <3>1, <3>2, SayShown
    <3>3. CASE OnChunk
      BY <2>2, <2>4, <3>1, <3>3, ChunkShown
    <3>4. CASE Flush
      BY <2>2, <2>4, <3>1, <3>4, FlushShown
    <3>5. CASE Cut
      <4>1. PICK x \in Seq(Char) : IsShown(c, x, shown[c])
        BY <3>1 DEF ChannelInv
      <4>2. shown' = shown /\ phase' = "cut"
        BY <3>5 DEF Cut
      <4>3. IsShown(c, x, shown[c])'
        BY <2>2, <4>1, <4>2, SameShown
      <4> QED BY <4>2, <4>3 DEF ChannelInv
    <3>6. CASE UNCHANGED vars
      <4>1. PICK x \in Seq(Char) :
                /\ IsShown(c, x, shown[c])
                /\ phase = "open" => x \o TextIn(Pending, c) = SubSeq(Said[c], 1, sent[c])
                /\ phase = "done" => x = Said[c]
        BY <3>1 DEF ChannelInv
      <4>2. shown' = shown /\ phase' = phase /\ sent' = sent /\ Pending' = Pending
        BY <3>6 DEF vars, Pending, Held
      <4>3. IsShown(c, x, shown[c])'
        BY <2>2, <4>1, <4>2, SameShown
      <4> QED BY <2>3, <4>1, <4>2, <4>3 DEF ChannelInv
    <3> QED BY <1>2, <3>2, <3>3, <3>4, <3>5, <3>6 DEF Next
  <2> QED BY <2>1, <2>3, <2>4 DEF RestoreInv
<1>3. ASSUME RestoreInv PROVE ShownIsRestored /\ AllShown
  <2>1. response \in Responses /\ Restorable(response)
    BY <1>3 DEF RestoreInv, TypeOK
  <2>2. ASSUME NEW c \in Channel PROVE IsPrefix(shown[c], UnredactAll(Said[c]))
    BY <1>3, <2>1, RestoredBeginning DEF RestoreInv, ChannelInv
  <2>3. ASSUME phase = "done", NEW c \in Channel PROVE shown[c] = UnredactAll(Said[c])
    <3>1. PICK x \in Seq(Char) : IsShown(c, x, shown[c]) /\ x = Said[c]
      BY <1>3, <2>3 DEF RestoreInv, ChannelInv
    <3> QED BY <3>1 DEF IsShown
  <2> QED BY <2>2, <2>3 DEF ShownIsRestored, AllShown
<1> QED BY <1>1, <1>2, <1>3

\* ShownIsRestored, for every set of responses that can be restored: however
\* upstream splits the text, in whatever chunks it arrives and wherever the
\* stream breaks off, what the client has seen of a channel is a beginning of
\* the channel's text with every label restored (MaybeProcess, Flush).
THEOREM RestoredAsItStreams ==
    ASSUME \A r \in Responses : Restorable(r)
    PROVE  Spec => []ShownIsRestored
<1>1. Init => RestoreInv
  BY ShownStep
<1>2. RestoreInv /\ [Next]_vars => RestoreInv'
  BY ShownStep
<1>3. RestoreInv => ShownIsRestored
  BY ShownStep
<1> QED BY <1>1, <1>2, <1>3, PTL DEF Spec

\* AllShown, for every set of responses that can be restored: when the stream is
\* done nothing is left in a buffer, the client has seen each channel to its end.
THEOREM AllIsShown ==
    ASSUME \A r \in Responses : Restorable(r)
    PROVE  Spec => []AllShown
<1>1. Init => RestoreInv
  BY ShownStep
<1>2. RestoreInv /\ [Next]_vars => RestoreInv'
  BY ShownStep
<1>3. RestoreInv => AllShown
  BY ShownStep
<1> QED BY <1>1, <1>2, <1>3, PTL DEF Spec

-----------------------------------------------------------------------------
(* What is held back *)

\* Every marker that something follows is the beginning of a label.
Fine(x) == \A p \in 1..Len(x) - 2 : x[p] = "l" /\ x[p + 1] = "m" => x[p + 2] \in Closing

Unmarked(x) == \A p \in 1..Len(x) : x[p] # "l"

\* Parts of fine texts, and texts of fine parts, are fine.
LEMMA FineConcat ==
    ASSUME NEW a \in Seq(Char), NEW b \in Seq(Char)
    PROVE  /\ Fine(a) /\ Fine(b) /\ ~EndsInMarker(a) => Fine(a \o b)
           /\ Fine(a \o b) => Fine(a) /\ Fine(b)
           /\ Unmarked(a \o b) <=> Unmarked(a) /\ Unmarked(b)
<1> DEFINE w == a \o b
           m == Len(a)
           n == Len(b)
<1>1. w \in Seq(Char) /\ Len(w) = m + n
      /\ \A i \in 1..m + n : w[i] = IF i <= m THEN a[i] ELSE b[i - m]
  BY ConcatProperties
<1>2. m \in Nat /\ n \in Nat
  BY LenProperties
<1> HIDE DEF w
<1>3. \A i \in 1..m : w[i] = a[i]
  BY <1>1, <1>2
<1>4. \A i \in 1..n : w[m + i] = b[i]
  <2> TAKE i \in 1..n
  <2>1. m + i \in 1..m + n /\ ~(m + i <= m) /\ (m + i) - m = i
    BY <1>2
  <2> QED BY <1>1, <2>1
<1>5. ASSUME Fine(a), Fine(b), ~EndsInMarker(a) PROVE Fine(w)
  <2> SUFFICES ASSUME NEW p \in 1..Len(w) - 2, w[p] = "l", w[p + 1] = "m" PROVE w[p + 2] \in Closing
    BY DEF Fine
  <2>1. p \in Nat /\ p >= 1 /\ p + 2 <= m + n
    BY <1>1, <1>2
  <2>2. CASE p + 2 <= m
    <3>1. p \in 1..m - 2 /\ p \in 1..m /\ p + 1 \in 1..m /\ p + 2 \in 1..m
      BY <1>2, <2>1, <2>2
    <3>2. a[p] = "l" /\ a[p + 1] = "m" /\ w[p + 2] = a[p + 2]
      BY <1>3, <3>1
    <3> QED BY <1>5, <3>1, <3>2 DEF Fine
  <2>3. CASE p + 1 = m
    <3>1. p \in 1..m /\ p + 1 \in 1..m /\ p = m - 1 /\ m >= 2
      BY <1>2, <2>1, <2>3
    <3>2. a[m - 1] = "l" /\ a[m] = "m"
      <4>1. a[p] = "l" /\ a[p + 1] = "m"
        BY <1>3, <3>1
      <4> QED BY <2>3, <3>1, <4>1
    <3> QED BY <1>5, <3>1, <3>2 DEF EndsInMarker, LastArePair
  <2>4. CASE p = m
    <3>1. p \in 1..m /\ m >= 1
      BY <1>2, <2>1, <2>4
    <3>2. a[m] = "l"
      BY <1>3, <2>4, <3>1
    <3> QED BY <1>5, <3>1, <3>2 DEF EndsInMarker, LastIs
  <2>5. CASE p > m
    <3> DEFINE q == p - m
    <3>1. q \in 1..n - 2 /\ q \in 1..n /\ q + 1 \in 1..n /\ q + 2 \in 1..n
          /\ p = m + q /\ p + 1 = m + (q + 1) /\ p + 2 = m + (q + 2)
      BY <1>2, <2>1, <2>5
    <3> HIDE DEF q
    <3>2. w[p] = b[q] /\ w[p + 1] = b[q + 1] /\ w[p + 2] = b[q + 2]
      BY <1>4, <3>1
    <3> QED BY <1>5, <3>1, <3>2 DEF Fine
  <2> QED BY <1>2, <2>1, <2>2, <2>3, <2>4, <2>5
<1>6. ASSUME Fine(w) PROVE Fine(a)
  <2> SUFFICES ASSUME NEW p \in 1..m - 2, a[p] = "l", a[p + 1] = "m" PROVE a[p + 2] \in Closing
    BY DEF Fine
  <2>1. p \in 1..Len(w) - 2 /\ p \in 1..m /\ p + 1 \in 1..m /\ p + 2 \in 1..m
    BY <1>1, <1>2
  <2>2. w[p] = a[p] /\ w[p + 1] = a[p + 1] /\ w[p + 2] = a[p + 2]
    BY <1>3, <2>1
  <2> QED BY <1>6, <2>1, <2>2 DEF Fine
<1>7. ASSUME Fine(w) PROVE Fine(b)
  <2> SUFFICES ASSUME NEW p \in 1..n - 2, b[p] = "l", b[p + 1] = "m" PROVE b[p + 2] \in Closing
    BY DEF Fine
  <2> DEFINE q == m + p
  <2>1. q \in 1..Len(w) - 2 /\ p \in 1..n /\ p + 1 \in 1..n /\ p + 2 \in 1..n
        /\ q + 1 = m + (p + 1) /\ q + 2 = m + (p + 2)
    BY <1>1, <1>2
  <2>2. w[q] = b[p] /\ w[q + 1] = b[p + 1] /\ w[q + 2] = b[p + 2]
    BY <1>4, <2>1
  <2> HIDE DEF q
  <2> QED BY <1>7, <2>1, <2>2 DEF Fine
<1>8. Unmarked(w) => Unmarked(a) /\ Unmarked(b)
  <2> SUFFICES ASSUME Unmarked(w) PROVE Unmarked(a) /\ Unmarked(b)
    OBVIOUS
  <2>1. \A i \in 1..m : i \in 1..Len(w)
    BY <1>1, <1>2
  <2>2. \A i \in 1..n : m + i \in 1..Len(w)
    BY <1>1, <1>2
  <2>3. Unmarked(a)
    BY <1>3, <2>1 DEF Unmarked
  <2>4. Unmarked(b)
    BY <1>4, <2>2 DEF Unmarked
  <2> QED BY <2>3, <2>4
<1>9. Unmarked(a) /\ Unmarked(b) => Unmarked(w)
  <2> SUFFICES ASSUME Unmarked(a), Unmarked(b), NEW i \in 1..m + n PROVE w[i] # "l"
    BY <1>1 DEF Unmarked
  <2>1. CASE i <= m
    <3>1. i \in 1..m
      BY <1>2, <2>1
    <3> QED BY <1>3, <3>1 DEF Unmarked
  <2>2. CASE ~(i <= m)
    <3>1. i - m \in 1..n /\ m + (i - m) = i
      BY <1>2, <2>2
    <3> QED BY <1>1, <2>2, <3>1 DEF Unmarked
  <2> QED BY <2>1, <2>2
<1> QED BY <1>5, <1>6, <1>7, <1>8, <1>9 DEF w

\* Text without a marker is fine.
LEMMA UnmarkedIsFine ==
    ASSUME NEW x \in Seq(Char), Unmarked(x)
    PROVE  Fine(x) /\ ~EndsInMarker(x)
<1>1. Len(x) \in Nat
  BY LenProperties
<1>2. Fine(x)
  <2>1. \A p \in 1..Len(x) - 2 : p \in 1..Len(x)
    BY <1>1
  <2> QED BY <2>1 DEF Fine, Unmarked
<1>3. ~EndsInMarker(x)
  <2>1. Len(x) >= 1 => Len(x) \in 1..Len(x)
    BY <1>1
  <2>2. Len(x) >= 2 => Len(x) - 1 \in 1..Len(x)
    BY <1>1
  <2> QED BY <2>1, <2>2 DEF EndsInMarker, LastIs, LastArePair, Unmarked
<1> QED BY <1>2, <1>3

\* Two texts end in a marker if the second does.
LEMMA EndsLater ==
    ASSUME NEW s \in Seq(Char), NEW t \in Seq(Char), EndsInMarker(t)
    PROVE  EndsInMarker(s \o t)
<1> DEFINE w == s \o t
           m == Len(s)
           n == Len(t)
<1>1. w \in Seq(Char) /\ Len(w) = m + n
      /\ \A i \in 1..m + n : w[i] = IF i <= m THEN s[i] ELSE t[i - m]
  BY ConcatProperties
<1>2. m \in Nat /\ n \in Nat
  BY LenProperties
<1> HIDE DEF w, m, n
<1>3. n >= 1 => w[m + n] = t[n]
  <2> SUFFICES ASSUME n >= 1 PROVE w[m + n] = t[n]
    OBVIOUS
  <2>1. m + n \in 1..m + n /\ ~(m + n <= m) /\ (m + n) - m = n
    BY <1>2
  <2> QED BY <1>1, <2>1
<1>4. n >= 2 => w[m + n - 1] = t[n - 1]
  <2> SUFFICES ASSUME n >= 2 PROVE w[m + n - 1] = t[n - 1]
    OBVIOUS
  <2>1. m + n - 1 \in 1..m + n /\ ~(m + n - 1 <= m) /\ (m + n - 1) - m = n - 1
    BY <1>2
  <2> QED BY <1>1, <2>1
<1> QED BY <1>1, <1>2, <1>3, <1>4 DEF w, n, EndsInMarker, LastIs, LastArePair

\* A text without a label that has only begun is not held back.
LEMMA WholeLabels ==
    ASSUME response \in Responses, Labels # <<>>, NEW x \in Seq(Char), Fine(x), ~EndsInMarker(x)
    PROVE  ~HasIncompleteLabel(x)
<1>1. Len(x) \in Nat
  BY LenProperties
<1>2. ~ \E p \in 1..(Len(x) - 1) :
            /\ SubSeq(x, p, p + 1) = Marker
            /\ \A q \in p + 2 .. Len(x) : x[q] \in Closing => q >= p + 2 + MaxLabelLen
  <2> SUFFICES ASSUME NEW p \in 1..(Len(x) - 1), SubSeq(x, p, p + 1) = Marker,
                      \A q \in p + 2 .. Len(x) : x[q] \in Closing => q >= p + 2 + MaxLabelLen
               PROVE  FALSE
    OBVIOUS
  <2>1. x[p] = "l" /\ x[p + 1] = "m"
    <3> DEFINE w == SubSeq(x, p, p + 1)
    <3>1. \A i \in p .. p + 1 : i \in 1..Len(x)
      BY <1>1
    <3>2. \A i \in p .. p + 1 : x[i] \in Char
      BY <3>1, ElementOfSeq
    <3>3. \A i \in 1 .. (p + 1) - p + 1 : w[i] = x[p + i - 1]
      BY <3>2, SubSeqProperties
    <3>4. 1 \in 1 .. (p + 1) - p + 1 /\ 2 \in 1 .. (p + 1) - p + 1 /\ p + 1 - 1 = p /\ p + 2 - 1 = p + 1
      OBVIOUS
    <3>5. w[1] = x[p] /\ w[2] = x[p + 1]
      BY <3>3, <3>4
    <3>6. w = Marker
      BY Zenon
    <3> HIDE DEF w
    <3>7. w[1] = "l" /\ w[2] = "m"
      BY <3>6 DEF Marker
    <3> QED BY <3>5, <3>7
  <2>2. CASE p + 1 = Len(x)
    <3>1. Len(x) >= 2 /\ p = Len(x) - 1
      BY <1>1, <2>2
    <3>2. x[Len(x) - 1] = "l" /\ x[Len(x)] = "m"
      BY <2>1, <2>2, <3>1
    <3> QED BY <3>1, <3>2 DEF EndsInMarker, LastArePair
  <2>3. CASE p + 1 # Len(x)
    <3>1. p \in 1..Len(x) - 2 /\ p + 2 \in p + 2 .. Len(x)
      BY <1>1, <2>3
    <3>2. x[p + 2] \in Closing
      BY <2>1, <3>1 DEF Fine
    <3>3. p + 2 >= p + 2 + MaxLabelLen
      BY <3>1, <3>2
    <3>4. MaxLabelLen = 3
      BY DEF MaxLabelLen
    <3> QED BY <3>3, <3>4
  <2> QED BY <2>2, <2>3
<1>3. ASSUME NEW i \in DOMAIN Labels, NEW n \in 1..3, n <= Len(x),
             IsSuffix(SubSeq(Labels[i].text, 1, n), x), x # <<>>, Last(x) \notin Closing
      PROVE  FALSE
  <2> DEFINE label == Labels[i].text
  <2>1. IsLabel(label) /\ label[3] \in Closing
    BY LabelFacts, ClosingFacts
  <2> HIDE DEF label
  <2>2. n = 1 \/ n = 2 \/ n = 3
    OBVIOUS
  <2>3. n # 1 /\ n # 2
    BY <1>3, <2>1, BeginningIsSuffix DEF EndsInMarker, label
  <2>4. LastIs(x, label[3])
    <3>1. 3 <= Len(x) /\ IsSuffix(SubSeq(label, 1, 3), x)
      BY <1>3, <2>2, <2>3 DEF label
    <3> QED BY <2>1, <3>1, BeginningIsSuffix
  <2> QED BY <1>3, <2>1, <2>4 DEF LastIs, Last
<1> QED BY <1>2, <1>3 DEF HasIncompleteLabel

LastChannel(evs) == evs[Len(evs)].ch

IsLooked(c) == Kind[c] \notin Unlooked \cup {"details"}

\* Events of channels that follow one another and end, but for the last, with no
\* part of a label.
Clear(evs) ==
    /\ Contiguous(evs) /\ \A i \in DOMAIN evs : evs[i].json
    /\ \A c \in Channel : /\ Fine(TextIn(evs, c))
                          /\ Kind[c] = "details" => Unmarked(TextIn(evs, c))
                          /\ c = LastChannel(evs) \/ ~EndsInMarker(TextIn(evs, c))

\* What is looked at is fine up to the text of the last channel.
LooksFine(evs) ==
    IF evs # <<>> /\ IsLooked(LastChannel(evs))
    THEN \E a \in Seq(Char) : /\ Fine(a) /\ ~EndsInMarker(a)
                              /\ Looked(evs) = a \o TextIn(evs, LastChannel(evs))
    ELSE Fine(Looked(evs)) /\ ~EndsInMarker(Looked(evs))

\* An empty text is fine.
LEMMA EmptyIsFine == Fine(<<>>) /\ ~EndsInMarker(<<>>) /\ Unmarked(<<>>)
BY LastOfEmpty DEF Fine, Unmarked

\* One event less.
LEMMA ClearPrefix ==
    ASSUME NEW u \in Seq(CharEvent), NEW e \in CharEvent, Clear(Append(u, e))
    PROVE  /\ Clear(u) /\ e.json /\ e.ch \in Channel /\ e.text \in Seq(Char)
           /\ TextIn(Append(u, e), e.ch) = TextIn(u, e.ch) \o e.text
           /\ Kind[e.ch] = "details" => Unmarked(e.text)
           /\ u # <<>> => LastChannel(u) \in Channel /\ Fine(TextIn(u, LastChannel(u)))
           /\ u # <<>> /\ LastChannel(u) # e.ch =>
                /\ TextIn(u, e.ch) = <<>>
                /\ ~EndsInMarker(TextIn(u, LastChannel(u)))
<1> DEFINE v == Append(u, e)
           m == Len(u)
           T(c) == TextIn(u, c)
           w == e.text
<1>1. v \in Seq(CharEvent) /\ Len(v) = m + 1 /\ v[m + 1] = e /\ \A i \in 1..m : v[i] = u[i]
  BY AppendIndex
<1>2. DOMAIN u = 1..m /\ m \in Nat /\ \A i \in 1..m : u[i].ch \in Channel
  <2>1. \A i \in 1..m : u[i] \in CharEvent
    BY ElementOfSeq
  <2> QED BY <2>1, LenProperties DEF CharEvent, EventSet
<1>3. e.ch \in Channel /\ w \in Seq(Char)
  BY DEF CharEvent, EventSet
<1>4. \A c \in Channel : T(c) \in Seq(Char) /\ TextIn(v, c) = T(c) \o (IF e.ch = c /\ e.json THEN w ELSE <<>>)
  BY TextInAppend, TextInType DEF CharEvent
<1>5. Contiguous(v) /\ (\A i \in DOMAIN v : v[i].json)
      /\ \A c \in Channel : /\ Fine(TextIn(v, c))
                            /\ Kind[c] = "details" => Unmarked(TextIn(v, c))
                            /\ c = LastChannel(v) \/ ~EndsInMarker(TextIn(v, c))
  BY DEF Clear
<1> HIDE DEF v, w, T, m
<1>6. DOMAIN v = 1..m + 1 /\ LastChannel(v) = e.ch
  BY <1>1, LenProperties DEF LastChannel
<1>7. e.json /\ m + 1 \in DOMAIN v /\ \A i \in 1..m : i \in DOMAIN v
  BY <1>1, <1>2, <1>5, <1>6
<1>8. \A c \in Channel : c # e.ch => TextIn(v, c) = T(c)
  <2> TAKE c \in Channel
  <2> DEFINE t == T(c)
  <2>1. t \in Seq(Char)
    BY <1>4
  <2> HIDE DEF t
  <2>2. t \o <<>> = t
    BY <2>1, ConcatEmptySeq
  <2> QED BY <1>4, <2>2 DEF t
<1>9. TextIn(v, e.ch) = T(e.ch) \o w
  BY <1>3, <1>4, <1>7
<1>10. Contiguous(u) /\ \A i \in DOMAIN u : u[i].json
  <2>1. \A i, j, k \in 1..m : i < j /\ j < k /\ u[i].ch = u[k].ch => u[j].ch = u[i].ch
    BY <1>1, <1>5, <1>7 DEF Contiguous
  <2>2. \A i \in 1..m : u[i].json
    BY <1>1, <1>5, <1>7
  <2> QED BY <1>2, <2>1, <2>2 DEF Contiguous
<1>11. \A c \in Channel : Fine(T(c)) /\ (Kind[c] = "details" => Unmarked(T(c)))
  <2> TAKE c \in Channel
  <2>1. CASE c # e.ch
    BY <1>5, <1>8, <2>1
  <2>2. CASE c = e.ch
    <3> DEFINE t == T(c)
    <3>1. t \in Seq(Char) /\ TextIn(v, c) = t \o w
      BY <1>3, <1>4, <1>9, <2>2
    <3>2. Fine(t \o w) /\ (Kind[c] = "details" => Unmarked(t \o w))
      BY <1>5, <3>1
    <3> HIDE DEF t
    <3>3. Fine(t) /\ (Kind[c] = "details" => Unmarked(t))
      BY <1>3, <3>1, <3>2, FineConcat
    <3> QED BY <3>3 DEF t
  <2> QED BY <2>1, <2>2
<1>12. Kind[e.ch] = "details" => Unmarked(w)
  <2> DEFINE t == T(e.ch)
  <2>1. t \in Seq(Char)
    BY <1>3, <1>4
  <2>2. Kind[e.ch] = "details" => Unmarked(t \o w)
    BY <1>3, <1>5, <1>9
  <2> HIDE DEF t
  <2> QED BY <1>3, <2>1, <2>2, FineConcat
<1>13. ASSUME u # <<>> PROVE LastChannel(u) \in Channel /\ m \in 1..m /\ u[m].ch = LastChannel(u)
  <2>1. m # 0
    BY <1>13, EmptySeq DEF m
  <2>2. m \in 1..m
    BY <1>2, <2>1
  <2>3. u[m].ch = LastChannel(u)
    BY DEF LastChannel, m
  <2> QED BY <1>2, <2>2, <2>3
<1>14. ASSUME u # <<>>, LastChannel(u) # e.ch PROVE \A i \in DOMAIN u : u[i].ch # e.ch
  <2> SUFFICES ASSUME NEW i \in 1..m, u[i].ch = e.ch PROVE FALSE
    BY <1>2
  <2>1. m \in 1..m /\ u[m].ch = LastChannel(u)
    BY <1>13, <1>14
  <2>2. i < m /\ m < m + 1
    <3>1. i # m
      BY <1>14, <2>1
    <3> QED BY <1>2, <3>1
  <2>3. i \in DOMAIN v /\ m \in DOMAIN v /\ m + 1 \in DOMAIN v /\ v[i].ch = v[m + 1].ch
    BY <1>1, <1>7, <2>1
  <2>4. v[m].ch = v[i].ch
    BY <1>5, <2>2, <2>3 DEF Contiguous
  <2> QED BY <1>1, <1>14, <2>1, <2>4
<1>15. ASSUME u # <<>>, LastChannel(u) # e.ch
       PROVE  T(e.ch) = <<>> /\ ~EndsInMarker(T(LastChannel(u)))
  <2>1. T(e.ch) = <<>>
    BY <1>14, <1>15, TextInNone DEF T, CharEvent
  <2>2. TextIn(v, LastChannel(u)) = T(LastChannel(u))
    BY <1>8, <1>13, <1>15
  <2>3. ~EndsInMarker(TextIn(v, LastChannel(u)))
    BY <1>5, <1>6, <1>13, <1>15
  <2> QED BY <2>1, <2>2, <2>3
<1>16. ASSUME NEW c \in Channel, c # LastChannel(u) PROVE ~EndsInMarker(T(c))
  <2>1. CASE u = <<>>
    <3>1. T(c) = <<>>
      BY <2>1, TextInEmpty DEF T
    <3> QED BY <3>1, EmptyIsFine
  <2>2. CASE u # <<>> /\ c = e.ch
    <3>1. T(c) = <<>>
      BY <1>15, <1>16, <2>2
    <3> QED BY <3>1, EmptyIsFine
  <2>3. CASE c # e.ch
    BY <1>5, <1>6, <1>8, <1>16, <2>3
  <2> QED BY <2>1, <2>2, <2>3
<1>17. Clear(u)
  <2>1. \A c \in Channel : c = LastChannel(u) \/ ~EndsInMarker(TextIn(u, c))
    BY <1>16 DEF T
  <2>2. \A c \in Channel : Fine(TextIn(u, c)) /\ (Kind[c] = "details" => Unmarked(TextIn(u, c)))
    BY <1>11 DEF T
  <2> QED BY <1>10, <2>1, <2>2 DEF Clear
<1>18. u # <<>> => LastChannel(u) \in Channel /\ Fine(T(LastChannel(u)))
  BY <1>11, <1>13
<1> QED BY <1>3, <1>7, <1>9, <1>12, <1>15, <1>17, <1>18 DEF v, w, T

\* What is looked at has no label that has only begun but at its end.
LEMMA ClearLooksFine == \A evs \in Seq(CharEvent) : Clear(evs) => LooksFine(evs)
<1> DEFINE Claim(u) == Clear(u) => LooksFine(u)
           S == {u \in Seq(CharEvent) : Claim(u)}
<1>1. <<>> \in S
  <2>1. LooksFine(<<>>)
    BY LookedEmpty, EmptyIsFine DEF LooksFine
  <2>2. <<>> \in Seq(CharEvent)
    OBVIOUS
  <2> QED BY <2>1, <2>2
<1>2. \A u \in Seq(CharEvent), e \in CharEvent : u \in S => Append(u, e) \in S
  <2> TAKE u \in Seq(CharEvent), e \in CharEvent
  <2> HAVE u \in S
  <2> DEFINE v == Append(u, e)
             c == e.ch
             l == LastChannel(u)
             x == Looked(u)
             w == e.text
  <2>0. v \in Seq(CharEvent) /\ v # <<>> /\ LastChannel(v) = c
    BY AppendIndex DEF LastChannel
  <2>1. SUFFICES ASSUME Clear(v) PROVE LooksFine(v)
    BY <2>0
  <2>2. /\ Clear(u) /\ c \in Channel /\ w \in Seq(Char)
        /\ TextIn(v, c) = TextIn(u, c) \o w
        /\ Kind[c] = "details" => Unmarked(w)
        /\ u # <<>> => l \in Channel /\ Fine(TextIn(u, l))
        /\ u # <<>> /\ l # c => TextIn(u, c) = <<>> /\ ~EndsInMarker(TextIn(u, l))
    BY <2>1, ClearPrefix
  <2>3. LooksFine(u)
    BY <2>2
  <2>4. Looked(v) = x \o ExtractRedactableText(e) /\ x \in Seq(Char)
    BY LookedAppend
  <2>5. \A d : TextIn(u, d) \in Seq(Char)
    BY TextInType DEF CharEvent
  <2> HIDE DEF v, l, x, w, S
  <2>6. ASSUME u = <<>> \/ l # c \/ ~IsLooked(c) PROVE Fine(x) /\ ~EndsInMarker(x)
    <3>1. CASE ~(u # <<>> /\ IsLooked(l))
      BY <2>3, <3>1 DEF LooksFine, l, x
    <3>2. CASE u # <<>> /\ IsLooked(l)
      <4>1. l # c
        BY <2>6, <3>2
      <4>2. PICK a \in Seq(Char) : Fine(a) /\ ~EndsInMarker(a) /\ x = a \o TextIn(u, l)
        BY <2>3, <3>2 DEF LooksFine, l, x
      <4> DEFINE t == TextIn(u, l)
      <4>3. t \in Seq(Char) /\ Fine(t) /\ ~EndsInMarker(t)
        BY <2>2, <2>5, <3>2, <4>1
      <4> HIDE DEF t
      <4>4. Fine(a \o t) /\ ~EndsInMarker(a \o t)
        BY <4>2, <4>3, FineConcat, LastPairOfConcat
      <4> QED BY <4>2, <4>4 DEF t
    <3> QED BY <3>1, <3>2
  <2>7. CASE Kind[c] \in Unlooked
    <3>1. ExtractRedactableText(e) = <<>>
      BY <2>7 DEF ExtractRedactableText, Unlooked
    <3>2. Looked(v) = x
      <4>1. x \o <<>> = x
        BY <2>4, ConcatEmptySeq
      <4> QED BY <2>4, <3>1, <4>1
    <3>3. ~IsLooked(c)
      BY <2>7 DEF IsLooked
    <3> QED BY <2>0, <2>6, <3>2, <3>3 DEF LooksFine
  <2>8. CASE Kind[c] = "details"
    <3> DEFINE ww == w \o w
    <3>1. ExtractRedactableText(e) = ww
      BY <2>8 DEF ExtractRedactableText, Unlooked, w
    <3>2. ww \in Seq(Char) /\ Unmarked(ww)
      BY <2>2, <2>8, ConcatProperties, FineConcat
    <3> HIDE DEF ww
    <3>3. ~IsLooked(c)
      BY <2>8 DEF IsLooked
    <3>4. Fine(ww) /\ ~EndsInMarker(ww)
      BY <3>2, UnmarkedIsFine
    <3>5. Fine(x \o ww) /\ ~EndsInMarker(x \o ww)
      BY <2>4, <2>6, <3>2, <3>3, <3>4, FineConcat, LastPairOfConcat
    <3> QED BY <2>0, <2>4, <3>1, <3>3, <3>5 DEF LooksFine
  <2>9. CASE IsLooked(c)
    <3>1. ExtractRedactableText(e) = w
      BY <2>9 DEF ExtractRedactableText, IsLooked, w
    <3>2. SUFFICES \E a \in Seq(Char) : Fine(a) /\ ~EndsInMarker(a) /\ Looked(v) = a \o TextIn(v, c)
      BY <2>0, <2>9, <3>2 DEF LooksFine
    <3>3. CASE u = <<>> \/ l # c
      <4>1. TextIn(u, c) = <<>>
        BY <2>2, <3>3, TextInEmpty
      <4>2. <<>> \o w = w
        BY <2>2, ConcatEmptySeq
      <4>3. TextIn(v, c) = w
        BY <2>2, <4>1, <4>2
      <4> QED BY <2>4, <2>6, <3>1, <3>3, <4>3
    <3>4. CASE u # <<>> /\ l = c
      <4> DEFINE t == TextIn(u, c)
      <4>1. PICK a \in Seq(Char) : Fine(a) /\ ~EndsInMarker(a) /\ x = a \o t
        BY <2>3, <2>9, <3>4 DEF LooksFine, l, x
      <4>2. t \in Seq(Char) /\ TextIn(v, c) = t \o w
        BY <2>2, <2>5
      <4> HIDE DEF t
      <4>3. (a \o t) \o w = a \o (t \o w)
        BY <2>2, <4>1, <4>2, ConcatAssociative
      <4> QED BY <2>4, <3>1, <4>1, <4>2, <4>3
    <3> QED BY <3>3, <3>4
  <2> QED BY <2>7, <2>8, <2>9 DEF IsLooked
<1>3. Seq(CharEvent) \subseteq S
  <2> HIDE DEF S
  <2> QED BY <1>1, <1>2, SeqSetInduction
<1>4. \A evs \in Seq(CharEvent) : evs \in S
  <2> HIDE DEF S
  <2> QED BY <1>3
<1> QED BY <1>4

\* What has arrived of a channel: it ends where what has not been looked at begins.
LEMMA ArrivedPart ==
    ASSUME TypeOK, NEW c \in Channel, NEW x \in Seq(Char), rawBuffer_ = <<>>,
           x \o TextIn(Pending, c) = SubSeq(Said[c], 1, sent[c])
    PROVE  /\ SubSeq(Said[c], 1, sent[c] - Len(TextIn(wire, c))) = x \o TextIn(events_, c)
           /\ TextIn(events_, c) \in Seq(Char) /\ x \o TextIn(events_, c) \in Seq(Char)
           /\ \E z \in Seq(Char) : Said[c] = (x \o TextIn(events_, c)) \o z
<1> DEFINE s == Said[c]
           n == sent[c]
           t == TextIn(events_, c)
           w == TextIn(wire, c)
           b == SubSeq(s, 1, n)
           r == SubSeq(s, n + 1, Len(s))
           k == x \o t
<1>0. response \in Responses
  BY DEF TypeOK
<1>1. events_ \in Seq(EventSet(Channel, Char)) /\ wire \in Seq(EventSet(Channel, Char))
  BY <1>0, CharEvents DEF TypeOK, CharEvent
<1>2. t \in Seq(Char) /\ w \in Seq(Char)
  BY <1>1, TextInType
<1>3. s \in Seq(Char) /\ Len(s) \in Nat /\ n \in 0..Len(s)
  BY <1>0, CharEvents, SentPart
<1>4. b \in Seq(Char) /\ r \in Seq(Char) /\ s = b \o r
  <2>1. Len(s) \in 0..Len(s)
    BY <1>3
  <2>2. b \in Seq(Char) /\ r \in Seq(Char) /\ SubSeq(s, 1, Len(s)) = b \o r /\ SubSeq(s, 1, Len(s)) = s
    BY <1>3, <2>1, SentPart
  <2> QED BY <2>2
<1>5. k \in Seq(Char) /\ Len(k) = Len(x) + Len(t)
  BY <1>2, ConcatProperties
<1>6. Pending = Held
  <2> DEFINE h == Held
  <2>1. h \in Seq(CharEvent)
    BY PendingEvents
  <2> HIDE DEF h
  <2>2. h \o <<>> = h
    BY <2>1, ConcatEmptySeq
  <2> QED BY <2>2 DEF Pending, h
<1>7. TextIn(Pending, c) = t \o w
  <2>1. TextIn(events_ \o wire, c) = t \o w
    BY <1>1, TextInConcat
  <2> QED BY <1>6, <2>1 DEF Held
<1>8. b = x \o (t \o w)
  BY <1>7
<1> HIDE DEF s, n, t, w, b, r
<1>9. x \o (t \o w) = k \o w
  BY <1>2, ConcatAssociative
<1> HIDE DEF k
<1>10. b = k \o w
  BY <1>8, <1>9
<1>11. Len(b) = n
  <2>1. \A i \in 1..n : s[i] \in Char
    <3>1. \A i \in 1..n : i \in 1..Len(s)
      BY <1>3
    <3> QED BY <1>3, <3>1, ElementOfSeq
  <2>2. n \in Nat
    BY <1>3
  <2>3. Len(SubSeq(s, 1, n)) = IF 1 <= n THEN n - 1 + 1 ELSE 0
    BY <2>1, <2>2, SubSeqProperties
  <2> QED BY <2>2, <2>3 DEF b
<1> DEFINE m == n - Len(w)
<1>12. m = Len(k) /\ m \in 0..n /\ Len(k) \in Nat /\ Len(w) \in Nat
  <2>1. Len(k \o w) = Len(k) + Len(w)
    BY <1>2, <1>5, ConcatProperties
  <2>2. Len(k) \in Nat /\ Len(w) \in Nat
    BY <1>2, <1>5, LenProperties
  <2> QED BY <1>10, <1>11, <2>1, <2>2
<1>13. s = k \o (w \o r)
  <2>0. k \in Seq(Char) /\ w \in Seq(Char) /\ r \in Seq(Char)
    BY <1>2, <1>4, <1>5
  <2>1. (k \o w) \o r = k \o (w \o r)
    BY <2>0, ConcatAssociative
  <2> QED BY <1>4, <1>10, <2>1
<1>14. w \o r \in Seq(Char)
  BY <1>2, <1>4, ConcatProperties
<1>15. SubSeq(s, 1, m) = k
  <2> DEFINE v == w \o r
             p == SubSeq(s, 1, m)
  <2>0. v \in Seq(Char) /\ s = k \o v
    BY <1>13, <1>14
  <2> HIDE DEF v
  <2>1. \A i \in 1..m : i \in 1..Len(s) /\ i \in 1..Len(k)
    BY <1>3, <1>12
  <2>2. \A i \in 1..m : s[i] \in Char
    BY <1>3, <2>1, ElementOfSeq
  <2>3. m \in Nat
    BY <1>12
  <2> HIDE DEF m
  <2>4. p \in Seq(Char) /\ Len(p) = IF 1 <= m THEN m - 1 + 1 ELSE 0
    BY <2>2, <2>3, SubSeqProperties
  <2>5. \A i \in 1 .. m - 1 + 1 : p[i] = s[1 + i - 1]
    BY <2>2, <2>3, SubSeqProperties
  <2> HIDE DEF p
  <2>6. Len(p) = m /\ \A i \in 1..m : p[i] = s[i]
    BY <2>3, <2>4, <2>5
  <2>7. \A i \in 1..m : s[i] = k[i]
    <3>1. \A i \in 1..Len(k) + Len(v) : (k \o v)[i] = IF i <= Len(k) THEN k[i] ELSE v[i - Len(k)]
      BY <1>5, <2>0, ConcatProperties
    <3>2. Len(v) \in Nat
      BY <2>0, LenProperties
    <3>3. \A i \in 1..m : i \in 1..Len(k) + Len(v) /\ i <= Len(k)
      BY <1>12, <3>2 DEF m
    <3> QED BY <2>0, <3>1, <3>3
  <2>8. Len(p) = Len(k) /\ \A i \in 1..Len(p) : p[i] = k[i]
    BY <1>12, <2>6, <2>7
  <2>9. p = k
    BY <1>5, <2>4, <2>8, SeqEqual
  <2> QED BY <2>9 DEF p
<1> QED BY <1>2, <1>5, <1>13, <1>14, <1>15 DEF s, n, t, w, k, m

\* Every part of what a channel says is fine.
LEMMA SaidIsFine ==
    ASSUME response \in Responses, MarkersBegin(response), NEW c \in Channel
    PROVE  Labels # <<>> => Fine(Said[c]) /\ (Kind[c] = "details" => Unmarked(Said[c]))
<1> SUFFICES ASSUME Labels # <<>>
             PROVE  Fine(Said[c]) /\ (Kind[c] = "details" => Unmarked(Said[c]))
  OBVIOUS
<1> DEFINE s == Said[c]
<1>1. s \in Seq(Char) /\ Len(s) \in Nat /\ c \in DOMAIN response.said
      /\ Said = response.said /\ Kind = response.kind
  BY CharEvents, ChannelFacts DEF Said, Kind
<1>2. Closings(response) = Closing
  <2>1. DOMAIN Labels = 1..Len(Labels) /\ Labels = response.labels
    BY LabelFacts DEF Labels
  <2> QED BY <2>1, ClosingFacts DEF Closings
<1>3. /\ \A p \in 1..Len(s) - 2 : SubSeq(s, p, p + 1) = Marker => s[p + 2] \in Closing
      /\ Kind[c] = "details" => \A p \in DOMAIN s : s[p] # "l"
  BY <1>1, <1>2 DEF MarkersBegin, Labels
<1> HIDE DEF s
<1>4. Fine(s)
  <2> SUFFICES ASSUME NEW p \in 1..Len(s) - 2, s[p] = "l", s[p + 1] = "m" PROVE s[p + 2] \in Closing
    BY DEF Fine
  <2> DEFINE w == SubSeq(s, p, p + 1)
  <2>1. \A i \in p .. p + 1 : i \in 1..Len(s)
    BY <1>1
  <2>2. \A i \in p .. p + 1 : s[i] \in Char
    BY <1>1, <2>1, ElementOfSeq
  <2>3. w \in Seq(Char) /\ Len(w) = IF p <= p + 1 THEN (p + 1) - p + 1 ELSE 0
    BY <2>2, SubSeqProperties
  <2>4. \A i \in 1 .. (p + 1) - p + 1 : w[i] = s[p + i - 1]
    BY <2>2, SubSeqProperties
  <2> HIDE DEF w
  <2>5. 1 \in 1 .. (p + 1) - p + 1 /\ 2 \in 1 .. (p + 1) - p + 1 /\ p + 1 - 1 = p /\ p + 2 - 1 = p + 1
    OBVIOUS
  <2>6. Len(w) = 2 /\ w[1] = "l" /\ w[2] = "m"
    <3>1. w[1] = s[p] /\ w[2] = s[p + 1]
      BY <2>4, <2>5
    <3>2. Len(w) = 2
      BY <2>3
    <3> QED BY <3>1, <3>2
  <2>7. w = Marker
    BY <2>3, <2>6 DEF Marker
  <2> QED BY <1>3, <2>7 DEF w
<1>5. Kind[c] = "details" => Unmarked(s)
  <2>1. DOMAIN s = 1..Len(s)
    BY <1>1, LenProperties
  <2> QED BY <1>3, <2>1 DEF Unmarked
<1> QED BY <1>4, <1>5 DEF s

\* Nothing is held of a stream that has ended.
HeldInv == RestoreInv /\ (events_ # <<>> => phase = "open")

\* The invariant holds at the start, and every step keeps it.
LEMMA HeldStep ==
    ASSUME \A r \in Responses : Restorable(r)
    PROVE  (Init => HeldInv) /\ (HeldInv /\ [Next]_vars => HeldInv')
<1>1. Init => HeldInv
  BY ShownStep DEF HeldInv, Init
<1>2. ASSUME HeldInv, [Next]_vars PROVE HeldInv'
  <2>1. RestoreInv'
    BY <1>2, ShownStep DEF HeldInv
  <2>2. events_' # <<>> => phase' = "open"
    <3>1. ASSUME NEW c \in Channel, Say(c) PROVE events_' # <<>> => phase' = "open"
      BY <3>1 DEF Say
    <3>2. CASE OnChunk
      BY <3>2 DEF OnChunk
    <3>3. CASE Flush
      BY <3>3 DEF Flush
    <3>4. CASE Cut
      BY <3>4 DEF Cut
    <3>5. CASE UNCHANGED vars
      BY <1>2, <3>5 DEF HeldInv, vars
    <3> QED BY <1>2, <3>1, <3>2, <3>3, <3>4, <3>5 DEF Next
  <2> QED BY <2>1, <2>2 DEF HeldInv
<1> QED BY <1>1, <1>2

\* If all channels end clear of a marker, so does what is looked at.
LEMMA HeldHasBegun ==
    ASSUME HeldInv, Restorable(response), MarkersBegin(response)
    PROVE  HeldForALabel
<1>0. CASE Labels = <<>>
  <2>1. response.marked \in BOOLEAN
    BY ChannelFacts DEF HeldInv, RestoreInv, TypeOK
  <2>2. Api # "responses" /\ events_ # <<>> => response.marked
    BY <2>1 DEF HeldInv, RestoreInv, WireInv
  <2> QED BY <1>0, <2>2 DEF HeldForALabel
<1> SUFFICES ASSUME Labels # <<>>, Api # "responses", events_ # <<>>
             PROVE  \E c \in Channel, i \in DOMAIN Labels, n \in 1..2 :
                        IsSuffix(SubSeq(Labels[i].text, 1, n), SubSeq(Said[c], 1, sent[c] - Len(TextIn(wire, c))))
  BY <1>0 DEF HeldForALabel
<1>1. TypeOK /\ WireInv /\ response \in Responses /\ phase = "open"
      /\ \A c \in Channel : ChannelInv(c)
  BY DEF HeldInv, RestoreInv, TypeOK
<1>2. Labels # <<>> /\ HasIncompleteLabel(Looked(events_))
  BY <1>1 DEF WireInv
<1>3. ~response.interleaved /\ rawBuffer_ = <<>>
  BY <1>1, <1>2, RestorableFacts DEF WireInv
<1>4. events_ \in Seq(CharEvent) /\ wire \in Seq(CharEvent)
  BY <1>1, CharEvents DEF TypeOK
<1>5. Contiguous(events_)
  <2> DEFINE m == Len(events_)
             h == events_ \o wire
  <2>1. Contiguous(h)
    BY <1>1, <1>3 DEF WireInv, Held
  <2>2. DOMAIN events_ = 1..m /\ m \in Nat /\ Len(wire) \in Nat
    BY <1>4, LenProperties
  <2>3. h \in Seq(CharEvent) /\ Len(h) = m + Len(wire)
        /\ \A i \in 1..m + Len(wire) : h[i] = IF i <= m THEN events_[i] ELSE wire[i - m]
    BY <1>4, ConcatProperties
  <2> HIDE DEF h
  <2>4. \A i \in 1..m : i \in DOMAIN h /\ h[i] = events_[i]
    BY <2>2, <2>3, LenProperties
  <2>5. \A i, j, k \in 1..m : i < j /\ j < k /\ events_[i].ch = events_[k].ch => events_[j].ch = events_[i].ch
    BY <2>1, <2>4 DEF Contiguous
  <2> QED BY <2>2, <2>5 DEF Contiguous
<1>6. PICK c \in Channel : EndsInMarker(TextIn(events_, c))
  <2> SUFFICES ASSUME \A c \in Channel : ~EndsInMarker(TextIn(events_, c)) PROVE FALSE
    OBVIOUS
  <2>1. \A c \in Channel : Fine(TextIn(events_, c)) /\ (Kind[c] = "details" => Unmarked(TextIn(events_, c)))
    <3> TAKE c \in Channel
    <3> DEFINE t == TextIn(events_, c)
               s == Said[c]
    <3>1. PICK x \in Seq(Char) : x \o TextIn(Pending, c) = SubSeq(Said[c], 1, sent[c])
      BY <1>1 DEF ChannelInv
    <3>2. t \in Seq(Char)
      BY <1>1, <1>3, <3>1, ArrivedPart
    <3>3. PICK z \in Seq(Char) : s = (x \o t) \o z
      BY <1>1, <1>3, <3>1, ArrivedPart
    <3>4. Fine(s) /\ (Kind[c] = "details" => Unmarked(s))
      BY <1>1, <1>2, SaidIsFine
    <3> HIDE DEF t, s
    <3> DEFINE y == x \o t
    <3>5. y \in Seq(Char)
      BY <3>2, ConcatProperties
    <3>6. Fine(y) /\ (Kind[c] = "details" => Unmarked(y))
      <4>1. s = y \o z
        BY <3>3
      <4> HIDE DEF y
      <4> QED BY <3>4, <3>5, <4>1, FineConcat
    <3>7. Fine(t) /\ (Kind[c] = "details" => Unmarked(t))
      BY <3>2, <3>6, FineConcat
    <3> QED BY <3>7 DEF t
  <2>2. \A i \in DOMAIN events_ : events_[i].json
    BY <1>1 DEF WireInv, Good
  <2>3. Clear(events_)
    BY <1>5, <2>1, <2>2 DEF Clear
  <2>4. LooksFine(events_)
    BY <1>4, <2>3, ClearLooksFine
  <2> DEFINE x == Looked(events_)
  <2>5. x \in Seq(Char)
    BY <1>4, LookedType
  <2>6. Fine(x) /\ ~EndsInMarker(x)
    <3>1. CASE IsLooked(LastChannel(events_))
      <4> DEFINE l == LastChannel(events_)
                 t == TextIn(events_, l)
      <4>1. PICK a \in Seq(Char) : Fine(a) /\ ~EndsInMarker(a) /\ x = a \o t
        BY <2>4, <3>1 DEF LooksFine
      <4>2. l \in Channel
        <5>1. Len(events_) \in 1..Len(events_)
          BY <1>4, EmptySeq, LenProperties
        <5>2. events_[Len(events_)] \in CharEvent
          BY <1>4, <5>1, ElementOfSeq
        <5> QED BY <5>2 DEF LastChannel, CharEvent, EventSet
      <4>3. t \in Seq(Char) /\ Fine(t) /\ ~EndsInMarker(t)
        <5>1. \A d : TextIn(events_, d) \in Seq(Char)
          BY <1>4, TextInType DEF CharEvent
        <5> QED BY <2>1, <4>2, <5>1
      <4> HIDE DEF t, l, x
      <4>4. Fine(a \o t) /\ ~EndsInMarker(a \o t)
        BY <4>1, <4>3, FineConcat, LastPairOfConcat
      <4> QED BY <4>1, <4>4
    <3>2. CASE ~IsLooked(LastChannel(events_))
      BY <2>4, <3>2 DEF LooksFine
    <3> QED BY <3>1, <3>2
  <2> HIDE DEF x
  <2>7. ~HasIncompleteLabel(x)
    BY <1>1, <1>2, <2>5, <2>6, WholeLabels
  <2> QED BY <1>2, <2>7 DEF x
<1>7. PICK x \in Seq(Char) : x \o TextIn(Pending, c) = SubSeq(Said[c], 1, sent[c])
  BY <1>1 DEF ChannelInv
<1> DEFINE t == TextIn(events_, c)
           y == x \o t
           b == SubSeq(Said[c], 1, sent[c] - Len(TextIn(wire, c)))
<1>8. b = y /\ t \in Seq(Char) /\ y \in Seq(Char)
  BY <1>1, <1>3, <1>7, ArrivedPart
<1>9. EndsInMarker(y)
  <2>1. EndsInMarker(t)
    BY <1>6
  <2> HIDE DEF t
  <2> QED BY <1>8, <2>1, EndsLater
<1>10. 1 \in DOMAIN Labels /\ IsLabel(Labels[1].text)
  <2>1. Labels \in Seq([text : Text, value : Text]) /\ DOMAIN Labels = 1..Len(Labels) /\ Len(Labels) \in Nat
    BY <1>1, LabelFacts
  <2>2. 1 \in 1..Len(Labels)
    BY <1>2, <2>1
  <2> QED BY <1>1, <2>1, <2>2, LabelFacts
<1> DEFINE label == Labels[1].text
<1>11. \E n \in 1..2 : IsSuffix(SubSeq(label, 1, n), y)
  <2>0. IsLabel(label)
    BY <1>10
  <2> HIDE DEF y, label
  <2>1. CASE LastIs(y, "l")
    <3>1. IsSuffix(SubSeq(label, 1, 1), y)
      BY <1>8, <2>0, <2>1, BeginningIsSuffix
    <3> QED BY <3>1
  <2>2. CASE LastArePair(y)
    <3>1. IsSuffix(SubSeq(label, 1, 2), y)
      BY <1>8, <2>0, <2>2, BeginningIsSuffix
    <3> QED BY <3>1
  <2> QED BY <1>9, <2>1, <2>2 DEF EndsInMarker
<1>12. \E n \in 1..2 : IsSuffix(SubSeq(label, 1, n), b)
  <2> HIDE DEF y, b, label
  <2> QED BY <1>8, <1>11
<1> QED BY <1>10, <1>12

\* HeldForALabel, for every set of responses that can be restored and in which
\* a marker only begins a label: nothing is held back but for the sake of a
\* channel whose text may be in the middle of a label, unless the request holds a
\* marker and no label (OnChunk, MaybeProcess).
THEOREM HeldOnlyForALabel ==
    ASSUME \A r \in Responses : Restorable(r) /\ MarkersBegin(r)
    PROVE  Spec => []HeldForALabel
<1>1. (Init => HeldInv) /\ (HeldInv /\ [Next]_vars => HeldInv')
  BY HeldStep
<1>2. HeldInv => HeldForALabel
  BY HeldHasBegun DEF HeldInv, RestoreInv, TypeOK
<1> QED BY <1>1, <1>2, PTL DEF Spec
=============================================================================
