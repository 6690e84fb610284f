------------------------- MODULE ModelDownloadProofs -------------------------
(***************************************************************************)
(* Proofs about ModelDownload, for any objects, sizes and segments and any    *)
(* number of faults.                                                         *)
(***************************************************************************)
EXTENDS ModelDownload, TLAPS

\* The length of all segments but the last, of an object of n bytes.
Step(n) == n \div Count(n)

\* Whatever is published, what is fetched in segments is cut at the same places.
SameLayout ==
    \A o, p \in Objects :
        Count(Size[o]) >= 2 /\ Count(Size[p]) >= 2 => Step(Size[o]) = Step(Size[p])

Working == pc \in {"probe", "ranges", "single", "segments", "concat", "sweep", "rename"}

\* What a download knows: the sizes and objects are published ones, and while it
\* is under way no weights are there.
KnownInv ==
    /\ total \in {0} \cup {Size[o] : o \in published}
    /\ object \in published
    /\ \A i \in Files : source[i] \in published
    /\ Working => weights = <<>>
    /\ pc # "called" => answer = "none"
    /\ pc \in {"segments", "concat", "sweep"} => ranges /\ Count(total) >= 2

\* Who transfers: the single stream, or the segments in use.
ThreadInv ==
    /\ \A i \in Files : thread[i] # "none" <=>
          \/ pc = "single" /\ i = 0
          \/ pc = "segments" /\ i \in Used
    /\ \A i \in Files : thread[i] = "done" => Len(file[i]) = Length(i)

\* Where segment k ends in the object, and .partial when all has been read.
End(k) == IF k = Count(total) THEN total ELSE k * Step(total)
Copied == End(copied) + offset

\* The segments that are copied are complete, and .partial ends where the next
\* byte belongs, or before when a read has failed.
ConcatInv ==
    /\ pc = "concat" =>
        /\ copied <= Count(total)
        /\ \A j \in Used : Len(file[j]) = Length(j)
        /\ IF copied = Count(total) THEN offset = 0 ELSE offset <= Length(copied + 1)
        /\ Len(file[0]) <= Copied
        /\ ~ReadsFail => Len(file[0]) = Copied
    /\ pc = "sweep" => Len(file[0]) = total

IInv == TypeOK /\ KnownInv /\ ThreadInv /\ ConcatInv

\* Every byte is where it belongs, when segments are len bytes long.
PlacedInv(len) ==
    /\ \A k \in 1..Len(file[0]) : file[0][k][2] = k - 1
    /\ \A i \in Segments : \A k \in 1..Len(file[i]) : file[i][k][2] = (i - 1) * len + k - 1
    /\ weights = Garbage \/ InPlace(weights)

\* Only objects of the right size are published.
RightSize == \A o \in published : Size[o] = Expected

SegmentLength(i) ==
    IF i = Count(Expected) THEN Expected - (i - 1) * Step(Expected) ELSE Step(Expected)

\* No file grows past its range, and .partial is complete when it is to be renamed.
FitInv ==
    RightSize =>
        /\ Len(file[0]) <= Expected
        /\ Count(Expected) >= 2 =>
              \A i \in 1..Count(Expected) : Len(file[i]) <= SegmentLength(i)
        /\ pc = "rename" => Complete(file[0])

-----------------------------------------------------------------------------
(* Numbers and sequences *)

LEMMA Division ==
    ASSUME NEW n \in Nat, NEW c \in Nat \ {0}
    PROVE  n \div c \in Nat /\ c * (n \div c) <= n
OBVIOUS

LEMMA Counts ==
    ASSUME NEW n \in Nat
    PROVE  /\ Count(n) \in 0..MaxSegments
           /\ Count(n) > 0 => Step(n) \in Nat /\ Count(n) * Step(n) <= n
<1>1. Count(n) \in 0..MaxSegments
  BY DownloadAssumption DEF Count, Smaller
<1>2. ASSUME Count(n) > 0 PROVE Step(n) \in Nat /\ Count(n) * Step(n) <= n
  <2>1. Count(n) \in Nat \ {0}
    BY <1>1, <1>2, DownloadAssumption
  <2> QED BY <2>1, Division DEF Step
<1> QED BY <1>1, <1>2

LEMMA Times ==
    ASSUME NEW a \in Nat, NEW b \in Nat, NEW n \in Nat
    PROVE  /\ a * n \in Nat
           /\ (a + 1) * n = a * n + n
           /\ a <= b => a * n <= b * n
OBVIOUS

\* A byte more, and one sequence after another.
LEMMA Appended ==
    ASSUME NEW s \in Seq(Byte), NEW b \in Byte
    PROVE  /\ Append(s, b) \in Seq(Byte)
           /\ Len(Append(s, b)) = Len(s) + 1
           /\ \A k \in 1..Len(s) : Append(s, b)[k] = s[k]
           /\ Append(s, b)[Len(s) + 1] = b
OBVIOUS

LEMMA ElementOfSeq ==
    ASSUME NEW s \in Seq(Byte), NEW k \in 1..Len(s)
    PROVE  s[k] \in Byte
OBVIOUS

-----------------------------------------------------------------------------
(* Ranges *)

\* The range of a segment in use, and that of the single stream.
LEMMA SegmentRange ==
    ASSUME total \in Nat, Count(total) >= 2, NEW i \in Used
    PROVE  /\ i \in Segments
           /\ First(i) = (i - 1) * Step(total) /\ First(i) \in Nat
           /\ Length(i) = IF i = Count(total) THEN total - (i - 1) * Step(total) ELSE Step(total)
           /\ Length(i) \in Nat
           /\ Last(i) = First(i) + Length(i) - 1
<1> DEFINE c == Count(total)
           n == Step(total)
<1>1. c \in Nat /\ n \in Nat /\ c * n <= total /\ i \in 1..c /\ c <= MaxSegments
  BY Counts, DownloadAssumption DEF Used
<1>2. i \in Segments /\ i # 0
  BY <1>1, DownloadAssumption DEF Segments
<1>3. First(i) = (i - 1) * n
  BY <1>2 DEF First, Step
<1>4. Last(i) = IF i = c THEN total - 1 ELSE i * n - 1
  BY <1>2 DEF Last, Step
<1> HIDE DEF c, n
<1>5. (i - 1) * n \in Nat /\ i * n = (i - 1) * n + n /\ (i - 1) * n <= c * n
  <2>1. i - 1 \in Nat /\ i - 1 <= c
    BY <1>1
  <2> QED BY <1>1, <2>1, Times
<1>6. Length(i) = IF i = c THEN total - (i - 1) * n ELSE n
  BY <1>1, <1>3, <1>4, <1>5 DEF Length
<1>7. Last(i) = First(i) + Length(i) - 1 /\ Length(i) \in Nat
  BY <1>1, <1>3, <1>4, <1>5, <1>6
<1> QED BY <1>2, <1>3, <1>5, <1>6, <1>7 DEF c, n

\* A segment ends where the next one begins.
LEMMA Ends ==
    ASSUME total \in Nat, Count(total) >= 2, NEW k \in Nat, k < Count(total)
    PROVE  /\ k + 1 \in Used /\ Length(k + 1) \in Nat
           /\ End(k) = k * Step(total) /\ End(k) \in Nat
           /\ End(k + 1) = End(k) + Length(k + 1)
           /\ End(k + 1) <= total
<1> DEFINE c == Count(total)
           n == Step(total)
<1>1. c \in Nat /\ n \in Nat /\ c * n <= total /\ c * n \in Nat
  BY Counts, Times
<1>2. k + 1 \in Used
  BY <1>1 DEF Used
<1>3. Length(k + 1) = (IF k + 1 = c THEN total - k * n ELSE n) /\ Length(k + 1) \in Nat
  BY <1>2, SegmentRange
<1>4. End(k) = k * n /\ End(k + 1) = IF k + 1 = c THEN total ELSE (k + 1) * n
  BY <1>1 DEF End
<1> HIDE DEF c, n
<1>5. k * n \in Nat /\ (k + 1) * n = k * n + n /\ (k + 1) * n <= c * n
  <2>1. k + 1 <= c
    BY <1>1 DEF c
  <2> QED BY <1>1, <2>1, Times
<1> QED BY <1>1, <1>2, <1>3, <1>4, <1>5 DEF c, n

LEMMA StreamRange ==
    ASSUME TypeOK
    PROVE  /\ First(0) = 0 /\ Length(0) = Size[source[0]] /\ Length(0) \in Nat
           /\ Last(0) = Length(0) - 1
BY DownloadAssumption DEF First, Last, Length, TypeOK, Files

\* A transfer that is under way has a range.
LEMMA ThreadRange ==
    ASSUME IInv, NEW i \in Files, thread[i] # "none"
    PROVE  /\ First(i) \in Nat /\ Length(i) \in Nat /\ Last(i) = First(i) + Length(i) - 1
           /\ i = 0 => pc = "single" /\ First(i) = 0 /\ Length(i) = Size[source[i]]
           /\ i # 0 => /\ pc = "segments" /\ Count(total) >= 2 /\ i \in Used /\ ranges
                       /\ First(i) = (i - 1) * Step(total)
<1>1. CASE i = 0
  BY <1>1, StreamRange DEF IInv, ThreadInv, Used
<1>2. CASE i # 0
  <2>1. pc = "segments" /\ i \in Used /\ Count(total) >= 2 /\ total \in Nat /\ ranges
    BY <1>2 DEF IInv, ThreadInv, KnownInv, TypeOK
  <2> QED BY <1>2, <2>1, SegmentRange
<1> QED BY <1>1, <1>2

\* The byte a transfer receives is one of its object.
LEMMA NextByte ==
    ASSUME IInv, NEW i \in Files, thread[i] = "open", ~Ended(i)
    PROVE  /\ <<source[i], Place(i)>> \in Byte
           /\ Place(i) = First(i) + Len(file[i]) /\ Place(i) \in Nat
           /\ Len(file[i]) + 1 <= Length(i)
<1>1. First(i) \in Nat /\ Length(i) \in Nat /\ Last(i) = First(i) + Length(i) - 1
  BY ThreadRange
<1>2. file[i] \in Seq(Byte) /\ source[i] \in Objects /\ Len(file[i]) \in Nat
  BY DEF IInv, TypeOK
<1>3. Size[source[i]] \in Nat \ {0}
  BY <1>2, DownloadAssumption
<1>4. Place(i) <= Last(i) /\ Place(i) <= Size[source[i]] - 1 /\ Place(i) = First(i) + Len(file[i])
  BY <1>1, <1>2, <1>3 DEF Ended, Place, LastByte, Smaller
<1>5. Place(i) \in Nat /\ Place(i) < Size[source[i]]
  BY <1>1, <1>2, <1>3, <1>4
<1>6. Len(file[i]) + 1 <= Length(i)
  BY <1>1, <1>2, <1>4
<1> QED BY <1>2, <1>4, <1>5, <1>6 DEF Byte

-----------------------------------------------------------------------------
(* The steps keep the types *)

LEMMA WholeIsBytes ==
    ASSUME NEW o \in Objects
    PROVE  Whole(o) \in Seq(Byte) /\ Len(Whole(o)) = Size[o] /\ InPlace(Whole(o))
<1>1. Size[o] \in Nat \ {0}
  BY DownloadAssumption
<1>2. \A k \in 1..Size[o] : <<o, k - 1>> \in Byte
  BY <1>1 DEF Byte
<1>3. Whole(o) \in [1..Size[o] -> Byte]
  BY <1>2 DEF Whole
<1>4. Whole(o) \in Seq(Byte) /\ Len(Whole(o)) = Size[o]
  BY <1>1, <1>3
<1> QED BY <1>4 DEF InPlace, Whole

LEMMA GarbageIsBytes == Garbage \in Seq(Byte) /\ Len(Garbage) = Expected
<1> DEFINE o == CHOOSE o \in Objects : TRUE
<1>1. o \in Objects
  BY DownloadAssumption
<1>2. <<o, 0>> \in Byte
  BY <1>1, DownloadAssumption DEF Byte
<1>3. Garbage \in [1..Expected -> Byte]
  BY <1>2 DEF Garbage
<1> QED BY <1>3, DownloadAssumption

LEMMA InitType == Init => TypeOK
<1> SUFFICES ASSUME Init PROVE TypeOK
  OBVIOUS
<1>1. object \in Objects
  BY DEF Init
<1>2. Whole(object) \in Seq(Byte) /\ Len(Whole(object)) \in Nat \ {0} /\ Garbage \in Seq(Byte)
  BY <1>1, WholeIsBytes, GarbageIsBytes, DownloadAssumption
<1>3. SubSeq(Whole(object), 1, 1) \in Seq(Byte)
  BY <1>2
<1>4. <<>> \in Seq(Byte)
  OBVIOUS
<1>5. weights \in Seq(Byte)
  BY Zenon, <1>2, <1>3, <1>4 DEF Init
<1> QED BY <1>1, <1>4, <1>5, DownloadAssumption DEF Init, TypeOK, Idle, Files

LEMMA NextType == IInv /\ [Next]_vars => TypeOK'
<1> SUFFICES ASSUME IInv, [Next]_vars PROVE TypeOK'
  OBVIOUS
<1>0. TypeOK /\ KnownInv
  BY DEF IInv
<1>a. <<>> \in Seq(Byte)
  OBVIOUS
<1>b. UNCHANGED faults \/ Fault => faults' \in 0..MaxFaults
  BY <1>0, DownloadAssumption DEF TypeOK, Fault
<1> USE DEF TypeOK, Answers, Fault, bucket, disk, transfer, copy
<1>1. CASE Ensure
  <2>1. weights' \in Seq(Byte)
    BY <1>0, <1>1, <1>a DEF Ensure, Kept
  <2>2. file' \in [Files -> Seq(Byte)]
    <3>1. file' \in {file, [i \in Files |-> <<>>]}
      BY <1>1 DEF Ensure
    <3> QED BY <1>0, <1>a, <3>1
  <2>3. pc' \in {"called", "rename", "probe"} /\ answer' \in {answer, "ok", "failed"}
    BY <1>1 DEF Ensure
  <2>4. faults' \in 0..MaxFaults
    BY <1>1, <1>b DEF Ensure
  <2> QED BY <1>0, <1>1, <2>1, <2>2, <2>3, <2>4 DEF Ensure
<1>2. CASE Probe
  BY <1>0, <1>2, DownloadAssumption DEF Probe
<1>3. CASE ProbeRanges
  <2>1. thread' \in [Files -> {"none", "begin", "open", "done", "failed"}]
    BY <1>3 DEF ProbeRanges, Idle
  <2>2. pc' \in {"single", "segments"} /\ faults' \in 0..MaxFaults
    BY <1>3, <1>b DEF ProbeRanges
  <2> QED BY <1>0, <1>3, <2>1, <2>2 DEF ProbeRanges
<1>4. ASSUME NEW i \in Files, Skip(i) \/ Finish(i) PROVE TypeOK'
  BY <1>0, <1>4 DEF Skip, Finish
<1>5. ASSUME NEW i \in Files, Request(i) PROVE TypeOK'
  <2>1. \E s \in {"open", "failed"}, h \in {<<>>, file[i]} :
           thread' = [thread EXCEPT ![i] = s] /\ file' = [file EXCEPT ![i] = h]
    BY <1>5 DEF Request
  <2>2. UNCHANGED faults \/ Fault
    BY <1>5 DEF Request
  <2>3. source' = [source EXCEPT ![i] = object]
        /\ UNCHANGED <<bucket, weights, pc, attempt, answer, total, copy>>
    BY <1>5 DEF Request
  <2>4. file' \in [Files -> Seq(Byte)]
    BY <1>0, <1>a, <2>1
  <2>5. thread' \in [Files -> {"none", "begin", "open", "done", "failed"}]
    BY <1>0, <2>1
  <2> QED BY <1>0, <1>b, <2>2, <2>3, <2>4, <2>5
<1>6. ASSUME NEW i \in Files, Receive(i) PROVE TypeOK'
  <2>1. <<source[i], Place(i)>> \in Byte
    BY <1>6, NextByte DEF Receive
  <2>2. file' = [file EXCEPT ![i] = Append(file[i], <<source[i], Place(i)>>)]
    BY <1>6 DEF Receive
  <2>3. file' \in [Files -> Seq(Byte)]
    BY <1>0, <2>1, <2>2, Appended
  <2> QED BY <1>0, <1>6, <2>3 DEF Receive
<1>7. ASSUME NEW i \in Files, Cut(i) PROVE TypeOK'
  BY <1>0, <1>7, DownloadAssumption DEF Cut
<1>8. CASE Join
  <2>1. file' \in [Files -> Seq(Byte)]
    <3>1. file' \in {file, [file EXCEPT ![0] = <<>>]}
      BY <1>8 DEF Join
    <3> QED BY <1>0, <1>a, <3>1
  <2>2. pc' \in {"called", "rename", "concat"} /\ answer' \in {"failed", answer}
    BY <1>8 DEF Join
  <2>3. thread' \in [Files -> {"none", "begin", "open", "done", "failed"}] /\ copied' = 0 /\ offset' = 0
    BY <1>8 DEF Join, Idle
  <2> QED BY <1>0, <1>8, <2>1, <2>2, <2>3, DownloadAssumption DEF Join
<1>9. CASE Concatenate
  <2>1. total \in Nat /\ Count(total) \in 0..MaxSegments /\ copied < Count(total) /\ 0 \in Files
    BY <1>0, <1>9, Counts, DownloadAssumption DEF Concatenate, Files
  <2>2. copied + 1 \in Files /\ copied + 1 \in 0..MaxSegments
    BY <1>0, <2>1, DownloadAssumption DEF Files
  <2>3. file' \in [Files -> Seq(Byte)]
    <3>1. CASE file' = file
      BY <1>0, <3>1
    <3>2. CASE /\ offset < Len(file[copied + 1])
               /\ file' = [file EXCEPT ![0] = Append(file[0], file[copied + 1][offset + 1])]
      <4>1. file[0] \in Seq(Byte) /\ file[copied + 1] \in Seq(Byte)
        BY <1>0, <2>1, <2>2
      <4>2. offset + 1 \in 1..Len(file[copied + 1])
        BY <1>0, <3>2, <4>1
      <4>3. file[copied + 1][offset + 1] \in Byte
        BY <4>1, <4>2, ElementOfSeq
      <4> QED BY <1>0, <3>2, <4>1, <4>3, Appended
    <3> QED BY <1>9, <3>1, <3>2 DEF Concatenate
  <2>4. copied' \in 0..MaxSegments /\ offset' \in Nat
    BY <1>0, <1>9, <2>2 DEF Concatenate
  <2>5. pc' \in {pc, "called"} /\ answer' \in {answer, "failed"}
    BY <1>9 DEF Concatenate
  <2>6. faults' \in 0..MaxFaults
    BY <1>9, <1>b DEF Concatenate
  <2> QED BY <1>0, <1>9, <2>3, <2>4, <2>5, <2>6 DEF Concatenate
<1>9a. CASE Verify
  <2>1. file' \in [Files -> Seq(Byte)]
    <3>1. file' \in {file, [file EXCEPT ![0] = <<>>]}
      BY <1>9a DEF Verify
    <3> QED BY <1>0, <1>a, <3>1
  <2>2. pc' \in {"sweep", "called"} /\ answer' \in {answer, "failed"}
    BY <1>9a DEF Verify
  <2> QED BY <1>0, <1>9a, <2>1, <2>2 DEF Verify
<1>10. CASE Sweep
  <2>1. file' \in [Files -> Seq(Byte)]
    <3>1. file' = file \/ \E i \in Used : file' = [file EXCEPT ![i] = <<>>]
      BY <1>10 DEF Sweep
    <3> QED BY <1>0, <1>a, <3>1
  <2>2. pc' \in {pc, "rename"}
    BY <1>10 DEF Sweep
  <2> QED BY <1>0, <1>10, <2>1, <2>2 DEF Sweep
<1>11. CASE Rename
  <2>1. file[0] \in Seq(Byte)
    BY <1>0, DownloadAssumption DEF Files
  <2>2. weights' \in {weights, file[0], <<>>} /\ file' \in {file, [file EXCEPT ![0] = <<>>]}
    BY <1>11 DEF Rename, Kept
  <2>3. weights' \in Seq(Byte)
    BY <1>0, <1>a, <2>1, <2>2
  <2>4. file' \in [Files -> Seq(Byte)]
    BY <1>0, <1>a, <2>2
  <2>5. pc' = "called" /\ answer' \in {"ok", "failed"} /\ faults' \in 0..MaxFaults
    BY <1>11, <1>b DEF Rename
  <2> QED BY <1>0, <1>11, <2>3, <2>4, <2>5 DEF Rename
<1>12. CASE Load
  <2>1. weights' \in {weights, <<>>} /\ pc' \in {"idle", "loaded"} /\ attempt' = 0 /\ answer' = "none"
    BY <1>12 DEF Load
  <2>2. weights' \in Seq(Byte)
    BY <1>0, <1>a, <2>1
  <2> QED BY <1>0, <1>12, <2>1, <2>2, DownloadAssumption DEF Load
<1>12a. CASE Boot
  <2>1. weights' \in Seq(Byte) /\ pc' \in {"idle", "loaded"}
    BY <1>0, <1>12a, <1>a DEF Boot, Kept
  <2> QED BY <1>0, <1>12a, <2>1 DEF Boot
<1>12b. CASE Ask
  BY <1>0, <1>12b, DownloadAssumption DEF Ask
<1>12c. CASE Again
  <2>1. pc' \in {"call", "idle"} /\ attempt' \in 0..MaxAttempts /\ answer' = "none"
    BY <1>0, <1>12c, DownloadAssumption DEF Again
  <2> QED BY <1>0, <1>12c, <2>1 DEF Again
<1>13. CASE Crash
  BY <1>0, <1>13, DownloadAssumption DEF Crash, Idle
<1>14. CASE Publish
  BY <1>0, <1>14, DownloadAssumption DEF Publish
<1>15. CASE UNCHANGED vars
  BY <1>0, <1>15 DEF vars
<1> QED BY <1>1, <1>2, <1>3, <1>4, <1>5, <1>6, <1>7, <1>8, <1>9, <1>9a, <1>10, <1>11, <1>12,
           <1>12a, <1>12b, <1>12c, <1>13, <1>14, <1>15 DEF Next, Progress, Transfer

-----------------------------------------------------------------------------
(* ... and what a download knows *)

LEMMA RangeStays ==
    ASSUME NEW i \in Files, UNCHANGED total, i = 0 => source'[i] = source[i]
    PROVE  Length(i)' = Length(i) /\ First(i)' = First(i)
BY DEF Length, First, Last, Count, Smaller

LEMMA NextKnown == IInv /\ [Next]_vars => KnownInv'
<1> SUFFICES ASSUME IInv, [Next]_vars PROVE KnownInv'
  OBVIOUS
<1>0. TypeOK /\ KnownInv
  BY DEF IInv
<1> USE DEF KnownInv, Working, Answers, bucket, disk, transfer
<1>1. CASE Ensure
  BY <1>0, <1>1 DEF Ensure, Kept, Complete
<1>2. CASE Probe
  BY <1>0, <1>2 DEF Probe
<1>3. CASE ProbeRanges
  <2>1. Count(total) \in Nat /\ pc' \in {"single", "segments"}
    <3>1. total \in Nat
      BY <1>0 DEF TypeOK
    <3> QED BY <1>3, <3>1, Counts DEF ProbeRanges
  <2>2. pc' = "segments" => ranges /\ Count(total) >= 2
    BY <1>3, <2>1 DEF ProbeRanges
  <2>3. UNCHANGED <<bucket, weights, answer, total, source>>
    BY <1>3 DEF ProbeRanges
  <2> HIDE DEF bucket
  <2>4. Count(total)' = Count(total) /\ UNCHANGED <<object, published, ranges>>
    BY <2>3 DEF Count, bucket
  <2> QED BY <1>0, <1>3, <2>1, <2>2, <2>3, <2>4 DEF ProbeRanges
<1>4. ASSUME NEW i \in Files, Skip(i) \/ Finish(i) \/ Receive(i) \/ Cut(i) PROVE KnownInv'
  BY <1>0, <1>4 DEF Skip, Finish, Receive, Cut, Count, Smaller
<1>5. ASSUME NEW i \in Files, Request(i) PROVE KnownInv'
  <2>1. source' = [source EXCEPT ![i] = object]
        /\ UNCHANGED <<bucket, weights, pc, answer, total>>
    BY <1>5 DEF Request
  <2>2. \A j \in Files : source'[j] \in published
    BY <1>0, <2>1 DEF TypeOK
  <2> QED BY <1>0, <2>1, <2>2 DEF Count, Smaller
<1>8. CASE Join
  <2>1. pc' \in {"called", "rename", "concat"} /\ (pc' = "concat" => pc = "segments")
        /\ (pc' # "called" => UNCHANGED answer)
    BY <1>8 DEF Join
  <2>2. UNCHANGED <<bucket, weights, total, source>> /\ Working
    BY <1>8 DEF Join
  <2> QED BY <1>0, <2>1, <2>2 DEF Count, Smaller
<1>9. CASE Concatenate \/ Verify
  <2>1. pc' \in {"concat", "sweep", "called"} /\ pc = "concat" /\ (pc' # "called" => UNCHANGED answer)
        /\ UNCHANGED <<bucket, weights, total, source>>
    BY <1>9 DEF Concatenate, Verify
  <2> QED BY <1>0, <2>1 DEF Count, Smaller
<1>10. CASE Sweep
  <2>1. pc' \in {"sweep", "rename"} /\ pc = "sweep"
        /\ UNCHANGED <<bucket, weights, answer, total, source>>
    BY <1>10 DEF Sweep
  <2> QED BY <1>0, <2>1 DEF Count, Smaller
<1>11. CASE Rename
  BY <1>0, <1>11 DEF Rename
<1>12. CASE Load \/ Boot \/ Ask \/ Again
  BY <1>0, <1>12 DEF Load, Boot, Ask, Again
<1>13. CASE Crash
  BY <1>0, <1>13 DEF Crash
<1>14. CASE Publish
  BY <1>0, <1>14 DEF Publish, Count, Smaller
<1>15. CASE UNCHANGED vars
  BY <1>0, <1>15 DEF vars, Count, Smaller
<1> QED BY <1>1, <1>2, <1>3, <1>4, <1>5, <1>8, <1>9, <1>10, <1>11, <1>12, <1>13, <1>14, <1>15
        DEF Next, Progress, Transfer

\* The files a transfer that is done has filled stay as they are.
LEMMA NextThread == IInv /\ [Next]_vars => ThreadInv'
<1> SUFFICES ASSUME IInv, [Next]_vars PROVE ThreadInv'
  OBVIOUS
<1>0. TypeOK /\ KnownInv /\ ThreadInv
  BY DEF IInv
<1>a. ASSUME NEW i \in Files, UNCHANGED <<pc, total>>, \A j \in Files : source'[j] = source[j] \/ j = i,
             thread[i] # "none", thread'[i] # "none",
             \A j \in Files \ {i} : thread'[j] = thread[j] /\ file'[j] = file[j],
             thread'[i] = "done" => Len(file'[i]) = Length(i) /\ source'[i] = source[i]
      PROVE  ThreadInv'
  <2>1. \A j \in Files : thread'[j] # "none" <=> thread[j] # "none"
    BY <1>a
  <2>2. Used' = Used
    BY <1>a DEF Used, Count, Smaller
  <2>3. \A j \in Files : thread'[j] = "done" => Len(file'[j]) = Length(j)'
    <3> SUFFICES ASSUME NEW j \in Files, thread'[j] = "done" PROVE Len(file'[j]) = Length(j)'
      OBVIOUS
    <3>1. CASE j = i
      BY <1>a, <3>1, RangeStays
    <3>2. CASE j # i
      BY <1>0, <1>a, <3>2, RangeStays DEF ThreadInv
    <3> QED BY <3>1, <3>2
  <2> QED BY <1>0, <1>a, <2>1, <2>2, <2>3 DEF ThreadInv
<1>b. ASSUME pc' \notin {"single", "segments"}, \A i \in Files : thread'[i] = "none" PROVE ThreadInv'
  BY <1>b DEF ThreadInv
<1>c. pc \notin {"single", "segments"} => \A i \in Files : thread[i] = "none"
  BY <1>0 DEF ThreadInv
<1>1. CASE Ensure
  BY <1>1, <1>b, <1>c DEF Ensure, transfer, Answers
<1>2. CASE Probe
  BY <1>2, <1>b, <1>c DEF Probe, transfer
<1>3. CASE ProbeRanges
  <2>1. pc' \in {"single", "segments"} /\ total' = total
    BY <1>3 DEF ProbeRanges
  <2>2. Used' = Used /\ Used \subseteq Nat \ {0}
    BY <1>0, <2>1, Counts DEF Used, Count, Smaller, TypeOK
  <2>3. thread' = IF pc' = "single" THEN [Idle EXCEPT ![0] = "begin"]
                  ELSE [i \in Files |-> IF i \in Used THEN "begin" ELSE "none"]
    BY <1>3 DEF ProbeRanges
  <2> QED BY <2>1, <2>2, <2>3, DownloadAssumption DEF ThreadInv, Idle, Files
<1>4. ASSUME NEW i \in Files, Skip(i) \/ Finish(i) \/ Cut(i) PROVE ThreadInv'
  <2>1. \E s \in {"done", "failed"} :
           thread' = [thread EXCEPT ![i] = s] /\ (s = "done" => Len(file[i]) = Length(i))
    BY <1>4 DEF Skip, Finish, Cut
  <2>2. UNCHANGED <<pc, total, source, file>> /\ thread[i] # "none"
    BY <1>4 DEF Skip, Finish, Cut, disk
  <2> QED BY <1>0, <1>a, <2>1, <2>2 DEF TypeOK
<1>5. ASSUME NEW i \in Files, Request(i) PROVE ThreadInv'
  <2>1. \E s \in {"open", "failed"}, h \in {<<>>, file[i]} :
           thread' = [thread EXCEPT ![i] = s] /\ file' = [file EXCEPT ![i] = h]
    BY <1>5 DEF Request
  <2>2. UNCHANGED <<pc, total>> /\ source' = [source EXCEPT ![i] = object] /\ thread[i] # "none"
    BY <1>5 DEF Request
  <2>3. \A j \in Files \ {i} :
           thread'[j] = thread[j] /\ file'[j] = file[j] /\ source'[j] = source[j]
    BY <1>0, <2>1, <2>2 DEF TypeOK
  <2>4. thread'[i] \in {"open", "failed"}
    BY <1>0, <2>1 DEF TypeOK
  <2> QED BY <1>a, <2>2, <2>3, <2>4
<1>6. ASSUME NEW i \in Files, Receive(i) PROVE ThreadInv'
  <2>1. UNCHANGED <<pc, total, source, thread>> /\ thread[i] = "open"
        /\ \A j \in Files \ {i} : file'[j] = file[j]
    BY <1>0, <1>6 DEF Receive, transfer, TypeOK
  <2> QED BY <1>a, <2>1
<1>8. CASE Join
  BY <1>8, <1>b DEF Join, Idle, Answers
<1>9. CASE Concatenate \/ Verify
  BY <1>9, <1>b, <1>c DEF Concatenate, Verify, transfer, Answers
<1>10. CASE Sweep
  BY <1>10, <1>b, <1>c DEF Sweep, transfer
<1>11. CASE Rename
  BY <1>11, <1>b, <1>c DEF Rename, transfer, Answers
<1>12. CASE Load \/ Boot \/ Ask \/ Again
  BY <1>12, <1>b, <1>c DEF Load, Boot, Ask, Again, transfer
<1>13. CASE Crash
  BY <1>13, <1>b DEF Crash, Idle
<1>14. CASE Publish \/ UNCHANGED vars
  <2>1. UNCHANGED <<pc, total, source, thread, file>>
    BY <1>14 DEF Publish, vars, disk, transfer
  <2>2. Used' = Used
    BY <2>1 DEF Used, Count, Smaller
  <2> QED BY <1>0, <2>1, <2>2, RangeStays DEF ThreadInv
<1> QED BY <1>1, <1>2, <1>3, <1>4, <1>5, <1>6, <1>8, <1>9, <1>10, <1>11, <1>12, <1>13, <1>14
        DEF Next, Progress, Transfer

LEMMA NextConcat == IInv /\ [Next]_vars => ConcatInv'
<1> SUFFICES ASSUME IInv, [Next]_vars, pc' \in {"concat", "sweep"} PROVE ConcatInv'
  BY DEF ConcatInv
<1>0. TypeOK /\ KnownInv /\ ThreadInv /\ ConcatInv /\ 0 \in Files
  BY DownloadAssumption DEF IInv, Files
<1>a. total \in Nat /\ copied \in Nat /\ offset \in Nat /\ Count(total) \in 0..MaxSegments
  <2>1. total \in Nat /\ copied \in Nat /\ offset \in Nat
    BY <1>0 DEF TypeOK
  <2> QED BY <2>1, Counts
<1>1. CASE UNCHANGED <<pc, total, copied, offset, file>>
  <2>1. Count(total)' = Count(total) /\ Used' = Used /\ Copied' = Copied
    BY <1>1 DEF Count, Smaller, Used, Copied, End, Step
  <2>2. \A j \in Nat \ {0} : Length(j)' = Length(j)
    BY <1>1 DEF Length, First, Last, Count, Smaller
  <2>3. (Length(copied + 1))' = Length(copied + 1) /\ \A j \in Used : Length(j)' = Length(j)
    <3>1. copied + 1 \in Nat \ {0} /\ Used \subseteq Nat \ {0}
      BY <1>a DEF Used
    <3>2. (Length(copied + 1))' = Length(copied + 1)
      BY <1>1, <1>a DEF Length, First, Last, Count, Smaller
    <3> QED BY <2>2, <3>1, <3>2
  <2> QED BY <1>0, <1>1, <2>1, <2>3 DEF ConcatInv
<1>2. CASE Join
  <2>1. pc' = "concat" /\ pc = "segments" /\ copied' = 0 /\ offset' = 0
        /\ file' = [file EXCEPT ![0] = <<>>] /\ UNCHANGED total
        /\ \A i \in Files : thread[i] \in {"none", "done"}
    BY <1>2 DEF Join, Answers
  <2>2. Count(total) >= 2
    BY <1>0, <2>1 DEF KnownInv
  <2>3. ASSUME NEW j \in Used PROVE Len(file'[j]) = Length(j)' /\ Length(j)' \in Nat
    <3>1. j \in Files /\ j # 0
      BY <1>a, <2>2, DownloadAssumption DEF Used, Files
    <3>2. thread[j] = "done"
      BY <1>0, <2>1, <2>3, <3>1 DEF ThreadInv
    <3>3. file'[j] = file[j]
      BY <1>0, <2>1, <3>1 DEF TypeOK
    <3>4. Length(j) \in Nat
      BY <1>a, <2>2, SegmentRange
    <3> QED BY <1>0, <2>1, <3>1, <3>2, <3>3, <3>4, RangeStays DEF ThreadInv
  <2>4. Len(file'[0]) = 0
    BY <1>0, <2>1 DEF TypeOK
  <2>5. Count(total)' = Count(total) /\ Used' = Used /\ Step(total)' = Step(total)
    BY <2>1 DEF Count, Used, Step, Smaller
  <2>6. Copied' = 0 /\ 1 \in Used /\ 0 <= Count(total) /\ 0 # Count(total)
    <3>1. 0 * Step(total) = 0
      BY <1>a, <2>2, Counts
    <3> QED BY <1>a, <2>1, <2>2, <2>5, <3>1 DEF Copied, End, Used
  <2>7. 0 <= Length(1)'
    BY <2>3, <2>6
  <2>8. copied' + 1 = 1
    BY <2>1
  <2> QED BY <2>1, <2>3, <2>4, <2>5, <2>6, <2>7, <2>8 DEF ConcatInv
<1>3. CASE Concatenate
  <2> DEFINE c == Count(total)
             f == file[copied + 1]
  <2>1. pc = "concat" /\ pc' = "concat" /\ copied < c /\ UNCHANGED total
    BY <1>3 DEF Concatenate, Answers
  <2>2. c >= 2
    BY <1>0, <2>1 DEF KnownInv
  <2>3. /\ copied + 1 \in Used /\ Length(copied + 1) \in Nat
        /\ End(copied) \in Nat /\ End(copied + 1) = End(copied) + Length(copied + 1)
    BY <1>a, <2>1, <2>2, Ends
  <2>4. Used \subseteq Files \ {0}
    BY <1>a, DownloadAssumption DEF Used, Files
  <2>5. /\ \A j \in Used : Len(file[j]) = Length(j)
        /\ offset <= Length(copied + 1)
        /\ Len(file[0]) <= End(copied) + offset
        /\ ~ReadsFail => Len(file[0]) = End(copied) + offset
    BY <1>0, <1>a, <2>1 DEF ConcatInv, Copied
  <2>6. f \in Seq(Byte) /\ file[0] \in Seq(Byte) /\ Len(f) = Length(copied + 1)
    BY <1>0, <2>3, <2>4, <2>5 DEF TypeOK
  <2>7. /\ Count(total)' = c /\ Used' = Used
        /\ Copied' = (IF copied' = c THEN total ELSE copied' * Step(total)) + offset'
        /\ \A k : End(k) = IF k = c THEN total ELSE k * Step(total)
    BY <2>1 DEF Count, Used, Smaller, Copied, End, Step
  <2>8. \A j \in Used : Length(j)' = Length(j)
    BY <2>1, <2>4, RangeStays
  <2>9. copied' \in {copied, copied + 1} => (Length(copied + 1))' = Length(copied' + 1)
    <3> SUFFICES ASSUME copied' \in {copied, copied + 1}
                 PROVE  (Length(copied + 1))' = Length(copied' + 1)
      OBVIOUS
    <3>1. copied' + 1 # 0
      <4>1. copied + 1 # 0 /\ copied + 1 + 1 # 0
        BY <1>a
      <4>2. CASE copied' = copied
        BY <4>1, <4>2
      <4>3. CASE copied' = copied + 1
        BY <4>1, <4>3
      <4> QED BY <4>2, <4>3
    <3> QED BY <2>1, <3>1 DEF Length, First, Last
  <2>10. CASE /\ offset < Len(f) /\ copied' = copied /\ offset' = offset + 1
              /\ file' = [file EXCEPT ![0] = Append(file[0], f[offset + 1])]
    <3>1. file'[0] = Append(file[0], f[offset + 1]) /\ \A j \in Used : file'[j] = file[j]
      BY <1>0, <2>4, <2>10 DEF TypeOK
    <3>2. offset + 1 \in 1..Len(f)
      BY <1>a, <2>6, <2>10
    <3>3. f[offset + 1] \in Byte
      BY <2>6, <3>2, ElementOfSeq
    <3>4. Len(file'[0]) = Len(file[0]) + 1 /\ Len(file[0]) \in Nat
      BY <2>6, <3>1, <3>3, Appended
    <3>5. Copied' = End(copied) + offset + 1
      BY <1>a, <2>3, <2>7, <2>10
    <3>6. Len(file'[0]) <= Copied' /\ (~ReadsFail => Len(file'[0]) = Copied')
      BY <1>a, <2>3, <2>5, <3>4, <3>5
    <3>7. offset' <= (Length(copied + 1))' /\ copied' # Count(total)' /\ copied' <= Count(total)'
      BY <1>a, <2>1, <2>3, <2>6, <2>7, <2>9, <2>10
    <3>8. \A j \in Used' : Len(file'[j]) = Length(j)'
      BY <2>5, <2>7, <2>8, <3>1
    <3> QED BY <2>1, <3>6, <3>7, <3>8 DEF ConcatInv
  <2>11. CASE offset = Len(f) /\ copied' = copied + 1 /\ offset' = 0 /\ file' = file
    <3>1. Copied' = End(copied + 1)
      BY <1>a, <2>3, <2>7, <2>11
    <3>2. Len(file'[0]) <= Copied' /\ (~ReadsFail => Len(file'[0]) = Copied')
      BY <1>a, <2>3, <2>5, <2>6, <2>11, <3>1
    <3> HIDE DEF c
    <3>3. copied' <= Count(total)'
      BY <1>a, <2>1, <2>7, <2>11 DEF c
    <3>4. copied' # Count(total)' => offset' <= (Length(copied + 1))'
      <4> SUFFICES ASSUME copied' # Count(total)' PROVE offset' <= (Length(copied + 1))'
        OBVIOUS
      <4>1. copied + 1 < Count(total) /\ copied + 1 \in Nat
        BY <1>a, <2>7, <2>11, <3>3 DEF c
      <4>2. Length(copied + 1 + 1) \in Nat
        BY <1>a, <2>2, <4>1, Ends DEF c
      <4> QED BY <2>9, <2>11, <4>2
    <3>5. \A j \in Used' : Len(file'[j]) = Length(j)'
      BY <2>5, <2>7, <2>8, <2>11
    <3> QED BY <2>1, <2>11, <3>2, <3>3, <3>4, <3>5 DEF ConcatInv
  <2>12. CASE ReadsFail /\ copied' = copied + 1 /\ offset' = 0 /\ file' = file
    <3>1. Copied' = End(copied + 1)
      BY <1>a, <2>3, <2>7, <2>12
    <3>a. Len(file[0]) \in Nat
      BY <2>6
    <3>2. Len(file'[0]) <= Copied'
      BY <1>a, <2>3, <2>5, <2>12, <3>1, <3>a
    <3> HIDE DEF c
    <3>3. copied' <= Count(total)'
      BY <1>a, <2>1, <2>7, <2>12 DEF c
    <3>4. copied' # Count(total)' => offset' <= (Length(copied + 1))'
      <4> SUFFICES ASSUME copied' # Count(total)' PROVE offset' <= (Length(copied + 1))'
        OBVIOUS
      <4>1. copied + 1 < Count(total) /\ copied + 1 \in Nat
        BY <1>a, <2>7, <2>12, <3>3 DEF c
      <4>2. Length(copied + 1 + 1) \in Nat
        BY <1>a, <2>2, <4>1, Ends DEF c
      <4> QED BY <2>9, <2>12, <4>2
    <3>5. \A j \in Used' : Len(file'[j]) = Length(j)'
      BY <2>5, <2>7, <2>8, <2>12
    <3> QED BY <2>1, <2>12, <3>2, <3>3, <3>4, <3>5 DEF ConcatInv
  <2>13. pc' # "called"
    BY <2>1
  <2> QED BY <1>3, <2>10, <2>11, <2>12, <2>13 DEF Concatenate, Answers
<1>4. CASE Verify
  BY <1>4 DEF Verify, Answers, ConcatInv
<1>5. CASE Sweep
  <2>1. pc = "sweep" /\ pc' = "sweep" /\ UNCHANGED total
        /\ \E i \in Used : file' = [file EXCEPT ![i] = <<>>]
    BY <1>5 DEF Sweep
  <2>2. file'[0] = file[0]
    BY <1>0, <1>a, <2>1 DEF Used, TypeOK
  <2> QED BY <1>0, <2>1, <2>2 DEF ConcatInv
<1>6. CASE Publish \/ UNCHANGED vars
  BY <1>1, <1>6 DEF Publish, vars, disk, copy
<1>7. ~Ensure /\ ~Probe /\ ~ProbeRanges /\ ~Rename /\ ~Load /\ ~Boot /\ ~Ask /\ ~Again /\ ~Crash
  BY DEF Ensure, Probe, ProbeRanges, Rename, Load, Boot, Ask, Again, Crash, Answers
<1>8. ASSUME NEW i \in Files, Transfer(i) \/ Cut(i) PROVE FALSE
  <2>1. thread[i] # "none" /\ pc' = pc
    BY <1>8 DEF Transfer, Skip, Request, Receive, Finish, Cut
  <2> QED BY <1>0, <2>1 DEF ThreadInv
<1> QED BY <1>2, <1>3, <1>4, <1>5, <1>6, <1>7, <1>8 DEF Next, Progress

-----------------------------------------------------------------------------
(* Theorems *)

\* IInv is invariant: what the theorems follow from.
THEOREM Invariance == Spec => []IInv
<1>1. Init => IInv
  <2> SUFFICES ASSUME Init PROVE IInv
    OBVIOUS
  <2>1. KnownInv
    BY DEF Init, KnownInv, Working
  <2>2. ThreadInv /\ ConcatInv
    BY DEF Init, ThreadInv, ConcatInv, Idle
  <2> QED BY <2>1, <2>2, InitType DEF IInv
<1>2. IInv /\ [Next]_vars => IInv'
  BY NextType, NextKnown, NextThread, NextConcat DEF IInv
<1> QED BY <1>1, <1>2, PTL DEF Spec

\* Files are sequences of bytes that published objects have, and everything
\* else has its type (TypeOK).
THEOREM TypeCorrect == Spec => []TypeOK
BY Invariance, PTL DEF IInv

-----------------------------------------------------------------------------
(* Every byte is where it belongs *)

Layout(len) == \A o \in Objects : Count(Size[o]) >= 2 => Step(Size[o]) = len

\* What is being fetched in segments is cut as every object is.
LEMMA SegmentsFollowLayout ==
    ASSUME IInv, NEW len \in Nat, Layout(len), Count(total) >= 2
    PROVE  Step(total) = len
<1>1. Count(0) = 0
  BY DownloadAssumption DEF Count, Smaller
<1>2. PICK o \in published : total = Size[o]
  BY <1>1 DEF IInv, KnownInv
<1> QED BY <1>2 DEF Layout, IInv, TypeOK

LEMMA EmptyOrKept ==
    ASSUME IInv, NEW len \in Nat, PlacedInv(len),
           weights' \in {weights, <<>>}, \A i \in Files : file'[i] \in {file[i], <<>>}
    PROVE  PlacedInv(len)'
<1>1. InPlace(<<>>)
  BY DEF InPlace
<1>2. 0 \in Files /\ Segments \subseteq Files
  BY DownloadAssumption DEF Files, Segments
<1>3. Len(<<>>) = 0
  OBVIOUS
<1>4. weights' = Garbage \/ InPlace(weights')
  BY <1>1 DEF PlacedInv
<1>5. \A k \in 1..Len(file'[0]) : file'[0][k][2] = k - 1
  BY <1>2, <1>3 DEF PlacedInv
<1>6. ASSUME NEW i \in Segments, NEW k \in 1..Len(file'[i])
      PROVE  file'[i][k][2] = (i - 1) * len + k - 1
  <2>1. file'[i] = file[i]
    BY <1>2, <1>3
  <2> QED BY <2>1 DEF PlacedInv
<1> QED BY <1>4, <1>5, <1>6 DEF PlacedInv

LEMMA ReceivePlaces ==
    ASSUME IInv, NEW len \in Nat, Layout(len), PlacedInv(len), NEW i \in Files, Receive(i)
    PROVE  PlacedInv(len)'
<1> DEFINE b == <<source[i], Place(i)>>
<1>1. /\ UNCHANGED weights
      /\ file'[i] = Append(file[i], b)
      /\ \A j \in Files \ {i} : file'[j] = file[j]
  BY DEF Receive, IInv, TypeOK
<1>2. file[i] \in Seq(Byte) /\ thread[i] = "open" /\ ~Ended(i)
  BY DEF IInv, TypeOK, Receive
<1>3. b \in Byte /\ b[2] = First(i) + Len(file[i])
  BY <1>2, NextByte
<1>4. /\ Len(file'[i]) = Len(file[i]) + 1 /\ Len(file[i]) \in Nat
      /\ \A k \in 1..Len(file[i]) : file'[i][k] = file[i][k]
      /\ file'[i][Len(file[i]) + 1][2] = First(i) + Len(file[i])
  BY <1>1, <1>2, <1>3, Appended
<1>5. 0 \in Files /\ Segments = Files \ {0}
  BY DownloadAssumption DEF Files, Segments
<1>6. i = 0 => First(i) = 0
  BY DEF First
<1>7. i # 0 => First(i) = (i - 1) * len /\ (i - 1) * len \in Nat
  <2> SUFFICES ASSUME i # 0 PROVE First(i) = (i - 1) * len /\ (i - 1) * len \in Nat
    OBVIOUS
  <2>1. Count(total) >= 2 /\ First(i) = (i - 1) * Step(total)
    BY <1>2, ThreadRange
  <2>2. i - 1 \in Nat
    BY DownloadAssumption DEF Files
  <2> QED BY <2>1, <2>2, SegmentsFollowLayout, Times
<1> HIDE DEF b
<1>8. \A k \in 1..Len(file'[0]) : file'[0][k][2] = k - 1
  <2>1. CASE i = 0
    <3> SUFFICES ASSUME NEW k \in 1..Len(file'[0]) PROVE file'[0][k][2] = k - 1
      OBVIOUS
    <3>1. CASE k \in 1..Len(file[0])
      BY <1>4, <2>1, <3>1 DEF PlacedInv
    <3>2. CASE k \notin 1..Len(file[0])
      <4>1. k = Len(file[i]) + 1
        BY <1>4, <2>1, <3>2
      <4> QED BY <1>4, <1>6, <2>1, <4>1
    <3> QED BY <3>1, <3>2
  <2>2. CASE i # 0
    BY <1>1, <1>5, <2>2 DEF PlacedInv
  <2> QED BY <2>1, <2>2
<1>9. ASSUME NEW j \in Segments, NEW k \in 1..Len(file'[j])
      PROVE  file'[j][k][2] = (j - 1) * len + k - 1
  <2>1. CASE j # i
    <3>1. file'[j] = file[j]
      BY <1>1, <1>5, <2>1
    <3> QED BY <3>1 DEF PlacedInv
  <2>2. CASE j = i /\ k <= Len(file[i])
    <3>1. k \in 1..Len(file[j]) /\ file'[j][k] = file[j][k]
      BY <1>4, <2>2
    <3> QED BY <3>1 DEF PlacedInv
  <2>3. CASE j = i /\ k > Len(file[i])
    <3>1. k = Len(file[i]) + 1 /\ j # 0
      BY <1>4, <1>5, <2>3
    <3>2. file'[j][k][2] = (j - 1) * len + Len(file[i]) /\ (j - 1) * len \in Nat
      BY <1>4, <1>7, <2>3, <3>1
    <3> QED BY <1>4, <3>1, <3>2
  <2>4. k \in Nat
    OBVIOUS
  <2> QED BY <1>4, <2>1, <2>2, <2>3, <2>4
<1> QED BY <1>1, <1>8, <1>9 DEF PlacedInv

LEMMA ConcatenatePlaces ==
    ASSUME ~ReadsFail, IInv, NEW len \in Nat, Layout(len), PlacedInv(len), Concatenate
    PROVE  PlacedInv(len)'
<1> DEFINE f == file[copied + 1]
<1>1. UNCHANGED weights /\ pc = "concat" /\ copied < Count(total)
  BY DEF Concatenate
<1>2. total \in Nat /\ copied \in Nat /\ offset \in Nat /\ file \in [Files -> Seq(Byte)]
  BY DEF IInv, TypeOK
<1>3. Count(total) \in 0..MaxSegments /\ Count(total) >= 2
  BY <1>1, <1>2, Counts DEF IInv, KnownInv
<1>4. copied + 1 \in Segments /\ Segments = Files \ {0} /\ 0 \in Files
  BY <1>1, <1>2, <1>3, DownloadAssumption DEF Files, Segments
<1>5. Len(file[0]) = copied * len + offset /\ copied * len \in Nat
  <2>1. Len(file[0]) = copied * Step(total) + offset
    BY <1>1, <1>2, <1>3 DEF IInv, ConcatInv, Copied, End
  <2> QED BY <1>2, <1>3, <2>1, SegmentsFollowLayout, Times
<1>6. file[0] \in Seq(Byte) /\ f \in Seq(Byte)
  BY <1>2, <1>4
<1>7. CASE file' = file
  BY <1>1, <1>7, EmptyOrKept
<1>8. CASE offset < Len(f) /\ file' = [file EXCEPT ![0] = Append(file[0], f[offset + 1])]
  <2>1. file'[0] = Append(file[0], f[offset + 1]) /\ \A i \in Segments : file'[i] = file[i]
    BY <1>2, <1>4, <1>8
  <2>2. offset + 1 \in 1..Len(f)
    BY <1>2, <1>6, <1>8
  <2>3. f[offset + 1] \in Byte
    BY <1>6, <2>2, ElementOfSeq
  <2>4. f[offset + 1][2] = Len(file[0])
    <3> DEFINE j == copied + 1
               k == offset + 1
    <3>1. j \in Segments /\ k \in 1..Len(file[j]) /\ j - 1 = copied /\ k - 1 = offset /\ k \in Nat
      BY <1>2, <1>4, <2>2
    <3> HIDE DEF j, k, f
    <3>2. file[j][k][2] = (j - 1) * len + k - 1
      BY <3>1 DEF PlacedInv
    <3>3. f[offset + 1] = file[j][k]
      BY DEF f, j, k
    <3> QED BY <1>2, <1>5, <3>1, <3>2, <3>3
  <2> HIDE DEF f
  <2>5. ASSUME NEW k \in 1..Len(file'[0]) PROVE file'[0][k][2] = k - 1
    <3>1. CASE k \in 1..Len(file[0])
      BY <1>6, <2>1, <2>3, <3>1, Appended DEF PlacedInv
    <3>2. CASE k \notin 1..Len(file[0])
      <4>1. k = Len(file[0]) + 1
        BY <1>6, <2>1, <2>3, <3>2, Appended
      <4>2. file'[0][k] = f[offset + 1]
        BY <1>6, <2>1, <2>3, <4>1, Appended
      <4> QED BY <1>6, <2>4, <4>1, <4>2
    <3> QED BY <3>1, <3>2
  <2>6. \A i \in Segments : \A k \in 1..Len(file'[i]) : file'[i][k][2] = (i - 1) * len + k - 1
    <3>1. \A i \in Segments : \A k \in 1..Len(file[i]) : file[i][k][2] = (i - 1) * len + k - 1
      BY DEF PlacedInv
    <3> QED BY Zenon, <2>1, <3>1
  <2>7. (weights = Garbage \/ InPlace(weights))'
    BY <1>1 DEF PlacedInv, InPlace
  <2> QED BY Zenon, <2>5, <2>6, <2>7 DEF PlacedInv
<1> QED BY <1>7, <1>8 DEF Concatenate

LEMMA NextPlaced ==
    ASSUME ~ReadsFail, NEW len \in Nat, Layout(len)
    PROVE  IInv /\ PlacedInv(len) /\ [Next]_vars => PlacedInv(len)'
<1> SUFFICES ASSUME IInv, PlacedInv(len), [Next]_vars PROVE PlacedInv(len)'
  OBVIOUS
<1>0. file \in [Files -> Seq(Byte)] /\ 0 \in Files
  BY DownloadAssumption DEF IInv, TypeOK, Files
<1>1. CASE Ensure
  BY <1>0, <1>1, EmptyOrKept DEF Ensure, Kept
<1>2. CASE Probe \/ ProbeRanges \/ Ask \/ Again \/ Crash \/ Publish \/ UNCHANGED vars
  BY <1>2, EmptyOrKept DEF Probe, ProbeRanges, Ask, Again, Crash, Publish, vars, disk
<1>3. ASSUME NEW i \in Files, Skip(i) \/ Finish(i) \/ Cut(i) PROVE PlacedInv(len)'
  BY <1>3, EmptyOrKept DEF Skip, Finish, Cut, disk
<1>4. ASSUME NEW i \in Files, Request(i) PROVE PlacedInv(len)'
  <2>1. UNCHANGED weights
        /\ \E h \in {<<>>, file[i]} : file' = [file EXCEPT ![i] = h]
    BY <1>4 DEF Request
  <2> QED BY <1>0, <2>1, EmptyOrKept
<1>5. CASE Join \/ Verify
  <2>1. UNCHANGED weights /\ file' \in {file, [file EXCEPT ![0] = <<>>]}
    BY <1>5 DEF Join, Verify
  <2> QED BY <1>0, <2>1, EmptyOrKept
<1>6. CASE Sweep
  <2>1. UNCHANGED weights /\ (file' = file \/ \E i \in Used : file' = [file EXCEPT ![i] = <<>>])
    BY <1>6 DEF Sweep
  <2> QED BY <1>0, <2>1, EmptyOrKept
<1>7. CASE Rename
  <2>1. CASE UNCHANGED disk
    BY <2>1, EmptyOrKept DEF disk
  <2>2. CASE weights' = Kept(file[0]) /\ file' = [file EXCEPT ![0] = <<>>]
    <3>1. InPlace(file[0]) /\ InPlace(<<>>)
      BY <1>0 DEF PlacedInv, InPlace
    <3>2. InPlace(weights')
      BY <2>2, <3>1 DEF Kept
    <3>3. file'[0] = <<>> /\ \A i \in Segments : file'[i] = file[i]
      BY <1>0, <2>2, DownloadAssumption DEF Segments, Files
    <3>4. Len(file'[0]) = 0
      BY <3>3
    <3> QED BY <3>2, <3>3, <3>4 DEF PlacedInv
  <2> QED BY <1>7, <2>1, <2>2 DEF Rename
<1>8. CASE Load \/ Boot
  BY <1>8, EmptyOrKept DEF Load, Boot, Kept
<1> QED BY <1>1, <1>2, <1>3, <1>4, <1>5, <1>6, <1>7, <1>8, ReceivePlaces, ConcatenatePlaces
        DEF Next, Progress, Transfer

\* With objects that are all cut at the same places, and as long as what is on
\* the disk can be read, weights that pass the size check have every byte at its
\* place, whatever was cut, refused, retried, interrupted or published on the
\* way (NothingMisplaced).
THEOREM InPlaceAlways == SameLayout /\ ~ReadsFail => (Spec => []NothingMisplaced)
<1> SUFFICES ASSUME SameLayout, ~ReadsFail PROVE Spec => []NothingMisplaced
  OBVIOUS
<1>1. PICK len \in Nat : Layout(len)
  <2>1. CASE \E o \in Objects : Count(Size[o]) >= 2
    <3>1. PICK o \in Objects : Count(Size[o]) >= 2
      BY <2>1
    <3>2. Step(Size[o]) \in Nat
      BY <3>1, Counts, DownloadAssumption
    <3> QED BY <3>1, <3>2 DEF SameLayout, Layout
  <2>2. CASE ~\E o \in Objects : Count(Size[o]) >= 2
    BY <2>2 DEF Layout
  <2> QED BY <2>1, <2>2
<1>2. Init => PlacedInv(len)
  <2> SUFFICES ASSUME Init PROVE PlacedInv(len)
    OBVIOUS
  <2>1. file = [i \in Files |-> <<>>] /\ 0 \in Files /\ Segments \subseteq Files
    BY DownloadAssumption DEF Init, Files, Segments
  <2>2. \A i \in Files : Len(file[i]) = 0
    BY <2>1
  <2>3. object \in Objects
    BY DEF Init
  <2>4. InPlace(<<>>) /\ InPlace(Whole(object))
    BY <2>3, WholeIsBytes DEF InPlace
  <2>5. InPlace(SubSeq(Whole(object), 1, 1))
    <3>1. Whole(object) \in Seq(Byte) /\ Len(Whole(object)) >= 1
      BY <2>3, WholeIsBytes, DownloadAssumption
    <3>3. DOMAIN SubSeq(Whole(object), 1, 1) = {1} /\ SubSeq(Whole(object), 1, 1)[1] = Whole(object)[1]
      BY <3>1
    <3>4. Whole(object)[1][2] = 0
      BY <2>4, <3>1 DEF InPlace
    <3> QED BY <3>3, <3>4 DEF InPlace
  <2>6. weights = Garbage \/ InPlace(weights)
    BY Zenon, <2>4, <2>5 DEF Init
  <2> QED BY <2>1, <2>2, <2>6 DEF PlacedInv
<1>3. PlacedInv(len) => NothingMisplaced
  BY DEF PlacedInv, NothingMisplaced
<1>4. IInv /\ PlacedInv(len) /\ [Next]_vars => PlacedInv(len)'
  BY <1>1, NextPlaced
<1> QED BY <1>2, <1>3, <1>4, Invariance, PTL DEF Spec

-----------------------------------------------------------------------------
(* No file shrinks *)

\* With right objects only, a download in segments has the expected ranges.
LEMMA RightRange ==
    ASSUME IInv, RightSize, Count(total) >= 2
    PROVE  /\ total = Expected
           /\ \A i \in Used : i \in 1..Count(Expected) /\ i \in Files \ {0}
                              /\ Length(i) = SegmentLength(i)
<1>1. Count(0) = 0
  BY DownloadAssumption DEF Count, Smaller
<1>2. total = Expected
  BY <1>1 DEF IInv, KnownInv, RightSize
<1>3. Count(total) \in 0..MaxSegments /\ Expected \in Nat
  BY <1>2, Counts, DownloadAssumption
<1>4. ASSUME NEW i \in Used PROVE i \in Segments /\ Length(i) = SegmentLength(i)
  BY <1>2, <1>3, SegmentRange DEF SegmentLength
<1> QED BY <1>2, <1>4 DEF Used, Segments, Files

\* No length is negative.
LEMMA RightLengths ==
    /\ Expected \in Nat
    /\ Count(Expected) >= 2 => \A i \in 1..Count(Expected) : SegmentLength(i) \in Nat
<1>1. Expected \in Nat
  BY DownloadAssumption
<1> DEFINE c == Count(Expected)
           n == Step(Expected)
<1>2. ASSUME c >= 2, NEW i \in 1..c PROVE SegmentLength(i) \in Nat
  <2>1. c \in Nat /\ n \in Nat /\ c * n <= Expected
    BY <1>1, <1>2, Counts
  <2>2. i - 1 \in Nat /\ i - 1 <= c
    BY <2>1
  <2>3. (i - 1) * n \in Nat /\ (i - 1) * n <= c * n /\ c * n \in Nat
    BY <2>1, <2>2, Times
  <2> HIDE DEF c, n
  <2>4. Expected - (i - 1) * n \in Nat
    BY <1>1, <2>1, <2>3
  <2> QED BY <2>1, <2>4 DEF SegmentLength, c, n
<1> QED BY <1>1, <1>2

\* A step that empties files or leaves them, and brings nothing to rename.
LEMMA EmptyingFits ==
    ASSUME IInv, FitInv, RightSize' => RightSize,
           \A i \in Files : file'[i] \in {file[i], <<>>},
           RightSize /\ pc' = "rename" => Complete(file'[0])
    PROVE  FitInv'
<1> SUFFICES ASSUME RightSize' PROVE FitInv'
  BY DEF FitInv
<1>0. RightSize
  OBVIOUS
<1>1. 0 \in Files /\ (Count(Expected) >= 2 => 1..Count(Expected) \subseteq Files)
  <2>1. Count(Expected) \in 0..MaxSegments
    BY Counts, DownloadAssumption
  <2> QED BY <2>1, DownloadAssumption DEF Files
<1>2. Len(<<>>) = 0
  OBVIOUS
<1>3. Len(file'[0]) <= Expected
  BY <1>0, <1>1, <1>2, RightLengths DEF FitInv
<1>4. ASSUME Count(Expected) >= 2, NEW i \in 1..Count(Expected)
      PROVE  Len(file'[i]) <= SegmentLength(i)
  <2>1. i \in Files /\ SegmentLength(i) \in Nat /\ Len(file[i]) <= SegmentLength(i)
    BY <1>0, <1>1, <1>4, RightLengths DEF FitInv
  <2>2. file'[i] = file[i] \/ Len(file'[i]) = 0
    BY <1>2, <2>1
  <2> QED BY <2>1, <2>2
<1> QED BY <1>0, <1>3, <1>4 DEF FitInv, SegmentLength, Count, Smaller, Step

LEMMA ReceiveFits ==
    ASSUME IInv, FitInv, NEW i \in Files, Receive(i)
    PROVE  FitInv'
<1>0. UNCHANGED <<published, pc, total>> /\ thread[i] = "open" /\ ~Ended(i)
  BY DEF Receive, bucket
<1> SUFFICES ASSUME RightSize' PROVE FitInv'
  BY DEF FitInv
<1>1. RightSize
  BY <1>0 DEF RightSize
<1>2. <<source[i], Place(i)>> \in Byte /\ Len(file[i]) + 1 <= Length(i)
  BY <1>0, NextByte
<1>3. file'[i] = Append(file[i], <<source[i], Place(i)>>) /\ file[i] \in Seq(Byte)
      /\ \A j \in Files \ {i} : file'[j] = file[j]
  BY DEF Receive, IInv, TypeOK
<1>4. Len(file'[i]) = Len(file[i]) + 1
  BY <1>2, <1>3, Appended
<1>5. 0 \in Files /\ (Count(Expected) >= 2 => 1..Count(Expected) \subseteq Files \ {0})
  <2>1. Count(Expected) \in 0..MaxSegments
    BY Counts, DownloadAssumption
  <2> QED BY <2>1, DownloadAssumption DEF Files
<1>6. Len(file'[0]) <= Expected
  <2>1. CASE i = 0
    <3>1. Length(0) = Expected
      BY <1>0, <1>1, <2>1, ThreadRange DEF RightSize, IInv, KnownInv
    <3> QED BY <1>2, <1>4, <2>1, <3>1
  <2>2. CASE i # 0
    BY <1>1, <1>3, <1>5, <2>2 DEF FitInv
  <2> QED BY <2>1, <2>2
<1>7. ASSUME Count(Expected) >= 2, NEW j \in 1..Count(Expected)
      PROVE  Len(file'[j]) <= SegmentLength(j)
  <2>1. CASE i = j
    <3>1. Count(total) >= 2 /\ i \in Used
      BY <1>0, <1>5, <1>7, <2>1, ThreadRange
    <3>2. Length(i) = SegmentLength(i)
      BY <1>1, <3>1, RightRange
    <3> QED BY <1>2, <1>4, <2>1, <3>2
  <2>2. CASE i # j
    BY <1>1, <1>3, <1>5, <1>7, <2>2 DEF FitInv
  <2> QED BY <2>1, <2>2
<1>8. pc' = "rename" => FALSE
  <2>1. pc \in {"single", "segments"}
    BY <1>0 DEF IInv, ThreadInv
  <2> QED BY <1>0, <2>1
<1> QED BY <1>6, <1>7, <1>8 DEF FitInv, SegmentLength, Count, Smaller, Step

\* What has been copied does not go beyond the object.
LEMMA CopiedWithin == IInv => (pc = "concat" => Len(file[0]) <= total)
<1> SUFFICES ASSUME IInv, pc = "concat" PROVE Len(file[0]) <= total
  OBVIOUS
<1>1. /\ Count(total) >= 2 /\ copied <= Count(total) /\ Len(file[0]) <= Copied
      /\ IF copied = Count(total) THEN offset = 0 ELSE offset <= Length(copied + 1)
  BY DEF IInv, KnownInv, ConcatInv
<1>2. total \in Nat /\ copied \in Nat /\ offset \in Nat /\ Len(file[0]) \in Nat
  BY DownloadAssumption DEF IInv, TypeOK, Files
<1>3. Count(total) \in Nat
  BY <1>2, Counts
<1>4. CASE copied = Count(total)
  <2>1. Copied = total + 0
    BY <1>1, <1>4 DEF Copied, End
  <2> QED BY <1>1, <1>2, <2>1
<1>5. CASE copied # Count(total)
  <2>1. copied < Count(total) /\ offset <= Length(copied + 1)
    BY <1>1, <1>2, <1>3, <1>5
  <2>2. /\ End(copied) \in Nat /\ Length(copied + 1) \in Nat
        /\ End(copied + 1) = End(copied) + Length(copied + 1) /\ End(copied + 1) <= total
    BY <1>1, <1>2, <2>1, Ends
  <2>3. Copied = End(copied) + offset
    BY DEF Copied
  <2> QED BY <1>1, <1>2, <2>1, <2>2, <2>3
<1> QED BY <1>4, <1>5

LEMMA CopiedWithinNext == (IInv => (pc = "concat" => Len(file[0]) <= total))'
BY CopiedWithin, PTL

LEMMA ConcatenateFits ==
    ASSUME IInv, IInv', FitInv, Concatenate
    PROVE  FitInv'
<1>0. UNCHANGED <<published, total>> /\ pc = "concat" /\ pc' \in {"concat", "called"}
  BY DEF Concatenate, bucket, Answers
<1>1. CASE file' = file
  BY <1>0, <1>1, EmptyingFits DEF RightSize
<1>2. CASE pc' = "concat" /\ \A i \in Files \ {0} : file'[i] = file[i]
  <2> SUFFICES ASSUME RightSize' PROVE FitInv'
    BY DEF FitInv
  <2>1. RightSize /\ Count(total)' >= 2 /\ Count(total) >= 2
    BY <1>0, <1>2 DEF RightSize, IInv, KnownInv
  <2>2. total = Expected /\ total' = Expected
    BY <1>0, <2>1, RightRange
  <2>3. Len(file'[0]) <= Expected
    BY <1>2, <2>2, CopiedWithinNext
  <2>4. Count(Expected) \in 0..MaxSegments
    BY Counts, DownloadAssumption
  <2>5. ASSUME Count(Expected) >= 2, NEW i \in 1..Count(Expected)
        PROVE  Len(file'[i]) <= SegmentLength(i)
    <3>1. i \in Files \ {0}
      BY <2>4, DownloadAssumption DEF Files
    <3> QED BY <1>2, <2>1, <2>5, <3>1 DEF FitInv
  <2> QED BY <1>2, <2>3, <2>5 DEF FitInv, SegmentLength, Count, Smaller, Step
<1>3. file' = file \/ (pc' = "concat" /\ \A i \in Files \ {0} : file'[i] = file[i])
  BY DEF Concatenate, IInv, TypeOK
<1> QED BY <1>1, <1>2, <1>3

LEMMA NextFits == IInv /\ IInv' /\ FitInv /\ [Next]_vars => FitInv'
<1> SUFFICES ASSUME IInv, IInv', FitInv, [Next]_vars PROVE FitInv'
  OBVIOUS
<1>0. file \in [Files -> Seq(Byte)] /\ 0 \in Files
  BY DownloadAssumption DEF IInv, TypeOK, Files
<1>1. RightSize' => RightSize
  <2>1. published \subseteq published'
    BY DEF Next, Progress, Transfer, Ensure, Probe, ProbeRanges, Skip, Request, Receive, Finish, Cut,
           Join, Concatenate, Verify, Sweep, Rename, Load, Boot, Ask, Again, Crash, Publish, vars, bucket
  <2> QED BY <2>1 DEF RightSize
<1>2. CASE Ensure
  BY <1>0, <1>1, <1>2, EmptyingFits DEF Ensure, Complete, Answers
<1>3. CASE Probe \/ ProbeRanges \/ Crash \/ Load \/ Boot \/ Ask \/ Again
  BY <1>1, <1>3, EmptyingFits DEF Probe, ProbeRanges, Crash, Load, Boot, Ask, Again, disk
<1>4. CASE Publish \/ UNCHANGED vars
  BY <1>1, <1>4, EmptyingFits DEF Publish, vars, disk, FitInv, Complete
<1>5. ASSUME NEW i \in Files, Skip(i) \/ Finish(i) \/ Cut(i) PROVE FitInv'
  BY <1>1, <1>5, EmptyingFits DEF Skip, Finish, Cut, disk, FitInv, Complete
<1>6. ASSUME NEW i \in Files, Request(i) PROVE FitInv'
  <2>1. pc' = pc /\ thread[i] # "none"
        /\ \E h \in {<<>>, file[i]} : file' = [file EXCEPT ![i] = h]
    BY <1>6 DEF Request
  <2>2. pc # "rename"
    BY <2>1 DEF IInv, ThreadInv
  <2> QED BY <1>0, <1>1, <2>1, <2>2, EmptyingFits
<1>7. CASE Join
  <2>1. file' \in {file, [file EXCEPT ![0] = <<>>]}
    BY <1>7 DEF Join
  <2>2. RightSize /\ pc' = "rename" => Complete(file'[0])
    <3> SUFFICES ASSUME RightSize, pc' = "rename" PROVE Complete(file'[0])
      OBVIOUS
    <3>1. pc = "single" /\ file' = file /\ thread[0] \in {"none", "done"}
      BY <1>0, <1>7 DEF Join, Answers
    <3>2. thread[0] = "done"
      BY <1>0, <3>1 DEF IInv, ThreadInv
    <3>3. Len(file[0]) = Length(0) /\ Length(0) = Size[source[0]]
      BY <1>0, <3>2, ThreadRange DEF IInv, ThreadInv
    <3> QED BY <1>0, <3>1, <3>3 DEF RightSize, IInv, KnownInv, Complete
  <2> QED BY <1>0, <1>1, <2>1, <2>2, EmptyingFits
<1>7a. CASE Verify
  <2>1. pc' # "rename" /\ file' \in {file, [file EXCEPT ![0] = <<>>]}
    BY <1>7a DEF Verify, Answers
  <2> QED BY <1>0, <1>1, <2>1, EmptyingFits
<1>8. CASE Sweep
  <2>1. pc = "sweep"
        /\ (file' = file \/ \E i \in Used : file' = [file EXCEPT ![i] = <<>>])
    BY <1>8 DEF Sweep
  <2>2. Count(total) \in Nat /\ Used \subseteq Nat \ {0}
    <3>1. total \in Nat
      BY DEF IInv, TypeOK
    <3> QED BY <3>1, Counts DEF Used
  <2>3. file'[0] = file[0]
    BY <1>0, <2>1, <2>2
  <2>4. RightSize => Complete(file[0])
    BY <2>1, RightRange DEF IInv, KnownInv, ConcatInv, Complete
  <2> QED BY <1>0, <1>1, <2>1, <2>3, <2>4, EmptyingFits
<1>9. CASE Rename
  <2>1. pc' = "called" /\ file' \in {file, [file EXCEPT ![0] = <<>>]}
    BY <1>9 DEF Rename, Answers, disk
  <2> QED BY <1>0, <1>1, <2>1, EmptyingFits
<1> QED BY <1>2, <1>3, <1>4, <1>5, <1>6, <1>7, <1>7a, <1>8, <1>9, ReceiveFits, ConcatenateFits
        DEF Next, Progress, Transfer

\* The property, of one step.
Progresses ==
    ranges /\ (\A o \in published' : Size[o] = Expected) =>
        \A i \in Files : Len(file'[i]) < Len(file[i]) =>
            \/ Complete(file[0])
            \/ i = 0 /\ \A j \in Used : Len(file[j]) = Length(j)

LEMMA StepProgresses == IInv /\ FitInv /\ [Next]_vars => [Progresses]_vars
<1> SUFFICES ASSUME IInv, FitInv, Next, ranges, \A o \in published' : Size[o] = Expected,
                    NEW i \in Files, Len(file'[i]) < Len(file[i])
             PROVE  \/ Complete(file[0])
                    \/ i = 0 /\ \A j \in Used : Len(file[j]) = Length(j)
  BY DEF Progresses
<1>0. file \in [Files -> Seq(Byte)] /\ 0 \in Files /\ Len(file[i]) \in Nat
  BY DownloadAssumption DEF IInv, TypeOK, Files
<1>1. RightSize
  <2>1. published \subseteq published'
    BY DEF Next, Progress, Transfer, Ensure, Probe, ProbeRanges, Skip, Request, Receive, Finish, Cut,
           Join, Concatenate, Verify, Sweep, Rename, Load, Boot, Ask, Again, Crash, Publish, bucket
  <2> QED BY <2>1 DEF RightSize
<1>2. file' # file
  BY <1>0
<1>3. CASE Ensure
  <2>1. Len(file[0]) > Expected
    BY <1>2, <1>3 DEF Ensure
  <2>2. Len(file[0]) \in Nat /\ Len(file[0]) <= Expected /\ Expected \in Nat
    BY <1>0, <1>1, RightLengths DEF FitInv
  <2> QED BY <2>1, <2>2
<1>4. ASSUME NEW j \in Files, Request(j) PROVE FALSE
  <2>1. thread[j] # "none" /\ j = i /\ file'[i] = <<>> /\ file[i] # <<>>
    BY <1>0, <1>2, <1>4 DEF Request
  <2>2. i > 0 /\ Len(file[i]) > Length(i)
    BY <1>0, <1>2, <1>4, <2>1 DEF Request
  <2>3. Count(total) >= 2 /\ i \in Used
    BY <2>1, <2>2, ThreadRange
  <2>4. i \in 1..Count(Expected) /\ Length(i) = SegmentLength(i) /\ total = Expected
    BY <1>1, <2>3, RightRange
  <2>5. Len(file[i]) <= SegmentLength(i) /\ SegmentLength(i) \in Nat
    BY <1>1, <2>3, <2>4, RightLengths DEF FitInv
  <2> QED BY <1>0, <2>2, <2>4, <2>5
<1>5. ASSUME NEW j \in Files, Receive(j) PROVE FALSE
  <2>1. <<source[j], Place(j)>> \in Byte
    BY <1>5, NextByte DEF Receive
  <2>2. Len(file'[j]) = Len(file[j]) + 1 /\ Len(file[j]) \in Nat
    <3>1. file'[j] = Append(file[j], <<source[j], Place(j)>>)
      BY <1>0, <1>5 DEF Receive
    <3> QED BY <1>0, <2>1, <3>1, Appended
  <2>3. j = i
    BY <1>0, <1>5 DEF Receive
  <2> QED BY <1>0, <2>2, <2>3
<1>6. CASE Join
  <2>1. pc = "segments" /\ file' = [file EXCEPT ![0] = <<>>]
        /\ \A j \in Files : thread[j] \in {"none", "done"}
    BY <1>2, <1>6 DEF Join, Answers
  <2>2. i = 0
    BY <1>0, <2>1
  <2>3. Count(total) >= 2
    BY <2>1 DEF IInv, KnownInv
  <2>4. ASSUME NEW j \in Used PROVE Len(file[j]) = Length(j)
    <3>1. j \in Files
      BY <1>1, <2>3, RightRange
    <3>2. thread[j] = "done"
      BY <2>1, <3>1 DEF IInv, ThreadInv
    <3> QED BY <3>1, <3>2 DEF IInv, ThreadInv
  <2> QED BY <2>2, <2>4
<1>7. CASE Concatenate
  <2>1. copied + 1 \in Files
    <3>1. copied \in Nat /\ copied < Count(total) /\ total \in Nat
      BY <1>7 DEF Concatenate, IInv, TypeOK
    <3> QED BY <3>1, Counts, DownloadAssumption DEF Files
  <2>2. /\ offset < Len(file[copied + 1])
        /\ file' = [file EXCEPT ![0] = Append(file[0], file[copied + 1][offset + 1])]
    BY <1>2, <1>7 DEF Concatenate
  <2>3. file[0] \in Seq(Byte) /\ file[copied + 1] \in Seq(Byte) /\ offset \in Nat
    BY <1>0, <2>1 DEF IInv, TypeOK
  <2>4. file[copied + 1][offset + 1] \in Byte
    <3>1. offset + 1 \in 1..Len(file[copied + 1])
      BY <2>2, <2>3
    <3> QED BY <2>3, <3>1, ElementOfSeq
  <2>5. file'[0] = Append(file[0], file[copied + 1][offset + 1]) /\ i = 0
    BY <1>0, <2>2
  <2>6. Len(file'[0]) = Len(file[0]) + 1 /\ Len(file[0]) \in Nat
    BY <2>3, <2>4, <2>5, Appended
  <2> QED BY <2>5, <2>6
<1>7a. CASE Verify
  <2>1. pc = "concat" /\ i = 0
    BY <1>0, <1>2, <1>7a DEF Verify
  <2> QED BY <2>1 DEF IInv, ConcatInv
<1>8. CASE Sweep
  <2>1. pc = "sweep"
    BY <1>8 DEF Sweep
  <2> QED BY <1>1, <2>1, RightRange DEF IInv, KnownInv, ConcatInv, Complete
<1>9. CASE Rename
  BY <1>1, <1>9 DEF Rename, FitInv
<1>10. ~Probe /\ ~ProbeRanges /\ ~Load /\ ~Boot /\ ~Ask /\ ~Again /\ ~Crash /\ ~Publish
  BY <1>2 DEF Probe, ProbeRanges, Load, Boot, Ask, Again, Crash, Publish, disk
<1>11. \A j \in Files : ~Skip(j) /\ ~Finish(j) /\ ~Cut(j)
  BY <1>2 DEF Skip, Finish, Cut, disk
<1> QED BY <1>3, <1>4, <1>5, <1>6, <1>7, <1>7a, <1>8, <1>9, <1>10, <1>11 DEF Next, Progress, Transfer

\* As long as ranges are served and only objects of the right size published,
\* no byte is downloaded twice: files shrink only when .partial is complete, and
\* .partial itself when the segments that replace it are (KeepsProgress).
THEOREM NothingTwice == Spec => KeepsProgress
<1>1. Init => FitInv
  <2> SUFFICES ASSUME Init PROVE FitInv
    OBVIOUS
  <2>1. \A i \in Files : Len(file[i]) = 0
    BY DEF Init
  <2>2. 0 \in Files /\ (Count(Expected) >= 2 => 1..Count(Expected) \subseteq Files)
    <3>1. Count(Expected) \in 0..MaxSegments
      BY Counts, DownloadAssumption
    <3> QED BY <3>1, DownloadAssumption DEF Files
  <2>3. Len(file[0]) <= Expected
    BY <2>1, <2>2, RightLengths
  <2>4. ASSUME Count(Expected) >= 2, NEW i \in 1..Count(Expected)
        PROVE  Len(file[i]) <= SegmentLength(i)
    BY <2>1, <2>2, <2>4, RightLengths
  <2> QED BY <2>3, <2>4 DEF Init, FitInv
<1>2. Spec => [](IInv /\ FitInv)
  BY <1>1, NextFits, Invariance, PTL DEF Spec
<1>3. [Progresses]_vars <=> 
        [ranges /\ (\A o \in published' : Size[o] = Expected) =>
        \A i \in Files : Len(file'[i]) < Len(file[i]) =>
            \/ Complete(file[0])
            \/ i = 0 /\ \A j \in Used : Len(file[j]) = Length(j)]_vars
  BY DEF Progresses
<1> QED BY <1>2, <1>3, StepProgresses, PTL DEF Spec, KeepsProgress

-----------------------------------------------------------------------------
(* What the engine relies on *)

LEMMA StepsOfContract == IInv /\ [Next]_vars => [Contract!Next]_(Contract!vars)
<1> SUFFICES ASSUME IInv, [Next]_vars PROVE Contract!Next \/ UNCHANGED Contract!vars
  OBVIOUS
<1>a. State(<<>>) = "missing" /\ \A w : ~Complete(w) <=> State(w) = "missing"
  BY DownloadAssumption DEF State, Complete
<1>b. \A w : State(w) \in {"missing", "good", "corrupt"}
  BY DEF State
<1>c. (Working => State(weights) = "missing") /\ (pc # "called" => answer = "none")
  BY <1>a DEF IInv, KnownInv
<1> USE DEF Contract!Next, Contract!vars, Contract!Bring, Contract!Succeed, Contract!Fail,
            Contract!Again, Contract!Discard
<1>1. CASE Ensure
  <2>1. weights' = Kept(weights) /\ answer = "none"
    BY <1>1, <1>c DEF Ensure
  <2>2. CASE Complete(weights)
    BY <1>1, <1>a, <2>1, <2>2 DEF Ensure, Kept, Answers
  <2>3. CASE ~Complete(weights)
    BY <1>1, <1>a, <2>1, <2>3 DEF Ensure, Kept, Answers
  <2> QED BY <2>2, <2>3
<1>2. CASE UNCHANGED <<weights, answer>>
  BY <1>2
<1>3. CASE Join
  BY <1>3, <1>c DEF Join, Answers, Working
<1>4. CASE Concatenate \/ Verify
  BY <1>4, <1>c DEF Concatenate, Verify, Answers, Working
<1>5. CASE Rename
  BY <1>5, <1>a, <1>b, <1>c DEF Rename, Kept, Answers, Working, disk
<1>6. CASE Load
  BY <1>6, <1>a DEF Load
<1>7. CASE Crash \/ Again
  BY <1>7 DEF Crash, Again, disk
<1>7a. CASE Boot
  <2>1. State(weights') = State(weights)
    BY <1>7a, <1>a DEF Boot, Kept
  <2> QED BY <1>7a, <2>1 DEF Boot
<1>8. CASE Probe \/ ProbeRanges \/ Sweep \/ Ask \/ Publish \/ UNCHANGED vars
  BY <1>2, <1>8 DEF Probe, ProbeRanges, Sweep, Ask, Publish, vars, disk
<1>9. ASSUME NEW i \in Files, Transfer(i) \/ Cut(i) PROVE Contract!Next \/ UNCHANGED Contract!vars
  BY <1>2, <1>9 DEF Transfer, Skip, Request, Receive, Finish, Cut, disk
<1> QED BY <1>1, <1>3, <1>4, <1>5, <1>6, <1>7, <1>7a, <1>8, <1>9 DEF Next, Progress

\* Segments, retries and crashes apart, a download is what the engine relies on
\* (KeepsContract): the weights file appears whole and during an attempt, and
\* stays, unless the engine discards what does not load.
THEOREM Refinement == Spec => KeepsContract
<1>1. Init => Contract!Init
  BY DEF Init, Contract!Init, State
<1> QED BY <1>1, StepsOfContract, Invariance, PTL DEF Spec, KeepsContract, Contract!Spec
=============================================================================
