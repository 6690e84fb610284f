---------------------------- MODULE ModelDownload ----------------------------
(***************************************************************************)
(* EnsureModelFiles (core/src/model_downloader.cpp), called again and again   *)
(* by the engine's download thread (core/src/engine_app.cpp), with the         *)
(* segmented, resumable download it uses (core/src/utils.cpp) and the worker   *)
(* that serves the weights (cloudflare/src/routes/models.js).                 *)
(*                                                                         *)
(* The thread gives up after MaxAttempts calls; then, and after an engine has  *)
(* started, nothing happens until a client asks for the model.                *)
(*                                                                         *)
(* A byte is the object it comes from with its place in it; a file is a      *)
(* sequence of bytes, and a file that does not exist is an empty one: the     *)
(* code only ever asks for the size.  file[0] is the .partial file, file[i]   *)
(* the i-th .part file, and each is written by at most one thread.            *)
(*                                                                         *)
(* Requests are refused and cut, writes fail, the engine dies, somebody may    *)
(* publish other weights under the same name and, where ReadsFail, a segment   *)
(* may not be read to its end: all of it is counted by faults, up to MaxFaults. *)
(***************************************************************************)
EXTENDS Naturals, Sequences, FiniteSets

CONSTANTS
    Objects,        \* the versions of the weights that get published
    Size,           \* their sizes
    Expected,       \* kWeightsExpectedBytes
    MinSegment,     \* kMinSegmentedBytes
    MaxSegments,    \* maxSegments
    MaxAttempts,    \* maxAttempts
    ReadsFail,      \* a disk read may fail
    MaxFaults

Segments == 1..MaxSegments
Files == 0..MaxSegments

ASSUME DownloadAssumption ==
    /\ Objects # {}
    /\ Size \in [Objects -> Nat \ {0}]
    /\ Expected \in Nat \ {0} /\ MinSegment \in Nat \ {0} /\ MaxSegments \in Nat \ {0}
    /\ MaxAttempts \in Nat \ {0} /\ ReadsFail \in BOOLEAN /\ MaxFaults \in Nat

VARIABLES
    object,     \* the object in the bucket
    published,  \* the objects that have been there
    ranges,     \* a request for a range is answered with it, or with the whole
    weights,    \* the weights file
    file,       \* .partial and .part files
    pc,         \* where the engine is with the model, and EnsureModelFiles in a call
    attempt,    \* calls of the download thread
    answer,     \* what its last call returned
    total,      \* totalSize, as the probe found it
    thread,     \* state of the transfer into each file
    source,     \* the object a transfer reads from
    copied,     \* segments that have been copied into .partial
    offset,     \* bytes that have been copied of the next one
    faults

disk == <<weights, file>>
bucket == <<object, published, ranges>>
transfer == <<thread, source>>
copy == <<copied, offset>>
vars == <<bucket, disk, pc, attempt, answer, total, transfer, copy, faults>>

Byte == {b \in Objects \X Nat : b[2] < Size[b[1]]}
Whole(o) == [k \in 1..Size[o] |-> <<o, k - 1>>]

Smaller(m, n) == IF m < n THEN m ELSE n

Idle == [i \in Files |-> "none"]

\* Weights of the right size that no object has.
Garbage == [k \in 1..Expected |-> <<CHOOSE o \in Objects : TRUE, 0>>]

\* Weights that are there may be whole, cut short, or garbage of the right size.
Init ==
    /\ object \in Objects
    /\ published = {object}
    /\ ranges \in BOOLEAN
    /\ weights \in {<<>>, Whole(object), SubSeq(Whole(object), 1, 1), Garbage}
    /\ file = [i \in Files |-> <<>>]
    /\ pc = "boot" /\ attempt = 0 /\ answer = "none"
    /\ total = 0 /\ copied = 0 /\ offset = 0 /\ faults = 0
    /\ thread = Idle /\ source = [i \in Files |-> object]

Fault == faults < MaxFaults /\ faults' = faults + 1

-----------------------------------------------------------------------------
(* The worker *)

\* Slip: one byte past the end.
LastByteInclusive(o, last) == Smaller(last, Size[o])

\* Where the answer to a range ends: rangeBounds, against the object's size.
LastByte(o, last) == Smaller(last, Size[o] - 1)

\* A range that begins past the object is not satisfiable.
Satisfiable(o, first) == first < Size[o]

-----------------------------------------------------------------------------
(* EnsureModelFiles *)

\* HasModelWeights, the deletion of a file of the wrong size included.
Complete(w) == Len(w) = Expected
Kept(w) == IF Complete(w) THEN w ELSE <<>>

Answers(a) == pc' = "called" /\ answer' = a

\* The call: weights of the right size are kept, and the companion files may
\* be missing; a complete .partial file is only to be renamed, an oversized one
\* is deleted with the segments.
Ensure ==
    /\ pc = "call"
    /\ weights' = Kept(weights)
    /\ \/ /\ Complete(weights)
          /\ Answers("ok")
          /\ UNCHANGED <<file, faults>>
       \/ /\ ~Complete(weights)
          /\ Fault
          /\ Answers("failed")
          /\ UNCHANGED file
       \/ /\ ~Complete(weights)
          /\ file' = IF Len(file[0]) > Expected THEN [i \in Files |-> <<>>] ELSE file
          /\ pc' = IF Len(file[0]) = Expected THEN "rename" ELSE "probe"
          /\ UNCHANGED <<answer, faults>>
    /\ UNCHANGED <<bucket, attempt, total, transfer, copy>>

\* The first request asks for the size; it stays 0 when it fails.
Probe ==
    /\ pc = "probe"
    /\ \/ total' = Size[object] /\ UNCHANGED faults
       \/ total' = 0 /\ Fault
    /\ pc' = "ranges"
    /\ UNCHANGED <<bucket, disk, attempt, answer, transfer, copy>>

Count(n) == Smaller(MaxSegments, n \div MinSegment)
Used == 1..Count(total)

\* The second one asks whether ranges are served: segments, or a single stream
\* when they are not, or when there would be one segment.
ProbeRanges ==
    /\ pc = "ranges"
    /\ \/ /\ total > 0
          /\ ranges
          /\ pc' = IF Count(total) < 2 THEN "single" ELSE "segments"
          /\ UNCHANGED faults
       \/ /\ total = 0 \/ ~ranges
          /\ pc' = "single"
          /\ UNCHANGED faults
       \/ /\ Fault
          /\ pc' = "single"
    /\ thread' = IF pc' = "single" THEN [Idle EXCEPT ![0] = "begin"]
                 ELSE [i \in Files |-> IF i \in Used THEN "begin" ELSE "none"]
    /\ UNCHANGED <<bucket, disk, attempt, answer, total, source, copy>>

-----------------------------------------------------------------------------
(* Transfers *)

\* The first and the last byte of the range a file holds.  The single stream
\* has no end.
First(i) == IF i = 0 THEN 0 ELSE (i - 1) * (total \div Count(total))
Last(i) ==
    IF i = 0 THEN Size[source[i]] - 1
    ELSE IF i = Count(total) THEN total - 1 ELSE i * (total \div Count(total)) - 1
Length(i) == Last(i) - First(i) + 1

\* A segment that is there already needs no request.
Skip(i) ==
    /\ i > 0
    /\ thread[i] = "begin"
    /\ Len(file[i]) = Length(i)
    /\ thread' = [thread EXCEPT ![i] = "done"]
    /\ UNCHANGED <<bucket, disk, pc, attempt, answer, total, source, copy, faults>>

\* A larger one is removed; what is there of another is asked to be continued.
\* An answer of 200 is the whole object: the single stream starts afresh.
Request(i) ==
    /\ thread[i] = "begin"
    /\ i > 0 => Len(file[i]) # Length(i)
    /\ LET held == IF i > 0 /\ Len(file[i]) > Length(i) THEN <<>> ELSE file[i]
           next == First(i) + Len(held)
       IN \/ /\ held = <<>> \/ ranges
             /\ Satisfiable(object, next)
             /\ file' = [file EXCEPT ![i] = held]
             /\ thread' = [thread EXCEPT ![i] = "open"]
             /\ UNCHANGED faults
          \/ /\ held # <<>> /\ ~ranges
             /\ file' = [file EXCEPT ![i] = <<>>]
             /\ thread' = [thread EXCEPT ![i] = "open"]
             /\ UNCHANGED faults
          \/ /\ ~Satisfiable(object, next) /\ ranges
             /\ file' = [file EXCEPT ![i] = held]
             /\ thread' = [thread EXCEPT ![i] = "failed"]
             /\ UNCHANGED faults
          \/ /\ Fault
             /\ file' = [file EXCEPT ![i] = held]
             /\ thread' = [thread EXCEPT ![i] = "failed"]
    /\ source' = [source EXCEPT ![i] = object]
    /\ UNCHANGED <<bucket, weights, pc, attempt, answer, total, copy>>

Place(i) == First(i) + Len(file[i])
Ended(i) == Place(i) > LastByte(source[i], Last(i))

Receive(i) ==
    /\ thread[i] = "open"
    /\ ~Ended(i)
    /\ file' = [file EXCEPT ![i] = Append(@, <<source[i], Place(i)>>)]
    /\ UNCHANGED <<bucket, weights, pc, attempt, answer, total, transfer, copy, faults>>

\* The transfer is over: a segment must be as long as it was asked for.
Finish(i) ==
    /\ thread[i] = "open"
    /\ Ended(i)
    /\ thread' = [thread EXCEPT ![i] = IF Len(file[i]) = Length(i) THEN "done" ELSE "failed"]
    /\ UNCHANGED <<bucket, disk, pc, attempt, answer, total, source, copy, faults>>

\* The connection is cut, or a write fails: what has arrived is kept.
Cut(i) ==
    /\ thread[i] = "open"
    /\ Fault
    /\ thread' = [thread EXCEPT ![i] = "failed"]
    /\ UNCHANGED <<bucket, disk, pc, attempt, answer, total, source, copy>>

\* Slip: a failed download throws the segments away.
JoinForgetting ==
    /\ pc \in {"segments", "single"}
    /\ \A i \in Files : thread[i] \in {"none", "done", "failed"}
    /\ IF \E i \in Files : thread[i] = "failed"
       THEN Answers("failed")
       ELSE /\ pc' = IF pc = "single" THEN "rename" ELSE "concat"
            /\ UNCHANGED answer
    /\ file' = IF pc' = "rename" THEN file ELSE
               IF pc' = "concat" THEN [file EXCEPT ![0] = <<>>] ELSE [i \in Files |-> <<>>]
    /\ thread' = Idle
    /\ copied' = 0 /\ offset' = 0
    /\ UNCHANGED <<bucket, weights, attempt, total, source, faults>>

\* The threads are joined; one that failed makes the download fail.
Join ==
    /\ pc \in {"segments", "single"}
    /\ \A i \in Files : thread[i] \in {"none", "done", "failed"}
    /\ IF \E i \in Files : thread[i] = "failed"
       THEN Answers("failed")
       ELSE /\ pc' = IF pc = "single" THEN "rename" ELSE "concat"
            /\ UNCHANGED answer
    /\ file' = IF pc' = "concat" THEN [file EXCEPT ![0] = <<>>] ELSE file
    /\ thread' = Idle
    /\ copied' = 0 /\ offset' = 0
    /\ UNCHANGED <<bucket, weights, attempt, total, source, faults>>

-----------------------------------------------------------------------------
(* The segments are put together *)

\* Slip: the last segment goes first.
ConcatenateBackwards ==
    /\ pc = "concat"
    /\ copied < Count(total)
    /\ LET next == file[Count(total) - copied]
       IN \/ /\ offset < Len(next)
             /\ file' = [file EXCEPT ![0] = Append(@, next[offset + 1])]
             /\ offset' = offset + 1
             /\ UNCHANGED <<pc, answer, copied, faults>>
          \/ /\ offset = Len(next)
             /\ copied' = copied + 1 /\ offset' = 0
             /\ UNCHANGED <<file, pc, answer, faults>>
    /\ UNCHANGED <<bucket, weights, attempt, total, transfer>>

\* In order and by the piece, into the .partial file.  A failing write ends the
\* download; a failing read only ends the segment.
Concatenate ==
    /\ pc = "concat"
    /\ copied < Count(total)
    /\ LET next == file[copied + 1]
       IN \/ /\ offset < Len(next)
             /\ file' = [file EXCEPT ![0] = Append(@, next[offset + 1])]
             /\ offset' = offset + 1
             /\ UNCHANGED <<pc, answer, copied, faults>>
          \/ /\ \/ offset = Len(next) /\ UNCHANGED faults
                \/ ReadsFail /\ Fault
             /\ copied' = copied + 1 /\ offset' = 0
             /\ UNCHANGED <<file, pc, answer>>
          \/ /\ Fault
             /\ Answers("failed")
             /\ UNCHANGED <<file, copy>>
    /\ UNCHANGED <<bucket, weights, attempt, total, transfer>>

\* A .partial file of another size than the object's is removed.
Verify ==
    /\ pc = "concat"
    /\ copied = Count(total)
    /\ IF Len(file[0]) = total
       THEN pc' = "sweep" /\ UNCHANGED <<file, answer>>
       ELSE /\ file' = [file EXCEPT ![0] = <<>>]
            /\ Answers("failed")
    /\ UNCHANGED <<bucket, weights, attempt, total, transfer, copy, faults>>

\* Then the segments are removed, one after the other.
Sweep ==
    /\ pc = "sweep"
    /\ IF \E i \in Used : file[i] # <<>>
       THEN /\ \E i \in Used :
                  /\ file[i] # <<>>
                  /\ \A j \in Used : j < i => file[j] = <<>>
                  /\ file' = [file EXCEPT ![i] = <<>>]
            /\ UNCHANGED pc
       ELSE pc' = "rename" /\ UNCHANGED file
    /\ UNCHANGED <<bucket, weights, attempt, answer, total, transfer, copy, faults>>

\* Slip: the size of what was renamed is not checked.
RenameUnchecked ==
    /\ pc = "rename"
    /\ \/ /\ weights' = file[0]
          /\ file' = [file EXCEPT ![0] = <<>>]
          /\ Answers("ok")
          /\ UNCHANGED faults
       \/ /\ Fault
          /\ Answers("failed")
          /\ UNCHANGED disk
    /\ UNCHANGED <<bucket, attempt, total, transfer, copy>>

\* The .partial file becomes the weights file, if it has the right size; a
\* complete one that cannot be renamed is kept.
Rename ==
    /\ pc = "rename"
    /\ \/ /\ weights' = Kept(file[0])
          /\ file' = [file EXCEPT ![0] = <<>>]
          /\ Answers(IF Complete(file[0]) THEN "ok" ELSE "failed")
          /\ UNCHANGED faults
       \/ /\ Fault
          /\ Answers("failed")
          /\ UNCHANGED disk
    /\ UNCHANGED <<bucket, attempt, total, transfer, copy>>

-----------------------------------------------------------------------------
(* Around it *)

\* Weights load that are one of the published objects.
Loads(w) == \E o \in Objects : w = Whole(o)

\* The engine starts.  Weights of a wrong size are deleted; those that do not
\* load stay, and the engine runs without the model.
Boot ==
    /\ pc = "boot"
    /\ weights' = Kept(weights)
    /\ pc' = IF Loads(weights') THEN "loaded" ELSE "idle"
    /\ UNCHANGED <<bucket, file, attempt, answer, total, transfer, copy, faults>>

\* A client asks for the model: a download thread starts.
Ask ==
    /\ pc = "idle"
    /\ pc' = "call" /\ attempt' = 1
    /\ UNCHANGED <<bucket, disk, answer, total, transfer, copy, faults>>

\* The thread tries again, from the first attempt when a client asks while it
\* waits, or gives up.
Again ==
    /\ pc = "called"
    /\ answer = "failed"
    /\ IF attempt < MaxAttempts
       THEN pc' = "call" /\ attempt' \in {attempt + 1, 1}
       ELSE pc' = "idle" /\ attempt' = 0
    /\ answer' = "none"
    /\ UNCHANGED <<bucket, disk, total, transfer, copy, faults>>

\* Slip: weights that do not load stay.
LoadKeeping ==
    /\ pc = "called"
    /\ answer = "ok"
    /\ pc' = IF Loads(weights) THEN "loaded" ELSE "idle"
    /\ attempt' = 0 /\ answer' = "none"
    /\ UNCHANGED <<bucket, disk, total, transfer, copy, faults>>

\* The engine loads what the call has brought, or deletes it.
Load ==
    /\ pc = "called"
    /\ answer = "ok"
    /\ IF Loads(weights)
       THEN pc' = "loaded" /\ UNCHANGED weights
       ELSE pc' = "idle" /\ weights' = <<>>
    /\ attempt' = 0 /\ answer' = "none"
    /\ UNCHANGED <<bucket, file, total, transfer, copy, faults>>

\* The engine dies and starts again: only the disk is left.
Crash ==
    /\ pc \notin {"boot", "loaded"}
    /\ Fault
    /\ pc' = "boot" /\ attempt' = 0 /\ answer' = "none"
    /\ thread' = Idle /\ total' = 0
    /\ copied' = 0 /\ offset' = 0
    /\ UNCHANGED <<bucket, disk, source>>

\* Other weights are uploaded under the same name.
Publish ==
    /\ pc # "loaded"
    /\ Fault
    /\ \E o \in Objects \ {object} : object' = o /\ published' = published \cup {o}
    /\ UNCHANGED <<ranges, disk, pc, attempt, answer, total, transfer, copy>>

Transfer(i) == Skip(i) \/ Request(i) \/ Receive(i) \/ Finish(i)

Progress ==
    \/ Boot \/ Again \/ Load
    \/ Ensure \/ Probe \/ ProbeRanges \/ Join \/ Concatenate \/ Verify \/ Sweep \/ Rename
    \/ \E i \in Files : Transfer(i)

Next == Progress \/ Ask \/ Crash \/ Publish \/ \E i \in Files : Cut(i)

Spec == Init /\ [][Next]_vars

\* The threads run, and requests are answered, or time out when the connection
\* stalls.  No client has to ask.
FairSpec == Spec /\ WF_vars(Progress)

-----------------------------------------------------------------------------
(* Properties *)

\* Types.
TypeOK ==
    /\ object \in Objects /\ published \subseteq Objects /\ ranges \in BOOLEAN
    /\ weights \in Seq(Byte)
    /\ file \in [Files -> Seq(Byte)]
    /\ pc \in {"boot", "idle", "call", "probe", "ranges", "single", "segments", "concat",
               "sweep", "rename", "called", "loaded"}
    /\ attempt \in 0..MaxAttempts
    /\ answer \in {"none", "ok", "failed"}
    /\ total \in Nat
    /\ thread \in [Files -> {"none", "begin", "open", "done", "failed"}]
    /\ source \in [Files -> Objects]
    /\ copied \in 0..MaxSegments /\ offset \in Nat
    /\ faults \in 0..MaxFaults

\* Weights that pass the size check have every byte where it belongs, whatever
\* was cut, refused, retried or interrupted on the way.
InPlace(w) == \A k \in DOMAIN w : w[k][2] = k - 1
NothingMisplaced == Complete(weights) /\ weights # Garbage => InPlace(weights)

\* What has been downloaded is not downloaded again: no file shrinks before
\* .partial is complete, but .partial itself when the segments are to fill it.
\* Objects of a wrong size are thrown away.
KeepsProgress ==
    [][ranges /\ (\A o \in published' : Size[o] = Expected) =>
        \A i \in Files : Len(file'[i]) < Len(file[i]) =>
            \/ Complete(file[0])
            \/ i = 0 /\ \A j \in Used : Len(file[j]) = Length(j)]_vars

\* Whatever is on the disk, a client that does not tire of asking gets the model
\* loaded, once the right weights stay published.
HealsItself ==
    <>[](Size[object] = Expected) => <>(pc = "loaded") \/ <>[](pc = "idle")

\* Nothing of the download is left once the model is loaded.
NoLitter == pc = "loaded" => \A i \in Files : file[i] = <<>>

\* What the engine relies on.
State(w) == IF ~Complete(w) THEN "missing" ELSE IF Loads(w) THEN "good" ELSE "corrupt"

Contract == INSTANCE ModelContract WITH weights <- State(weights), answer <- answer
KeepsContract == Contract!Spec
=============================================================================
