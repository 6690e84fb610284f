------------------------------ MODULE SseStream ------------------------------
(***************************************************************************)
(* A response that comes back as server-sent events, with the labels of the  *)
(* redacted request in it, and is restored on its way to the client:         *)
(* StreamingSSEUnredactor and the stream writer (core/src/engine_app.cpp),    *)
(* RebuildSSE and ProcessResponse (core/src/proxy_engine.cpp).               *)
(*                                                                         *)
(* Text is a sequence of symbols.  A label is the marker <<"l", "m">> (the    *)
(* text "<<REDACTED_" in two parts) and a closing symbol (the rest of the    *)
(* label, with its ">>"); upstream may split its text between any two        *)
(* symbols.  An event carries a piece of the text of one channel: one field  *)
(* of one choice (the only one in its "choices"), one content block, or the   *)
(* deltas of one type of one output item.                                    *)
(***************************************************************************)
EXTENDS Naturals, Sequences, SequencesExt

CONSTANT
    Responses   \* what upstream may answer: a set of records of
                \*   api          "chat", "anthropic" or "responses"
                \*   labels       the labels of the request and their values, in
                \*                UnredactAll's order
                \*   marked       TRUE: the request holds the text of a Marker
                \*   channels     sequence: the channels, in the order upstream
                \*                begins them
                \*   kind         [channel -> the field its text comes in]
                \*   said         [channel -> the text upstream sends in it]
                \*   interleaved  TRUE: pieces of several channels alternate
                \*   terminated   TRUE: a blank line ends the last event, too

Marker == <<"l", "m">>
Apis == {"chat", "anthropic", "responses"}

\* The fields that carry text.  "tool0" and "tool1" are the arguments of the tool
\* calls of index 0 and 1, "text" and "json" come in deltas, "whole" is a text that
\* a terminal event repeats, and "other" is a field no code reads: the thinking of
\* a Messages response, the arguments that a terminal event repeats.
FieldsOf == [chat |-> {"content", "reasoning", "details", "tool0", "tool1", "other"},
             anthropic |-> {"text", "json", "other"},
             responses |-> {"text", "json", "whole", "other"}]

Char == STRING
Text == Seq(Char)

ASSUME SseAssumption == \A r \in Responses :
    /\ r.api \in Apis
    /\ r.labels \in Seq([text : Text, value : Text])
    /\ \A i \in DOMAIN r.labels :
        Len(r.labels[i].text) = 3 /\ IsPrefix(Marker, r.labels[i].text)
    /\ r.channels \in Seq(STRING)
    /\ r.kind \in [ToSet(r.channels) -> FieldsOf[r.api]]
    /\ r.said \in [ToSet(r.channels) -> Text]
    /\ {r.marked, r.interleaved, r.terminated} \subseteq BOOLEAN

VARIABLES
    response,   \* the answer that is on its way
    sent,       \* [channel -> symbols sent so far]
    wire,       \* complete events that have arrived and OnChunk has not seen
    rawBuffer_, \* the last event, when nothing ends it
    events_,    \* events held back
    shown,      \* [channel -> text sent to the client]
    phase       \* "open", "done", "cut"

vars == <<response, sent, wire, rawBuffer_, events_, shown, phase>>

Api == response.api
Labels == response.labels
Channels == response.channels
Kind == response.kind
Said == response.said
Channel == ToSet(Channels)
Closing == {Last(Labels[i].text) : i \in DOMAIN Labels}

Init ==
    /\ response \in Responses
    /\ sent = [c \in Channel |-> 0]
    /\ wire = <<>> /\ rawBuffer_ = <<>> /\ events_ = <<>>
    /\ shown = [c \in Channel |-> <<>>]
    /\ phase = "open"

-----------------------------------------------------------------------------
(* Restoring *)

\* Slip: the value is converted to a character set that lacks its symbols.
ReplaceLabelLossy(text, label, value) ==
    LET done[n \in 0..Len(text)] ==
            IF n = 0 THEN <<>>
            ELSE IF n >= Len(label) /\ SubSeq(text, n - Len(label) + 1, n) = label
                 THEN done[n - Len(label)] \o [i \in DOMAIN value |-> "?"]
            ELSE Append(done[n - 1], text[n])
    IN done[Len(text)]

\* done[n]: the first n symbols with every whole label among them replaced.  No
\* two labels overlap, so this finds the ones a search from the left finds.
ReplaceLabel(text, label, value) ==
    LET done[n \in 0..Len(text)] ==
            IF n = 0 THEN <<>>
            ELSE IF n >= Len(label) /\ SubSeq(text, n - Len(label) + 1, n) = label
                 THEN done[n - Len(label)] \o value
            ELSE Append(done[n - 1], text[n])
    IN done[Len(text)]

UnredactAll(text) ==
    LET done[k \in 0..Len(Labels)] ==
            IF k = 0 THEN text
            ELSE ReplaceLabel(done[k - 1], Labels[k].text, Labels[k].value)
    IN done[Len(Labels)]

\* Text is joined for restoring across all choices of a chat response, field by
\* field (a choice is known by its place in the event, and each comes alone), and
\* across all content blocks of a Messages response.
GroupOf(r, c) ==
    CASE r.api = "chat" -> r.kind[c]
      [] r.api = "anthropic" -> "anthropic"
      [] r.api = "responses" -> c

Group(c) == GroupOf(response, c)

\* reasoning_details and what no code reads are not restored at all.
Unrestored == {"details", "other"}
IsRestored(e) == e.json /\ Kind[e.ch] \notin Unrestored
InGroup(g, e) == IsRestored(e) /\ Group(e.ch) = g

GroupText(evs, g) ==
    FlattenSeq([i \in DOMAIN evs |-> IF InGroup(g, evs[i]) THEN evs[i].text ELSE <<>>])

\* Slip: the last event takes its share and no more.
RedistributeShares(text, evs, g) ==
    LET total == Len(GroupText(evs, g))
        share(i) == (Len(evs[i].text) * Len(text)) \div total
        cut[i \in 0..Len(evs)] ==
            IF i = 0 THEN 0
            ELSE IF ~InGroup(g, evs[i]) THEN cut[i - 1]
            ELSE cut[i - 1] + share(i)
    IN [i \in DOMAIN evs |-> IF total = 0 THEN <<>> ELSE SubSeq(text, cut[i - 1] + 1, cut[i])]

\* The restored text goes back into the events of the group it came from, in
\* proportion to what each of them held; the last one takes the rest.
Redistribute(text, evs, g) ==
    LET total == Len(GroupText(evs, g))
        Least(a, b) == IF a < b THEN a ELSE b
        share(i) == LET s == (Len(evs[i].text) * Len(text)) \div total
                    IN IF s = 0 THEN 1 ELSE s
        isLast(i) == \A j \in i + 1 .. Len(evs) : ~InGroup(g, evs[j])
        cut[i \in 0..Len(evs)] ==
            IF i = 0 THEN 0
            ELSE IF ~InGroup(g, evs[i]) THEN cut[i - 1]
            ELSE IF isLast(i) THEN Len(text)
            ELSE Least(Len(text), cut[i - 1] + share(i))
    IN [i \in DOMAIN evs |-> IF total = 0 THEN <<>> ELSE SubSeq(text, cut[i - 1] + 1, cut[i])]

\* A text that a terminal event repeats is restored by itself: it is all its
\* channel says, so that is to restore its group.
RebuildSSE(evs) ==
    LET chunks == [g \in {Group(c) : c \in Channel} |->
                    Redistribute(UnredactAll(GroupText(evs, g)), evs, g)]
    IN [i \in DOMAIN evs |->
            IF IsRestored(evs[i])
            THEN [evs[i] EXCEPT !.text = chunks[Group(evs[i].ch)][i]]
            ELSE evs[i]]

\* What a client reads from events: one that is not JSON is lost on it.
TextIn(evs, c) ==
    FlattenSeq([i \in DOMAIN evs |->
                    IF evs[i].ch = c /\ evs[i].json THEN evs[i].text ELSE <<>>])

Emit(evs) == shown' = [c \in Channel |-> shown[c] \o TextIn(evs, c)]

-----------------------------------------------------------------------------
(* Holding back *)

\* Arguments of tool calls are not looked at; reasoning_details are seen twice,
\* by name and as a "text".
Unlooked == {"tool0", "tool1", "other"}

ExtractRedactableText(e) ==
    CASE Kind[e.ch] \in Unlooked -> <<>>
      [] Kind[e.ch] = "details" -> e.text \o e.text
      [] OTHER -> e.text

MaxLabelLen == IF Labels = <<>> THEN 0 ELSE 3

\* Slip: a label that has only begun at the end goes unnoticed.
HasOpenMarker(text) ==
    \E p \in 1..(Len(text) - 1) :
        /\ SubSeq(text, p, p + 1) = Marker
        /\ \A q \in p + 2 .. Len(text) : text[q] \in Closing => q >= p + 2 + MaxLabelLen

\* Slip: a complete label is taken for the beginning of one.
EndsWithLabelPrefix(text) ==
    /\ text # <<>>
    /\ \E i \in DOMAIN Labels : \E n \in 1..3 :
        n <= Len(text) /\ IsSuffix(SubSeq(Labels[i].text, 1, n), text)

\* A marker without ">>" near it, or the beginning of a label at the end.
HasIncompleteLabel(text) ==
    \/ \E p \in 1..(Len(text) - 1) :
        /\ SubSeq(text, p, p + 1) = Marker
        /\ \A q \in p + 2 .. Len(text) : text[q] \in Closing => q >= p + 2 + MaxLabelLen
    \/ /\ text # <<>> /\ Last(text) \notin Closing
       /\ \E i \in DOMAIN Labels : \E n \in 1..3 :
            n <= Len(text) /\ IsSuffix(SubSeq(Labels[i].text, 1, n), text)

\* The request holds a marker: that of a label, or one the user wrote.
NeedsUnredaction == response.marked

\* Without a label to look for, everything waits for Flush.
MaybeProcess(evs) ==
    IF \/ MaxLabelLen = 0
       \/ HasIncompleteLabel(FlattenSeq([i \in DOMAIN evs |-> ExtractRedactableText(evs[i])]))
    THEN events_' = evs /\ UNCHANGED shown
    ELSE events_' = <<>> /\ Emit(RebuildSSE(evs))

-----------------------------------------------------------------------------
(* Upstream *)

AllSent(s) == \A c \in Channel : s[c] = Len(Said[c])

\* The next event: a piece of a channel whose turn it is.
Say(c) ==
    /\ phase = "open"
    /\ \/ response.interleaved
       \/ \A i, j \in DOMAIN Channels :
            i < j /\ Channels[j] = c => sent[Channels[i]] = Len(Said[Channels[i]])
    /\ \E n \in sent[c] + 1 .. Len(Said[c]) :
        /\ Kind[c] = "whole" => n = Len(Said[c])
        /\ LET e == [ch |-> c, text |-> SubSeq(Said[c], sent[c] + 1, n), json |-> TRUE]
           IN /\ sent' = [sent EXCEPT ![c] = n]
              /\ IF AllSent(sent') /\ ~response.terminated
                 THEN rawBuffer_' = <<e>> /\ UNCHANGED wire
                 ELSE wire' = Append(wire, e) /\ UNCHANGED rawBuffer_
    /\ UNCHANGED <<response, events_, shown, phase>>

\* A chunk of the body arrives with all the events that are complete by now.
\* Only chat and Messages responses are restored as they stream.
OnChunk ==
    /\ phase = "open"
    /\ wire # <<>>
    /\ wire' = <<>>
    /\ IF Api = "responses" THEN events_' = events_ \o wire /\ UNCHANGED shown
       ELSE IF ~NeedsUnredaction THEN Emit(wire) /\ UNCHANGED events_
       ELSE MaybeProcess(events_ \o wire)
    /\ UNCHANGED <<response, sent, rawBuffer_, phase>>

\* What is left in rawBuffer_ still has its "data:", and gets a second one.
Unparsed(evs) == [i \in DOMAIN evs |-> [evs[i] EXCEPT !.json = FALSE]]

\* The body is complete.  A passed-through Messages stream keeps only complete
\* blocks.
Flush ==
    /\ phase = "open"
    /\ AllSent(sent) /\ wire = <<>>
    /\ phase' = "done"
    /\ events_' = <<>> /\ rawBuffer_' = <<>>
    /\ CASE Api = "responses" /\ Labels # <<>> -> Emit(RebuildSSE(events_ \o rawBuffer_))
         [] Api = "responses" /\ Labels = <<>> -> Emit(events_ \o rawBuffer_)
         [] Api # "responses" /\ NeedsUnredaction ->
                Emit(RebuildSSE(events_ \o Unparsed(rawBuffer_)))
         [] Api = "chat" /\ ~NeedsUnredaction -> Emit(rawBuffer_)
         [] OTHER -> UNCHANGED shown
    /\ UNCHANGED <<response, sent, wire>>

\* Upstream or the client goes away: what is held back is dropped.
Cut ==
    /\ phase = "open"
    /\ phase' = "cut"
    /\ events_' = <<>> /\ rawBuffer_' = <<>> /\ wire' = <<>>
    /\ UNCHANGED <<response, sent, shown>>

Next ==
    \/ \E c \in Channel : Say(c)
    \/ OnChunk \/ Flush \/ Cut

Spec == Init /\ [][Next]_vars

-----------------------------------------------------------------------------
(* Properties *)

Symbols == (UNION {ToSet(Said[c]) : c \in Channel})
           \cup (UNION {ToSet(Labels[i].value) : i \in DOMAIN Labels})
Event == [ch : Channel, text : Seq(Symbols), json : BOOLEAN]

\* Types: texts stay sequences of the symbols of the response and of the values
\* restored into it, and at most one event is incomplete.
TypeOK ==
    /\ response \in Responses
    /\ sent \in [Channel -> Nat] /\ \A c \in Channel : sent[c] <= Len(Said[c])
    /\ wire \in Seq(Event) /\ rawBuffer_ \in Seq(Event) /\ events_ \in Seq(Event)
    /\ Len(rawBuffer_) <= 1
    /\ shown \in [Channel -> Seq(Symbols)]
    /\ phase \in {"open", "done", "cut"}

Closings(r) == {r.labels[i].text[3] : i \in DOMAIN r.labels}

HoldsLabel(r, text) ==
    \E i \in DOMAIN r.labels, p \in 1..Len(text) - 2 : SubSeq(text, p, p + 2) = r.labels[i].text

\* RebuildSSE is applied to the response.
Rebuilt(r) == IF r.api = "responses" THEN r.labels # <<>> ELSE r.marked

\* The responses that come back restored.  Values are not empty and hold no part
\* of a marker, and neither does the rest of a label; no label is in a field that
\* is not looked at or not restored; no two channels are joined (one choice, one
\* content block); while labels are restored as they stream, one channel ends
\* before the next begins and a blank line ends the last event.
Restorable(r) ==
    /\ \A i \in DOMAIN r.labels :
        /\ r.labels[i].text[3] \notin {"l", "m"} /\ r.labels[i].value # <<>>
        /\ \A k \in DOMAIN r.labels[i].value : r.labels[i].value[k] \notin {"l", "m"}
    /\ \A c \in DOMAIN r.said :
        r.kind[c] \in Unlooked \cup Unrestored => ~HoldsLabel(r, r.said[c])
    /\ Rebuilt(r) => \A c, d \in DOMAIN r.said :
        r.kind[c] \notin Unrestored /\ r.kind[d] \notin Unrestored /\ GroupOf(r, c) = GroupOf(r, d)
            => c = d
    /\ r.api # "responses" /\ r.labels # <<>> => r.marked
    /\ r.api # "responses" /\ r.marked => ~r.interleaved /\ r.terminated
    /\ r.api = "anthropic" => r.terminated

\* Upstream writes a marker only as the beginning of a label, if there are labels.
MarkersBegin(r) == r.labels # <<>> =>
    \A c \in DOMAIN r.said :
        /\ \A p \in 1..Len(r.said[c]) - 2 :
            SubSeq(r.said[c], p, p + 1) = Marker => r.said[c][p + 2] \in Closings(r)
        /\ r.kind[c] = "details" => \A p \in DOMAIN r.said[c] : r.said[c][p] # "l"

\* Whatever upstream splits and however it arrives, what the client has seen of
\* a channel is a beginning of that channel's text with every label restored:
\* no part of a label, and nothing from another channel.
ShownIsRestored == \A c \in Channel : IsPrefix(shown[c], UnredactAll(Said[c]))

\* When the stream is done the client has seen all of it.
AllShown == phase = "done" => \A c \in Channel : shown[c] = UnredactAll(Said[c])

\* Events of a response that is restored as it streams are held back only while
\* a channel may be in the middle of a label, or if the request holds a marker and
\* no label (OnChunk).
HeldForALabel ==
    Api # "responses" /\ events_ # <<>> =>
        \/ Labels = <<>> /\ response.marked
        \/ \E c \in Channel, i \in DOMAIN Labels, n \in 1..2 :
                IsSuffix(SubSeq(Labels[i].text, 1, n), SubSeq(Said[c], 1, sent[c] - Len(TextIn(wire, c))))

\* The comment above needsUnredaction: without labels in the request the chunks
\* are passed straight through.
PassedThrough == Api # "responses" /\ Labels = <<>> => events_ = <<>>
=============================================================================
