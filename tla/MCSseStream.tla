---------------------------- MODULE MCSseStream ----------------------------
(***************************************************************************)
(* Small instances of SseStream: two labels, one with a value shorter and    *)
(* one with a value longer than the label, and texts that hold them at the   *)
(* beginning, in the middle, at the end and side by side.                    *)
(***************************************************************************)
EXTENDS SseStream

TwoLabels == <<[text |-> <<"l", "m", "p">>, value |-> <<"v">>],
               [text |-> <<"l", "m", "k">>, value |-> <<"w1", "w2", "w3", "w4", "w5">>]>>

\* Reasoning, then content, then a tool call.
Chat == [api |-> "chat", labels |-> TwoLabels, marked |-> TRUE, channels |-> <<"r", "c", "t">>,
    kind |-> [r |-> "reasoning", c |-> "content", t |-> "tool0"],
    said |-> [r |-> <<"x", "l", "m", "p">>,
              c |-> <<"l", "m", "k", "l", "m", "p", "l">>, t |-> <<"x">>],
    interleaved |-> FALSE, terminated |-> TRUE]

\* Thinking, then one text block.
Message == [api |-> "anthropic", labels |-> TwoLabels, marked |-> TRUE, channels |-> <<"k", "b0">>,
    kind |-> [k |-> "other", b0 |-> "text"],
    said |-> [k |-> <<"x">>,
              b0 |-> <<"l", "m", "k", "x", "l", "m", "p", "x", "l", "m", "k">>],
    interleaved |-> FALSE, terminated |-> TRUE]

\* A text and the input of a tool, at the same time, and the terminal event of
\* the text.
Items == [api |-> "responses", labels |-> TwoLabels, marked |-> TRUE,
    channels |-> <<"b0", "b1", "d0">>,
    kind |-> [b0 |-> "text", b1 |-> "json", d0 |-> "whole"],
    said |-> [b0 |-> <<"x", "l", "m", "p">>, b1 |-> <<"x", "l", "m", "k">>,
              d0 |-> <<"x", "l", "m", "p">>],
    interleaved |-> TRUE, terminated |-> FALSE]

\* Responses to a request without labels.
Unlabelled == [api |-> "chat", labels |-> <<>>, marked |-> FALSE, channels |-> <<"b0">>,
    kind |-> [b0 |-> "content"],
    said |-> [b0 |-> <<"x", "x", "x", "x", "x", "x", "x">>],
    interleaved |-> FALSE, terminated |-> FALSE]

UnlabelledMessage == [Message EXCEPT !.labels = <<>>, !.marked = FALSE,
    !.said = [k |-> <<"x">>, b0 |-> <<"x", "x">>]]
UnlabelledItems == [Items EXCEPT !.labels = <<>>, !.marked = FALSE,
    !.said = [b0 |-> <<"x", "x">>, b1 |-> <<"x">>, d0 |-> <<"x", "x">>]]

\* A response to a request without labels in which the user wrote a marker, which
\* comes back.
Quoted == [Unlabelled EXCEPT !.marked = TRUE, !.terminated = TRUE,
    !.said = [b0 |-> <<"x", "l", "m", "x">>]]

Restored == {Chat, Message, Items, Unlabelled, UnlabelledMessage, UnlabelledItems, Quoted}

\* Responses to requests without labels.
NoneInserted == {Unlabelled, UnlabelledMessage, Quoted}

\* A label in the arguments of a tool call.
ToolSplit == {[Chat EXCEPT !.said =
    [r |-> <<"x">>, c |-> <<"x">>, t |-> <<"l", "m", "p", "x">>]]}

\* Two choices, at the same time or one after the other.
TwoChoices == {[Chat EXCEPT !.channels = <<"c0", "c1">>,
    !.kind = [c0 |-> "content", c1 |-> "content"],
    !.said = [c0 |-> <<"l", "m", "p">>, c1 |-> <<"x", "x">>],
    !.interleaved = b] : b \in BOOLEAN}

\* A label in reasoning_details.
Details == {[Chat EXCEPT !.channels = <<"d">>, !.kind = [d |-> "details"],
    !.said = [d |-> <<"x", "l", "m", "p">>]]}

\* Two content blocks, one after the other.
Blocks == {[Message EXCEPT !.kind = [k |-> "text", b0 |-> "json"],
    !.said = [k |-> <<"x", "l", "m", "p">>, b0 |-> <<"x", "l", "m", "k">>]]}

\* A label in the arguments that the terminal event of a function call repeats.
Arguments == {[Items EXCEPT !.kind = [b0 |-> "text", b1 |-> "json", d0 |-> "other"]]}

\* A last event that no blank line ends.
Unterminated == {[Message EXCEPT !.terminated = FALSE]}

\* The responses of the restored instance are the ones the theorems are about,
\* and each of the others breaks what they assume.
ASSUME RestoredAreRestorable == \A r \in Restored : Restorable(r) /\ MarkersBegin(r)
ASSUME OthersAreNot ==
    \A r \in UNION {ToolSplit, TwoChoices, Details, Blocks, Arguments, Unterminated} : ~Restorable(r)
=============================================================================
