--------------------------- MODULE MCModelDownload ---------------------------
(* Small instances of ModelDownload: objects of four bytes, fetched in three    *)
(* segments of which the last is the longer one, and others: a shorter and a   *)
(* longer one with the same segments, and one with longer segments.            *)
EXTENDS ModelDownload

CONSTANTS o1, o2, o3, o4

Sizes == [o \in {o1, o2, o3, o4} |-> CASE o = o2 -> 3 [] o = o3 -> 5 [] OTHER -> 4]
SameSize == [o \in {o1, o2} |-> 4]
LongerSegments == [o \in {o1, o2} |-> IF o = o1 THEN 4 ELSE 6]
=============================================================================
