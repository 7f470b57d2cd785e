------------------------------ MODULE MCInfoSink ------------------------------
(***************************************************************************)
(* Instances of InfoSink: two or three items of one or two buffers.         *)
(***************************************************************************)
EXTENDS InfoSink

CONSTANTS i1, i2, i3

\* A playlist that ends and, with i3 inserted after that, goes on and ends
\* again; nobody touches it, and there is room for every info.
Reports ==
  [feed |-> <<i1, i1, i2, End, i3, End>>, seekTo |-> {}, sinkSize |-> 2, room |-> 9,
   calls |-> {}, budget |-> 0, strays |-> FALSE, album |-> TRUE]

\* Nothing follows the end: that is what loudness.c can do without the album.
Tracks ==
  [feed |-> <<i1, i2, i1, End>>, seekTo |-> {}, sinkSize |-> 2, room |-> 9,
   calls |-> {}, budget |-> 0, strays |-> FALSE, album |-> FALSE]

\* Three calls of any kind, and room for one info.
Edits ==
  [feed |-> <<i1, i1, i2, End>>, seekTo |-> {1, 3}, sinkSize |-> 2, room |-> 1,
   calls |-> {"remove", "seek", "detach", "attach"}, budget |-> 3, strays |-> FALSE, album |-> FALSE]

\* A decoder that strayed, before the edits.
Strays == [Edits EXCEPT !.strays = TRUE, !.budget = 2]

\* Room for one info, and a reader that keeps reading.
Narrow ==
  [feed |-> <<i1, i1, i2, End>>, seekTo |-> {}, sinkSize |-> 2, room |-> 1,
   calls |-> {}, budget |-> 0, strays |-> FALSE, album |-> TRUE]

ReportsAndEdits == {Reports, Tracks, Edits, Strays}
NarrowOnly      == {Narrow}
================================================================================
