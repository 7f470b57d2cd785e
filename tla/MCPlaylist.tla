------------------------------ MODULE MCPlaylist -------------------------------
(***************************************************************************)
(* Instances of Playlist: two or three items of one or two packets, up to   *)
(* two sinks, of one format or of two, packets of one or two bytes.         *)
(***************************************************************************)
EXTENDS Playlist

CONSTANTS i1, i2, i3, s1, s2

\* Every sink has an entry of its own, or all hang on one.
Own  == [s \in {s1, s2} |-> s]
Same == [s \in {s1, s2} |-> s1]

\* The list of items against the decoder that walks it.
Edit ==
  [items |-> {i1, i2, i3}, sinks |-> {s1}, map |-> <<s1>>, format |-> Own, packets |-> 1, most |-> 1,
   bytes |-> {1}, sizes |-> {2}, seekTo |-> {0},
   calls |-> {"insert", "remove"}, budget |-> 0]

\* The only sink leaves.
Leave == [Edit EXCEPT !.items = {i1, i2}, !.packets = 2, !.budget = 1,
                      !.calls = @ \cup {"decode_error", "read_error", "detach"}]

\* Two queues, their room and their contents.
Room ==
  [items |-> {i1, i2}, sinks |-> {s1, s2}, map |-> <<s1, s2>>, format |-> Own, packets |-> 1, most |-> 1,
   bytes |-> {1}, sizes |-> {1}, seekTo |-> {0},
   calls |-> {"insert", "remove", "seek"}, budget |-> 1]

\* Packets that bring more than one buffer, and one buffer for both sinks.
Packet == [Room EXCEPT !.sinks = {s1}, !.map = <<s1>>, !.most = 2, !.bytes = {1, 2}, !.sizes = {2},
           !.calls = @ \cup {"seek_error", "drain"}]
Shared == [Packet EXCEPT !.items = {i1}, !.sinks = {s1, s2}, !.map = <<s1, s2>>, !.format = Same,
           !.bytes = {1}]

\* A seek to the beginning and into the middle.
Positions == [Room EXCEPT !.sinks = {s1}, !.map = <<s1>>, !.packets = 2, !.seekTo = {0, 1},
                      !.calls = @ \cup {"seek_error"}]

\* A late attach, a resize, another fill mode.
Flow ==
  [items |-> {i1, i2}, sinks |-> {s1, s2}, map |-> <<s1>>, format |-> Own, packets |-> 1, most |-> 1,
   bytes |-> {1}, sizes |-> {1, 2}, seekTo |-> {0},
   calls |-> {"insert", "attach", "set_fill_mode", "set_buffer_size"}, budget |-> 1]

\* The end of the playlist, perhaps after a late attach.
Ending == [Flow EXCEPT !.sizes = {1}, !.calls = {"insert", "attach", "destroy"}]

\* The end of a file whose audio comes late.
Draining == [Ending EXCEPT !.items = {i1}, !.sinks = {s1}, !.most = 2, !.calls = {"insert", "destroy", "drain"}]

Plain == [Room EXCEPT !.sinks = {s1}, !.map = <<s1>>, !.calls = {"insert", "remove"}, !.budget = 0]

EditAndRoom   == {Edit, Leave, Room, Packet, Shared, Positions}
FlowAndEnding == {Flow, Ending, Draining}
PlainOnly     == {Plain}
================================================================================
