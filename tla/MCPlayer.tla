--------------------------------- MODULE MCPlayer ---------------------------------
(***************************************************************************)
(* Instances of Player: two items of two buffers, of two formats, and a     *)
(* sink that holds two buffers once the device is open.                     *)
(***************************************************************************)
EXTENDS Player

CONSTANTS i1, i2, i3

Plain ==
  [feed |-> <<i1, i1, i2, i2, End>>, formats |-> (i1 :> "cd" @@ i2 :> "dvd" @@ i3 :> "cd"),
   seekTo |-> {}, sinkSize |-> 2, room |-> 0, calls |-> {"underflow"}, budget |-> 1,
   strays |-> FALSE]

\* i3 is inserted after the end of the playlist was reached.
Resumed == [Plain EXCEPT !.feed = <<i1, i1, End, i3, i3, End>>]

Edits ==
  [Plain EXCEPT !.feed = <<i1, i2, i2, End>>, !.seekTo = {1, 3},
                !.calls = {"seek", "remove", "pause", "underflow"}, !.budget = 2]

Detaches ==
  [Plain EXCEPT !.feed = <<i1, i2, End>>, !.seekTo = {1},
                !.calls = {"seek", "remove", "detach", "attach", "open_fails", "start_fails"}, !.budget = 3]

\* A decoder that strayed.
Strays == [Detaches EXCEPT !.calls = {"seek", "remove", "detach", "attach"}, !.budget = 2, !.strays = TRUE]

PlayerSetups == {Plain, Resumed, Edits, Detaches, Strays}
================================================================================
