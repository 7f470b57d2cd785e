-------------------------------- MODULE MCEncoder --------------------------------
(***************************************************************************)
(* Instances of Encoder.  The first four setups are about the thread and    *)
(* its queues, with one codec that takes what is asked; the others attach   *)
(* to an empty playlist with every codec of up to three sample rates.       *)
(***************************************************************************)
EXTENDS Encoder

CONSTANTS i1, i2, i3

Stereo == [count |-> 2, kind |-> "stereo"]
Mono   == [count |-> 1, kind |-> "mono"]
Quad   == [count |-> 4, kind |-> "quad"]
Square == [count |-> 4, kind |-> "square"]

Format(f, planar) == [format |-> f, planar |-> planar]

Target(f, planar, rate) == [format |-> f, planar |-> planar, rate |-> rate, layout |-> Stereo]

AnyCodec == [formats |-> <<>>, rates |-> <<>>, layouts |-> <<>>]
NoCodec  == [formats |-> <<Format("S64", FALSE)>>, rates |-> <<>>, layouts |-> <<>>]

Plain ==
  [feed |-> <<i1, i1, i2, End, i3, End>>, seekTo |-> {}, sinkSize |-> 2, room |-> 2,
   calls |-> {}, budget |-> 0, strays |-> FALSE, codecs |-> {AnyCodec}, target |-> Target("S16", FALSE, 2)]

\* Seeks to a buffer, to the last one of an item and to the end.
Seeks ==
  [Plain EXCEPT !.feed = <<i1, i2, End>>, !.seekTo = {1, 2, 3}, !.calls = {"seek", "detach", "attach"},
                !.budget = 3, !.codecs = {AnyCodec, NoCodec}]

Removals ==
  [Plain EXCEPT !.feed = <<i1, i1, i2, End>>, !.seekTo = {1}, !.calls = {"remove", "seek"}, !.budget = 2]

\* A decoder that strayed.
Strays ==
  [Removals EXCEPT !.feed = <<i1, i2, End>>, !.calls = {"remove", "seek", "detach", "attach"},
                   !.strays = TRUE]

RateLists == UNION {[1 .. n -> 1 .. 4] : n \in 0 .. 3}

Codecs ==
  {[formats |-> fs, rates |-> rs, layouts |-> <<>>] :
     fs \in {<<Format("S32", TRUE)>>, <<Format("S16", TRUE), Format("F32", FALSE)>>}, rs \in RateLists}
  \cup
  {[formats |-> <<Format("U8", FALSE), Format("F64", TRUE)>>, rates |-> <<>>, layouts |-> ls] :
     ls \in {<<Mono>>, <<Mono, Quad, Stereo>>, <<Square, Quad>>, <<Quad, Mono>>}}

Negotiations ==
  {[Plain EXCEPT !.feed = <<>>, !.codecs = Codecs, !.target = Target(f, planar, rate)] :
     f \in {"S16", "S24"}, planar \in BOOLEAN, rate \in 1 .. 4}

EncoderSetups == {Plain, Seeks, Removals, Strays} \cup Negotiations
================================================================================
