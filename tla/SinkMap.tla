-------------------------------- MODULE SinkMap --------------------------------
(***************************************************************************)
(* Which sink gets which audio (src/src/playlist.c): the map from audio     *)
(* format to a stack of sinks, whose first sink is the example of what the  *)
(* others must take too, and the filter graph that is built from the map,   *)
(* one branch per entry, and rebuilt when something it depends on changes.  *)
(*                                                                         *)
(* Everything here runs under decode_head_mutex, so a call, and the turn of *)
(* the decoder for one frame, are one step each.  (Playlist.tla has what    *)
(* happens when the decoder runs without that mutex; it keeps only the      *)
(* order in which the sinks are visited: see VisitsOneAtATime.)             *)
(***************************************************************************)
EXTENDS KeepSeq, FiniteSets, SequencesExt

CONSTANTS
  Sink,
  Wants,       \* per sink, what was set before it was attached:
               \*   lists    per dimension, AnyValue or the set of ranges it allows,
               \*            a range being a set of values
               \*   default  per dimension, the value to convert to
               \*   flags    a subset of {"planar", "interleaved"}
               \*   count    buffer_sample_count, 0 for "do not care"
               \*   gain     1 is unity
  Dimension,   \* "rate", "format", "layout": the three lists of a sink
  AnyValue,         \* a NULL list
  Source,      \* what a frame is decoded to, and the volume it is played at:
               \* [value : per dimension, planar : flag, volume]
  Gains,       \* what groove_sink_set_gain is called with
  Calls        \* which of "detach" and "set_gain" the application makes

ASSUME CallsAssumption == Calls \subseteq {"detach", "set_gain"}

VARIABLES
  sink_map,    \* the entries in order: [stack, ctx, out, gain, cut], out and gain
               \* being what the branch of the entry was built to deliver, and cut
               \* (history) whether its example was ever taken away
  gain,        \* GrooveSink::gain
  rebuild,     \* rebuild_filter_graph_flag
  graph,       \* "none", "failed" half-way, or "configured"
  built_for,   \* the source whose parameters were saved, {} before that
  turn         \* how the decoder's last frame went

map_vars == <<sink_map, gain, rebuild, graph, built_for, turn>>

\* A new entry: no buffersink context yet.
Entry(stack) == [stack |-> stack, ctx |-> "null", out |-> {}, gain |-> {}, cut |-> FALSE]

\* The order in which every_sink goes round.
Visited(map) == FlattenSeq([k \in DOMAIN map |-> map[k].stack])

Attached == Range(Visited(sink_map))

MapInit ==
  /\ sink_map = <<>>
  /\ gain = [s \in Sink |-> Wants[s].gain]
  /\ rebuild = FALSE
  /\ graph = "none" /\ built_for = {}
  /\ turn = "none"

--------------------------------------------------------------------------------
(* sink_formats_compatible.                                                *)

Supports(s, d, range) ==
  Wants[s].lists[d] = AnyValue \/ \E r \in Wants[s].lists[d] : range \subseteq r

\* Mutant of ListCompatible: an example that takes anything is not compared.
ListLenient(example, test, d) ==
  Wants[example].lists[d] # AnyValue =>
    \A range \in Wants[example].lists[d] : Supports(test, d, range)

ListCompatible(example, test, d) ==
  IF Wants[example].lists[d] = AnyValue
  THEN Wants[test].lists[d] = AnyValue
  ELSE \A range \in Wants[example].lists[d] : Supports(test, d, range)

\* The flags, as they are compared: PlanarOk is tested for both, and with none
\* set both are on, so every sink looks as if it took either.
SeenFlags(s) == {"planar", "interleaved"}

\* test must support everything example supports, at the gains g.
Compatible(example, test, g) ==
  /\ Wants[test].count \in {0, Wants[example].count}
  /\ g[example] = g[test]
  /\ SeenFlags(example) \subseteq SeenFlags(test)
  /\ \A d \in Dimension : ListCompatible(example, test, d)

--------------------------------------------------------------------------------
(* add_sink_to_map and remove_sink_from_map.                               *)

Example(e) == Head(e.stack)

Joins(map, s, g) == {k \in DOMAIN map : Compatible(Example(map[k]), s, g)}
Leads(map, s, g) == {k \in DOMAIN map : Compatible(s, Example(map[k]), g)}
Fits(map, s, g)  == Joins(map, s, g) \cup Leads(map, s, g)
First(K)         == CHOOSE k \in K : \A j \in K : k <= j

\* The first entry where the sink fits decides: behind the example if it may,
\* else in its place.  Failing that, a new entry goes in front.
Placed(map, s, g) ==
  LET fits == Fits(map, s, g)
      k    == First(fits)
  IN  IF fits = {} THEN <<Entry(<<s>>)>> \o map
      ELSE [map EXCEPT ![k].stack = InsertAt(@, IF k \in Joins(map, s, g) THEN 2 ELSE 1, s)]

\* Only a sink that joins behind the example leaves the graph as it is.
ChangesExample(map, s, g) ==
  Fits(map, s, g) = {} \/ First(Fits(map, s, g)) \notin Joins(map, s, g)

\* An entry goes with its last sink; the graph is not touched.
Unhang(e, s) == [e EXCEPT !.stack = Keep(@, Sink \ {s}), !.cut = @ \/ Example(e) = s]

Without(map, s) ==
  LET left == [k \in DOMAIN map |-> Unhang(map[k], s)]
  IN  Keep(left, {e \in Range(left) : e.stack # <<>>})

\* Mutant of Attach: a new example does not ask for a new graph.
AttachQuietly(s) ==
  /\ s \notin Attached
  /\ sink_map' = Placed(sink_map, s, gain)
  /\ UNCHANGED <<gain, rebuild, graph, built_for, turn>>

Attach(s) ==
  /\ s \notin Attached
  /\ sink_map' = Placed(sink_map, s, gain)
  /\ rebuild' = (rebuild \/ ChangesExample(sink_map, s, gain))
  /\ UNCHANGED <<gain, graph, built_for, turn>>

\* Mutant of Detach: the whole entry goes with the example.
DetachStack(s) ==
  /\ "detach" \in Calls
  /\ s \in Attached
  /\ sink_map' = Keep(sink_map, {e \in Range(sink_map) : Example(e) # s})
  /\ UNCHANGED <<gain, rebuild, graph, built_for, turn>>

Detach(s) ==
  /\ "detach" \in Calls
  /\ s \in Attached
  /\ sink_map' = Without(sink_map, s)
  /\ UNCHANGED <<gain, rebuild, graph, built_for, turn>>

\* Mutant of SetGain: the gain is stored and the map left as it is.
SetGainOnly(s, n) ==
  /\ "set_gain" \in Calls
  /\ s \in Attached
  /\ gain' = [gain EXCEPT ![s] = n]
  /\ UNCHANGED <<sink_map, rebuild, graph, built_for, turn>>

\* groove_sink_set_gain takes the sink out of the map and puts it back.
SetGain(s, n) ==
  /\ "set_gain" \in Calls
  /\ s \in Attached
  /\ gain' = [gain EXCEPT ![s] = n]
  /\ sink_map' = Placed(Without(sink_map, s), s, [gain EXCEPT ![s] = n])
  /\ rebuild' = TRUE
  /\ UNCHANGED <<graph, built_for, turn>>

--------------------------------------------------------------------------------
(* init_filter_graph.                                                      *)

Flags(s) == IF Wants[s].flags = {} THEN {"planar", "interleaved"} ELSE Wants[s].flags

Accepts(s, d, value) == Supports(s, d, {value})

\* The aformat filter of a branch: is it needed, and what does it deliver?
Converts(s, src) ==
  src.planar \notin Flags(s) \/ \E d \in Dimension : ~Accepts(s, d, src.value[d])

Delivered(s, src) ==
  [planar |-> IF src.planar \in Flags(s) THEN src.planar ELSE CHOOSE f \in Flags(s) : TRUE,
   value  |-> [d \in Dimension |-> IF Accepts(s, d, src.value[d])
                                   THEN src.value[d] ELSE Wants[s].default[d]]]

(***************************************************************************)
(* The output of asplit that entry k is linked to.  pad_index is used only  *)
(* for the link into aformat; a volume filter, and a buffersink with no     *)
(* filter before it, are linked to output 0 (playlist.c:254, 279, 517).     *)
(***************************************************************************)
Pad(map, k, src) ==
  IF gain[Example(map[k])] = 1 /\ Converts(Example(map[k]), src) THEN k - 1 ELSE 0

\* avfilter_link refuses an output that is taken.
Clashes(map, src) ==
  {k \in DOMAIN map : \E j \in 1 .. k - 1 : Pad(map, j, src) = Pad(map, k, src)}

Branches(map, src) ==
  [k \in DOMAIN map |->
     IF \A c \in Clashes(map, src) : k < c
     THEN [map[k] EXCEPT !.ctx = "live", !.out = {Delivered(Example(map[k]), src)},
                         !.gain = {gain[Example(map[k])]}]
     ELSE [map[k] EXCEPT !.ctx = IF @ = "null" THEN "null" ELSE "freed"]]

--------------------------------------------------------------------------------
(* One frame: maybe_init_filter_graph, then send_frame_to_filter_graph.    *)

MustBuild(src) == graph = "none" \/ rebuild \/ built_for # {src}

\* The parameters are saved before the branches are built; the flag is taken
\* down only at the very end.
Build(src) ==
  /\ MustBuild(src)
  /\ built_for' = {src}
  /\ sink_map' = Branches(sink_map, src)
  /\ IF Clashes(sink_map, src) = {}
     THEN graph' = "configured" /\ rebuild' = FALSE /\ turn' = "sent"
     ELSE graph' = "failed" /\ UNCHANGED rebuild /\ turn' = "skipped"
  /\ UNCHANGED gain

\* Every context is read, whatever became of the graph it belongs to.
Send(src) ==
  /\ ~MustBuild(src)
  /\ turn' = IF graph = "configured" /\ \A e \in Range(sink_map) : e.ctx = "live"
             THEN "sent" ELSE "stale"
  /\ UNCHANGED <<sink_map, gain, rebuild, graph, built_for>>

MapNext ==
  \/ \E s \in Sink : Attach(s) \/ Detach(s) \/ \E n \in Gains : SetGain(s, n)
  \/ \E src \in Source : Build(src) \/ Send(src)

MapSpec == MapInit /\ [][MapNext]_map_vars

--------------------------------------------------------------------------------
Volumes  == Gains \cup {Wants[s].gain : s \in Sink}
Delivery == {Delivered(s, src) : s \in Sink, src \in Source}

Entries == [stack : Seq(Sink) \ {<<>>}, ctx : {"null", "live", "freed"},
            out : SUBSET Delivery, gain : SUBSET Volumes, cut : BOOLEAN]

MapTypeOK ==
  /\ sink_map \in Seq(Entries)
  /\ gain \in [Sink -> Volumes]
  /\ rebuild \in BOOLEAN
  /\ graph \in {"none", "failed", "configured"}
  /\ built_for \in {{}} \cup {{src} : src \in Source}
  /\ turn \in {"none", "sent", "skipped", "stale"}

\* The branch of e delivers what s asked for, at the gain of s.
Serves(e, s) ==
  /\ e.ctx = "live"
  /\ e.gain = {gain[s]}
  /\ Wants[s].count \in {0, Wants[Example(e)].count}
  /\ \A b \in e.out : b.planar \in Flags(s) /\ \A d \in Dimension : Accepts(s, d, b.value[d])

Ready == graph = "configured" /\ ~rebuild

(***************************************************************************)
(* Whenever the decoder would use the graph as it is, every entry has a     *)
(* branch in it, built at the gain of every sink that hangs on it: "you     *)
(* must use groove_sink_set_gain" to change it while attached               *)
(* (groove.h:320), and it never reaches the other sinks.                   *)
(***************************************************************************)
BranchesCurrent ==
  /\ MapTypeOK
  /\ Ready => \A e \in Range(sink_map) :
                e.ctx = "live" /\ \A s \in Range(e.stack) : e.gain = {gain[s]}

(***************************************************************************)
(* "Set the allowed sample rates buffers in this sink will have"            *)
(* (groove.h:256), and the same for layouts, formats, planar or not, sample *)
(* counts and the gain: the branch of a stack suits every sink in it, the   *)
(* ones behind an example that was itself displaced included.  It is so     *)
(* only until the example is detached or moved: whoever was second leads    *)
(* from then on, without being compared with the rest.                     *)
(***************************************************************************)
EverySinkServed ==
  Ready => \A e \in Range(sink_map) : ~e.cut => \A s \in Range(e.stack) : Serves(e, s)

(***************************************************************************)
(* The graph is compared with what was used to construct it and rebuilt     *)
(* (playlist.c:103, 547): as long as no build has failed half-way, frames   *)
(* only come out of contexts of the graph they were sent into.             *)
(***************************************************************************)
NeverStale == turn = "stale" => graph = "failed"

(***************************************************************************)
(* What Playlist.tla takes for granted of the map: attach puts one sink     *)
(* somewhere among the others, detach takes one out, and nothing else       *)
(* reorders them or visits a sink twice.                                   *)
(***************************************************************************)
Minus(seq, s) == Keep(seq, Sink \ {s})

VisitsOneAtATime ==
  [][LET before == Visited(sink_map)
         after  == Visited(sink_map')
     IN \/ after = before
        \/ \E s \in Sink : /\ Minus(before, s) = Minus(after, s)
                           /\ Cardinality(Range(after)) = Len(after)]_map_vars
================================================================================
