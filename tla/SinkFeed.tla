-------------------------------- MODULE SinkFeed --------------------------------
(***************************************************************************)
(* The playlist and its application as one sink of the library sees them:   *)
(* the buffers that will come, the sink's queue (audioq of                  *)
(* src/src/playlist.c), the purge and flush hooks, groove_sink_detach and   *)
(* groove_sink_attach.  InfoSink, Encoder and Player extend this module and *)
(* add the thread behind the sink; each action here is the playlist's half  *)
(* of a step, to which they conjoin what their hook does.  Playlist models  *)
(* the same code from the decoder's side, without a sink behind the queue.  *)
(*                                                                         *)
(* A buffer is a place in the feed, the audio of a whole playlist: the item *)
(* there, or End for the end-of-playlist mark.                              *)
(***************************************************************************)
EXTENDS KeepSeq, FiniteSets, SequencesExt

CONSTANTS
  Item, Null, End,
  Setups  \* what the application chose, and may do.  Of each choice:
          \*   feed      the playlist, by item and End
          \*   seekTo    the places it may seek to
          \*   sinkSize  what the decoder fills the sink's queue up to, in
          \*             buffers: its size and the rest of a packet
          \*   strays    the decoder has waited for room in a sink, and goes on
          \*             without decode_head_mutex (BugRemoveFault of Playlist)
          \*   room      the size of the queue behind the sink
          \*   calls     which of "remove", "seek", "detach", "attach" ... it makes
          \*   budget    bound: how many of them

ASSUME FeedAssumption ==
  \A s \in Setups : /\ s.feed \in Seq(Item \cup {End})
                    /\ s.seekTo \subseteq DOMAIN s.feed
                    /\ s.room \in Nat
                    /\ s.strays \in BOOLEAN

ASSUME NullAssumption ==
  Null \notin Item /\ Null # End /\ Null \notin Nat /\ End \notin Item

VARIABLES
  setup,
  todo,       \* the places the decoder has yet to deliver
  audioq,     \* the sink's queue
  alive,      \* the items not freed
  aborted,    \* audioq is aborted
  attached,   \* the sink is in the playlist's map
  flushing,   \* the decoder has flushed audioq and is about to call sink_flush
  apc, arg,   \* where the application's call is, and the item it removes
  budget

feed == <<setup, todo, audioq, alive, aborted, attached, flushing, apc, arg, budget>>

ItemAt(p) == setup.feed[p]

FeedInit ==
  /\ setup \in Setups
  /\ todo = [p \in DOMAIN setup.feed |-> p]
  /\ audioq = <<>> /\ alive = Range(setup.feed) \ {End}
  /\ aborted = FALSE /\ attached = TRUE /\ flushing = FALSE
  /\ apc = "idle" /\ arg = Null /\ budget = setup.budget

\* The decoder and groove_playlist_remove hold decode_head_mutex while they
\* call the hooks, and so do attach and detach when they change the map: all
\* but a decoder that strayed.
DecoderFree == flushing => setup.strays
HeadFree    == ~flushing /\ (apc = "purge_hook" => setup.strays)

\* The end-of-playlist mark takes no room, and waits for none.
Buffers == Keep(audioq, {p \in DOMAIN setup.feed : ItemAt(p) # End})

DeliverBuffer(size) ==
  /\ attached /\ HeadFree
  /\ todo # <<>>
  /\ ItemAt(Head(todo)) = End \/ Len(Buffers) < size
  /\ audioq' = Append(audioq, Head(todo))
  /\ todo' = Tail(todo)
  /\ UNCHANGED <<setup, alive, aborted, attached, flushing, apc, arg, budget>>

\* groove_sink_buffer_get of the thread behind the sink.
TakeBuffer ==
  /\ ~aborted
  /\ audioq # <<>>
  /\ audioq' = Tail(audioq)
  /\ UNCHANGED <<setup, todo, alive, aborted, attached, flushing, apc, arg, budget>>

May(call) == apc = "idle" /\ call \in setup.calls /\ budget > 0
Spend     == budget' = budget - 1

Without(seq, i) == Keep(seq, {p \in DOMAIN setup.feed : ItemAt(p) # i})

\* groove_playlist_remove: the buffers of the item, then the purge hook, then
\* the item itself.
RemoveCall(i, rest) ==
  /\ May("remove") /\ Spend
  /\ i \in alive
  /\ todo' = rest
  /\ audioq' = IF attached THEN Without(audioq, i) ELSE audioq
  /\ apc' = IF attached THEN "purge_hook" ELSE "free"
  /\ arg' = i
  /\ UNCHANGED <<setup, alive, aborted, attached, flushing>>

RemoveBegin(i) == DecoderFree /\ RemoveCall(i, Without(todo, i))

\* A decoder that strayed has labelled a buffer with the item, and puts it in
\* the queue behind the purge.
RemoveStraggling(i) ==
  /\ setup.strays /\ attached /\ ~flushing
  /\ todo # <<>>
  /\ ItemAt(Head(todo)) = i
  /\ RemoveCall(i, <<Head(todo)>> \o Without(Tail(todo), i))

RemoveEnd ==
  /\ apc = "free"
  /\ alive' = alive \ {arg}
  /\ apc' = "idle" /\ arg' = Null
  /\ UNCHANGED <<setup, todo, audioq, aborted, attached, flushing, budget>>

\* The places of what the playlist still has: an item leaves its list before
\* it is freed.
Listed == {p \in DOMAIN setup.feed : ItemAt(p) \in (alive \ {arg}) \cup {End}}

\* A seek, as the decoder carries it out some time after the call: the
\* buffers, then the flush hook.
SeekBegin(p) ==
  /\ "seek" \in setup.calls /\ budget > 0 /\ Spend
  /\ attached /\ HeadFree
  /\ p \in Listed
  /\ todo' = Keep([k \in 1 .. Len(setup.feed) - p + 1 |-> p + k - 1], Listed)
  /\ audioq' = <<>>
  /\ flushing' = TRUE
  /\ UNCHANGED <<setup, alive, aborted, attached, apc, arg>>

SeekEnd ==
  /\ flushing
  /\ flushing' = FALSE
  /\ UNCHANGED <<setup, todo, audioq, alive, aborted, attached, apc, arg, budget>>

\* The detach of the sink's owner; groove_sink_detach, when it gets to it,
\* aborts and flushes the queue and then leaves the map.
DetachCall(first) ==
  /\ May("detach") /\ Spend
  /\ attached
  /\ apc' = first
  /\ UNCHANGED <<setup, todo, audioq, alive, aborted, attached, flushing, arg>>

SinkAbort ==
  /\ apc = "sink_abort"
  /\ aborted' = TRUE
  /\ audioq' = <<>>
  /\ apc' = "sink_map"
  /\ UNCHANGED <<setup, todo, alive, attached, flushing, arg, budget>>

\* Not under a flush of the decoder, strayed or not: one that strayed would
\* go on to read the entry of the map that is freed here.
SinkUnmap ==
  /\ apc = "sink_map"
  /\ ~flushing
  /\ attached' = FALSE
  /\ apc' = "detached"
  /\ UNCHANGED <<setup, todo, audioq, alive, aborted, flushing, arg, budget>>

\* groove_sink_attach: the queue is reset, and keeps what it holds.
AttachCall(next) ==
  /\ May("attach") /\ Spend
  /\ ~attached
  /\ aborted' = FALSE /\ attached' = TRUE
  /\ apc' = next
  /\ UNCHANGED <<setup, todo, audioq, alive, flushing, arg>>

\* A step of the application's call that leaves the sink alone.
Proceed(from, to) ==
  /\ apc = from
  /\ apc' = to
  /\ UNCHANGED <<setup, todo, audioq, alive, aborted, attached, flushing, arg, budget>>

FeedTypeOK ==
  /\ setup \in Setups
  /\ todo \in Seq(DOMAIN setup.feed) /\ audioq \in Seq(DOMAIN setup.feed)
  /\ alive \subseteq Item /\ arg \in Item \cup {Null}
  /\ aborted \in BOOLEAN /\ attached \in BOOLEAN /\ flushing \in BOOLEAN
================================================================================
