------------------------------ MODULE EncoderFormat ------------------------------
(***************************************************************************)
(* How groove_encoder_attach (src/src/encoder.c) comes from the format the  *)
(* application asks for to one that the codec takes.  A codec is a record   *)
(* of what ffmpeg lists for it: sample formats, sample rates and channel    *)
(* layouts, <<>> (a NULL list in C) for "anything".  A target and a result  *)
(* have the fields format, planar, rate and layout.                         *)
(***************************************************************************)
EXTENDS Naturals, Sequences, SequencesExt

\* ffmpeg has no 24 bit format: codec_supports_fmt takes S32 for S24.
AvFormat(format) == IF format = "S24" THEN "S32" ELSE format

Supports(codec, format, planar) ==
  codec.formats = <<>> \/ [format |-> AvFormat(format), planar |-> planar] \in Range(codec.formats)

prioritized_sample_formats == <<"F32", "S24", "S32", "S16", "F64", "U8">>

\* The choices in the order they are tried: the target's own format, then the
\* others by priority, each as planar as the target and then the other way.
Attempts(target) ==
  LET formats == <<target.format>> \o prioritized_sample_formats
  IN  [k \in 1 .. 2 * Len(formats) |->
        [format |-> formats[(k + 1) \div 2],
         planar |-> IF k % 2 = 1 THEN target.planar ELSE ~target.planar]]

\* The first choice the codec takes.
Taken(codec, target) ==
  {k \in DOMAIN Attempts(target) :
     Supports(codec, Attempts(target)[k].format, Attempts(target)[k].planar)}

ClosestFormat(codec, target) == Attempts(target)[Min(Taken(codec, target))]

Encodable(codec, target) == Taken(codec, target) # {}

Distance(a, b) == IF a >= b THEN a - b ELSE b - a

\* One pass over a list, for the exact target or else the best so far.
Better(candidate, best, target) ==
  \/ best < target /\ candidate > best
  \/ candidate >= target /\ Distance(target, candidate) < Distance(target, best)

\* Where the best is among the first n numbers, for every n up to the length.
BestOf(numbers, target) ==
  LET best[n \in 1 .. Len(numbers)] ==
        IF n = 1 THEN 1
        ELSE IF Better(numbers[n], numbers[best[n - 1]], target) THEN n ELSE best[n - 1]
  IN  best

Best(numbers, target) == BestOf(numbers, target)[Len(numbers)]

\* Mutant of ClosestRate: whatever is nearest.
NearestRate(codec, target) ==
  IF codec.rates = <<>> \/ target \in Range(codec.rates) THEN target
  ELSE CHOOSE r \in Range(codec.rates) :
         \A other \in Range(codec.rates) : Distance(target, r) <= Distance(target, other)

ClosestRate(codec, target) ==
  IF codec.rates = <<>> \/ target \in Range(codec.rates) THEN target
  ELSE codec.rates[Best(codec.rates, target)]

\* A layout is its number of channels and which of that number it is.
Layout == [count : Nat, kind : STRING]

Counts(layouts) == [k \in DOMAIN layouts |-> layouts[k].count]

ClosestLayout(codec, target) ==
  IF codec.layouts = <<>> \/ target \in Range(codec.layouts) THEN target
  ELSE codec.layouts[Best(Counts(codec.layouts), target.count)]

Negotiated(codec, target) ==
  LET closest == ClosestFormat(codec, target)
  IN  [format |-> closest.format, planar |-> closest.planar,
       rate |-> ClosestRate(codec, target.rate), layout |-> ClosestLayout(codec, target.layout)]
================================================================================
