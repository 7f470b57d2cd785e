------------------------------- MODULE MCSinkMap -------------------------------
(***************************************************************************)
(* Instances of SinkMap: sinks that take anything, one rate, the other rate *)
(* or both, that ask for planar or interleaved audio, and that differ in    *)
(* gain or sample count.                                                   *)
(***************************************************************************)
EXTENDS SinkMap

CONSTANTS Anything, Low, High, Both, Planar, Packed, Fixed

\* A sink that sets only its sample rates.
Rate(list, value) ==
  [lists |-> [d \in {"rate"} |-> list], default |-> [d \in {"rate"} |-> value],
   flags |-> {}, count |-> 0, gain |-> 1]

MCWants ==
  [s \in Sink |->
     CASE s = Anything -> Rate(AnyValue, 44)
       [] s = Low      -> Rate({{44}}, 44)
       [] s = High     -> Rate({{48}}, 48)
       [] s = Both     -> Rate({{44, 48}}, 44)
       [] s = Planar   -> [Rate(AnyValue, 44) EXCEPT !.flags = {"planar"}]
       [] s = Packed   -> [Rate(AnyValue, 44) EXCEPT !.flags = {"interleaved"}]
       [] s = Fixed    -> [Rate({{44}}, 44) EXCEPT !.count = 1]]

File(rate, volume) == [value |-> [d \in {"rate"} |-> rate], planar |-> "planar",
                       volume |-> volume]

Files == {File(44, 1), File(96, 2)}
================================================================================
