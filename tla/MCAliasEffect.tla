---------------------------- MODULE MCAliasEffect ----------------------------
(***************************************************************************)
(* Three functions: main has a local x with a view v, two others have two  *)
(* parameters each, call each other with their parameters, views of them,  *)
(* a global or nothing, in either order, and do one thing themselves; and  *)
(* a function of many parameters that passes them, rotated, to itself.     *)
(***************************************************************************)
EXTENDS AliasEffect, SequencesExt

Whole(s) == [storage |-> s, region |-> "whole", writable |-> TRUE]
Borrowed(s) == [storage |-> s, region |-> "whole", writable |-> FALSE]
Part(s, r) == [storage |-> s, region |-> r, writable |-> TRUE]

Site(f, g, args) == [caller |-> f, callee |-> g, arguments |-> args]

Does(f, acc, ext) ==
  [owner |-> f, effects |-> {"may_fail"}, accesses |-> acc, external |-> ext]

Views == [v |-> "x", w |-> "p"]

Trio(fromMain, down, up, downFirst, body) ==
  [count |-> 3, arity |-> 2,
   parameters |-> << <<>>, <<"p", "q">>, <<"r", "s">> >>,
   kind |-> [s \in {"x", "v", "g", "p", "q", "r", "s", "w"} |->
               CASE s = "x" -> "local" [] s = "g" -> "global"
                 [] s \in {"v", "w"} -> "view" [] OTHER -> "parameter"],
   base |-> [s \in {"x", "v", "g", "p", "q", "r", "s", "w"} |->
               IF s \in DOMAIN Views THEN Views[s] ELSE s],
   body |-> body,
   calls |-> <<Site(1, 2, fromMain)>>
             \o (IF downFirst
                 THEN <<Site(2, 3, down), Site(3, 2, up)>>
                 ELSE <<Site(3, 2, up), Site(2, 3, down)>>)]

FromMain == {<<Whole("x"), Whole("g")>>, <<Borrowed("v"), Whole("x")>>}
Down ==
  {<<Whole("p"), Whole("q")>>, <<Whole("q"), Whole("w")>>, <<Whole("g"), Borrowed("p")>>,
   <<Whole("p"), Whole(NoStorage)>>, <<Part("p", "front"), Part("p", "back")>>,
   <<Part("w", "front"), Whole("p")>>, <<Whole("q")>>}
Up ==
  {<<Whole("s"), Whole("r")>>, <<Whole("r"), Whole("r")>>,
   <<Whole(NoStorage), Whole("s")>>, <<Whole("g"), Borrowed("s")>>}
Bodies ==
  {{Does(3, {<<"r", "write">>}, FALSE)}, {Does(3, {<<"s", "read">>}, TRUE)},
   {Does(2, {<<"w", "read">>, <<"g", "write">>}, FALSE)}}

Trios == {Trio(m, d, u, o, b) : m \in FromMain, d \in Down, u \in Up, o \in BOOLEAN, b \in Bodies}

(* Function 2 passes parameter i as argument i + 1 and the last one as the *)
(* first, and writes the last one.                                         *)
Rotation(n) ==
  [count |-> 2, arity |-> n,
   parameters |-> << <<>>, [i \in 1 .. n |-> ToString(i)] >>,
   kind |-> [s \in {ToString(i) : i \in 0 .. n} |->
               IF s = "0" THEN "local" ELSE "parameter"],
   base |-> [s \in {ToString(i) : i \in 0 .. n} |-> s],
   body |-> {Does(2, {<<ToString(n), "write">>}, FALSE)},
   calls |-> <<Site(1, 2, [i \in 1 .. n |-> Whole(IF i = 1 THEN "0" ELSE NoStorage)]),
               Site(2, 2, [i \in 1 .. n |-> Whole(ToString(IF i = 1 THEN n ELSE i - 1))])>>]

MCPrograms == Trios \cup {Rotation(3)}
=============================================================================
