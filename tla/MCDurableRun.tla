---------------------------- MODULE MCDurableRun ----------------------------
(***************************************************************************)
(* Small instances of DurableRun: a root r, its children x and y, and in   *)
(* the nested instance a child z of x.                                     *)
(***************************************************************************)
EXTENDS DurableRun

CONSTANTS r, x, y, z, a, b

Flat == {r, x, y}
FlatSubtree == [c \in Flat |-> IF c = r THEN Flat ELSE {c}]

Nested == {r, x, y, z}
NestedSubtree == [c \in Nested |-> CASE c = r -> Nested [] c = x -> {x, z} [] OTHER -> {c}]

Program(main, atX, atY) ==
  [c \in Flat |-> CASE c = r -> main [] c = x -> atX [] c = y -> atY]

\* Two children that must both succeed; the root survives when they do not.
JoinBoth == Program(<<TryAll({x, y})>>, <<Call(a)>>, <<Call(b)>>)
\* A later edition: the children are raced, and one call has another name.
RaceBoth == Program(<<Race({x, y})>>, <<Call(b)>>, <<Call(b)>>)
\* A later edition that no longer reaches the children and fails in the end.
Shorter  == Program(<<TryCall(a), Throw>>, <<>>, <<>>)
\* Two children whose failure the root catches, and a call after them.
CallLast == Program(<<TryAll({x, y}), Call(a)>>, <<Call(a)>>, <<Throw>>)
\* One child of two calls raced against one of a single call.
RaceUneven == Program(<<Race({x, y})>>, <<Call(a), Call(b)>>, <<Call(b)>>)
\* Two calls of the root alone.
TwoCalls == Program(<<TryCall(a), TryCall(b)>>, <<>>, <<>>)

Editions   == {JoinBoth, RaceBoth, Shorter}
OneEdition == {CallLast}
WithAndWithoutChildren == {CallLast, TwoCalls, Shorter}
OnlyCalls  == {TwoCalls}
OnlyRace   == {RaceUneven}

\* A child with a child of its own, and a sibling.
NestedEdition ==
  {[c \in Nested |->
      CASE c = r -> <<TryAll({x, y}), Call(b)>>
        [] c = x -> <<All({z})>>
        [] c = y -> <<Call(b)>>
        [] c = z -> <<Call(a)>>]}

YieldsOfRoot == {YieldOf(r, n, s) : n \in {a, b}, s \in {"ok", "err"}}
ClosesOfRoot == {CloseOf(r, s) : s \in {"ok", "err", "cancelled"}}
YieldsOfAll  == {YieldOf(c, n, s) : c \in Flat, n \in {a, b}, s \in {"ok", "err"}}
Everything   == YieldsOfAll \cup {CloseOf(c, s) : c \in Flat, s \in Status}
==============================================================================
