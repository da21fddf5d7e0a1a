----------------------------- MODULE MCNursery -----------------------------
EXTENDS Nursery, TLC

CONSTANTS c1, c2, c3

Leaf(c) == [leaf |-> TRUE, cluster |-> c, boundary |-> <<>>]
Node(b) == [leaf |-> FALSE, cluster |-> NULL, boundary |-> b]

\* One cluster for all; two ranges; three, of which one has no cluster and one a
\* cluster without nodes; the two ranges with bytes behind them, and a routing
\* without clusters.
One   == [tree |-> <<>> :> Leaf(c1), clusters |-> {c1}, nodeless |-> {}, trailing |-> FALSE]
Two   == [tree |-> <<>> :> Node(<<2, 1>>)
                   @@ <<"left">> :> Leaf(c1) @@ <<"right">> :> Leaf(c2),
          clusters |-> {c1, c2}, nodeless |-> {}, trailing |-> FALSE]
Three == [tree |-> <<>> :> Node(<<2>>)
                   @@ <<"left">> :> Leaf(c2) @@ <<"right">> :> Node(<<2, 2>>)
                   @@ <<"right", "left">> :> Leaf(c1) @@ <<"right", "right">> :> Leaf(c3),
          clusters |-> {c1, c2}, nodeless |-> {c2}, trailing |-> FALSE]
Long  == [Two EXCEPT !.trailing = TRUE]
Bare  == [One EXCEPT !.clusters = {}]

MCRoutings == {One, Two, Three, Long, Bare}
MCKeys == {<<1>>, <<2>>, <<2, 1>>, <<2, 1, 1>>, <<2, 3>>, <<3>>}
=============================================================================
