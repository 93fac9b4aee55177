----------------------------- MODULE MCSavedState -----------------------------
EXTENDS SavedState, RecordCodec

\* Every choice of dependencies, order of declaration and mandatory phases among
\* three, with and without a fan-in last phase; dependencies named twice, unknown
\* or reused identities; a diamond of four phases in two orders of declaration.
Node(id, deps, mandatory, fan_in, required) ==
  [id |-> id, depends_on |-> deps, mandatory |-> mandatory, fan_in |-> fan_in, required_inputs |-> required]

Three == 1..3
Triples ==
  {<<Node(1, Ascending(d[1]), 1 \in m, FALSE, 0), Node(2, Ascending(d[2]), 2 \in m, FALSE, 0),
     Node(3, Ascending(d[3]), 3 \in m, r # 9, r)>>
     : d \in [Three -> SUBSET Three], m \in SUBSET Three, r \in {0, 2, 9}}

Odd ==
  {<<>>,
   <<Node(0, <<>>, TRUE, FALSE, 0)>>,
   <<Node(1, <<>>, TRUE, FALSE, 0)>>,
   <<Node(1, <<7>>, TRUE, FALSE, 0)>>,
   <<Node(1, <<>>, TRUE, FALSE, 0), Node(1, <<>>, TRUE, FALSE, 0)>>,
   <<Node(2, <<1, 1>>, TRUE, FALSE, 0), Node(1, <<>>, TRUE, FALSE, 0)>>,
   <<Node(1, <<>>, TRUE, FALSE, 0), Node(2, <<1, 1>>, TRUE, TRUE, 2)>>,
   <<Node(4, <<2, 3>>, TRUE, TRUE, 2), Node(3, <<1>>, FALSE, FALSE, 0),
     Node(2, <<1>>, TRUE, FALSE, 0), Node(1, <<>>, TRUE, FALSE, 0)>>,
   <<Node(1, <<>>, TRUE, FALSE, 0), Node(2, <<1>>, TRUE, FALSE, 0),
     Node(3, <<1, 2>>, FALSE, FALSE, 0), Node(4, <<3, 2>>, TRUE, TRUE, 1)>>}

MCPlans == Triples \cup Odd
=============================================================================
