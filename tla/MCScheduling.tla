---------------------------- MODULE MCScheduling ----------------------------
(* A cluster of five control plane nodes and a worker whose name sorts first, *)
(* and the plans built from two selectors that overlap each other and the    *)
(* built-in groups.                                                          *)
EXTENDS Scheduling

SmallSelects == [mixed |-> {1, 2, 3}, zone |-> {3, 4, 5, 6}]

Orders ==
    {<<>>} \cup {<<a>> : a \in Name} \cup {<<a, b>> : a \in Name, b \in Name}
    \cup {<<"kafka", "zone b", "workers">>, <<"kafka", "controlPlane", "workers">>,
          <<"workers", "kafka", "controlPlane">>}

\* kafka with each selector and concurrency; a name that is no label value; the
\* built-in groups with a concurrency, or with a selector they may not have.
Kafka  == {[kafka |-> [concurrency |-> c, selector |-> s]] : c \in {0, 2}, s \in Selector}
          \cup {[x \in {} |-> 0]}
Others == {[x \in {} |-> 0],
           [x \in {"controlPlane"} |-> [concurrency |-> 2, selector |-> "nil"]],
           [x \in {"controlPlane"} |-> [concurrency |-> 3, selector |-> "nil"]],
           [x \in {"workers"} |-> [concurrency |-> 2, selector |-> "mixed"]],
           [x \in {"zone b"} |-> [concurrency |-> 1, selector |-> "zone"]]}

With(f, g) == [x \in DOMAIN f \cup DOMAIN g |-> IF x \in DOMAIN f THEN f[x] ELSE g[x]]

SmallSpecs ==
    {[order |-> o, groups |-> With(k, x), nodes |-> s, kubernetes |-> u] :
        o \in Orders, k \in Kafka, x \in Others, s \in {{}, 1..4, 1..6}, u \in BOOLEAN}
=============================================================================
