------------------------- MODULE MCGarbageCollector -------------------------
(* GarbageCollector for TLC: every heap of four small shapes. *)
EXTENDS GarbageCollector

Alloc(k, b) == [kind |-> k, body |-> b]
K == Prim(9)   \* a property key

\* An object with a chain of up to three lists, and a cell.
Objects ==
    {[allocs |-> <<Alloc("props", <<next, Null, K, v>>),
                   Alloc("props", <<more, Null, K, w>>),
                   Alloc("props", <<Null, Null, K, u, K, Prim(2)>>),
                   Alloc("cell", <<x>>)>>,
      roots |-> <<From(1), r>>] :
        next \in {Null, From(2)}, more \in {Null, From(3)}, v \in {From(1), From(4)},
        w \in {Prim(1), From(4)}, u \in {Prim(1), From(4)}, x \in {From(1), From(4)},
        r \in {Prim(0), From(4)}}

\* An array of length len over storage for three words.
Arrays ==
    {[allocs |-> <<Alloc("array", <<From(2), Prim(len)>>),
                   Alloc("data", <<v, w, u>>),
                   Alloc("cell", <<x>>),
                   Alloc("leaf", <<Prim(7), From(2)>>)>>,
      roots |-> <<From(n), r>>] :
        len \in 0 .. 3, v \in {From(1), From(3)}, w \in {Prim(1), From(4)},
        u \in {From(3), From(4)}, x \in {From(1), From(4)}, n \in {1, 3},
        r \in {Prim(0), From(4)}}

\* An object and an array that refer to each other.
Mixed ==
    {[allocs |-> <<Alloc("array", <<From(3), Prim(len)>>),
                   Alloc("props", <<From(4), x, K, v>>),
                   Alloc("data", <<w, w, Null>>),
                   Alloc("props", <<Null, Null, K, u, K, u>>)>>,
      roots |-> <<From(n)>>] :
        len \in 0 .. 2, v \in {Prim(1), From(1)}, w \in {Prim(1), From(2)},
        u \in {Prim(1), From(1), From(2)}, x \in {Null, From(1), From(2)}, n \in {1, 2}}

\* An object whose lists do not fit into one allocation.
Wide ==
    {[allocs |-> <<Alloc("props", <<From(2), Null, K, v, K, v, K, Null>>),
                   Alloc("props", <<Null, Null, K, v, K, Prim(1)>>)>>,
      roots |-> <<r>>] : v \in {Prim(1), From(1)}, r \in {Prim(0), From(1)}}

MCHeaps == Wide \cup Objects \cup Arrays \cup Mixed
=============================================================================
