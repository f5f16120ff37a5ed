------------------------------ MODULE MCStageM ------------------------------
EXTENDS StageM, TLC, FiniteSetsExt

\* Programs and constants of the runs.

A(c, t, i) == [chk |-> t, csi |-> c, wi |-> i]

Loads(S)     == [op : {"load"}, a : S, w : {NoData}]
Stores(S, D) == [op : {"store"}, a : S, w : D]
Uncached(S)  == [op : {"uload", "ustore"}, a : S, w : {NoData}]

CONSTANTS t1, t2, io1
TwoTags == {t1, t2}
Io1 == {io1}
One == {1}
Two == {1, 2}

\* A byte and a word into the first word of one line and a byte into the last
\* word of another; bytes into one word; a few words beside the uncached ones.
Full(b)    == [l \in Lanes |-> b]
Byte(l)    == [k \in {l} |-> TRUE]
BytesAndWords == Loads(Addr) \cup Stores({A(0, t1, 0)}, {Byte(1), Full(FALSE)})
                             \cup Stores({A(0, t2, 1)}, {Byte(2)})
ByteStores == Loads(Addr) \cup Stores({A(0, t1, 0)}, {Byte(1), Byte(2), Full(FALSE)})
Few        == Loads({A(0, t, LastWord) : t \in Tags}) \cup
              Stores({A(0, t1, LastWord)}, {Full(TRUE)}) \cup Uncached(IoAddr)

SymmetricWays == Permutations(Ways)
=============================================================================
