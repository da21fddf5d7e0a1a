\* Three cells, one iterator; contents are empty or not, and a pair has two.
\* Sequences of up to three operations, with empty keys and values too; numbers
\* below 40 fit, so that the longest commands do not.
\* Two nodes, two clusters and a buffer of the C++ interface, which together
\* have four chunks of memory.
CONSTANTS
    Items = {c1, c2, c3}
    Iters = {it}
    Data = {none, some}
    EmptyData = none
    NULL = NULL
    Sizes = {0, 2}
    MaxOps = 3
    NoValue = NoValue
    Word = 40
    Chunks = {m1, m2, m3, m4}
    Handles = {h1, h2}
    Clusters = {k1, k2}
    Buffers = {b1}
    Null = Null
    Marker = Marker
    Absent = Absent
SPECIFICATION DataSpec
INVARIANTS ListTypeOK NothingLostNorDangling SizeAndLast SeqTypeOK SentAsAdded SequenceFreed WrapTypeOK OneOwner
PROPERTIES FreeingIsSafe ImplementsList BuiltWithinBuffer
\* A crash or an abort ends the program.
CHECK_DEADLOCK FALSE
