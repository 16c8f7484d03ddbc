--------------------------- MODULE MCPgzCompress ---------------------------
(* PgzCompress for TLC: the pools, and the options a run starts with. *)
EXTENDS PgzCompress

CONSTANTS HitSets

MCThreads == {"main", "write"} \cup CThreads
MCPools == {"in", "out", "dict", "lens"}

\* Hash hits with one compress thread (where the input is cut does not depend on the
\* threads): a first piece shorter than the dictionary, two short pieces in a row, and a
\* hit at the end of a buffer followed by a short piece.  And every interleaving of two
\* threads with as few buffers as possible: one call with several jobs, and two calls
\* that share threads and buffers.
MCOptions ==
  [rsync : {TRUE}, setdict : {TRUE}, procs : {1}, inbufs : {4}, hits : HitSets,
   inputs : {<<7>>}]
  \cup [rsync : {FALSE}, setdict : {TRUE}, procs : {2}, inbufs : {3}, hits : {{}},
        inputs : {<<7>>}]
  \cup [rsync : {FALSE}, setdict : {FALSE}, procs : {2}, inbufs : {3}, hits : {{}},
        inputs : {<<0, 4>>}]

=============================================================================
