--------------------------- MODULE MCArchiveWriter ---------------------------
(* ArchiveWriter on a small instance: one file written synchronously, two   *)
(* written by the worker, and two reads.                                    *)
EXTENDS ArchiveWriter

CONSTANTS m1, f1, f2, d1, d2, r1, r2

MCMeta == {m1}
MCContent == {f1, f2}
MCData == {d1, d2}
MCReader == {r1, r2}
=============================================================================
