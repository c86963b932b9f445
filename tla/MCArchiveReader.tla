---------------------------- MODULE MCArchiveReader ----------------------------
(* ArchiveReader with two threads that read two files, and more contexts    *)
(* than both need.                                                          *)
EXTENDS ArchiveReader, TLC

CONSTANTS t1, t2, f1, f2, c1, c2, c3

MCThread == {t1, t2}
MCFile == {f1, f2}
MCContext == {c1, c2, c3}
Symmetry == Permutations(MCThread) \cup Permutations(MCFile) \cup Permutations(MCContext)
=============================================================================
