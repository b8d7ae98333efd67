---------------------------- MODULE MCCheckpoint ----------------------------
EXTENDS Checkpoint, TLC

CONSTANTS i1, i2, i3

\* A file is only an identity.
MCInodes == {i1, i2, i3}
Interchangeable == Permutations(MCInodes)
=============================================================================
