-------------------------- MODULE MCDurableStream --------------------------
\* Small instances of DurableStream for TLC.
EXTENDS DurableStream
MCSeqs == 1..3
MCManySeqs == 1..4
=============================================================================
