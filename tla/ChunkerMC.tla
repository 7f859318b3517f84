----------------------------- MODULE ChunkerMC -----------------------------
(* Instances of Chunker for TLC: every short text, with arguments from both *)
(* sides of what chunk_text accepts.                                        *)
EXTENDS Chunker

SomeLengths == 0 .. 9
SomeSizes == 0 .. 5
SomeOverlaps == -1 .. 5
=============================================================================
