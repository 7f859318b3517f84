------------------------------ MODULE JobFileMC ------------------------------
(* Instances of JobFile for TLC.                                            *)
EXTENDS JobFile

\* Bodies that may be taken for frontmatter, or lose a line.
Lines == {Fence, Blank, [kind |-> "text"]}
ShortBodies == UNION {[1..n -> Lines] : n \in 1..3}
==============================================================================
