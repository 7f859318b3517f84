----------------------------- MODULE Frontmatter -----------------------------
(***************************************************************************)
(* Markdown documents with frontmatter: parse_frontmatter and              *)
(* render_frontmatter over lines.  A text is a non-empty sequence of lines, *)
(* the last of them empty when the text ends in a newline; YAML writes a    *)
(* mapping on a line of its own, which is never the fence.                 *)
(***************************************************************************)
EXTENDS Integers, Sequences

Fence == [kind |-> "fence"]
Blank == [kind |-> "blank"]
Yaml(metadata) == [kind |-> "yaml", metadata |-> metadata]

\* The mapping without a key.
NoMetadata == [kind |-> "empty"]

\* render_frontmatter: fence, YAML, fence, blank line, body.
Render(metadata, body) ==
    IF metadata = NoMetadata THEN body ELSE <<Fence, Yaml(metadata), Fence, Blank>> \o body

Opened(text) == text[1] = Fence
Closings(text) == {i \in 2..Len(text) : text[i] = Fence}
Closing_Last(text) == CHOOSE i \in Closings(text) : \A j \in Closings(text) : j <= i
Closing(text) == CHOOSE i \in Closings(text) : \A j \in Closings(text) : i <= j

\* The lines of the block between the fences, and those behind it.
Block(text) == SubSeq(text, 2, Closing(text) - 1)
Behind(text) == SubSeq(text, Closing(text) + 1, Len(text))

IsMapping(block) == Len(block) = 1 /\ block[1].kind = "yaml"
IsEmpty(block) == \A i \in 1..Len(block) : block[i] = Blank

\* parse_frontmatter raises FrontmatterError on the texts that are not WellFormed.
WellFormed(text) ==
    Opened(text) => Closings(text) # {} /\ (IsMapping(Block(text)) \/ IsEmpty(Block(text)))

\* The two results of parse_frontmatter.
Metadata(text) ==
    IF Opened(text) /\ IsMapping(Block(text)) THEN Block(text)[1].metadata ELSE NoMetadata

\* A single leading newline is stripped.
StripBlank(lines) ==
    IF Len(lines) > 1 /\ lines[1] = Blank THEN SubSeq(lines, 2, Len(lines)) ELSE lines

\* A fence that is the last line leaves an empty body.
Body(text) ==
    IF ~Opened(text) THEN text
    ELSE IF Behind(text) = <<>> THEN <<Blank>>
    ELSE StripBlank(Behind(text))
==============================================================================
