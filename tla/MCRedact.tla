------------------------------ MODULE MCRedact ------------------------------
EXTENDS Redact

Long  == <<1, 2, 3, 4, 5, 6>>
Short == <<7>>

MCContents == {Long, Short}

MCIndices == {-1, 0, 1}

Leaf(i, kind, c) == [index |-> i, kind |-> kind, content |-> c]

\* Two leaves of one message with the same text, or one of them with a text
\* that holds nothing, or two messages with the same text, one perhaps the
\* system's.
MCBodies ==
    {<<Leaf(0, a, Long), Leaf(0, b, Long)>> : a \in Kinds, b \in Kinds}
    \cup {<<Leaf(0, "text", Short), Leaf(0, a, Long)>> : a \in Kinds}
    \cup {<<Leaf(i, a, Long), Leaf(1, "string", Long)>> : i \in {-1, 0}, a \in Kinds}
=============================================================================
