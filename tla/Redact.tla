------------------------------- MODULE Redact -------------------------------
(***************************************************************************)
(* The redact action, from the findings of one request to the body that is *)
(* forwarded: the redaction list built by secretscan.decideWithPolicy, and *)
(* parser.RedactRequest, which walks the JSON body again and masks spans.  *)
(*                                                                         *)
(*   internal/parser/{anthropic,openai,openai_responses}.go  segments      *)
(*   internal/stage/secretscan/stage.go                  redaction list    *)
(*   internal/parser/redact.go                           masking           *)
(*                                                                         *)
(* A body is the sequence of its leaves, in document order; a leaf is a    *)
(* JSON string or an argument object, in the message of its index.  A      *)
(* message has one role, so the index stands for (Role, Index).  Bytes of  *)
(* a content are distinct, which makes each of them traceable; no object   *)
(* of the body has a key twice, in whatever case.                          *)
(***************************************************************************)
EXTENDS Integers, Sequences, FiniteSets, Functions

CONSTANTS
    Contents,    \* the decoded texts of leaves, sequences of bytes
    Indices,     \* message indices, SystemIndex for the system's text
    Bodies,      \* request bodies: sequences of [index, kind, content]
    Patterns,    \* detector patterns whose findings a rule redacts
    Structural,  \* the bytes that an argument object needs to stay JSON
    MaskLen,     \* length of redactMask
    MaxFindings  \* bound on the findings in one content

MaskByte == 0
redactMask == [i \in 1..MaskLen |-> MaskByte]

Endpoints == {"messages", "chat", "responses"}

\* The kinds of leaves each parser turns into text segments: a string in
\* place of content, text blocks or parts, tool results (flattened), the
\* input of a tool_use, the arguments of a function call, its output.
parseAnthropicMessages == {"string", "text", "tool_result", "tool_use"}
parseOpenAIChat        == {"string", "text", "arguments"}
parseOpenAIResponses   == {"string", "text", "output", "arguments"}

ParsedKinds == [messages  |-> parseAnthropicMessages,
                chat      |-> parseOpenAIChat,
                responses |-> parseOpenAIResponses]

\* The kinds of leaves each redactor tries to mask.  redactContent treats the
\* blocks of all vendors alike, and redactToolCalls takes tool calls of any
\* type ("arguments_other": not a function).
redactContent        == {"string", "text", "tool_result", "tool_use"}
redactOpenAIChat     == redactContent \cup {"arguments", "arguments_other"}
redactOpenAIResponses == redactContent \cup {"output", "arguments"}

RedactableKinds == [messages  |-> redactContent,
                    chat      |-> redactOpenAIChat,
                    responses |-> redactOpenAIResponses]

\* Leaves whose masked content must still be JSON.
JSONKinds == {"tool_use", "arguments", "arguments_other"}

Kinds == {"string", "text", "tool_result", "tool_use", "output", "arguments",
          "arguments_other", "image"}

Leaves == [index : Indices, kind : Kinds, content : Contents]

Positions(f) == f.offset + 1 .. f.offset + f.length

\* Findings are at least as long as the mask: the shortest match of any
\* pattern of patterns.go is the 10 bytes of xoxb-1-1-a.
Findings(c) ==
    {f \in [pattern : Patterns, offset : 0..Len(c), length : MaskLen..Len(c)] :
        f.offset + f.length <= Len(c)}

\* What the detectors can report: the matches of one pattern do not overlap
\* (FindAllStringIndex), those of two patterns may.
ScanResults(fs) ==
    {S \in {{}} \cup {Range(t) : t \in [1..MaxFindings -> fs]} :
        \A f, g \in S : f # g /\ f.pattern = g.pattern =>
                            Positions(f) \cap Positions(g) = {}}

Scans ==
    LET possible == [c \in Contents |-> Findings(c)]
    IN  {s \in [Contents -> UNION {ScanResults(possible[c]) : c \in Contents}] :
            \A c \in Contents : s[c] \subseteq possible[c]}

ASSUME RedactAssumption ==
    /\ MaskLen \in Nat \ {0} /\ MaxFindings \in Nat
    /\ Contents \subseteq Seq(Nat \ {MaskByte}) /\ \A c \in Contents : IsInjective(c)
    /\ Bodies \subseteq Seq(Leaves)
    /\ Indices \subseteq Int

VARIABLES
    endpoint, body,  \* the request
    scan,            \* the redacted findings in each content
    respelled,       \* leaves that a key in another case than the schema's leads to
    pc, k,           \* phase, and the segment or leaf it is at
    reds,            \* the spans found, each with its segment
    text, todo,      \* applySpans on leaf k: the bytes, and the spans left
    applied,         \* the redactions that found their content
    out              \* the body being rebuilt

vars == <<endpoint, body, scan, respelled, pc, k, reds, text, todo, applied, out>>
request == <<endpoint, body, scan, respelled>>

Key(l) == <<l.index, l.content>>
Parsed(l) == l.kind \in ParsedKinds[endpoint]

\* The index of Anthropic's system and of a Responses request's instructions.
SystemIndex == -1

CallKinds == {"arguments", "arguments_other"}

\* encoding/json matches the fields of the parser's structs in any case, and
\* the redactor looks each key up exactly: a leaf behind a respelled key is
\* parsed, and not reached.  Two leaves share the keys that structs decode: in
\* a chat message those of the content, each tool call having its own, in
\* Anthropic's all of a message, in a Responses request the top-level ones.
SharesKeys(i, j) ==
    \/ endpoint = "messages" /\ body[i].index = body[j].index
    \/ /\ endpoint = "chat" /\ body[i].index = body[j].index
       /\ body[i].kind \notin CallKinds /\ body[j].kind \notin CallKinds
    \/ /\ endpoint = "responses"
       /\ body[i].index = SystemIndex <=> body[j].index = SystemIndex

Redactable(j) == body[j].kind \in RedactableKinds[endpoint] /\ j \notin respelled

\* What a request can hold: leaves its endpoint knows, and system text where
\* there is a place for it, in blocks or as a string.
Wellformed(b) ==
    \A j \in DOMAIN b :
        /\ b[j].kind \in RedactableKinds[endpoint] \cup {"image"}
        /\ b[j].index = SystemIndex =>
              endpoint # "chat" /\ b[j].kind \notin {"output", "arguments"}

Init ==
    /\ endpoint \in Endpoints
    /\ body \in {b \in Bodies : Wellformed(b)}
    /\ scan \in Scans
    /\ respelled \in {R \in SUBSET DOMAIN body :
                        \A i \in R, j \in DOMAIN body : SharesKeys(i, j) => j \in R}
    /\ pc = "collect" /\ k = 1
    /\ reds = {} /\ applied = {}
    /\ text = <<>> /\ todo = {}
    /\ out = body

-----------------------------------------------------------------------------
(* The redaction list.                                                     *)

\* What the scan of a segment adds.
Found(j) ==
    IF Parsed(body[j])
    THEN {[segment |-> j, finding |-> f] : f \in scan[body[j].content]}
    ELSE {}

\* redByKey: the spans of one redaction, and the redactions there are.
SpansFor(key) == {x \in reds : Key(body[x.segment]) = key}
Keys          == {Key(body[x.segment]) : x \in reds}

\* The findings of the next segment join the redaction of its key.
Collect ==
    /\ pc = "collect"
    /\ k <= Len(body)
    /\ reds' = reds \cup Found(k)
    /\ k' = k + 1
    /\ UNCHANGED <<request, pc, text, todo, applied, out>>

\* All segments are scanned: nothing to redact, or RedactRequest.
CollectEnd ==
    /\ pc = "collect"
    /\ k > Len(body)
    /\ pc' = IF reds = {} THEN "forwarded" ELSE "walk"
    /\ k' = 1
    /\ UNCHANGED <<request, reds, text, todo, applied, out>>

-----------------------------------------------------------------------------
(* RedactRequest.                                                          *)

\* maybeRedact on the next leaf: its redaction is applied.
OpenLeaf ==
    /\ pc = "walk"
    /\ k <= Len(body)
    /\ Redactable(k) /\ Key(body[k]) \in Keys
    /\ pc' = "mask"
    /\ text' = body[k].content
    /\ todo' = SpansFor(Key(body[k]))
    /\ UNCHANGED <<request, k, reds, applied, out>>

\* A leaf that no redaction names, or that the redactor does not reach,
\* passes through.
PassLeaf ==
    /\ pc = "walk"
    /\ k <= Len(body)
    /\ ~(Redactable(k) /\ Key(body[k]) \in Keys)
    /\ k' = k + 1
    /\ UNCHANGED <<request, pc, reds, text, todo, applied, out>>

\* Mutation: spans are masked from left to right.
NextSpansAscending(S) ==
    {x \in S : \A y \in S : x.finding.offset <= y.finding.offset}

\* The span that comes next in an order that sort.Slice can give: by
\* descending offset, not stable.
NextSpans(S) == {x \in S : \A y \in S : y.finding.offset <= x.finding.offset}

\* Mutation: a span that ends where the content ends is out of range.
OutOfRangeEarly(t, f) == f.offset + f.length >= Len(t)

OutOfRange(t, f) == f.offset + f.length > Len(t)

\* The mask in the place of a span.
Splice(t, f) == SubSeq(t, 1, f.offset) \o redactMask
                    \o SubSeq(t, f.offset + f.length + 1, Len(t))

\* One round of applySpans' loop; the request is blocked by an error.
MaskSpan ==
    /\ pc = "mask"
    /\ \E x \in NextSpans(todo) :
          IF OutOfRange(text, x.finding)
          THEN pc' = "blocked" /\ UNCHANGED <<text, todo>>
          ELSE /\ text' = Splice(text, x.finding)
               /\ todo' = todo \ {x}
               /\ UNCHANGED pc
    /\ UNCHANGED <<request, k, reds, applied, out>>

\* json.Valid on a masked argument object.
Valid(content, masked) ==
    \A i \in DOMAIN content :
        content[i] \in Structural => content[i] \in Range(masked)

\* applySpans returns: the leaf is replaced, or the request is blocked for
\* arguments that are no longer JSON.
CloseLeaf ==
    /\ pc = "mask"
    /\ todo = {}
    /\ IF body[k].kind \in JSONKinds => Valid(body[k].content, text)
       THEN /\ out' = [out EXCEPT ![k].content = text]
            /\ applied' = applied \cup {Key(body[k])}
            /\ pc' = "walk"
       ELSE pc' = "blocked" /\ UNCHANGED <<out, applied>>
    /\ k' = k + 1
    /\ UNCHANGED <<request, reds, text, todo>>

\* Mutation: redactions that found no content are not noticed.
MaskEndLenient ==
    /\ pc = "walk"
    /\ k > Len(body)
    /\ pc' = "forwarded"
    /\ UNCHANGED <<request, k, reds, text, todo, applied, out>>

\* Every redaction must have been applied.
MaskEnd ==
    /\ pc = "walk"
    /\ k > Len(body)
    /\ pc' = IF applied = Keys THEN "forwarded" ELSE "blocked"
    /\ UNCHANGED <<request, k, reds, text, todo, applied, out>>

Next == Collect \/ CollectEnd \/ OpenLeaf \/ PassLeaf \/ MaskSpan \/ CloseLeaf \/ MaskEnd

Spec == Init /\ [][Next]_vars

-----------------------------------------------------------------------------
(* Properties.                                                             *)

Covered(c)  == UNION {Positions(f) : f \in scan[c]}
Disjoint(c) == \A f, g \in scan[c] : f # g => Positions(f) \cap Positions(g) = {}

\* The segments that contribute to the redaction of a leaf's key.
Sources(l) == {j \in DOMAIN body : Parsed(body[j]) /\ Key(body[j]) = Key(l)}
OneSource(l) == \E j \in DOMAIN body : Sources(l) = {j}

\* The j-th element of a set of positions.
Nth(K, j) == CHOOSE i \in K : Cardinality({n \in K : n <= i}) = j

\* What is left of content c when the findings S shrink to the mask's length.
Left(c, S) ==
    {i \in DOMAIN c : \A f \in S : i \notin f.offset + MaskLen + 1 .. f.offset + f.length}

Masks(c, S, i) == IF \E f \in S : i \in Positions(f) THEN MaskByte ELSE c[i]

\* Reference: every finding of content c replaced by the mask, where it is.
Masked(c) ==
    LET K == Left(c, scan[c])
    IN  [j \in 1..Cardinality(K) |-> Masks(c, scan[c], Nth(K, j))]

\* A leaf that the redactor does not reach while it reaches another with the
\* same text in the same message: the redaction counts as applied.
Twin(j) ==
    /\ ~Redactable(j)
    /\ \E i \in DOMAIN body : Redactable(i) /\ Key(body[i]) = Key(body[j])

\* The bytes of leaf j that a redacted finding covers are not forwarded in it.
Stripped(j) ==
    \A i \in Covered(body[j].content) : body[j].content[i] \notin Range(out[j].content)

\* A byte of a redacted finding is forwarded only in a twin, however the
\* findings of a content overlap and in whatever order they are sorted: a
\* finding that the redactor reaches nowhere blocks the request.
OnlyTwinsForwarded ==
    pc = "forwarded" =>
        \A j \in DOMAIN body : Parsed(body[j]) /\ ~Twin(j) => Stripped(j)

\* "redact strips the matched secret from the request (replacing it with
\* [REDACTED])" (README), wherever the parser found it.
NoFlaggedByteForwarded ==
    pc = "forwarded" => \A j \in DOMAIN body : Parsed(body[j]) => Stripped(j)

\* Where the findings of a content do not overlap and no other segment of the
\* message has the same content, each finding is masked in place and nothing
\* else changes; leaves without a finding pass unchanged.
ExactWhenSeparate ==
    pc = "forwarded" =>
        \A j \in DOMAIN body :
            LET c == body[j].content
            IN  /\ Sources(body[j]) = {} \/ scan[c] = {} => out[j] = body[j]
                /\ OneSource(body[j]) /\ Disjoint(c) /\ Redactable(j)
                      => out[j].content = Masked(c)

\* "if it cannot be applied safely the request is blocked instead" (README):
\* and only then.  A request is blocked only if every leaf with some flagged
\* text of a message is behind a respelled key, findings overlap or repeat, or
\* arguments lose their structure.
RedactsWhenItCan ==
    pc = "blocked" =>
        \E j \in DOMAIN body :
            LET c == body[j].content
            IN  /\ Sources(body[j]) # {} /\ scan[c] # {}
                /\ \/ Sources(body[j]) \subseteq respelled
                   \/ ~Disjoint(c)
                   \/ ~OneSource(body[j])
                   \/ body[j].kind \in JSONKinds /\ ~Valid(c, Masked(c))
=============================================================================
