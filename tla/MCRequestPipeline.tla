------------------------- MODULE MCRequestPipeline --------------------------
EXTENDS RequestPipeline

CONSTANTS r1, noPolicy, noBody

MCPatterns == {"openai", "anthropic", "jwt"}
MCPaths    == {"/secret", "/readme"}
MCRuleNames == {"p", "k", "h", "a", "t"}

\* One key that two detectors report, and one more secret.
MCFindings ==
    {[pattern |-> "openai",    severity |-> "high",   atoms |-> {1}],
     [pattern |-> "anthropic", severity |-> "high",   atoms |-> {1, 2}],
     [pattern |-> "jwt",       severity |-> "medium", atoms |-> {3}]}

MCBodies ==
    {[parse |-> "ai", atoms |-> a, twins |-> {}, paths |-> p] :
        a \in {{}, {1, 2, 3}, {3}}, p \in {{}, {"/secret", "/readme"}}}
    \cup {[parse |-> "ai", atoms |-> {1, 2, 3}, twins |-> {1, 2}, paths |-> {}],
          [parse |-> "none",  atoms |-> {3}, twins |-> {}, paths |-> {"/secret"}],
          [parse |-> "panic", atoms |-> {1, 2}, twins |-> {}, paths |-> {"/secret"}]}

On(kind, S) == [all |-> FALSE, pattern |-> IF kind = "pattern" THEN {S} ELSE {},
                severity |-> {}, path |-> IF kind = "path" THEN {S} ELSE {}]
HighRule == [all |-> FALSE, pattern |-> {}, severity |-> {"high"}, path |-> {}]
AnyRule  == [all |-> TRUE, pattern |-> {}, severity |-> {}, path |-> {}]

\* Blocks the path, redacts one reading of the key.
PathStrict ==
    << [name |-> "p", match |-> On("path", {"/secret"}), action |-> "block"],
       [name |-> "k", match |-> On("pattern", {"openai"}), action |-> "redact"] >>

\* Allows the path, redacts high findings, allows the rest.
Lenient ==
    << [name |-> "p", match |-> On("path", {"/secret"}), action |-> "allow"],
       [name |-> "h", match |-> HighRule, action |-> "redact"],
       [name |-> "a", match |-> AnyRule, action |-> "allow"] >>

\* Says nothing of paths, blocks tokens.
TokenStrict ==
    << [name |-> "t", match |-> On("pattern", {"jwt"}), action |-> "block"] >>

MCPolicies    == {PathStrict, Lenient, TokenStrict}
StrictPolicies == {PathStrict, TokenStrict}

\* Flag mode, and a file.
MCInitials == {noPolicy, PathStrict}
PathFirst  == {PathStrict}
=============================================================================
