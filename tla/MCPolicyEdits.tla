--------------------------- MODULE MCPolicyEdits ----------------------------
EXTENDS PolicyEdits

MCPatterns == {"aws", "jwt"}
MCPaths    == {"/etc/shadow", "/home/a"}
MCRuleNames == {"r1", "r2", "r3", "r4"}

None == [all |-> FALSE, pattern |-> {}, severity |-> {}, path |-> {}]
Glob(S) == [valid |-> TRUE, names |-> S]

MCYamlRules ==
    {[name |-> n, match |-> m, action |-> a] :
        n \in {"r1", "r2"}, a \in {"Block", "allow"},
        m \in {[None EXCEPT !.pattern = {{"aws"}}],
               [None EXCEPT !.path = {Glob({"/etc/shadow"})}],
               [None EXCEPT !.all = TRUE]}}
    \cup {[name |-> "r3", match |-> m, action |-> a] :
        a \in {"redact", " WARN "},
        m \in {[None EXCEPT !.severity = {"HIGH"}],
               [None EXCEPT !.pattern = {{"aws", "jwt"}}, !.severity = {"low"}],
               [None EXCEPT !.severity = {"urgent"}],
               [None EXCEPT !.pattern = {{"jwt"}}, !.path = {Glob({"/home/a"})}],
               [None EXCEPT !.path = {[valid |-> FALSE, names |-> {}]}],
               [None EXCEPT !.path = {Glob({"/home/a"})}],
               [None EXCEPT !.all = TRUE, !.severity = {"high"}],
               None}}
    \cup {[name |-> "", match |-> [None EXCEPT !.all = TRUE], action |-> "warn"],
          [name |-> "r4", match |-> [None EXCEPT !.all = TRUE], action |-> "deny"]}

MCFindings == [pattern : MCPatterns, severity : {"high", "low"}]
=============================================================================
