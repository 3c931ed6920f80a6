------------------------------- MODULE Policy -------------------------------
(***************************************************************************)
(* internal/policy: the rules a YAML policy compiles to, the first-match   *)
(* evaluation of a finding (Decide) and of a file path (DecidePath), and   *)
(* the loader's validation (LoadFromBytes).                                *)
(*                                                                         *)
(* A glob is represented by the set of names it matches.  A condition that *)
(* the code keeps in a nilable pointer is a set with at most one member:   *)
(* {} is nil, {c} is the condition c.                                      *)
(***************************************************************************)
EXTENDS Naturals, Sequences

CONSTANTS Patterns,   \* names of detector patterns
          Paths,      \* file paths a tool call can name
          RuleNames,  \* names rules can have
          NoName      \* the empty name

Actions    == {"warn", "allow", "block", "redact"}
Severities == {"low", "medium", "high"}

Optional(S) == {{}} \cup {{x} : x \in S}

\* policy.Match, compiled.
Match == [all      : BOOLEAN,
          pattern  : Optional(SUBSET Patterns),
          severity : Optional(Severities),
          path     : Optional(SUBSET Paths)]

\* policy.Rule and policy.Policy (its rules, in file order).
Rule   == [name : RuleNames, match : Match, action : Actions]
Policy == Seq(Rule)

-----------------------------------------------------------------------------
(* Evaluation.                                                             *)

\* Mutation: a rule whose conditions all hold matches, even if it has none
\* for secrets (a path rule then matches every secret finding).
matchesWithoutCondition(m, f) ==
    \/ m.all
    \/ /\ \A g \in m.pattern : f.pattern \in g
       /\ \A s \in m.severity : s = f.severity

\* Whether match m covers the secret finding f: all conditions present must
\* hold and at least one must be present.
matches(m, f) ==
    \/ m.all
    \/ /\ \A g \in m.pattern : f.pattern \in g
       /\ \A s \in m.severity : s = f.severity
       /\ m.pattern # {} \/ m.severity # {}

\* Whether match m covers a file path.
pathMatches(m, path) == m.all \/ (\E g \in m.path : path \in g)

MinIndex(I) == CHOOSE i \in I : \A j \in I : i <= j

\* Mutation: the last matching rule wins.
LastMatchWins(p, I) ==
    IF I = {} THEN [action |-> "warn", rule |-> NoName]
    ELSE LET i == CHOOSE k \in I : \A j \in I : j <= k
         IN  [action |-> p[i].action, rule |-> p[i].name]

\* What the loop over p.Rules returns when the rules with an index in I
\* match: the first one's action and name, or warn and no rule.
FirstMatch(p, I) ==
    IF I = {} THEN [action |-> "warn", rule |-> NoName]
    ELSE LET i == MinIndex(I)
         IN  [action |-> p[i].action, rule |-> p[i].name]

\* (*Policy).Decide on a non-nil policy.
Decide(p, f) == FirstMatch(p, {i \in DOMAIN p : matches(p[i].match, f)})

\* (*Policy).DecidePath on a non-nil policy.
DecidePath(p, path) ==
    FirstMatch(p, {i \in DOMAIN p : pathMatches(p[i].match, path)})

-----------------------------------------------------------------------------
(* Loading.  A document is [parses, version, rules]; parses stands for the *)
(* YAML decoder with KnownFields(true).  Its rules carry the YAML strings; *)
(* a path glob is [valid, names], valid telling whether doublestar accepts *)
(* its syntax.  Other globs always compile, the rest being quoted.         *)

\* strings.ToLower(strings.TrimSpace(s)) on the spellings the models use.
Normalise(s) == CASE s = "Block"  -> "block"
                  [] s = " WARN " -> "warn"
                  [] s = "HIGH"   -> "high"
                  [] OTHER        -> s

parseAction(s)   == {Normalise(s)} \cap Actions
parseSeverity(s) == {Normalise(s)} \cap Severities

\* The error returns of compileMatch.
validMatch(ym) ==
    LET secret == ym.pattern # {} \/ ym.severity # {}
    IN  /\ secret \/ ym.all \/ ym.path # {}
        /\ ym.all => ~secret /\ ym.path = {}
        /\ ym.path # {} => ~secret
        /\ \A s \in ym.severity : parseSeverity(s) # {}
        /\ \A g \in ym.path : g.valid

compileMatch(ym) ==
    [all      |-> ym.all,
     pattern  |-> ym.pattern,
     severity |-> UNION {parseSeverity(s) : s \in ym.severity},
     path     |-> {g.names : g \in ym.path}]

compileRule(yr) ==
    [name   |-> yr.name,
     match  |-> compileMatch(yr.match),
     action |-> CHOOSE a \in Actions : a \in parseAction(yr.action)]

validRule(yr) == parseAction(yr.action) # {} /\ validMatch(yr.match)

\* Mutation: a name is compared with the previous rule's only.
LoadableAdjacentNames(doc) ==
    /\ doc.parses
    /\ doc.version = 1
    /\ doc.rules # <<>>
    /\ \A i \in DOMAIN doc.rules :
          /\ doc.rules[i].name # NoName
          /\ i > 1 => doc.rules[i - 1].name # doc.rules[i].name
          /\ validRule(doc.rules[i])

\* Mutation: validation looks at the last rule only.
LoadableLastRule(doc) ==
    /\ doc.parses
    /\ doc.version = 1
    /\ doc.rules # <<>>
    /\ LET yr == doc.rules[Len(doc.rules)]
       IN  yr.name # NoName /\ validRule(yr)

\* Whether LoadFromBytes returns no error.
Loadable(doc) ==
    /\ doc.parses
    /\ doc.version = 1
    /\ doc.rules # <<>>
    /\ \A i \in DOMAIN doc.rules :
          /\ doc.rules[i].name # NoName
          /\ \A j \in 1..(i - 1) : doc.rules[j].name # doc.rules[i].name
          /\ validRule(doc.rules[i])

\* The policy LoadFromBytes returns for a loadable document.
LoadFromBytes(doc) == [i \in DOMAIN doc.rules |-> compileRule(doc.rules[i])]
=============================================================================
