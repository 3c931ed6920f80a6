---------------------------- MODULE PolicyEdits -----------------------------
(***************************************************************************)
(* An operator builds a policy document rule by rule, as the policy file   *)
(* grows from one save to the next; every version is loaded as the proxy   *)
(* would load it.  The properties are about what the loader lets through   *)
(* and what first-match evaluation does with it.                           *)
(***************************************************************************)
EXTENDS Policy, FiniteSets

CONSTANTS YamlRules,    \* the rules an operator may write
          Tried,        \* [pattern, severity] of the findings tried
          MaxRules      \* bound on the length of the document

VARIABLE doc

EditInit == doc \in [parses : BOOLEAN, version : {0, 1}, rules : {<<>>}]

\* The operator adds a rule at the end of the file.
AddRule(yr) ==
    /\ Len(doc.rules) < MaxRules
    /\ doc' = [doc EXCEPT !.rules = Append(@, yr)]

\* The operator repairs the document's syntax or its version line.
Repair ==
    /\ ~doc.parses \/ doc.version # 1
    /\ doc' = [doc EXCEPT !.parses = TRUE, !.version = 1]

Edit == (\E yr \in YamlRules : AddRule(yr)) \/ Repair

EditSpec == EditInit /\ [][Edit]_doc

-----------------------------------------------------------------------------
SecretRule(r) == r.match.all \/ r.match.pattern # {} \/ r.match.severity # {}
PathRule(r)   == r.match.all \/ r.match.path # {}

\* The rules of p with an index in I, in the order of the file.
Only(p, I) ==
    LET n == Cardinality(I)
        h == CHOOSE h \in [1..n -> I] : \A i, j \in 1..n : i < j => h[i] < h[j]
    IN  [j \in 1..n |-> p[h[j]]]

(* In a loaded policy the rules about secrets and the rules about paths do *)
(* not interfere: a finding is decided as if the path rules were not in    *)
(* the file, and a path as if the secret rules were not, whatever their    *)
(* order (matches, pathMatches and the exclusions of compileMatch).        *)
RulesDoNotInterfere ==
    Loadable(doc) =>
        LET p == LoadFromBytes(doc)
        IN  /\ \A f \in Tried :
                  Decide(p, f) = Decide(Only(p, {i \in DOMAIN p : SecretRule(p[i])}), f)
            /\ \A x \in Paths :
                  DecidePath(p, x) = DecidePath(Only(p, {i \in DOMAIN p : PathRule(p[i])}), x)

(* The rule that decides is identified by its name: two rules of a loaded  *)
(* policy never share the name that goes into findings, 403 bodies and     *)
(* audit records, and a policy with a catch-all leaves nothing undecided.  *)
DecidingRuleIdentified ==
    Loadable(doc) =>
        LET p == LoadFromBytes(doc)
        IN  \A f \in Tried :
               LET d == Decide(p, f)
               IN  /\ d.rule # NoName => \E i \in DOMAIN p :
                                        /\ p[i].name = d.rule
                                        /\ p[i].action = d.action
                                        /\ \A j \in DOMAIN p \ {i} :
                                              p[j].name # d.rule
                   /\ (\E i \in DOMAIN p : p[i].match.all) => d.rule # NoName

(* First match wins: adding a rule at the end of an accepted policy can    *)
(* change only the decisions no earlier rule had taken.                    *)
AppendDecidesOnlyUndecided ==
    [][Loadable(doc) /\ Loadable(doc') =>
          LET p == LoadFromBytes(doc)
              q == LoadFromBytes(doc')
          IN  /\ \A f \in Tried :
                    Decide(p, f).rule # NoName => Decide(q, f) = Decide(p, f)
              /\ \A x \in Paths :
                    DecidePath(p, x).rule # NoName =>
                        DecidePath(q, x) = DecidePath(p, x)]_doc

(* One bad rule rejects the whole file for good: a document with rules     *)
(* that parses, has version 1 and is rejected stays rejected whatever is   *)
(* added to it, so a partial policy is never in force.                     *)
RejectionIsSticky ==
    [][doc.parses /\ doc.version = 1 /\ doc.rules # <<>> /\ ~Loadable(doc)
          => ~Loadable(doc')]_doc
=============================================================================
