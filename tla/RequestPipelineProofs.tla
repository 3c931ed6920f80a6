----------------------- MODULE RequestPipelineProofs ------------------------
(***************************************************************************)
(* Proofs about policies and the requests they are enforced on.  Of        *)
(* PolicyEdits, for every document that rules are added to: the rule that  *)
(* decides is identified by its name, rules about secrets and rules about  *)
(* paths do not interfere, a rule at the end overturns no decision, and a  *)
(* rejected document stays rejected.  Of RequestPipeline, for any number   *)
(* of requests, any bodies, findings and policies, and any number of       *)
(* reloads: type correctness and the three safety properties.              *)
(***************************************************************************)
EXTENDS RequestPipeline, PolicyEdits, Integers, FiniteSetTheorems, SequenceTheorems,
        WellFoundedInduction, TLAPS

LessThan == {ss \in Nat \X Nat : ss[1] < ss[2]}

(* A non-empty set of rule indexes has a first one, and MinIndex is it.    *)
LEMMA MinIndexIsFirst ==
  ASSUME NEW I, I \subseteq Nat, I # {}
  PROVE  MinIndex(I) \in I /\ \A j \in I : MinIndex(I) <= j
<1>1. IsWellFoundedOn(LessThan, Nat)
  BY NatLessThanWellFounded, Zenon DEF OpToRel, LessThan
<1>2. PICK i \in I : \A j \in I : ~(<<j, i>> \in LessThan)
  BY <1>1, WFMin
<1>3. \A j \in I : ~(j < i)
  BY <1>2 DEF LessThan
<1>4. \A j \in I : i <= j
  BY <1>3
<1> QED
  BY <1>4 DEF MinIndex

-----------------------------------------------------------------------------
(* First match and the policies that grow.                                 *)

(* Extending a policy does not change the first match of a set of indexes  *)
(* that starts with the old one's.                                         *)
LEMMA FirstMatchExtends ==
  ASSUME NEW S, NEW p \in Seq(S), NEW r \in S,
         NEW I, I \subseteq DOMAIN p, I # {},
         NEW J, J \in {I, I \cup {Len(p) + 1}}
  PROVE  FirstMatch(Append(p, r), J) = FirstMatch(p, I)
<1>1. Len(p) \in Nat /\ DOMAIN p = 1..Len(p)
  OBVIOUS
<1>2. MinIndex(I) \in I /\ \A j \in I : MinIndex(I) <= j
  BY <1>1, MinIndexIsFirst
<1>3. MinIndex(J) \in J /\ \A j \in J : MinIndex(J) <= j
  BY <1>1, MinIndexIsFirst
<1>4. MinIndex(J) = MinIndex(I)
  BY <1>1, <1>2, <1>3
<1>5. Append(p, r)[MinIndex(I)] = p[MinIndex(I)]
  BY <1>1, <1>2
<1> QED
  BY <1>4, <1>5 DEF FirstMatch

(* First match wins, for every policy, rule and finding: adding a rule at  *)
(* the end changes no decision that an earlier rule takes, neither for a   *)
(* secret finding nor for a file path.                                     *)
THEOREM AppendKeepsDecisions ==
  ASSUME NEW S, NEW p \in Seq(S), NEW r \in S
  PROVE  /\ \A f : Decide(p, f).rule # NoName => Decide(Append(p, r), f) = Decide(p, f)
         /\ \A x : DecidePath(p, x).rule # NoName =>
                      DecidePath(Append(p, r), x) = DecidePath(p, x)
<1> DEFINE q == Append(p, r)
<1>1. Len(p) \in Nat /\ DOMAIN p = 1..Len(p) /\ DOMAIN q = 1..(Len(p) + 1)
  OBVIOUS
<1>2. \A i \in DOMAIN p : q[i] = p[i]
  BY <1>1
<1>3. ASSUME NEW f, Decide(p, f).rule # NoName
      PROVE  Decide(q, f) = Decide(p, f)
  <2> DEFINE I == {i \in DOMAIN p : matches(p[i].match, f)}
             J == {i \in DOMAIN q : matches(q[i].match, f)}
  <2>1. I # {}
    BY <1>3 DEF Decide, FirstMatch
  <2>2. J \in {I, I \cup {Len(p) + 1}}
    <3> HIDE DEF q
    <3>1. \A i \in DOMAIN p : i \in J <=> i \in I
      BY <1>1, <1>2
    <3>2. J \subseteq DOMAIN p \cup {Len(p) + 1}
      BY <1>1
    <3> HIDE DEF I, J
    <3>3. I \subseteq DOMAIN p
      BY DEF I
    <3> QED BY <1>1, <3>1, <3>2, <3>3
  <2>3. I \subseteq DOMAIN p
    OBVIOUS
  <2>4. FirstMatch(q, J) = FirstMatch(p, I)
    <3> HIDE DEF I, J
    <3> QED BY <2>1, <2>2, <2>3, FirstMatchExtends
  <2> QED
    BY <2>4 DEF Decide
<1>4. ASSUME NEW x, DecidePath(p, x).rule # NoName
      PROVE  DecidePath(q, x) = DecidePath(p, x)
  <2> DEFINE I == {i \in DOMAIN p : pathMatches(p[i].match, x)}
             J == {i \in DOMAIN q : pathMatches(q[i].match, x)}
  <2>1. I # {}
    BY <1>4 DEF DecidePath, FirstMatch
  <2>2. J \in {I, I \cup {Len(p) + 1}}
    <3> HIDE DEF q
    <3>1. \A i \in DOMAIN p : i \in J <=> i \in I
      BY <1>1, <1>2
    <3>2. J \subseteq DOMAIN p \cup {Len(p) + 1}
      BY <1>1
    <3> HIDE DEF I, J
    <3>3. I \subseteq DOMAIN p
      BY DEF I
    <3> QED BY <1>1, <3>1, <3>2, <3>3
  <2>3. I \subseteq DOMAIN p
    OBVIOUS
  <2>4. FirstMatch(q, J) = FirstMatch(p, I)
    <3> HIDE DEF I, J
    <3> QED BY <2>1, <2>2, <2>3, FirstMatchExtends
  <2> QED
    BY <2>4 DEF DecidePath
<1> QED
  BY <1>3, <1>4

-----------------------------------------------------------------------------
(* A selection of the rules.                                               *)

Increasing(h, n) == \A i, j \in 1..n : i < j => h[i] < h[j]

\* h lists the n elements of I in increasing order.
Lists(h, n, I) ==
    /\ h \in [1..n -> I]
    /\ Increasing(h, n)
    /\ \A i \in I : \E j \in 1..n : h[j] = i

(* Every set of indexes up to m is enumerated in increasing order, by      *)
(* induction on m.                                                         *)
LEMMA Enumeration ==
  ASSUME NEW m \in Nat
  PROVE  \A I \in SUBSET (1..m) :
            /\ IsFiniteSet(I) /\ Cardinality(I) \in Nat
            /\ \E h \in [1..Cardinality(I) -> I] : Increasing(h, Cardinality(I))
<1> DEFINE Good(I) == /\ IsFiniteSet(I) /\ Cardinality(I) \in Nat
                      /\ \E h \in [1..Cardinality(I) -> I] : Increasing(h, Cardinality(I))
           Bad == {l \in Nat : \E I \in SUBSET (1..l) : ~Good(I)}
<1> SUFFICES ASSUME Bad # {} PROVE FALSE
  OBVIOUS
<1>1. IsWellFoundedOn(LessThan, Nat)
  BY NatLessThanWellFounded, Zenon DEF OpToRel, LessThan
<1>2. Bad \subseteq Nat
  OBVIOUS
<1>3. PICK l \in Bad : \A j \in Bad : ~(<<j, l>> \in LessThan)
  <2> HIDE DEF Bad
  <2> QED BY <1>1, <1>2, WFMin
<1>4. l \in Nat /\ \A j \in Nat : j < l => \A I \in SUBSET (1..j) : Good(I)
  <2>1. \A j \in Bad : ~(j < l)
    BY <1>2, <1>3 DEF LessThan
  <2> HIDE DEF Good
  <2> QED BY <2>1
<1>5. PICK I \in SUBSET (1..l) : ~Good(I)
  <2> HIDE DEF Good
  <2> QED BY <1>3
<1>6. CASE I = {}
  <2>1. IsFiniteSet(I) /\ Cardinality(I) = 0
    BY <1>6, FS_EmptySet
  <2> DEFINE h == [i \in 1..0 |-> i]
  <2>2. h \in [1..0 -> I] /\ Increasing(h, 0)
    BY DEF Increasing
  <2> HIDE DEF h
  <2>4. Cardinality(I) \in Nat /\ h \in [1..Cardinality(I) -> I] /\ Increasing(h, Cardinality(I))
    BY <2>1, <2>2
  <2>3. Good(I)
    BY <2>1, <2>4
  <2> QED BY <1>5, <2>3
<1>7. CASE I # {}
  <2>1. l > 0 /\ l - 1 \in Nat /\ l - 1 < l
    <3> HIDE DEF Good
    <3>1. PICK i : i \in I
      BY <1>7
    <3>2. i \in 1..l /\ l \in Nat
      BY <1>4, <3>1
    <3> QED BY <3>2
  <2> DEFINE K == I \ {l}
  <2>2. K \in SUBSET (1..(l - 1))
    BY <1>4, <2>1
  <2>3. Good(K)
    <3> HIDE DEF Good, K
    <3> QED BY <1>4, <2>1, <2>2
  <2>4. l \in I
    <3> SUFFICES ASSUME l \notin I PROVE FALSE
      OBVIOUS
    <3>1. K = I
      OBVIOUS
    <3> HIDE DEF Good, K
    <3> QED BY <1>5, <2>3, <3>1
  <2> DEFINE n == Cardinality(K)
  <2>5. IsFiniteSet(K) /\ n \in Nat
    BY <2>3
  <2>6. PICK g \in [1..n -> K] : Increasing(g, n)
    BY <2>3
  <2>7. I = K \cup {l} /\ l \notin K
    BY <2>4
  <2> HIDE DEF K
  <2>8. IsFiniteSet(I) /\ Cardinality(I) = n + 1
    BY <2>5, <2>7, FS_AddElement
  <2> HIDE DEF n
  <2> DEFINE h == [i \in 1..(n + 1) |-> IF i = n + 1 THEN l ELSE g[i]]
  <2>9. \A i \in 1..n : g[i] \in K /\ g[i] \in 1..(l - 1)
    BY <2>2, <2>6
  <2>10. h \in [1..(n + 1) -> I]
    BY <2>5, <2>7, <2>9
  <2>11. h[n + 1] = l /\ \A i \in 1..n : h[i] = g[i]
    BY <2>5
  <2> HIDE DEF h
  <2>12. Increasing(h, n + 1)
    <3> SUFFICES ASSUME NEW i \in 1..(n + 1), NEW j \in 1..(n + 1), i < j PROVE h[i] < h[j]
      BY DEF Increasing
    <3>1. i \in 1..n
      BY <2>5
    <3>2. CASE j = n + 1
      BY <1>4, <2>9, <2>11, <3>1, <3>2
    <3>3. CASE j \in 1..n
      BY <2>6, <2>11, <3>1, <3>3 DEF Increasing
    <3> QED BY <2>5, <3>2, <3>3
  <2>13. Cardinality(I) \in Nat /\ h \in [1..Cardinality(I) -> I] /\ Increasing(h, Cardinality(I))
    BY <2>5, <2>8, <2>10, <2>12
  <2>14. Good(I)
    BY <2>8, <2>13
  <2> QED BY <1>5, <2>14
<1> QED
  BY <1>6, <1>7

(* Only returns the selected rules, all of them, in order.                 *)
LEMMA OnlyEnumerates ==
  ASSUME NEW p, NEW m \in Nat, NEW I \in SUBSET (1..m)
  PROVE  /\ Cardinality(I) \in Nat
         /\ DOMAIN Only(p, I) = 1..Cardinality(I)
         /\ \E h : /\ Lists(h, Cardinality(I), I)
                  /\ \A j \in 1..Cardinality(I) : Only(p, I)[j] = p[h[j]]
<1> DEFINE n == Cardinality(I)
           h == CHOOSE h \in [1..n -> I] : \A i, j \in 1..n : i < j => h[i] < h[j]
<1>1. IsFiniteSet(I) /\ n \in Nat /\ \E g \in [1..n -> I] : Increasing(g, n)
  BY Enumeration
<1> HIDE DEF n
<1>2. h \in [1..n -> I] /\ Increasing(h, n)
  BY <1>1 DEF Increasing
<1>3. Only(p, I) = [j \in 1..n |-> p[h[j]]]
  BY DEF Only, n
<1> HIDE DEF h
<1>4. ASSUME NEW i \in 1..n, NEW j \in 1..n, h[i] = h[j]
      PROVE  i = j
  <2>0. h[i] \in I /\ h[j] \in I /\ I \subseteq Nat
    BY <1>2
  <2>1. h[i] \in Nat /\ h[j] \in Nat
    BY <2>0
  <2>2. ~(i < j) /\ ~(j < i)
    BY <1>2, <1>4, <2>1 DEF Increasing
  <2> QED BY <2>2
<1>5. h \in Injection(1..n, I)
  BY <1>2, <1>4 DEF Injection, IsInjective
<1>6. IsFiniteSet(1..n) /\ Cardinality(1..n) = n
  BY <1>1, FS_Interval
<1>7. h \in Surjection(1..n, I)
  BY <1>1, <1>5, <1>6, FS_Injection DEF n
<1>8. \A i \in I : \E j \in 1..n : h[j] = i
  BY <1>7 DEF Surjection
<1>9. Lists(h, n, I)
  BY <1>2, <1>8 DEF Lists
<1> QED
  BY <1>1, <1>3, <1>9 DEF n

(* The first match among selected rules is the first match among all, if   *)
(* every rule that matches is selected.                                    *)
LEMMA FirstMatchOfSelection ==
  ASSUME NEW S, NEW p \in Seq(S), NEW I \in SUBSET DOMAIN p, NEW A \in SUBSET I,
         NEW n \in Nat, NEW h, Lists(h, n, I),
         NEW q, \A j \in 1..n : q[j] = p[h[j]],
         NEW B \in SUBSET (1..n), \A j \in 1..n : j \in B <=> h[j] \in A
  PROVE  FirstMatch(q, B) = FirstMatch(p, A)
<1>1. DOMAIN p = 1..Len(p) /\ Len(p) \in Nat
  OBVIOUS
<1>2. \A i \in A : i \in Nat /\ \E j \in B : h[j] = i
  BY <1>1 DEF Lists
<1>3. CASE A = {}
  <2>1. B = {}
    BY <1>3
  <2> QED BY <1>3, <2>1 DEF FirstMatch
<1>4. CASE A # {}
  <2>0. PICK e \in A : \E j \in B : h[j] = e
    BY <1>2, <1>4
  <2>1. B # {} /\ B \subseteq Nat
    BY <2>0
  <2> DEFINE b == MinIndex(B)
             a == MinIndex(A)
  <2>2. b \in B /\ \A j \in B : b <= j
    BY <2>1, MinIndexIsFirst
  <2>3. A \subseteq Nat
    BY <1>2
  <2>4. a \in A /\ \A i \in A : a <= i
    BY <1>4, <2>3, MinIndexIsFirst
  <2> HIDE DEF a, b
  <2>5. h[b] \in A /\ b \in 1..n
    BY <2>2
  <2>6. PICK j \in B : h[j] = a
    BY <1>2, <2>4
  <2>7. j \in 1..n /\ b <= j
    BY <2>2, <2>6
  <2>8. h[b] <= h[j]
    <3>1. b < j \/ b = j
      BY <2>5, <2>7
    <3>2. h[b] \in Nat /\ h[j] \in Nat
      BY <2>3, <2>4, <2>5, <2>6
    <3> QED BY <2>5, <2>7, <3>1, <3>2 DEF Lists, Increasing
  <2>9. h[b] = a
    <3>1. a <= h[b] /\ h[b] <= a
      BY <2>4, <2>5, <2>6, <2>8
    <3>2. a \in Nat /\ h[b] \in Nat
      BY <2>3, <2>4, <2>5
    <3> QED BY <3>1, <3>2
  <2>10. q[b] = p[a]
    BY <2>5, <2>9
  <2>11. FirstMatch(q, B) = [action |-> q[b].action, rule |-> q[b].name]
    BY <2>1 DEF FirstMatch, b
  <2>12. FirstMatch(p, A) = [action |-> p[a].action, rule |-> p[a].name]
    BY <1>4 DEF FirstMatch, a
  <2> QED BY <2>10, <2>11, <2>12
<1> QED
  BY <1>3, <1>4

(* Rules that cannot match change no decision: of a policy, every finding  *)
(* and every path is decided by the rules about secrets, or about paths,   *)
(* alone, for any sequence of rules in any order.                          *)
THEOREM SelectionDecides ==
  ASSUME NEW S, NEW p \in Seq(S)
  PROVE  /\ \A f : Decide(p, f) = Decide(Only(p, {i \in DOMAIN p : SecretRule(p[i])}), f)
         /\ \A x : DecidePath(p, x) = DecidePath(Only(p, {i \in DOMAIN p : PathRule(p[i])}), x)
<1>1. DOMAIN p = 1..Len(p) /\ Len(p) \in Nat
  OBVIOUS
<1>2. ASSUME NEW f
      PROVE  Decide(p, f) = Decide(Only(p, {i \in DOMAIN p : SecretRule(p[i])}), f)
  <2> DEFINE I == {i \in DOMAIN p : SecretRule(p[i])}
             A == {i \in DOMAIN p : matches(p[i].match, f)}
             n == Cardinality(I)
             q == Only(p, I)
  <2>1. I \in SUBSET DOMAIN p /\ I \in SUBSET (1..Len(p)) /\ A \in SUBSET I
    BY <1>1 DEF matches, SecretRule
  <2>2. \A i \in DOMAIN p : i \in A <=> matches(p[i].match, f)
    OBVIOUS
  <2>3. Decide(p, f) = FirstMatch(p, A)
    BY DEF Decide
  <2> HIDE DEF I, A
  <2>4. /\ n \in Nat /\ DOMAIN q = 1..n
        /\ \E h : Lists(h, n, I) /\ \A j \in 1..n : q[j] = p[h[j]]
    <3>1. I \in SUBSET (1..Len(p)) /\ Len(p) \in Nat
      BY <1>1, <2>1
    <3> QED BY <3>1, OnlyEnumerates
  <2> HIDE DEF n, q
  <2>5. PICK h : Lists(h, n, I) /\ \A j \in 1..n : q[j] = p[h[j]]
    BY <2>4
  <2> DEFINE B == {j \in DOMAIN q : matches(q[j].match, f)}
  <2>6. \A j \in 1..n : h[j] \in DOMAIN p
    BY <2>1, <2>5 DEF Lists
  <2>7. B \in SUBSET (1..n) /\ \A j \in 1..n : j \in B <=> h[j] \in A
    BY <2>2, <2>4, <2>5, <2>6
  <2> HIDE DEF B
  <2>8. FirstMatch(q, B) = FirstMatch(p, A)
    <3>1. I \in SUBSET DOMAIN p /\ A \in SUBSET I /\ n \in Nat
      BY <2>1, <2>4
    <3> QED BY <2>5, <2>7, <3>1, FirstMatchOfSelection
  <2> QED BY <2>3, <2>8 DEF Decide, q, I, B
<1>3. ASSUME NEW x
      PROVE  DecidePath(p, x) = DecidePath(Only(p, {i \in DOMAIN p : PathRule(p[i])}), x)
  <2> DEFINE I == {i \in DOMAIN p : PathRule(p[i])}
             A == {i \in DOMAIN p : pathMatches(p[i].match, x)}
             n == Cardinality(I)
             q == Only(p, I)
  <2>1. I \in SUBSET DOMAIN p /\ I \in SUBSET (1..Len(p)) /\ A \in SUBSET I
    BY <1>1 DEF pathMatches, PathRule
  <2>2. \A i \in DOMAIN p : i \in A <=> pathMatches(p[i].match, x)
    OBVIOUS
  <2>3. DecidePath(p, x) = FirstMatch(p, A)
    BY DEF DecidePath
  <2> HIDE DEF I, A
  <2>4. /\ n \in Nat /\ DOMAIN q = 1..n
        /\ \E h : Lists(h, n, I) /\ \A j \in 1..n : q[j] = p[h[j]]
    <3>1. I \in SUBSET (1..Len(p)) /\ Len(p) \in Nat
      BY <1>1, <2>1
    <3> QED BY <3>1, OnlyEnumerates
  <2> HIDE DEF n, q
  <2>5. PICK h : Lists(h, n, I) /\ \A j \in 1..n : q[j] = p[h[j]]
    BY <2>4
  <2> DEFINE B == {j \in DOMAIN q : pathMatches(q[j].match, x)}
  <2>6. \A j \in 1..n : h[j] \in DOMAIN p
    BY <2>1, <2>5 DEF Lists
  <2>7. B \in SUBSET (1..n) /\ \A j \in 1..n : j \in B <=> h[j] \in A
    BY <2>2, <2>4, <2>5, <2>6
  <2> HIDE DEF B
  <2>8. FirstMatch(q, B) = FirstMatch(p, A)
    <3>1. I \in SUBSET DOMAIN p /\ A \in SUBSET I /\ n \in Nat
      BY <2>1, <2>4
    <3> QED BY <2>5, <2>7, <3>1, FirstMatchOfSelection
  <2> QED BY <2>3, <2>8 DEF DecidePath, q, I, B
<1> QED
  BY <1>2, <1>3

-----------------------------------------------------------------------------
(* A document is a sequence of the rules an operator writes.               *)
Documents == [parses : BOOLEAN, version : {0, 1}, rules : Seq(YamlRules)]

DocOK == doc \in Documents

LEMMA DocType == EditSpec => []DocOK
<1>1. ASSUME EditInit PROVE DocOK
  <2>1. << >> \in Seq(YamlRules)
    OBVIOUS
  <2>2. PICK x \in BOOLEAN, v \in {0, 1} : doc = [parses |-> x, version |-> v, rules |-> << >>]
    BY <1>1, Zenon DEF EditInit
  <2>3. doc \in [parses : BOOLEAN, version : {0, 1}, rules : Seq(YamlRules)]
    BY <2>1, <2>2, Zenon
  <2> QED
    BY <2>3 DEF DocOK, Documents
<1>2. ASSUME DocOK, [Edit]_doc PROVE DocOK'
  <2>1. CASE \E yr \in YamlRules : AddRule(yr)
    BY <1>2, <2>1 DEF DocOK, AddRule, Documents
  <2>2. CASE Repair
    BY <1>2, <2>2 DEF DocOK, Repair, Documents
  <2>3. CASE UNCHANGED doc
    BY <1>2, <2>3 DEF DocOK
  <2> QED
    BY <1>2, <2>1, <2>2, <2>3 DEF Edit
<1> QED
  BY <1>1, <1>2, PTL DEF EditSpec

(* What a step makes of the rules of a document.                           *)
LEMMA StepRules ==
  ASSUME DocOK, Edit
  PROVE  \/ doc'.rules = doc.rules
         \/ /\ doc'.parses = doc.parses /\ doc'.version = doc.version
            /\ \E yr \in YamlRules : doc'.rules = Append(doc.rules, yr)
BY DEF Edit, AddRule, Repair, Documents, DocOK

(* The compiled rules of a document with a rule added are the old ones     *)
(* with that rule, compiled.                                               *)
LEMMA CompiledAppend ==
  ASSUME DocOK, NEW yr \in YamlRules, doc'.rules = Append(doc.rules, yr)
  PROVE  LET S == {compileRule(y) : y \in YamlRules}
         IN  /\ LoadFromBytes(doc) \in Seq(S) /\ compileRule(yr) \in S
             /\ LoadFromBytes(doc') = Append(LoadFromBytes(doc), compileRule(yr))
<1> DEFINE S == {compileRule(y) : y \in YamlRules}
           d == doc.rules
           e == doc'.rules
           p == LoadFromBytes(doc)
           q == LoadFromBytes(doc')
<1>1. /\ d \in Seq(YamlRules) /\ Len(d) \in Nat /\ DOMAIN d = 1..Len(d)
      /\ DOMAIN e = 1..(Len(d) + 1)
      /\ \A k \in 1..Len(d) : e[k] = d[k]
      /\ e[Len(d) + 1] = yr
  BY DEF Documents, DocOK
<1>2. /\ DOMAIN p = 1..Len(d) /\ \A k \in 1..Len(d) : p[k] = compileRule(d[k]) /\ d[k] \in YamlRules
      /\ q = [k \in 1..(Len(d) + 1) |-> compileRule(e[k])]
      /\ p = [k \in 1..Len(d) |-> compileRule(d[k])]
  BY <1>1 DEF LoadFromBytes
<1>3. compileRule(yr) \in S /\ \A k \in 1..Len(d) : compileRule(d[k]) \in S
  BY <1>2
<1> HIDE DEF S, d, e, p, q
<1>4. p \in Seq(S) /\ Len(p) = Len(d)
  BY <1>1, <1>2, <1>3
<1>5. \A k \in 1..(Len(d) + 1) : q[k] = compileRule(e[k]) /\ q[k] \in S
  BY <1>1, <1>2, <1>3
<1>6. q \in Seq(S) /\ Len(q) = Len(d) + 1
  BY <1>1, <1>2, <1>5
<1>7. q = Append(p, compileRule(yr))
  <2> DEFINE a == Append(p, compileRule(yr))
  <2>1. /\ a \in Seq(S) /\ Len(a) = Len(d) + 1 /\ a[Len(d) + 1] = compileRule(yr)
        /\ \A k \in 1..Len(d) : a[k] = p[k]
    BY <1>1, <1>3, <1>4
  <2> HIDE DEF a
  <2>2. \A k \in 1..(Len(d) + 1) : a[k] = q[k]
    BY <1>1, <1>2, <1>5, <2>1
  <2>3. a = q
    BY <1>6, <2>1, <2>2, SeqEqual
  <2> QED
    BY <2>3 DEF a
<1> QED
  BY <1>3, <1>4, <1>7 DEF S, p, q

-----------------------------------------------------------------------------
(* The theorems.                                                           *)

(* The name in a finding, a 403 body or an audit record identifies the     *)
(* rule that decided, and a catch-all leaves nothing undecided, for every  *)
(* document that loads (LoadFromBytes, Decide).                            *)
THEOREM DecidingRuleIdentifiedAlways == EditSpec => []DecidingRuleIdentified
<1>1. ASSUME DocOK PROVE DecidingRuleIdentified
  <2> DEFINE d == doc.rules
             p == LoadFromBytes(doc)
  <2> SUFFICES ASSUME Loadable(doc), NEW f \in Tried
               PROVE  /\ Decide(p, f).rule # NoName =>
                            \E i \in DOMAIN p : /\ p[i].name = Decide(p, f).rule
                                                /\ p[i].action = Decide(p, f).action
                                                /\ \A j \in DOMAIN p \ {i} : p[j].name # Decide(p, f).rule
                      /\ (\E i \in DOMAIN p : p[i].match.all) => Decide(p, f).rule # NoName
    BY DEF DecidingRuleIdentified
  <2> DEFINE I == {i \in DOMAIN p : matches(p[i].match, f)}
  <2>1. Len(d) \in Nat /\ DOMAIN d = 1..Len(d)
    BY <1>1 DEF Documents, DocOK
  <2>2. DOMAIN p = DOMAIN d /\ \A i \in DOMAIN p : p[i].name = d[i].name
    BY DEF LoadFromBytes, compileRule
  <2>3. \A i \in DOMAIN d : d[i].name # NoName /\ \A j \in 1..(i - 1) : d[j].name # d[i].name
    BY DEF Loadable
  <2>4. Decide(p, f) = FirstMatch(p, I)
    BY DEF Decide
  <2>5. I \subseteq DOMAIN p /\ \A i \in DOMAIN p : p[i].match.all => i \in I
    BY DEF matches
  <2> HIDE DEF d, p, I
  <2>6. ASSUME NEW i \in DOMAIN d, NEW j \in DOMAIN d, i # j PROVE d[i].name # d[j].name
    <3>1. i \in 1..(j - 1) \/ j \in 1..(i - 1)
      BY <2>1, <2>6
    <3> QED
      BY <2>3, <3>1
  <2>7. CASE I = {}
    <3>1. Decide(p, f).rule = NoName
      BY <2>4, <2>7 DEF FirstMatch
    <3> QED
      BY <2>5, <2>7, <3>1
  <2>8. CASE I # {}
    <3> DEFINE k == MinIndex(I)
    <3>1. k \in DOMAIN p
      BY <2>1, <2>2, <2>5, <2>8, MinIndexIsFirst
    <3>2. Decide(p, f).rule = p[k].name /\ Decide(p, f).action = p[k].action
      BY <2>4, <2>8 DEF FirstMatch
    <3> HIDE DEF k
    <3>3. p[k].name # NoName /\ \A j \in DOMAIN p \ {k} : p[j].name # p[k].name
      BY <2>2, <2>3, <2>6, <3>1
    <3> QED
      BY <3>1, <3>2, <3>3
  <2> QED
    BY <2>7, <2>8
<1> QED
  BY <1>1, DocType, PTL

(* In every document that loads, whatever rules it has, findings are       *)
(* decided as if there were no path rules, and paths as if there were no   *)
(* secret rules.                                                           *)
THEOREM RulesDoNotInterfereAlways == EditSpec => []RulesDoNotInterfere
<1>1. ASSUME DocOK PROVE RulesDoNotInterfere
  <2> DEFINE S == {compileRule(y) : y \in YamlRules}
             p == LoadFromBytes(doc)
  <2>1. doc.rules \in Seq(YamlRules)
    BY <1>1 DEF DocOK, Documents
  <2>2. p = [i \in 1..Len(doc.rules) |-> compileRule(doc.rules[i])] /\ Len(doc.rules) \in Nat
    BY <2>1 DEF LoadFromBytes
  <2>3. \A i \in 1..Len(doc.rules) : compileRule(doc.rules[i]) \in S
    BY <2>1
  <2> HIDE DEF S, p
  <2>4. p \in Seq(S)
    BY <2>2, <2>3
  <2> QED
    BY <2>4, SelectionDecides DEF RulesDoNotInterfere, p
<1> QED
  BY <1>1, DocType, PTL

(* A rule added at the end of a document that loads changes no decision an *)
(* earlier rule takes, whatever rules the operator writes.                 *)
THEOREM AppendDecidesOnlyUndecidedAlways == EditSpec => AppendDecidesOnlyUndecided
<1> DEFINE p == LoadFromBytes(doc)
           q == LoadFromBytes(doc')
           Stands == /\ \A f \in Tried : Decide(p, f).rule # NoName =>
                                            Decide(q, f) = Decide(p, f)
                     /\ \A x \in Paths : DecidePath(p, x).rule # NoName =>
                                            DecidePath(q, x) = DecidePath(p, x)
<1>1. ASSUME DocOK, Edit PROVE Stands
  <2>1. CASE doc'.rules = doc.rules
    <3>1. q = p
      BY <2>1 DEF LoadFromBytes
    <3> QED
      BY <3>1
  <2>2. CASE \E yr \in YamlRules : doc'.rules = Append(doc.rules, yr)
    <3> PICK yr \in YamlRules : doc'.rules = Append(doc.rules, yr)
      BY <2>2
    <3> DEFINE S == {compileRule(y) : y \in YamlRules}
    <3>1. p \in Seq(S) /\ compileRule(yr) \in S /\ q = Append(p, compileRule(yr))
      BY <1>1, CompiledAppend
    <3> HIDE DEF S, p, q
    <3> QED
      BY <3>1, AppendKeepsDecisions
  <2> QED
    BY <1>1, <2>1, <2>2, StepRules
<1>2. DocOK /\ [Edit]_doc =>
        [Loadable(doc) /\ Loadable(doc') => Stands]_doc
  BY <1>1
<1> QED
  BY <1>2, DocType, PTL DEF EditSpec, AppendDecidesOnlyUndecided

(* No edit that adds rules makes a rejected document load: part of a       *)
(* policy is never in force.                                               *)
THEOREM RejectionIsStickyAlways == EditSpec => RejectionIsSticky
<1> DEFINE Rejected == doc.parses /\ doc.version = 1 /\ doc.rules # <<>> /\ ~Loadable(doc)
<1>1. ASSUME DocOK, Edit, Rejected PROVE ~Loadable(doc')
  <2>1. doc.parses /\ doc.version = 1
    BY <1>1
  <2>2. PICK yr \in YamlRules : doc' = [doc EXCEPT !.rules = Append(@, yr)]
    BY <1>1, <2>1 DEF Edit, AddRule, Repair
  <2> DEFINE d == doc.rules
             e == doc'.rules
  <2>3. /\ Len(d) \in Nat /\ DOMAIN d = 1..Len(d) /\ DOMAIN e = 1..(Len(d) + 1)
        /\ \A k \in DOMAIN d : e[k] = d[k] /\ k \in DOMAIN e
    BY <1>1, <2>2 DEF Documents, DocOK
  <2> DEFINE Bad(r, i) == \/ r[i].name = NoName
                          \/ \E j \in 1..(i - 1) : r[j].name = r[i].name
                          \/ ~validRule(r[i])
  <2>4. PICK i \in DOMAIN d : Bad(d, i)
    BY <1>1 DEF Loadable
  <2>5. \A j \in 1..(i - 1) : j \in DOMAIN d
    BY <2>3
  <2>6. e[i] = d[i] /\ \A j \in 1..(i - 1) : e[j] = d[j]
    BY <2>3, <2>5
  <2>7. Bad(e, i) /\ i \in DOMAIN e
    BY <2>3, <2>4, <2>6
  <2> QED
    BY <2>7 DEF Loadable
<1>2. DocOK /\ [Edit]_doc => [Rejected => ~Loadable(doc')]_doc
  BY <1>1
<1> QED
  BY <1>2, DocType, PTL DEF EditSpec, RejectionIsSticky

-----------------------------------------------------------------------------
(* Requests.                                                               *)

(* The loop over the rules returns one of the four actions and a name.     *)
LEMMA FirstMatchType ==
  ASSUME NEW p \in Policy, NEW I, I \subseteq DOMAIN p
  PROVE  /\ FirstMatch(p, I).action \in Actions
         /\ FirstMatch(p, I).rule \in RuleNames \cup {NoName}
<1>1. CASE I = {}
  <2>1. FirstMatch(p, I) = [action |-> "warn", rule |-> NoName]
    BY <1>1 DEF FirstMatch
  <2>2. "warn" \in Actions
    BY DEF Actions
  <2> QED
    BY <2>1, <2>2
<1>2. CASE I # {}
  <2>1. MinIndex(I) \in DOMAIN p
    BY <1>2, MinIndexIsFirst DEF Policy
  <2>2. p[MinIndex(I)] \in Rule
    BY <2>1 DEF Policy
  <2> QED
    BY <1>2, <2>2 DEF FirstMatch, Rule
<1> QED
  BY <1>1, <1>2

(* Decide returns one of the four actions and a rule name.                 *)
LEMMA DecideType ==
  ASSUME NEW p \in Policy, NEW f
  PROVE  Decide(p, f).action \in Actions /\ Decide(p, f).rule \in RuleNames \cup {NoName}
BY FirstMatchType DEF Decide

(* So does DecidePath.                                                     *)
LEMMA DecidePathType ==
  ASSUME NEW p \in Policy, NEW x
  PROVE  DecidePath(p, x).action \in Actions /\ DecidePath(p, x).rule \in RuleNames \cup {NoName}
BY FirstMatchType DEF DecidePath

Step(r) == Own(r) \/ Peer(r)

-----------------------------------------------------------------------------
(* Type correctness.                                                       *)

(* What the path stage keeps are path entries.                             *)
LEMMA KeptPathsType ==
  ASSUME NEW p \in Policies, NEW X, X \subseteq Paths
  PROVE  KeptPaths(p, X) \subseteq PathEntries
<1>1. p \in Policy
  BY ModelAssumption
<1>2. \A x \in X : DecidePath(p, x).rule \in RuleNames \cup {NoName}
  BY <1>1, DecidePathType
<1> QED
  BY <1>2 DEF KeptPaths, PathEntries

(* What the secret stage keeps are secret entries.                         *)
LEMMA KeptType ==
  ASSUME NEW p \in Policies, NEW F, F \subseteq Findings
  PROVE  Kept(p, F) \subseteq SecretEntries
<1>1. p \in Policy
  BY ModelAssumption
<1>2. \A f \in F : Decide(p, f).rule \in RuleNames \cup {NoName}
  BY <1>1, DecideType
<1> QED
  BY <1>2 DEF Kept, SecretEntries

(* The findings of a scan are findings the detectors can report.           *)
LEMMA ScanType ==
  ASSUME NEW p, NEW a
  PROVE  Scan(p, a) \subseteq Findings
BY DEF Scan

(* Contents is the power set of the atoms.                                 *)
LEMMA ContentsIsPowerSet == Contents = SUBSET Atoms
BY DEF Contents

(* Every step of a handler preserves the type invariant.                   *)
LEMMA StepType ==
  ASSUME TypeOK, NEW r \in Requests, Step(r)
  PROVE  TypeOK'
<1> USE DEF TypeOK, Goto, requestVars, outcomeVars, historyVars
<1>0. /\ 413 \in Nat /\ 400 \in Nat /\ 403 \in Nat /\ 502 \in Nat
      /\ "read" \in PCs /\ "pathscan" \in PCs /\ "secretscan" \in PCs
      /\ "decide" \in PCs /\ "forward" \in PCs /\ "wait" \in PCs /\ "stream" \in PCs
      /\ "deferred" \in PCs /\ "done" \in PCs
      /\ "block" \in Decisions /\ "modify" \in Decisions
  BY DEF PCs, Decisions
<1>1. CASE Accept(r)
  BY <1>0, <1>1 DEF Accept
<1>2. CASE ReadBody(r)
  <2>1. body[r].atoms \in Contents
    BY ModelAssumption, ContentsIsPowerSet
  <2> QED
    BY <1>0, <1>2, <2>1, ModelAssumption DEF ReadBody
<1>3. CASE ReadBodyFails(r)
  BY <1>0, <1>3 DEF ReadBodyFails
<1>4. CASE PathScan(r)
  <2> DEFINE paths == IF active = NoPolicy \/ body[r].parse # "ai"
                        THEN {} ELSE body[r].paths
  <2>1. KeptPaths(active, paths) \subseteq PathEntries
    <3>1. CASE active = NoPolicy
      BY <3>1 DEF KeptPaths
    <3>2. CASE active \in Policies
      BY <3>2, KeptPathsType, ModelAssumption
    <3> QED BY <3>1, <3>2
  <2>2. pathFound' \in [Requests -> SUBSET PathEntries]
    BY <1>4, <2>1 DEF PathScan
  <2>3. ChainBlocks(r) \/ ChainGoesOn(r, "continue", "secretscan")
    BY <1>4 DEF PathScan
  <2>4. /\ decision' \in [Requests -> Decisions] /\ status' \in [Requests -> Nat]
        /\ pc' \in [Requests -> PCs]
        /\ wire' \in [Requests -> Contents \cup {NoBody}]
        /\ audit' \in [Requests -> SUBSET Records]
    BY <1>0, <2>3 DEF ChainBlocks, ChainGoesOn
  <2>5. \A s \in Requests : pc'[s] \in {"pathscan", "secretscan", "decide"} => metaBody'[s] # NoBody
    <3>1. metaBody' = metaBody /\ pc[r] \in {"pathscan", "secretscan"}
      BY <1>4 DEF PathScan
    <3>2. \A s \in Requests \ {r} : pc'[s] = pc[s]
      BY <2>3 DEF ChainBlocks, ChainGoesOn
    <3> QED BY <3>1, <3>2
  <2>6. \A s \in Requests : pc'[s] = "decide" => secretPol'[s] # NoPolicy
    <3>1. secretPol' = secretPol /\ pc'[r] \in {"secretscan", "deferred"}
      BY <1>4, <2>3 DEF PathScan, ChainBlocks, ChainGoesOn
    <3>2. \A s \in Requests \ {r} : pc'[s] = pc[s]
      BY <2>3 DEF ChainBlocks, ChainGoesOn
    <3> QED BY <3>1, <3>2
  <2> QED
    BY <1>4, <2>2, <2>4, <2>5, <2>6 DEF PathScan
<1>5. CASE PathScanPanics(r)
  BY <1>0, <1>5 DEF PathScanPanics, StagePanics, ChainGoesOn
<1>6. CASE SecretScanClean(r)
  BY <1>0, <1>6 DEF SecretScanClean, ChainGoesOn
<1>7. CASE SecretScanFlag(r)
  <2>1. {[finding |-> f, rule |-> NoName] : f \in Raw(r)} \subseteq SecretEntries
    BY ScanType DEF SecretEntries, Raw
  <2>2. secretFound' \in [Requests -> SUBSET SecretEntries]
    BY <1>7, <2>1 DEF SecretScanFlag
  <2>3. ChainBlocks(r) \/ ChainGoesOn(r, "continue", "forward")
    BY <1>7 DEF SecretScanFlag
  <2>4. /\ decision' \in [Requests -> Decisions] /\ status' \in [Requests -> Nat]
        /\ pc' \in [Requests -> PCs]
        /\ wire' \in [Requests -> Contents \cup {NoBody}]
        /\ audit' \in [Requests -> SUBSET Records]
    BY <1>0, <2>3 DEF ChainBlocks, ChainGoesOn
  <2>5. \A s \in Requests : pc'[s] \in {"pathscan", "secretscan", "decide"} => metaBody'[s] # NoBody
    <3>1. metaBody' = metaBody /\ pc[r] \in {"pathscan", "secretscan"}
      BY <1>7 DEF SecretScanFlag
    <3>2. \A s \in Requests \ {r} : pc'[s] = pc[s]
      BY <2>3 DEF ChainBlocks, ChainGoesOn
    <3> QED BY <3>1, <3>2
  <2>6. \A s \in Requests : pc'[s] = "decide" => secretPol'[s] # NoPolicy
    <3>1. secretPol' = secretPol /\ pc'[r] \in {"forward", "deferred"}
      BY <1>7, <2>3 DEF SecretScanFlag, ChainBlocks, ChainGoesOn
    <3>2. \A s \in Requests \ {r} : pc'[s] = pc[s]
      BY <2>3 DEF ChainBlocks, ChainGoesOn
    <3> QED BY <3>1, <3>2
  <2> QED
    BY <1>7, <2>2, <2>4, <2>5, <2>6 DEF SecretScanFlag
<1>8. CASE SecretScanPolicy(r)
  <2> DEFINE p == secretPol[r]
  <2>0. pc[r] = "decide" /\ p \in Policies /\ metaBody[r] \in Contents /\ DecideUnder(r, p)
    BY <1>8 DEF SecretScanPolicy
  <2> HIDE DEF p
  <2>1. Kept(p, Raw(r)) \subseteq SecretEntries
    BY <2>0, ScanType, KeptType DEF Raw
  <2>2. secretFound' \in [Requests -> SUBSET SecretEntries]
    BY <2>0, <2>1 DEF DecideUnder
  <2>3. ChainBlocks(r) \/ ChainGoesOn(r, "continue", "forward")
           \/ ChainGoesOn(r, "modify", "forward")
    BY <2>0 DEF DecideUnder
  <2>4. /\ decision' \in [Requests -> Decisions] /\ status' \in [Requests -> Nat]
        /\ pc' \in [Requests -> PCs]
        /\ wire' \in [Requests -> Contents \cup {NoBody}]
        /\ audit' \in [Requests -> SUBSET Records]
    BY <1>0, <2>3 DEF ChainBlocks, ChainGoesOn
  <2>5. metaBody' \in [Requests -> Contents \cup {NoBody}]
    <3>1. RedactRequest(p, Raw(r), metaBody[r], body[r].twins) \subseteq Contents
      BY <2>0, ModelAssumption, ContentsIsPowerSet DEF RedactRequest
    <3>2. \/ metaBody' = metaBody
          \/ \E new \in RedactRequest(p, Raw(r), metaBody[r], body[r].twins) :
                metaBody' = [metaBody EXCEPT ![r] = new]
      BY <2>0 DEF DecideUnder
    <3> QED BY <3>1, <3>2
  <2>6. pc'[r] \in {"forward", "deferred"} /\ \A s \in Requests \ {r} : pc'[s] = pc[s]
    BY <2>3 DEF ChainBlocks, ChainGoesOn
  <2>7. \A s \in Requests \ {r} : metaBody'[s] = metaBody[s]
    BY <2>0 DEF DecideUnder
  <2> QED
    BY <1>8, <2>2, <2>4, <2>5, <2>6, <2>7 DEF SecretScanPolicy
<1>18. CASE SecretScanReads(r)
  <2>1. active \in Policies
    BY <1>18 DEF SecretScanReads
  <2> QED
    BY <1>0, <1>18, <2>1 DEF SecretScanReads
<1>9. CASE SecretScanPanics(r)
  BY <1>0, <1>9 DEF SecretScanPanics, StagePanics, ChainGoesOn
<1>10. CASE RedactPanics(r)
  <2>0. secretPol[r] \in Policies
    BY <1>10 DEF RedactPanics
  <2>1. Kept(secretPol[r], Raw(r)) \subseteq SecretEntries
    BY <2>0, ScanType, KeptType DEF Raw
  <2> QED
    BY <1>0, <1>10, <2>1 DEF RedactPanics, StagePanics, ChainGoesOn
<1>11. CASE ResolveFails(r)
  BY <1>0, <1>11 DEF ResolveFails
<1>12. CASE Send(r)
  BY <1>0, <1>12 DEF Send
<1>13. CASE DoFails(r)
  BY <1>0, <1>13 DEF DoFails
<1>14. CASE Respond(r)
  BY <1>0, <1>14, ModelAssumption DEF Respond
<1>15. CASE StreamEnds(r)
  BY <1>0, <1>15 DEF StreamEnds
<1>16. CASE Log(r)
  <2>1. AuditRecord(r) \in Records
    BY DEF AuditRecord, Records
  <2> QED
    BY <1>0, <1>16, <2>1 DEF Log
<1>17. CASE LogPanics(r)
  BY <1>0, <1>17 DEF LogPanics
<1> QED
  BY <1>1, <1>2, <1>3, <1>4, <1>5, <1>6, <1>7, <1>8, <1>9, <1>10, <1>11, <1>12,
     <1>13, <1>14, <1>15, <1>16, <1>17, <1>18 DEF Step, Own, Peer

(* The state of the handlers keeps its type in every behaviour: decisions, *)
(* statuses, metadata and audit records are always of their kinds.         *)
THEOREM TypeCorrect == Spec => []TypeOK
<1>1. Init => TypeOK
  BY ModelAssumption DEF Init, TypeOK, PCs, Decisions, NoStatus
<1>2. TypeOK /\ [Next]_vars => TypeOK'
  <2> SUFFICES ASSUME TypeOK, [Next]_vars PROVE TypeOK'
    OBVIOUS
  <2>1. ASSUME NEW r \in Requests, Step(r) PROVE TypeOK'
    BY <2>1, StepType
  <2>2. ASSUME NEW p \in Policies, Reload(p) PROVE TypeOK'
    BY <2>2 DEF Reload, TypeOK, requestVars, outcomeVars, historyVars
  <2>3. CASE UNCHANGED vars
    BY <2>3 DEF vars, TypeOK
  <2> QED
    BY <2>1, <2>2, <2>3 DEF Next, Step
<1> QED
  BY <1>1, <1>2, PTL DEF Spec

-----------------------------------------------------------------------------
(* The inductive invariant.                                                *)

\* What HandlerInv(s) looks at is unchanged.
SameHandler(s) ==
    /\ pc'[s] = pc[s] /\ body'[s] = body[s] /\ metaBody'[s] = metaBody[s]
    /\ pathFound'[s] = pathFound[s] /\ secretFound'[s] = secretFound[s]
    /\ decision'[s] = decision[s] /\ status'[s] = status[s] /\ wire'[s] = wire[s]
    /\ audit'[s] = audit[s] /\ pathPol'[s] = pathPol[s]
    /\ secretPol'[s] = secretPol[s] /\ panicked'[s] = panicked[s]

(* A handler that a step does not touch keeps its part of the invariant.   *)
LEMMA FrameHandler ==
  ASSUME NEW s \in Requests, HandlerInv(s), SameHandler(s),
         active' = NoPolicy <=> active = NoPolicy
  PROVE  HandlerInv(s)'
BY DEF HandlerInv, SameHandler, Untouched, Undecided, Ended, PathDone, SecretDone,
       SecretDecided, AuditRecord, HasCtx, SentPaths, SentFindings, Raw

(* A step of one handler touches no other.                                 *)
LEMMA OthersUntouched ==
  ASSUME TypeOK, NEW r \in Requests, Step(r), NEW s \in Requests, s # r
  PROVE  SameHandler(s)
<1> USE DEF TypeOK, SameHandler, Goto, ChainBlocks, ChainGoesOn, StagePanics,
            requestVars, outcomeVars, historyVars
<1>1. CASE Accept(r) \/ ReadBody(r) \/ ReadBodyFails(r)
  BY <1>1 DEF Accept, ReadBody, ReadBodyFails
<1>2. CASE PathScan(r)
  BY <1>2 DEF PathScan
<1>3. CASE PathScanPanics(r) \/ SecretScanClean(r) \/ SecretScanPanics(r) \/ RedactPanics(r)
  BY <1>3 DEF PathScanPanics, SecretScanClean, SecretScanPanics, RedactPanics
<1>8. CASE SecretScanReads(r)
  BY <1>8 DEF SecretScanReads
<1>4. CASE SecretScanFlag(r)
  BY <1>4 DEF SecretScanFlag
<1>5. CASE SecretScanPolicy(r)
  BY <1>5 DEF SecretScanPolicy, DecideUnder
<1>6. CASE ResolveFails(r) \/ Send(r) \/ DoFails(r) \/ Respond(r) \/ StreamEnds(r)
  BY <1>6 DEF ResolveFails, Send, DoFails, Respond, StreamEnds
<1>7. CASE Log(r) \/ LogPanics(r)
  BY <1>7 DEF Log, LogPanics
<1> QED
  BY <1>1, <1>2, <1>3, <1>4, <1>5, <1>6, <1>7, <1>8 DEF Step, Own, Peer

(* Reading the body, or failing to, starts the handler from a clean state. *)
LEMMA ReadKeepsHandler ==
  ASSUME TypeOK, NEW r \in Requests, HandlerInv(r),
         Accept(r) \/ ReadBody(r) \/ ReadBodyFails(r)
  PROVE  HandlerInv(r)'
BY DEF TypeOK, HandlerInv, Untouched, Undecided, Ended, Accept, ReadBody, ReadBodyFails,
       Goto, requestVars, outcomeVars, historyVars

(* The path stage: it blocks, or goes on having found no blocked path.     *)
LEMMA PathScanKeepsHandler ==
  ASSUME TypeOK, NEW r \in Requests, HandlerInv(r),
         PathScan(r) \/ PathScanPanics(r)
  PROVE  HandlerInv(r)'
<1> USE DEF TypeOK, Goto, requestVars, outcomeVars, historyVars
<1>1. CASE PathScan(r)
  <2> DEFINE paths == IF active = NoPolicy \/ body[r].parse # "ai"
                        THEN {} ELSE body[r].paths
  <2>1. pc[r] = "pathscan" /\ metaBody[r] = body[r].atoms /\ Untouched(r)
    BY <1>1 DEF PathScan, HandlerInv
  <2>2. CASE PathsBlock(active, paths)
    <3>1. body[r].parse = "ai"
      BY <2>2 DEF PathsBlock
    <3>2. ChainBlocks(r)
      BY <1>1, <2>2 DEF PathScan
    <3>3. /\ pc'[r] = "deferred" /\ decision'[r] = "block" /\ status'[r] = 403
          /\ wire'[r] = NoBody /\ body' = body
      BY <1>1, <2>1, <3>2 DEF PathScan, ChainBlocks, Untouched, Undecided
    <3> QED
      BY <3>1, <3>3 DEF HandlerInv, Ended
  <2>3. CASE ~PathsBlock(active, paths)
    <3>1. ChainGoesOn(r, "continue", "secretscan")
      BY <1>1, <2>3 DEF PathScan
    <3>2. /\ pc'[r] = "secretscan" /\ decision'[r] = decision[r] /\ wire' = wire
          /\ metaBody' = metaBody /\ body' = body /\ secretPol' = secretPol
          /\ panicked' = panicked /\ pathPol'[r] = active
      BY <1>1, <3>1 DEF PathScan, ChainGoesOn
    <3>3. PathDone(r)'
      <4>1. CASE active = NoPolicy
        BY <3>2, <4>1 DEF PathDone
      <4>2. CASE active # NoPolicy
        <5>1. SentPaths(r)' = paths
          BY <3>2, <4>2 DEF SentPaths
        <5> QED
          BY <2>3, <3>2, <5>1 DEF PathDone, PathsBlock
      <4> QED BY <4>1, <4>2
    <3> QED
      BY <2>1, <3>2, <3>3 DEF HandlerInv, Untouched, Undecided
  <2> QED BY <2>2, <2>3
<1>2. CASE PathScanPanics(r)
  BY <1>2 DEF PathScanPanics, StagePanics, ChainGoesOn, HandlerInv, Untouched, Undecided, PathDone
<1> QED BY <1>1, <1>2

(* The secret stage when it blocks: nothing has been transmitted.          *)
LEMMA BlockKeepsHandler ==
  ASSUME TypeOK, NEW r \in Requests, HandlerInv(r), pc[r] \in {"secretscan", "decide"},
         Raw(r) # {}, ChainBlocks(r), body' = body
  PROVE  HandlerInv(r)'
<1>1. body[r].parse = "ai"
  BY DEF Raw, Scan
<1>2. /\ pc'[r] = "deferred" /\ decision'[r] = "block" /\ status'[r] = 403
      /\ wire'[r] = NoBody
  BY DEF TypeOK, ChainBlocks, Goto, HandlerInv, Untouched, Undecided
<1> QED
  BY <1>1, <1>2 DEF HandlerInv, Ended

(* A panic of the secret stage leaves the body and the decision alone.     *)
LEMMA PanicKeepsHandler ==
  ASSUME TypeOK, NEW r \in Requests, HandlerInv(r),
         SecretScanPanics(r) \/ RedactPanics(r)
  PROVE  HandlerInv(r)'
<1>1. /\ pc[r] \in {"secretscan", "decide"}
      /\ pc'[r] = "forward" /\ decision'[r] = decision[r]
      /\ wire' = wire /\ metaBody' = metaBody /\ body' = body /\ pathPol' = pathPol
      /\ panicked'[r] = panicked[r] \cup {"secretscan"}
  BY DEF TypeOK, SecretScanPanics, RedactPanics, StagePanics, ChainGoesOn, Goto,
         requestVars
<1>2. metaBody[r] = body[r].atoms /\ Undecided(r) /\ PathDone(r)
  BY <1>1 DEF HandlerInv, Untouched, Undecided
<1>3. PathDone(r)'
  BY <1>1, <1>2 DEF PathDone, SentPaths
<1>4. SecretDone(r)' /\ wire'[r] = NoBody
  BY <1>1, <1>2 DEF SecretDone, Undecided
<1> QED
  BY <1>1, <1>3, <1>4 DEF HandlerInv

(* The secret stage without findings, and without a policy.                *)
LEMMA FlagKeepsHandler ==
  ASSUME TypeOK,
         NEW r \in Requests, HandlerInv(r),
         SecretScanClean(r) \/ SecretScanFlag(r)
  PROVE  HandlerInv(r)'
<1>1. pc[r] = "secretscan"
  BY DEF SecretScanClean, SecretScanFlag
<1>2. metaBody[r] = body[r].atoms /\ Untouched(r) /\ PathDone(r)
  BY <1>1 DEF HandlerInv
<1>3. Raw(r) = SentFindings(r)
  BY <1>2 DEF Raw, SentFindings
<1>4. CASE SecretScanClean(r)
  <2>1. /\ pc'[r] = "forward" /\ decision'[r] = decision[r] /\ wire' = wire
        /\ metaBody' = metaBody /\ body' = body /\ pathPol' = pathPol
        /\ panicked' = panicked /\ secretPol' = secretPol
    BY <1>4 DEF TypeOK, SecretScanClean, ChainGoesOn, Goto, requestVars, historyVars
  <2>2. SentFindings(r)' = {} /\ body[r].parse # "panic"
    BY <1>3, <1>4, <2>1 DEF SecretScanClean, SentFindings
  <2>3. PathDone(r)' /\ SecretDone(r)' /\ wire'[r] = NoBody
    BY <1>2, <2>1, <2>2 DEF PathDone, SentPaths, SecretDone, SecretDecided, Untouched, Undecided
  <2> QED
    BY <2>1, <2>3 DEF HandlerInv
<1>5. CASE SecretScanFlag(r) /\ ChainBlocks(r)
  BY <1>1, <1>5, BlockKeepsHandler DEF SecretScanFlag
<1>6. CASE SecretScanFlag(r) /\ ~ChainBlocks(r)
  <2>0. /\ ~(BlockOnDetect /\ \E f \in Raw(r) : f.severity = "high")
        /\ ChainGoesOn(r, "continue", "forward")
    BY <1>6 DEF SecretScanFlag
  <2>1. /\ pc'[r] = "forward" /\ decision'[r] = decision[r] /\ wire' = wire
        /\ metaBody' = metaBody /\ body' = body /\ pathPol' = pathPol
        /\ panicked' = panicked /\ secretPol' = secretPol /\ active' = active
        /\ secretFound'[r] = {[finding |-> f, rule |-> NoName] : f \in Raw(r)}
    BY <1>6, <2>0 DEF TypeOK, SecretScanFlag, ChainGoesOn, Goto, historyVars
  <2>2. SentFindings(r)' = Raw(r)
    BY <1>3, <2>1 DEF SentFindings
  <2>3. body[r].parse # "panic" /\ Raw(r) # {} /\ active = NoPolicy
    BY <1>6 DEF SecretScanFlag, Raw, Scan
  <2>4. SecretDecided(r)'
    BY <1>2, <2>0, <2>1, <2>2, <2>3 DEF SecretDecided, Untouched, Undecided
  <2>5. PathDone(r)' /\ SecretDone(r)' /\ wire'[r] = NoBody
    BY <1>2, <2>1, <2>4 DEF PathDone, SentPaths, SecretDone, Untouched, Undecided
  <2> QED
    BY <2>1, <2>5 DEF HandlerInv
<1> QED
  BY <1>4, <1>5, <1>6

(* Reading the provider leaves everything to be decided.                   *)
LEMMA ReadsKeepsHandler ==
  ASSUME TypeOK, NEW r \in Requests, HandlerInv(r), SecretScanReads(r)
  PROVE  HandlerInv(r)'
<1>1. /\ pc[r] = "secretscan" /\ pc'[r] = "decide" /\ active # NoPolicy /\ Raw(r) # {}
      /\ secretPol'[r] = active /\ active' = active
      /\ UNCHANGED <<requestVars, outcomeVars, pathPol, panicked>>
  BY DEF TypeOK, SecretScanReads, Goto
<1>2. metaBody[r] = body[r].atoms /\ Undecided(r) /\ PathDone(r)
  BY <1>1 DEF HandlerInv, Untouched, Undecided
<1>3. Undecided(r)' /\ PathDone(r)' /\ Raw(r)' = Raw(r) /\ (metaBody[r] = body[r].atoms)'
  BY <1>1, <1>2 DEF Undecided, PathDone, SentPaths, Raw, requestVars, outcomeVars
<1> QED
  BY <1>1, <1>3 DEF HandlerInv

(* The secret stage with a policy: it blocks, or masks all it reaches.     *)
LEMMA PolicyKeepsHandler ==
  ASSUME TypeOK,
         NEW r \in Requests, HandlerInv(r), SecretScanPolicy(r)
  PROVE  HandlerInv(r)'
<1> DEFINE p == secretPol[r]
<1>1. /\ pc[r] = "decide" /\ body' = body /\ active' = active /\ UNCHANGED historyVars
      /\ DecideUnder(r, p)
  BY DEF SecretScanPolicy
<1>2. /\ metaBody[r] = body[r].atoms /\ Undecided(r) /\ PathDone(r)
      /\ Raw(r) # {} /\ active # NoPolicy /\ p # NoPolicy
  BY <1>1 DEF HandlerInv, TypeOK
<1> HIDE DEF p
<1>3. Raw(r) = SentFindings(r) /\ SentFindings(r)' = SentFindings(r)
  BY <1>1, <1>2 DEF Raw, SentFindings
<1>4. CASE ChainBlocks(r)
  BY <1>1, <1>2, <1>4, BlockKeepsHandler
<1>5. CASE ~ChainBlocks(r)
  <2> DEFINE dec == IF Redacting(p, Raw(r)) = {} THEN "continue" ELSE "modify"
             M   == MaskedAtoms(p, Raw(r))
  <2>1. /\ Blocking(p, Raw(r)) = {}
        /\ ChainGoesOn(r, dec, "forward")
        /\ IF Redacting(p, Raw(r)) = {} THEN metaBody' = metaBody
           ELSE \E new \in RedactRequest(p, Raw(r), metaBody[r], body[r].twins) :
                   metaBody' = [metaBody EXCEPT ![r] = new]
    BY <1>1, <1>5 DEF DecideUnder
  <2>2. IF Redacting(p, Raw(r)) = {} THEN metaBody'[r] = body[r].atoms
        ELSE /\ metaBody'[r] \subseteq body[r].atoms
             /\ metaBody'[r] \cap M \subseteq body[r].twins
    <3>1. body[r].twins \subseteq body[r].atoms
      BY ModelAssumption DEF TypeOK
    <3> QED BY <1>2, <2>1, <3>1 DEF TypeOK, RedactRequest
  <2>3. /\ pc'[r] = "forward" /\ decision'[r] = dec /\ wire' = wire
        /\ pathPol' = pathPol /\ panicked' = panicked /\ secretPol'[r] = p
        /\ secretFound'[r] = Kept(p, Raw(r))
    BY <1>1, <1>2, <2>1
    DEF TypeOK, DecideUnder, ChainGoesOn, Goto, Undecided, historyVars, p
  <2>4. body[r].parse # "panic"
    BY <1>2 DEF Raw, Scan
  <2>5. SecretDecided(r)'
    <3> HIDE DEF dec, M
    <3>1. IF Redacting(secretPol'[r], SentFindings(r)') = {}
            THEN decision'[r] = "continue" /\ metaBody'[r] = body'[r].atoms
            ELSE /\ decision'[r] = "modify"
                 /\ metaBody'[r] \subseteq body'[r].atoms
                 /\ metaBody'[r] \cap MaskedAtoms(secretPol'[r], SentFindings(r)')
                       \subseteq body'[r].twins
      BY <1>1, <1>3, <2>2, <2>3 DEF dec, M
    <3>2. /\ body'[r].parse # "panic" /\ SentFindings(r)' # {} /\ active' # NoPolicy
          /\ secretPol'[r] # NoPolicy
          /\ Blocking(secretPol'[r], SentFindings(r)') = {}
          /\ secretFound'[r] = Kept(secretPol'[r], SentFindings(r)')
      BY <1>1, <1>2, <1>3, <2>1, <2>2, <2>3, <2>4
    <3> QED
      BY <3>1, <3>2 DEF SecretDecided, Blocking, Kept, MaskedAtoms, Redacting
  <2>6. PathDone(r)' /\ SecretDone(r)' /\ wire'[r] = NoBody
    BY <1>1, <1>2, <2>3, <2>5 DEF PathDone, SentPaths, SecretDone, Undecided
  <2> QED
    BY <2>3, <2>6 DEF HandlerInv
<1> QED BY <1>4, <1>5

(* Forwarding transmits what the stages left, or nothing.                  *)
LEMMA ForwardKeepsHandler ==
  ASSUME TypeOK, NEW r \in Requests, HandlerInv(r),
         \/ ResolveFails(r) \/ Send(r) \/ DoFails(r) \/ Respond(r) \/ StreamEnds(r)
  PROVE  HandlerInv(r)'
<1>1. /\ pc[r] \in {"forward", "wait", "stream"}
      /\ pc'[r] \in {"wait", "stream", "deferred"}
      /\ wire'[r] \in {wire[r], metaBody[r]}
      /\ pc'[r] \in {"wait", "stream"} => wire'[r] = metaBody[r]
  BY DEF TypeOK, ResolveFails, Send, DoFails, Respond, StreamEnds, Goto, HandlerInv,
         outcomeVars
<1>2. UNCHANGED <<active, requestVars, decision, historyVars>>
  BY DEF ResolveFails, Send, DoFails, Respond, StreamEnds, outcomeVars
<1>3. PathDone(r) /\ SecretDone(r) /\ wire[r] \in {NoBody, metaBody[r]}
  BY <1>1 DEF HandlerInv
<1>4. PathDone(r)' /\ SecretDone(r)' /\ metaBody' = metaBody
  BY <1>2, <1>3 DEF PathDone, SentPaths, SecretDone, SecretDecided, SentFindings,
                    requestVars, historyVars
<1> QED
  BY <1>1, <1>3, <1>4 DEF HandlerInv, Ended

(* The deferred function records what is in the handler's variables.       *)
LEMMA LogKeepsHandler ==
  ASSUME TypeOK, NEW r \in Requests, HandlerInv(r), Log(r) \/ LogPanics(r)
  PROVE  HandlerInv(r)'
<1>1. /\ pc[r] = "deferred" /\ pc'[r] = "done"
      /\ UNCHANGED <<active, requestVars, decision, status, wire, historyVars>>
  BY DEF TypeOK, Log, LogPanics, Goto, outcomeVars
<1>2. Ended(r)'
  BY <1>1 DEF HandlerInv, Ended, Untouched, Undecided, PathDone, SentPaths, SecretDone,
              SecretDecided, SentFindings, requestVars, historyVars
<1>3. panicked'[r] = {} => AuditRecord(r)' \in audit'[r]
  <2>1. AuditRecord(r)' = AuditRecord(r)
    BY <1>1 DEF AuditRecord, HasCtx, requestVars
  <2>2. CASE Log(r)
    BY <2>1, <2>2 DEF Log, TypeOK
  <2>3. CASE LogPanics(r)
    <3>1. metaBody[r] # NoBody /\ body[r].parse = "panic"
      BY <2>3 DEF LogPanics, HasCtx
    <3>2. "secretscan" \in panicked[r]
      BY <1>1, <3>1 DEF HandlerInv, Ended, SecretDone, SecretDecided
    <3> QED
      BY <1>1, <3>2 DEF historyVars
  <2> QED BY <2>2, <2>3
<1> QED
  BY <1>1, <1>2, <1>3 DEF HandlerInv

(* The invariant holds initially and every step preserves it.              *)
LEMMA Invariance == Spec => []Inv
<1>1. Init => Inv
  <2> SUFFICES ASSUME Init PROVE Inv
    OBVIOUS
  <2>1. TypeOK
    BY ModelAssumption DEF Init, TypeOK, PCs, Decisions, NoStatus
  <2>2. \A r \in Requests : HandlerInv(r)
    BY DEF Init, HandlerInv, Untouched, Undecided
  <2> QED
    BY <2>1, <2>2 DEF Inv, Init
<1>2. Inv /\ [Next]_vars => Inv'
  <2> SUFFICES ASSUME Inv, [Next]_vars PROVE Inv'
    OBVIOUS
  <2>0. TypeOK
    BY DEF Inv
  <2>1. ASSUME NEW r \in Requests, Step(r) PROVE Inv'
    <3>1. TypeOK'
      BY <2>0, <2>1, StepType
    <3>2. active' = active
      BY <2>1 DEF Step, Own, Peer, Accept, ReadBody, ReadBodyFails, PathScan,
         PathScanPanics, SecretScanClean, SecretScanFlag, SecretScanReads, SecretScanPolicy,
         SecretScanPanics, RedactPanics, ResolveFails, Send, DoFails, Respond,
         StreamEnds, Log, LogPanics
    <3>3. HandlerInv(r)'
      <4>1. HandlerInv(r)
        BY DEF Inv
      <4> QED
        BY <2>0, <2>1, <4>1, ReadKeepsHandler, PathScanKeepsHandler,
           PanicKeepsHandler, FlagKeepsHandler, ReadsKeepsHandler, PolicyKeepsHandler,
           ForwardKeepsHandler, LogKeepsHandler DEF Step, Own, Peer
    <3>4. \A s \in Requests \ {r} : HandlerInv(s)'
      BY <2>0, <2>1, <3>2, OthersUntouched, FrameHandler DEF Inv
    <3> QED
      BY <2>0, <3>1, <3>2, <3>3, <3>4 DEF Inv
  <2>2. ASSUME NEW p \in Policies, Reload(p) PROVE Inv'
    <3>1. TypeOK' /\ (active' = NoPolicy <=> active = NoPolicy)
      BY <2>0, <2>2, ModelAssumption
         DEF Reload, TypeOK, requestVars, outcomeVars, historyVars
    <3>2. \A s \in Requests : SameHandler(s)
      BY <2>2 DEF Reload, SameHandler, requestVars, outcomeVars, historyVars
    <3> QED
      BY <3>1, <3>2, FrameHandler DEF Inv
  <2>3. CASE UNCHANGED vars
    <3>1. TypeOK' /\ active' = active
      BY <2>0, <2>3 DEF vars, TypeOK
    <3>2. \A s \in Requests : SameHandler(s)
      BY <2>3 DEF vars, SameHandler
    <3> QED
      BY <2>0, <3>1, <3>2, FrameHandler DEF Inv
  <2> QED
    BY <2>1, <2>2, <2>3 DEF Next, Step
<1> QED
  BY <1>1, <1>2, PTL DEF Spec

-----------------------------------------------------------------------------
(* What has reached the vendor passed both stages.                         *)
LEMMA ForwardedPassed ==
  ASSUME Inv, NEW r \in Requests, wire[r] # NoBody
  PROVE  wire[r] = metaBody[r] /\ PathDone(r) /\ SecretDone(r)
<1>1. HandlerInv(r) /\ pc[r] \in PCs
  BY DEF Inv, TypeOK
<1> QED
  BY <1>1 DEF HandlerInv, Untouched, Undecided, Ended, PCs

(* No byte of a request that a stage's policy (or --block-on-detect)       *)
(* blocks reaches the vendor, however requests and reloads interleave.     *)
THEOREM BlockEnforcedAlways == Spec => []BlockEnforced
<1>1. Inv => BlockEnforced
  <2> SUFFICES ASSUME Inv, NEW r \in Requests, wire[r] # NoBody
               PROVE  /\ PathDone(r)
                      /\ "secretscan" \notin panicked[r] =>
                           IF active = NoPolicy
                             THEN BlockOnDetect =>
                                     \A f \in SentFindings(r) : f.severity # "high"
                             ELSE SentFindings(r) # {} =>
                                     /\ secretPol[r] # NoPolicy
                                     /\ Blocking(secretPol[r], SentFindings(r)) = {}
    BY DEF BlockEnforced, PathDone
  <2> QED
    BY ForwardedPassed DEF SecretDone, SecretDecided
<1> QED
  BY <1>1, Invariance, PTL

(* Of a secret that the secret stage's policy redacts, the vendor receives *)
(* at most the copies out of the redactor's reach; and it receives the     *)
(* client's body as it is when nothing is redacted.                        *)
THEOREM RedactionEnforcedAlways == Spec => []RedactionEnforced
<1>1. Inv => RedactionEnforced
  <2> SUFFICES ASSUME Inv, NEW r \in Requests, wire[r] # NoBody,
                      "secretscan" \notin panicked[r]
               PROVE  IF secretPol[r] = NoPolicy \/ Redacting(secretPol[r], SentFindings(r)) = {}
                        THEN wire[r] = body[r].atoms
                        ELSE /\ wire[r] \cap MaskedAtoms(secretPol[r], SentFindings(r))
                                   \subseteq body[r].twins
                             /\ wire[r] \subseteq body[r].atoms
    BY DEF RedactionEnforced
  <2> QED
    BY ForwardedPassed DEF SecretDone, SecretDecided
<1> QED
  BY <1>1, Invariance, PTL

(* The audit record of a request that ended without a panic states what    *)
(* was decided and names every finding that left, unless a rule allows it. *)
THEOREM AuditTellsTheTruthAlways == Spec => []AuditTellsTheTruth
<1>1. Inv => AuditTellsTheTruth
  <2> SUFFICES ASSUME Inv, NEW r \in Requests, pc[r] = "done", panicked[r] = {}
               PROVE  \E a \in audit[r] :
            /\ a.decision = "block" => wire[r] = NoBody /\ a.status = 403
            /\ a.decision = "modify" =>
                  metaBody[r] # body[r].atoms \/ body[r].twins # {}
            /\ a.decision = "continue" /\ wire[r] # NoBody => wire[r] = body[r].atoms
            /\ wire[r] # NoBody =>
                  \A f \in SentFindings(r) :
                      f.atoms \subseteq wire[r] =>
                          \/ \E e \in a.secrets : e.finding = f
                          \/ /\ secretPol[r] # NoPolicy
                             /\ Decide(secretPol[r], f).action = "allow"
    BY DEF AuditTellsTheTruth
  <2> DEFINE a == AuditRecord(r)
  <2>1. a \in audit[r] /\ Ended(r)
    BY DEF Inv, HandlerInv
  <2>2. /\ a.decision = decision[r] /\ a.status = status[r]
        /\ a.secrets = secretFound[r]
    BY DEF AuditRecord
  <2>3. decision[r] = "block" => wire[r] = NoBody /\ status[r] = 403
    BY <2>1 DEF Ended, Untouched, Undecided, SecretDone, SecretDecided
  <2>4. decision[r] = "modify" => metaBody[r] # body[r].atoms \/ body[r].twins # {}
    <3> SUFFICES ASSUME decision[r] = "modify", body[r].twins = {}
                 PROVE  metaBody[r] # body[r].atoms
      OBVIOUS
    <3>1. /\ Redacting(secretPol[r], SentFindings(r)) # {}
          /\ metaBody[r] \cap MaskedAtoms(secretPol[r], SentFindings(r)) = {}
      BY <2>1 DEF Ended, Untouched, Undecided, SecretDone, SecretDecided
    <3>2. PICK f \in SentFindings(r) : f \in Redacting(secretPol[r], SentFindings(r))
      BY <3>1 DEF Redacting
    <3>3. f.atoms # {} /\ f.atoms \subseteq body[r].atoms
      BY ModelAssumption DEF SentFindings, Scan
    <3>4. f.atoms \subseteq MaskedAtoms(secretPol[r], SentFindings(r))
      BY <3>2 DEF MaskedAtoms
    <3> QED
      BY <3>1, <3>3, <3>4
  <2>5. decision[r] = "continue" /\ wire[r] # NoBody => wire[r] = body[r].atoms
    <3> SUFFICES ASSUME decision[r] = "continue", wire[r] # NoBody
                 PROVE  wire[r] = body[r].atoms
      OBVIOUS
    <3> QED
      BY ForwardedPassed DEF SecretDone, SecretDecided
  <2>6. ASSUME wire[r] # NoBody, NEW f \in SentFindings(r)
        PROVE  \/ \E e \in secretFound[r] : e.finding = f
               \/ /\ secretPol[r] # NoPolicy
                  /\ Decide(secretPol[r], f).action = "allow"
    <3>1. SecretDecided(r) /\ SentFindings(r) # {}
      BY <2>6, ForwardedPassed DEF SecretDone
    <3>2. CASE active = NoPolicy
      <4> DEFINE e == [finding |-> f, rule |-> NoName]
      <4>1. secretFound[r] = {[finding |-> g, rule |-> NoName] : g \in SentFindings(r)}
        BY <3>1, <3>2 DEF SecretDecided
      <4>2. e \in secretFound[r] /\ e.finding = f
        BY <4>1
      <4> QED BY <4>2
    <3>3. CASE active # NoPolicy /\ Decide(secretPol[r], f).action # "allow"
      <4> DEFINE e == [finding |-> f, rule |-> Decide(secretPol[r], f).rule]
      <4>1. secretFound[r] = Kept(secretPol[r], SentFindings(r))
        BY <3>1, <3>3 DEF SecretDecided
      <4>2. e \in secretFound[r] /\ e.finding = f
        BY <3>3, <4>1 DEF Kept
      <4> QED BY <4>2
    <3>4. CASE active # NoPolicy /\ Decide(secretPol[r], f).action = "allow"
      BY <3>1, <3>4 DEF SecretDecided
    <3> QED BY <3>2, <3>3, <3>4
  <2> HIDE DEF a
  <2> QED
    BY <2>1, <2>2, <2>3, <2>4, <2>5, <2>6
<1> QED
  BY <1>1, Invariance, PTL
=============================================================================
