---------------------------- MODULE RedactProofs ----------------------------
(***************************************************************************)
(* Proofs about Redact, for all bodies, findings and mask lengths: what is *)
(* flagged is forwarded only in a twin, separate findings are masked       *)
(* exactly, and only a request that cannot be redacted safely is blocked.  *)
(*                                                                         *)
(* The argument is about the text of applySpans while it is rewritten from *)
(* right to left.  Clean relates every byte of it to the byte of the       *)
(* content it comes from; this holds however the findings overlap.  Exact  *)
(* says more of findings that do not: the positions that are left map, in  *)
(* order, onto those of the reference.                                     *)
(***************************************************************************)
EXTENDS Redact, FiniteSetTheorems, SequenceTheorems, TLAPS

Bytes == Nat

\* What t, rewritten at the findings D of content c, still holds of c: every
\* byte is the mask's or one of c that no finding of D covers; it has moved
\* to the left, and only behind the first finding of D.
Clean(c, t, D) ==
    \A j \in DOMAIN t :
        \/ t[j] = MaskByte
        \/ \E i \in DOMAIN c :
              /\ t[j] = c[i]
              /\ j <= i
              /\ (\A f \in D : j <= f.offset) => i = j
              /\ \A f \in D : i \notin Positions(f)

\* The position in c that each position of t comes from.
Origin(c, t, D, h) ==
    /\ h \in [DOMAIN t -> Left(c, D)]
    /\ \A i \in Left(c, D) : \E j \in DOMAIN t : h[j] = i
    /\ \A i, j \in DOMAIN t : i < j => h[i] < h[j]
    /\ \A j \in DOMAIN t : t[j] = Masks(c, D, h[j])
    /\ \A i \in DOMAIN c : (\A f \in D : i <= f.offset) => i \in DOMAIN t /\ h[i] = i

Exact(c, t, D) == \E h : Origin(c, t, D, h)

(* The text that a splice returns, byte by byte.                           *)
LEMMA SpliceBytes ==
  ASSUME NEW t \in Seq(Bytes), NEW f, f.offset \in Nat, f.length \in Nat,
         f.offset + f.length <= Len(t)
  PROVE  /\ Splice(t, f) \in Seq(Bytes)
         /\ Len(Splice(t, f)) = Len(t) - f.length + MaskLen
         /\ \A j \in 1 .. Len(t) - f.length + MaskLen :
               /\ j <= f.offset => Splice(t, f)[j] = t[j]
               /\ j > f.offset /\ j <= f.offset + MaskLen => Splice(t, f)[j] = MaskByte
               /\ j > f.offset + MaskLen => Splice(t, f)[j] = t[j - MaskLen + f.length]
<1> DEFINE o == f.offset
           n == f.length
           a == SubSeq(t, 1, o)
           b == SubSeq(t, o + n + 1, Len(t))
<1>1. MaskLen \in Nat /\ MaskByte \in Nat /\ o \in Nat /\ n \in Nat /\ Len(t) \in Nat
  BY RedactAssumption DEF MaskByte
<1>2. redactMask \in Seq(Bytes) /\ Len(redactMask) = MaskLen
      /\ \A j \in 1..MaskLen : redactMask[j] = MaskByte
  BY <1>1 DEF redactMask, Bytes
<1>3. a \in Seq(Bytes) /\ Len(a) = o /\ \A j \in 1..o : a[j] = t[j]
  BY <1>1, SubSeqProperties
<1>4. b \in Seq(Bytes) /\ Len(b) = Len(t) - o - n
      /\ \A j \in 1 .. Len(t) - o - n : b[j] = t[o + n + j]
  BY <1>1, SubSeqProperties
<1> DEFINE s == a \o redactMask
<1> HIDE DEF a, b
<1>5. /\ s \in Seq(Bytes) /\ Len(s) = Len(a) + Len(redactMask)
      /\ \A j \in 1 .. Len(a) + Len(redactMask) :
            s[j] = IF j <= Len(a) THEN a[j] ELSE redactMask[j - Len(a)]
  <2> HIDE DEF redactMask
  <2> QED BY <1>2, <1>3, ConcatProperties
<1> HIDE DEF s
<1>6. /\ s \o b \in Seq(Bytes) /\ Len(s \o b) = Len(s) + Len(b)
      /\ \A j \in 1 .. Len(s) + Len(b) :
            (s \o b)[j] = IF j <= Len(s) THEN s[j] ELSE b[j - Len(s)]
  <2>1. s \in Seq(Bytes) /\ b \in Seq(Bytes)
    BY <1>4, <1>5
  <2> QED BY <2>1, ConcatProperties
<1>7. Splice(t, f) = s \o b
  BY DEF Splice, s, a, b
<1>8. Len(s) = o + MaskLen /\ Len(s \o b) = Len(t) - n + MaskLen
  BY <1>1, <1>2, <1>3, <1>4, <1>5, <1>6
<1>9. ASSUME NEW j \in 1 .. Len(t) - n + MaskLen
      PROVE  /\ j <= o => (s \o b)[j] = t[j]
             /\ j > o /\ j <= o + MaskLen => (s \o b)[j] = MaskByte
             /\ j > o + MaskLen => (s \o b)[j] = t[j - MaskLen + n]
  <2>0. (s \o b)[j] = IF j <= o + MaskLen THEN s[j] ELSE b[j - (o + MaskLen)]
    BY <1>6, <1>8
  <2>1. CASE j <= o
    <3>1. j \in 1..o /\ j \in 1 .. Len(a) + Len(redactMask) /\ j <= Len(a)
      BY <1>1, <1>2, <1>3, <2>1
    <3>2. s[j] = t[j]
      BY <1>3, <1>5, <3>1
    <3> QED BY <1>1, <2>0, <2>1, <3>2
  <2>2. CASE j > o /\ j <= o + MaskLen
    <3>1. j - Len(a) \in 1..MaskLen /\ j \in 1 .. Len(a) + Len(redactMask) /\ ~(j <= Len(a))
      BY <1>1, <1>2, <1>3, <2>2
    <3>2. s[j] = MaskByte
      BY <1>2, <1>5, <3>1
    <3> QED BY <1>1, <2>0, <2>2, <3>2
  <2>3. CASE j > o + MaskLen
    <3>1. j - (o + MaskLen) \in 1 .. Len(t) - o - n
          /\ o + n + (j - (o + MaskLen)) = j - MaskLen + n
      BY <1>1, <2>3
    <3>2. b[j - (o + MaskLen)] = t[j - MaskLen + n]
      BY <1>4, <3>1
    <3> QED BY <1>1, <2>0, <2>3, <3>2
  <2> QED BY <1>1, <2>1, <2>2, <2>3
<1> QED
  BY <1>6, <1>7, <1>8, <1>9

(* Masking the next finding to the left keeps the text clean, of that      *)
(* finding too, whether or not it overlaps those masked before.            *)
LEMMA SpliceClean ==
  ASSUME NEW c \in Seq(Bytes), NEW t \in Seq(Bytes), NEW D \in SUBSET Findings(c),
         NEW f \in Findings(c), \A g \in D : f.offset <= g.offset,
         ~OutOfRange(t, f), Clean(c, t, D)
  PROVE  Clean(c, Splice(t, f), D \cup {f})
<1> DEFINE o == f.offset
           n == f.length
           s == Splice(t, f)
<1>1. MaskLen \in Nat /\ MaskLen >= 1 /\ o \in Nat /\ n \in Nat /\ n >= MaskLen
      /\ Len(t) \in Nat /\ Len(c) \in Nat /\ o + n <= Len(t) /\ MaskByte = 0
  BY RedactAssumption DEF Findings, OutOfRange, MaskByte
<1>2. DOMAIN t = 1..Len(t) /\ DOMAIN c = 1..Len(c)
  OBVIOUS
<1>3. /\ s \in Seq(Bytes) /\ Len(s) = Len(t) - n + MaskLen
      /\ \A j \in 1 .. Len(t) - n + MaskLen :
            /\ j <= o => s[j] = t[j]
            /\ j > o /\ j <= o + MaskLen => s[j] = MaskByte
            /\ j > o + MaskLen => s[j] = t[j - MaskLen + n]
  BY <1>1, SpliceBytes
<1> HIDE DEF s
<1>4. DOMAIN s = 1 .. Len(t) - n + MaskLen
  BY <1>3
<1>5. \A g \in D : g.offset \in Nat
  BY DEF Findings
<1> SUFFICES ASSUME NEW j \in DOMAIN s, s[j] # MaskByte
             PROVE  \E i \in DOMAIN c :
                       /\ s[j] = c[i]
                       /\ j <= i
                       /\ (\A g \in D \cup {f} : j <= g.offset) => i = j
                       /\ \A g \in D \cup {f} : i \notin Positions(g)
  BY DEF Clean, s
<1>6. CASE j <= o
  <2>1. j \in DOMAIN t /\ s[j] = t[j]
    BY <1>1, <1>2, <1>3, <1>4, <1>6
  <2>2. \A g \in D : j <= g.offset
    BY <1>1, <1>4, <1>5, <1>6
  <2>3. PICK i \in DOMAIN c : t[j] = c[i] /\ i = j /\ \A g \in D : i \notin Positions(g)
    BY <2>1, <2>2 DEF Clean
  <2>4. i \notin Positions(f)
    BY <1>1, <1>2, <1>6, <2>3 DEF Positions
  <2>5. j <= i
    BY <1>4, <2>3
  <2> QED BY <2>1, <2>3, <2>4, <2>5
<1>7. CASE j > o
  <2> DEFINE p == j - MaskLen + n
  <2>1. j > o + MaskLen
    BY <1>1, <1>3, <1>4, <1>7
  <2>2. p \in DOMAIN t /\ p >= j /\ p > o + n
    BY <1>1, <1>2, <1>4, <2>1
  <2>7. s[j] = t[p]
    BY <1>1, <1>3, <1>4, <2>1
  <2> HIDE DEF p
  <2>3. PICK i \in DOMAIN c : t[p] = c[i] /\ p <= i /\ \A g \in D : i \notin Positions(g)
    BY <2>2, <2>7 DEF Clean
  <2>4. i \notin Positions(f)
    BY <1>1, <1>2, <2>2, <2>3 DEF Positions
  <2>5. j <= i
    BY <1>2, <1>4, <2>2, <2>3
  <2>6. ~(j <= f.offset)
    BY <1>1, <1>4, <1>7
  <2> QED BY <2>2, <2>3, <2>4, <2>5, <2>6, <2>7
<1> QED
  BY <1>1, <1>4, <1>6, <1>7

(* Findings that do not overlap are wholly to the left of one another, and *)
(* a finding to the left of those masked is still where it was.            *)
LEMMA SeparateInRange ==
  ASSUME NEW c \in Seq(Bytes), NEW t \in Seq(Bytes), NEW D \in SUBSET Findings(c),
         NEW f \in Findings(c), \A g \in D : f.offset <= g.offset,
         \A g \in D : Positions(f) \cap Positions(g) = {},
         Exact(c, t, D)
  PROVE  /\ \A g \in D : f.offset + f.length <= g.offset
         /\ ~OutOfRange(t, f)
<1>1. MaskLen \in Nat /\ MaskLen >= 1 /\ Len(c) \in Nat /\ DOMAIN c = 1..Len(c)
      /\ Len(t) \in Nat /\ DOMAIN t = 1..Len(t)
  BY RedactAssumption
<1>2. \A g \in D \cup {f} : g.offset \in Nat /\ g.length \in Nat /\ g.length >= 1
         /\ g.offset + g.length <= Len(c)
  BY <1>1 DEF Findings
<1>3. ASSUME NEW g \in D
      PROVE  f.offset + f.length <= g.offset
  <2>1. g.offset + 1 \in Positions(g)
    BY <1>2 DEF Positions
  <2>2. g.offset + 1 \notin Positions(f)
    BY <2>1
  <2> QED BY <1>2, <2>2 DEF Positions
<1>4. f.offset + f.length \in DOMAIN c
  BY <1>1, <1>2
<1>5. f.offset + f.length \in DOMAIN t
  BY <1>3, <1>4 DEF Exact, Origin
<1> QED
  BY <1>1, <1>2, <1>3, <1>5 DEF OutOfRange

(* Masking a finding to the left of the others, which it does not overlap, *)
(* keeps the positions of the text those of the reference.                 *)
LEMMA SpliceExact ==
  ASSUME NEW c \in Seq(Bytes), NEW t \in Seq(Bytes), NEW D \in SUBSET Findings(c),
         NEW f \in Findings(c), \A g \in D : f.offset <= g.offset,
         \A g \in D : Positions(f) \cap Positions(g) = {},
         Exact(c, t, D)
  PROVE  Exact(c, Splice(t, f), D \cup {f})
<1> DEFINE o == f.offset
           n == f.length
           s == Splice(t, f)
           E == D \cup {f}
<1>1. MaskLen \in Nat /\ MaskLen >= 1 /\ o \in Nat /\ n \in Nat /\ n >= MaskLen
      /\ Len(t) \in Nat /\ Len(c) \in Nat /\ o + n <= Len(c)
  BY RedactAssumption DEF Findings
<1>2. DOMAIN t = 1..Len(t) /\ DOMAIN c = 1..Len(c)
  OBVIOUS
<1>3. (\A g \in D : o + n <= g.offset) /\ o + n <= Len(t)
  BY <1>1, SeparateInRange DEF OutOfRange
<1>4. \A g \in D : g.offset \in Nat
  BY DEF Findings
<1>5. /\ s \in Seq(Bytes) /\ Len(s) = Len(t) - n + MaskLen
      /\ \A j \in 1 .. Len(t) - n + MaskLen :
            /\ j <= o => s[j] = t[j]
            /\ j > o /\ j <= o + MaskLen => s[j] = MaskByte
            /\ j > o + MaskLen => s[j] = t[j - MaskLen + n]
  BY <1>1, <1>3, SpliceBytes
<1> HIDE DEF s
<1>6. DOMAIN s = 1 .. Len(t) - n + MaskLen
  BY <1>5
<1>7. PICK h : Origin(c, t, D, h)
  BY DEF Exact
<1>8. \A j \in DOMAIN t : h[j] \in Left(c, D) /\ h[j] \in 1..Len(c)
  BY <1>2, <1>7 DEF Origin, Left
\* Up to the end of the finding, nothing has moved.
<1>9. ASSUME NEW j \in 1 .. o + n
      PROVE  j \in DOMAIN t /\ h[j] = j /\ j \in Left(c, D)
  <2>1. j \in DOMAIN c /\ \A g \in D : j <= g.offset
    BY <1>1, <1>2, <1>3, <1>4
  <2>2. j \in DOMAIN t /\ h[j] = j
    BY <1>7, <2>1 DEF Origin
  <2> QED BY <1>8, <2>2
\* Behind it, everything comes from behind it.
<1>10. ASSUME NEW p \in DOMAIN t, p > o + n
       PROVE  h[p] > o + n
  <2>1. o + n \in DOMAIN t /\ h[o + n] = o + n
    BY <1>1, <1>9
  <2>2. h[o + n] < h[p]
    BY <1>7, <1>10, <2>1 DEF Origin
  <2> QED BY <2>1, <2>2
<1>11. \A i : i \in Left(c, E) <=> i \in Left(c, D) /\ i \notin o + MaskLen + 1 .. o + n
  BY DEF Left
<1>12. \A i : i \in Positions(f) <=> i \in o + 1 .. o + n
  BY DEF Positions
<1> DEFINE w == [j \in DOMAIN s |-> IF j <= o + MaskLen THEN j ELSE h[j - MaskLen + n]]
<1>13. \A j \in DOMAIN s : j <= o + MaskLen => w[j] = j
  OBVIOUS
<1>14. ASSUME NEW j \in DOMAIN s, j > o + MaskLen
       PROVE  /\ j - MaskLen + n \in DOMAIN t /\ j - MaskLen + n > o + n
              /\ w[j] = h[j - MaskLen + n] /\ w[j] > o + n
  <2>1. j - MaskLen + n \in DOMAIN t /\ j - MaskLen + n > o + n
    BY <1>1, <1>2, <1>6, <1>14
  <2>2. w[j] = h[j - MaskLen + n]
    BY <1>1, <1>6, <1>14
  <2> HIDE DEF w
  <2>3. h[j - MaskLen + n] > o + n
    <3> DEFINE p == j - MaskLen + n
    <3>1. p \in DOMAIN t /\ p > o + n
      BY <2>1
    <3> HIDE DEF p
    <3>2. h[p] > o + n
      BY <1>10, <3>1
    <3> QED BY <3>2 DEF p
  <2> QED BY <2>1, <2>2, <2>3
<1>15. w = [j \in DOMAIN s |-> w[j]]
  OBVIOUS
<1> HIDE DEF w, E, o, n
<1>16. \A j \in DOMAIN s : w[j] \in Left(c, E)
  <2> SUFFICES ASSUME NEW j \in DOMAIN s PROVE w[j] \in Left(c, E)
    OBVIOUS
  <2>1. CASE j <= o + MaskLen
    <3>1. j \in 1 .. o + n /\ j \notin o + MaskLen + 1 .. o + n
      BY <1>1, <1>6, <2>1
    <3> QED BY <1>9, <1>11, <1>13, <2>1, <3>1
  <2>2. CASE j > o + MaskLen
    <3>1. w[j] \in Left(c, D) /\ w[j] > o + n /\ w[j] \in Int
      BY <1>8, <1>14, <2>2
    <3>2. w[j] \notin o + MaskLen + 1 .. o + n
      BY <1>1, <3>1
    <3> QED BY <1>11, <3>1, <3>2
  <2> QED BY <1>1, <1>6, <2>1, <2>2
<1>17. ASSUME NEW i \in Left(c, E)
       PROVE  \E j \in DOMAIN s : w[j] = i
  <2>1. i \in Left(c, D) /\ i \notin o + MaskLen + 1 .. o + n /\ i \in 1..Len(c)
    BY <1>2, <1>11 DEF Left
  <2>2. CASE i <= o + MaskLen
    <3>1. i \in DOMAIN s
      BY <1>1, <1>3, <1>6, <2>1, <2>2
    <3> QED BY <1>13, <2>2, <3>1
  <2>3. CASE i > o + MaskLen
    <3>1. i > o + n
      BY <1>1, <2>1, <2>3
    <3>2. PICK p \in DOMAIN t : h[p] = i
      BY <1>7, <2>1 DEF Origin
    <3>3. p > o + n
      <4> SUFFICES ASSUME p <= o + n PROVE FALSE
        BY <1>1, <1>2
      <4>1. p \in 1 .. o + n
        BY <1>1, <1>2
      <4>2. h[p] = p
        BY <1>9, <4>1
      <4> QED BY <1>1, <1>2, <3>1, <3>2, <4>2
    <3> DEFINE j == p - n + MaskLen
    <3>4. j \in DOMAIN s /\ j > o + MaskLen /\ j - MaskLen + n = p
      BY <1>1, <1>2, <1>6, <3>3
    <3> HIDE DEF j
    <3>5. w[j] = h[p]
      BY <1>14, <3>4
    <3> QED BY <3>2, <3>4, <3>5
  <2> QED BY <1>1, <2>1, <2>2, <2>3
<1>18. ASSUME NEW i \in DOMAIN s, NEW j \in DOMAIN s, i < j
       PROVE  w[i] < w[j]
  <2>1. CASE j <= o + MaskLen
    <3>1. i <= o + MaskLen
      BY <1>1, <1>6, <1>18, <2>1
    <3> QED BY <1>13, <1>18, <2>1, <3>1
  <2>2. CASE i <= o + MaskLen /\ j > o + MaskLen
    <3>1. w[i] = i /\ w[j] > o + n /\ i <= o + n
      BY <1>1, <1>6, <1>13, <1>14, <2>2
    <3>2. w[j] \in Int
      BY <1>8, <1>14, <2>2
    <3> QED BY <1>1, <1>6, <3>1, <3>2
  <2>3. CASE i > o + MaskLen
    <3> DEFINE p == i - MaskLen + n
               q == j - MaskLen + n
    <3>1. j > o + MaskLen
      BY <1>1, <1>6, <1>18, <2>3
    <3>2. p \in DOMAIN t /\ q \in DOMAIN t /\ w[i] = h[p] /\ w[j] = h[q]
      BY <1>14, <2>3, <3>1
    <3>3. p < q
      BY <1>1, <1>6, <1>18
    <3> HIDE DEF p, q
    <3> QED BY <1>7, <3>2, <3>3 DEF Origin
  <2> QED BY <1>1, <1>6, <2>1, <2>2, <2>3
<1>19. ASSUME NEW j \in DOMAIN s
       PROVE  s[j] = Masks(c, E, w[j])
  <2>1. CASE j <= o
    <3>1. j \in 1 .. o + n /\ j \in 1 .. Len(t) - n + MaskLen /\ j <= o + MaskLen
          /\ j \notin o + 1 .. o + n
      BY <1>1, <1>6, <2>1
    <3>2. s[j] = t[j] /\ w[j] = j /\ j \in DOMAIN t /\ h[j] = j
      BY <1>5, <1>9, <1>13, <2>1, <3>1
    <3>3. t[j] = Masks(c, D, j)
      BY <1>7, <3>2 DEF Origin
    <3>4. j \notin Positions(f)
      BY <1>12, <3>1
    <3> QED BY <3>2, <3>3, <3>4 DEF Masks, E
  <2>2. CASE j > o /\ j <= o + MaskLen
    <3>1. j \in o + 1 .. o + n /\ s[j] = MaskByte
      BY <1>1, <1>5, <1>6, <2>2
    <3>2. j \in Positions(f) /\ w[j] = j
      BY <1>12, <1>13, <2>2, <3>1
    <3> QED BY <3>1, <3>2 DEF Masks, E
  <2>3. CASE j > o + MaskLen
    <3> DEFINE p == j - MaskLen + n
    <3>1. p \in DOMAIN t /\ w[j] = h[p] /\ w[j] > o + n
      BY <1>14, <2>3
    <3>2. s[j] = t[p]
      BY <1>5, <1>6, <2>3
    <3> HIDE DEF p
    <3>3. t[p] = Masks(c, D, w[j])
      BY <1>7, <3>1 DEF Origin
    <3>4. w[j] \in Int
      BY <1>8, <3>1
    <3>5. w[j] \notin Positions(f)
      BY <1>1, <1>12, <3>1, <3>4
    <3> QED BY <3>2, <3>3, <3>5 DEF Masks, E
  <2> QED BY <1>1, <1>6, <2>1, <2>2, <2>3
<1>20. ASSUME NEW i \in DOMAIN c, \A g \in E : i <= g.offset
       PROVE  i \in DOMAIN s /\ w[i] = i
  <2>1. i <= o /\ i \in 1..Len(c)
    BY <1>2, <1>20 DEF E, o
  <2>2. i \in DOMAIN s /\ i <= o + MaskLen
    BY <1>1, <1>3, <1>6, <2>1
  <2> QED BY <1>13, <2>2
<1>21. w \in [DOMAIN s -> Left(c, E)]
  BY <1>15, <1>16
<1>22. Origin(c, s, E, w)
  BY <1>17, <1>18, <1>19, <1>20, <1>21 DEF Origin
<1> QED
  BY <1>22 DEF Exact, s, E

(* Before the first span, the text is clean and exact.                     *)
LEMMA StartExact ==
  ASSUME NEW c \in Seq(Bytes)
  PROVE  Clean(c, c, {}) /\ Exact(c, c, {})
<1>1. Len(c) \in Nat /\ DOMAIN c = 1..Len(c)
  OBVIOUS
<1>2. Left(c, {}) = DOMAIN c
  BY DEF Left
<1>3. \A i : Masks(c, {}, i) = c[i]
  BY DEF Masks
<1>4. Clean(c, c, {})
  BY <1>1 DEF Clean
<1> DEFINE h == [i \in DOMAIN c |-> i]
<1>5. h \in [DOMAIN c -> Left(c, {})]
  BY <1>2
<1>6. \A i \in DOMAIN c : h[i] = i
  OBVIOUS
<1> HIDE DEF h
<1>7. Origin(c, c, {}, h)
  BY <1>1, <1>2, <1>3, <1>5, <1>6 DEF Origin
<1> QED
  BY <1>4, <1>7 DEF Exact

(* The image of 1..n under an increasing function has n elements.          *)
LEMMA IncreasingCardinality ==
  ASSUME NEW n \in Nat, NEW K \in SUBSET Nat, NEW h \in [1..n -> K],
         \A i, j \in 1..n : i < j => h[i] < h[j],
         \A i \in K : \E j \in 1..n : h[j] = i
  PROVE  Cardinality(K) = n /\ IsFiniteSet(K)
<1>1. ASSUME NEW i \in 1..n, NEW j \in 1..n, h[i] = h[j]
      PROVE  i = j
  <2>1. h[i] \in Nat /\ h[j] \in Nat
    OBVIOUS
  <2>2. ~(i < j) /\ ~(j < i)
    BY <1>1, <2>1
  <2> QED BY <2>2
<1>2. h \in Bijection(1..n, K)
  BY <1>1 DEF Bijection, Injection, Surjection, IsInjective
<1>3. ExistsBijection(1..n, K)
  BY <1>2 DEF ExistsBijection
<1>4. IsFiniteSet(1..n) /\ Cardinality(1..n) = n
  BY FS_Interval
<1> QED
  BY <1>3, <1>4, FS_Bijection

(* Nth inverts an increasing enumeration.                                  *)
LEMMA NthOfIncreasing ==
  ASSUME NEW n \in Nat, NEW K \in SUBSET Nat, NEW h \in [1..n -> K],
         \A i, j \in 1..n : i < j => h[i] < h[j],
         \A i \in K : \E j \in 1..n : h[j] = i,
         NEW m \in 1..n
  PROVE  Nth(K, m) = h[m]
<1> DEFINE Below(i) == {l \in K : l <= i}
<1>1. ASSUME NEW j \in 1..n
      PROVE  Cardinality(Below(h[j])) = j
  <2> DEFINE g == [i \in 1..j |-> h[i]]
             B == Below(h[j])
  <2>1. j \in Nat /\ \A i \in 1..j : i \in 1..n
    OBVIOUS
  <2>2. \A i \in 1..n : h[i] \in K /\ h[i] \in Nat
    OBVIOUS
  <2>3. \A i \in 1..j : h[i] \in B
    <3> SUFFICES ASSUME NEW i \in 1..j PROVE h[i] <= h[j]
      BY <2>1, <2>2
    <3>1. i < j \/ i = j
      BY <2>1
    <3> QED BY <2>1, <2>2, <3>1
  <2>4. ASSUME NEW i \in B
        PROVE  \E a \in 1..j : h[a] = i
    <3>1. PICK a \in 1..n : h[a] = i
      OBVIOUS
    <3>2. ~(j < a)
      BY <2>2, <3>1
    <3> QED BY <3>1, <3>2
  <2>5. B \in SUBSET Nat
    OBVIOUS
  <2> HIDE DEF B
  <2>6. g \in [1..j -> B] /\ \A i \in 1..j : g[i] = h[i]
    BY <2>3
  <2> HIDE DEF g
  <2>7. \A a, b \in 1..j : a < b => g[a] < g[b]
    BY <2>1, <2>6
  <2>8. \A i \in B : \E a \in 1..j : g[a] = i
    BY <2>4, <2>6
  <2>9. Cardinality(B) = j
    BY <2>1, <2>5, <2>6, <2>7, <2>8, IncreasingCardinality
  <2> QED BY <2>9 DEF B
<1>2. h[m] \in K /\ Cardinality(Below(h[m])) = m
  BY <1>1
<1>3. ASSUME NEW i \in K, Cardinality(Below(i)) = m
      PROVE  i = h[m]
  <2>1. PICK j \in 1..n : h[j] = i
    OBVIOUS
  <2>2. Cardinality(Below(i)) = j
    BY <1>1, <2>1
  <2> QED BY <1>3, <2>1, <2>2
<1> HIDE DEF Below
<1>4. Nth(K, m) = CHOOSE i \in K : Cardinality(Below(i)) = m
  BY DEF Nth, Below
<1>5. (CHOOSE i \in K : Cardinality(Below(i)) = m) = h[m]
  BY <1>2, <1>3
<1> QED
  BY <1>4, <1>5

(* When every finding is masked, what is exact is the reference.           *)
LEMMA ExactIsMasked ==
  ASSUME NEW c \in Seq(Bytes), NEW t \in Seq(Bytes), Exact(c, t, scan[c])
  PROVE  t = Masked(c)
<1> DEFINE K == Left(c, scan[c])
           n == Len(t)
<1>1. n \in Nat /\ DOMAIN t = 1..n /\ DOMAIN c = 1..Len(c) /\ Len(c) \in Nat
  OBVIOUS
<1>2. K \in SUBSET Nat
  BY <1>1 DEF Left
<1>3. PICK h : Origin(c, t, scan[c], h)
  BY DEF Exact
<1> HIDE DEF K, n
<1>4. /\ h \in [1..n -> K]
      /\ \A i, j \in 1..n : i < j => h[i] < h[j]
      /\ \A i \in K : \E j \in 1..n : h[j] = i
      /\ \A j \in 1..n : t[j] = Masks(c, scan[c], h[j])
  BY <1>1, <1>3 DEF Origin, K
<1>5. Cardinality(K) = n
  BY <1>1, <1>2, <1>4, IncreasingCardinality
<1>6. \A m \in 1..n : Nth(K, m) = h[m]
  BY <1>1, <1>2, <1>4, NthOfIncreasing
<1>7. Masked(c) = [j \in 1..n |-> Masks(c, scan[c], Nth(K, j))]
  BY <1>5 DEF Masked, K
<1>8. Masked(c) = [j \in 1..n |-> t[j]]
  BY <1>4, <1>6, <1>7
<1>9. t = [j \in 1..n |-> t[j]]
  BY <1>1
<1> QED
  BY <1>8, <1>9

-----------------------------------------------------------------------------
(* The inductive invariant.                                                *)

\* Every variable has its type, and findings lie in their contents.
TypeOK ==
    /\ endpoint \in Endpoints
    /\ body \in Seq(Leaves)
    /\ \A c \in Contents : scan[c] \subseteq Findings(c)
    /\ respelled \subseteq DOMAIN body
    /\ pc \in {"collect", "walk", "mask", "forwarded", "blocked"}
    /\ k \in 1 .. Len(body) + 1
    /\ text \in Seq(Bytes)
    /\ todo \subseteq reds
    /\ applied \subseteq Indices \X Contents
    /\ out \in Seq([index : Indices, kind : Kinds, content : Seq(Bytes)])
    /\ Len(out) = Len(body)

\* The redaction list holds what the scans of all segments found, or, while
\* it is being built, those of the segments before k.
Complete == \A x : x \in reds <=> \E j \in DOMAIN body : x \in Found(j)

Collected ==
    IF pc = "collect"
    THEN /\ \A x : x \in reds <=> \E j \in DOMAIN body : j < k /\ x \in Found(j)
         /\ out = body /\ applied = {}
    ELSE Complete

FindingsOf(S) == {x.finding : x \in S}

\* The findings of leaf j make one redaction, and do not overlap.
Separate(j) == OneSource(body[j]) /\ Disjoint(body[j].content)

Flagged(j) == Redactable(j) /\ Key(body[j]) \in Keys

\* A leaf whose redaction is applied.
LeafMasked(j) ==
    /\ Key(body[j]) \in applied
    /\ Clean(body[j].content, out[j].content, FindingsOf(SpansFor(Key(body[j]))))
    /\ Separate(j) => out[j].content = Masked(body[j].content)

\* A redaction whose text is in a leaf that the redactor reaches.
Reached(key) == \E i \in DOMAIN body : Redactable(i) /\ Key(body[i]) = key

\* RedactRequest: the leaves before k are dealt with, the others untouched.
Walking ==
    pc \in {"walk", "mask"} =>
        /\ reds # {}
        /\ applied \subseteq Keys
        /\ \A key \in applied : Reached(key)
        /\ \A j \in DOMAIN body :
              IF j < k /\ Flagged(j) THEN LeafMasked(j) ELSE out[j] = body[j]

\* applySpans: the spans done are to the right of those to do.
Masking ==
    pc = "mask" =>
        LET done == SpansFor(Key(body[k])) \ todo
        IN  /\ k \in DOMAIN body /\ Flagged(k)
            /\ todo \subseteq SpansFor(Key(body[k]))
            /\ \A x \in todo, y \in done : x.finding.offset <= y.finding.offset
            /\ Clean(body[k].content, text, FindingsOf(done))
            /\ Separate(k) => Exact(body[k].content, text, FindingsOf(done))

IInv ==
    /\ TypeOK
    /\ Collected
    /\ Walking
    /\ Masking
    /\ OnlyTwinsForwarded
    /\ ExactWhenSeparate
    /\ RedactsWhenItCan

(* The contents of a body are injective sequences of bytes, none the mask's. *)
LEMMA ContentType ==
  ASSUME TypeOK, NEW j \in DOMAIN body
  PROVE  /\ j \in 1..Len(body) /\ Len(body) \in Nat
         /\ body[j] \in Leaves
         /\ body[j].content \in Contents
         /\ body[j].content \in Seq(Bytes)
         /\ \A i \in DOMAIN body[j].content : body[j].content[i] # MaskByte
         /\ IsInjective(body[j].content)
<1>1. j \in 1..Len(body) /\ Len(body) \in Nat /\ body[j] \in Leaves
  BY DEF TypeOK
<1>2. body[j].content \in Contents
  BY <1>1 DEF Leaves
<1>3. body[j].content \in Seq(Nat \ {MaskByte}) /\ IsInjective(body[j].content)
  BY <1>2, RedactAssumption
<1> DEFINE c == body[j].content
<1>4. c \in [1..Len(c) -> Nat \ {MaskByte}] /\ Len(c) \in Nat
  BY <1>3
<1> HIDE DEF c
<1>5. c \in [1..Len(c) -> Bytes]
  BY <1>4 DEF Bytes
<1>6. c \in Seq(Bytes)
  BY <1>4, <1>5
<1>7. \A i \in DOMAIN c : c[i] # MaskByte
  BY <1>4
<1> QED
  BY <1>1, <1>2, <1>3, <1>6, <1>7 DEF c

(* What the redaction of a leaf's key consists of.                         *)
LEMMA SpansOfLeaf ==
  ASSUME TypeOK, Complete, NEW j \in DOMAIN body
  PROVE  LET c == body[j].content
             S == SpansFor(Key(body[j]))
         IN  /\ scan[c] \subseteq Findings(c)
             /\ FindingsOf(S) \subseteq scan[c]
             /\ Parsed(body[j]) => FindingsOf(S) = scan[c]
             /\ OneSource(body[j]) =>
                   /\ FindingsOf(S) = scan[c]
                   /\ \A x, y \in S : x # y => x.finding # y.finding
             /\ Key(body[j]) \in Keys <=> Sources(body[j]) # {} /\ scan[c] # {}
<1> DEFINE c == body[j].content
           S == SpansFor(Key(body[j]))
<1>1. \A x : x \in reds <=> \E i \in DOMAIN body : x \in Found(i)
  BY DEF Complete
<1>2. \A i \in DOMAIN body : Key(body[i]) = Key(body[j]) => body[i].content = c
  BY DEF Key
<1>3. \A i, x : x \in Found(i) <=>
         Parsed(body[i]) /\ \E f \in scan[body[i].content] : x = [segment |-> i, finding |-> f]
  BY DEF Found
<1>4. \A x : x \in S <=>
         \E i \in Sources(body[j]), f \in scan[c] : x = [segment |-> i, finding |-> f]
  <2>1. ASSUME NEW x \in S
        PROVE  \E i \in Sources(body[j]), f \in scan[c] : x = [segment |-> i, finding |-> f]
    <3>1. x \in reds /\ Key(body[x.segment]) = Key(body[j])
      BY DEF SpansFor
    <3>2. PICK i \in DOMAIN body : x \in Found(i)
      BY <1>1, <3>1
    <3>3. PICK f \in scan[body[i].content] : x = [segment |-> i, finding |-> f]
      BY <1>3, <3>2
    <3>4. Key(body[i]) = Key(body[j]) /\ Parsed(body[i])
      BY <1>3, <3>1, <3>2, <3>3
    <3>5. i \in Sources(body[j])
      BY <3>4 DEF Sources
    <3>6. f \in scan[c]
      BY <1>2, <3>4
    <3> QED BY <3>3, <3>5, <3>6
  <2>2. ASSUME NEW i \in Sources(body[j]), NEW f \in scan[c]
        PROVE  [segment |-> i, finding |-> f] \in S
    <3>1. i \in DOMAIN body /\ Parsed(body[i]) /\ Key(body[i]) = Key(body[j])
      BY DEF Sources
    <3>2. body[i].content = c
      BY <1>2, <3>1
    <3>3. [segment |-> i, finding |-> f] \in reds
      BY <1>1, <1>3, <3>1, <3>2
    <3> QED BY <3>1, <3>3 DEF SpansFor
  <2> QED BY <2>1, <2>2
<1>5. c \in Contents
  BY ContentType
<1>6. scan[c] \subseteq Findings(c)
  BY <1>5 DEF TypeOK
<1> HIDE DEF c, S
<1>7. FindingsOf(S) \subseteq scan[c]
  BY <1>4 DEF FindingsOf
<1>8. ASSUME NEW i \in Sources(body[j])
      PROVE  FindingsOf(S) = scan[c]
  <2>1. ASSUME NEW f \in scan[c]
        PROVE  f \in FindingsOf(S)
    <3>1. [segment |-> i, finding |-> f] \in S
      BY <1>4
    <3> QED BY <3>1 DEF FindingsOf
  <2> QED BY <1>7, <2>1
<1>9. Parsed(body[j]) => j \in Sources(body[j])
  BY DEF Sources
<1>10. ASSUME OneSource(body[j])
       PROVE  /\ FindingsOf(S) = scan[c]
              /\ \A x, y \in S : x # y => x.finding # y.finding
  <2>1. PICK i \in DOMAIN body : Sources(body[j]) = {i}
    BY <1>10 DEF OneSource
  <2>2. FindingsOf(S) = scan[c]
    BY <1>8, <2>1
  <2>3. ASSUME NEW x \in S, NEW y \in S, x.finding = y.finding
        PROVE  x = y
    <3>1. PICK f \in scan[c] : x = [segment |-> i, finding |-> f]
      BY <1>4, <2>1
    <3>2. PICK g \in scan[c] : y = [segment |-> i, finding |-> g]
      BY <1>4, <2>1
    <3>3. f = g
      BY <2>3, <3>1, <3>2
    <3> QED BY <3>1, <3>2, <3>3
  <2> QED BY <2>2, <2>3
<1>11. Key(body[j]) \in Keys <=> S # {}
  BY DEF Keys, SpansFor, S
<1>12. S # {} <=> Sources(body[j]) # {} /\ scan[c] # {}
  BY <1>4
<1> QED
  BY <1>6, <1>7, <1>8, <1>9, <1>10, <1>11, <1>12 DEF c, S

(* While the request and the redactions stay, so does all that is said of them. *)
LEMMA Fixed ==
  ASSUME request' = request
  PROVE  /\ endpoint' = endpoint /\ body' = body /\ scan' = scan /\ respelled' = respelled
         /\ \A l : /\ Parsed(l)' <=> Parsed(l)
                   /\ OneSource(l)' <=> OneSource(l)
                   /\ Sources(l)' = Sources(l)
                   /\ Key(l)' = Key(l)
         /\ \A j : /\ Redactable(j)' <=> Redactable(j)
                   /\ Separate(j)' <=> Separate(j)
                   /\ Found(j)' = Found(j)
         /\ \A key : Reached(key)' <=> Reached(key)
         /\ \A c : /\ Masked(c)' = Masked(c) /\ Covered(c)' = Covered(c)
                   /\ Disjoint(c)' <=> Disjoint(c)
         /\ reds' = reds =>
               /\ Keys' = Keys
               /\ \A key : SpansFor(key)' = SpansFor(key)
               /\ \A j : Flagged(j)' <=> Flagged(j)
<1>1. endpoint' = endpoint /\ body' = body /\ scan' = scan /\ respelled' = respelled
  BY DEF request
<1>2. \A j : Redactable(j)' <=> Redactable(j)
  BY <1>1 DEF Redactable
<1>3. \A l : Parsed(l)' <=> Parsed(l)
  BY <1>1 DEF Parsed
<1>4. \A l : Key(l)' = Key(l)
  BY DEF Key
<1>5. \A l : Sources(l)' = Sources(l)
  BY <1>1 DEF Sources, Parsed, Key
<1>6. \A l : OneSource(l)' <=> OneSource(l)
  BY <1>1, <1>5 DEF OneSource
<1>7. \A c : Disjoint(c)' <=> Disjoint(c)
  BY <1>1 DEF Disjoint
<1>8. \A j : Separate(j)' <=> Separate(j)
  BY <1>1, <1>6, <1>7 DEF Separate
<1>9. \A j : Found(j)' = Found(j)
  BY <1>1, <1>3 DEF Found
<1>10. \A c : Masked(c)' = Masked(c)
  BY <1>1 DEF Masked
<1>11. \A c : Covered(c)' = Covered(c)
  BY <1>1 DEF Covered
<1>12. ASSUME reds' = reds
       PROVE  /\ Keys' = Keys
              /\ \A key : SpansFor(key)' = SpansFor(key)
              /\ \A j : Flagged(j)' <=> Flagged(j)
  <2>1. Keys' = Keys
    BY <1>1, <1>12 DEF Keys, Key
  <2>2. \A key : SpansFor(key)' = SpansFor(key)
    BY <1>1, <1>12 DEF SpansFor, Key
  <2>3. \A j : Flagged(j)' <=> Flagged(j)
    BY <1>1, <1>2, <2>1 DEF Flagged, Key
  <2> QED BY <2>1, <2>2, <2>3
<1>13. \A key : Reached(key)' <=> Reached(key)
  BY <1>1, <1>2 DEF Reached, Key
<1> QED
  BY <1>1, <1>2, <1>3, <1>4, <1>5, <1>6, <1>7, <1>8, <1>9, <1>10, <1>11, <1>12, <1>13

LEMMA FixedLeaf ==
  ASSUME request' = request, NEW j
  PROVE  /\ Redactable(j)' <=> Redactable(j)
         /\ Twin(j)' <=> Twin(j)
         /\ Parsed(body[j])' <=> Parsed(body[j])
         /\ OneSource(body[j])' <=> OneSource(body[j])
         /\ Sources(body[j])' = Sources(body[j])
         /\ Key(body[j])' = Key(body[j])
         /\ Disjoint(body[j].content)' <=> Disjoint(body[j].content)
         /\ Masked(body[j].content)' = Masked(body[j].content)
         /\ Covered(body[j].content)' = Covered(body[j].content)
         /\ reds' = reds => SpansFor(Key(body[j]))' = SpansFor(Key(body[j]))
<1>1. endpoint' = endpoint /\ body' = body /\ scan' = scan /\ respelled' = respelled
  BY DEF request
<1>2. Redactable(j)' <=> Redactable(j)
  BY <1>1 DEF Redactable
<1>3. Parsed(body[j])' <=> Parsed(body[j])
  BY <1>1 DEF Parsed
<1>4. Key(body[j])' = Key(body[j])
  BY <1>1 DEF Key
<1>5. Sources(body[j])' = Sources(body[j])
  BY <1>1 DEF Sources, Parsed, Key
<1>6. OneSource(body[j])' <=> OneSource(body[j])
  BY <1>1, <1>5 DEF OneSource
<1>7. Disjoint(body[j].content)' <=> Disjoint(body[j].content)
  BY <1>1 DEF Disjoint
<1>8. Masked(body[j].content)' = Masked(body[j].content)
  BY <1>1 DEF Masked
<1>9. Covered(body[j].content)' = Covered(body[j].content)
  BY <1>1 DEF Covered
<1>10. reds' = reds => SpansFor(Key(body[j]))' = SpansFor(Key(body[j]))
  BY <1>1 DEF SpansFor, Key
<1>11. Twin(j)' <=> Twin(j)
  BY <1>1 DEF Twin, Redactable, Key
<1> QED
  BY <1>2, <1>3, <1>4, <1>5, <1>6, <1>7, <1>8, <1>9, <1>10, <1>11

LEMMA InitInvariant == Init => IInv
<1> SUFFICES ASSUME Init PROVE IInv
  OBVIOUS
<1>1. body \in Seq(Leaves) /\ pc = "collect" /\ k = 1 /\ reds = {} /\ out = body
      /\ applied = {} /\ text = <<>> /\ todo = {} /\ endpoint \in Endpoints
  BY RedactAssumption DEF Init
<1>2. Len(body) \in Nat /\ DOMAIN body = 1..Len(body)
  BY <1>1
<1>3. \A c \in Contents : scan[c] \subseteq Findings(c)
  BY DEF Init, Scans
<1>4. respelled \subseteq DOMAIN body
  BY DEF Init
<1>5. out \in Seq([index : Indices, kind : Kinds, content : Seq(Bytes)])
  <2> DEFINE R == [index : Indices, kind : Kinds, content : Seq(Bytes)]
  <2>1. ASSUME NEW l \in Leaves
        PROVE  l \in R
    <3>1. l.content \in Contents
      BY DEF Leaves
    <3>2. l.content \in Seq(Nat \ {MaskByte})
      BY <3>1, RedactAssumption
    <3>3. l.content \in Seq(Bytes)
      BY <3>2 DEF Bytes
    <3> QED BY <3>3 DEF Leaves
  <2> HIDE DEF R
  <2>2. \A j \in 1..Len(body) : body[j] \in R
    BY <1>1, <2>1
  <2>3. body \in Seq(R)
    BY <1>1, <2>2
  <2> QED BY <1>1, <2>3 DEF R
<1>6. TypeOK
  BY <1>1, <1>2, <1>3, <1>4, <1>5 DEF TypeOK, Bytes
<1>7. Collected
  BY <1>1, <1>2 DEF Collected
<1> QED
  BY <1>1, <1>6, <1>7
  DEF IInv, Walking, Masking, OnlyTwinsForwarded, ExactWhenSeparate, RedactsWhenItCan

(* Every step keeps the types.                                             *)
LEMMA TypeStep ==
  ASSUME IInv, Next
  PROVE  TypeOK' /\ request' = request
<1>1. TypeOK /\ Collected /\ Masking
  BY DEF IInv
<1>2. Len(body) \in Nat /\ DOMAIN body = 1..Len(body) /\ k \in 1 .. Len(body) + 1
  BY <1>1 DEF TypeOK
<1>3. request' = request
  BY DEF Next, Collect, CollectEnd, OpenLeaf, PassLeaf, MaskSpan, CloseLeaf, MaskEnd
<1>4. endpoint' = endpoint /\ body' = body /\ scan' = scan /\ respelled' = respelled
  BY <1>3, Fixed
<1>5. /\ endpoint' \in Endpoints
      /\ body' \in Seq(Leaves)
      /\ \A c \in Contents : scan'[c] \subseteq Findings(c)
      /\ respelled' \subseteq DOMAIN body'
  BY <1>1, <1>4 DEF TypeOK
<1>6. pc' \in {"collect", "walk", "mask", "forwarded", "blocked"}
  BY <1>1 DEF TypeOK, Next, Collect, CollectEnd, OpenLeaf, PassLeaf, MaskSpan, CloseLeaf, MaskEnd
<1>0. pc # "collect" => Complete
  BY <1>1 DEF Collected
<1>7. pc = "mask" => k \in DOMAIN body /\ todo \subseteq SpansFor(Key(body[k]))
  BY <1>1 DEF Masking
<1>8. k' \in 1 .. Len(body) + 1
  <2>1. CASE k' = k
    BY <1>2, <2>1
  <2>2. CASE k' = 1
    BY <1>2, <2>2
  <2>3. CASE k' = k + 1 /\ k <= Len(body)
    BY <1>2, <2>3
  <2>4. CloseLeaf => k <= Len(body)
    BY <1>2, <1>7 DEF CloseLeaf
  <2> QED
    BY <2>1, <2>2, <2>3, <2>4
    DEF Next, Collect, CollectEnd, OpenLeaf, PassLeaf, MaskSpan, CloseLeaf, MaskEnd
<1>9. text' \in Seq(Bytes)
  <2>1. CASE text' = text
    BY <1>1, <2>1 DEF TypeOK
  <2>2. CASE OpenLeaf
    <3>1. k \in DOMAIN body /\ text' = body[k].content
      BY <1>2, <2>2 DEF OpenLeaf
    <3> QED BY <1>1, <3>1, ContentType
  <2>3. CASE MaskSpan /\ text' # text
    <3>1. PICK x \in NextSpans(todo) : text' = Splice(text, x.finding) /\ ~OutOfRange(text, x.finding)
      BY <2>3 DEF MaskSpan
    <3>2. pc = "mask" /\ x \in SpansFor(Key(body[k]))
      BY <1>7, <2>3, <3>1 DEF MaskSpan, NextSpans
    <3>3. k \in DOMAIN body /\ x.finding \in Findings(body[k].content)
      BY <1>0, <1>1, <1>7, <3>2, SpansOfLeaf DEF FindingsOf
    <3>4. x.finding.offset \in Nat /\ x.finding.length \in Nat
      BY <3>3, RedactAssumption DEF Findings
    <3>5. text \in Seq(Bytes) /\ Len(text) \in Nat
      BY <1>1 DEF TypeOK
    <3>6. x.finding.offset + x.finding.length <= Len(text)
      BY <3>1, <3>4, <3>5 DEF OutOfRange
    <3> QED BY <3>1, <3>4, <3>5, <3>6, SpliceBytes
  <2> QED
    BY <2>1, <2>2, <2>3
    DEF Next, Collect, CollectEnd, OpenLeaf, PassLeaf, MaskSpan, CloseLeaf, MaskEnd
<1>10. todo' \subseteq reds'
  <2>1. todo \subseteq reds
    BY <1>1 DEF TypeOK
  <2>2. CASE todo' \subseteq todo /\ reds \subseteq reds'
    BY <2>1, <2>2
  <2>3. CASE OpenLeaf
    BY <2>3 DEF OpenLeaf, SpansFor
  <2>4. MaskSpan => todo' \subseteq todo /\ reds' = reds
    BY DEF MaskSpan
  <2> QED
    BY <2>2, <2>3, <2>4
    DEF Next, Collect, CollectEnd, OpenLeaf, PassLeaf, CloseLeaf, MaskEnd
<1>11. applied' \subseteq Indices \X Contents
  <2>1. applied \subseteq Indices \X Contents
    BY <1>1 DEF TypeOK
  <2>2. CASE CloseLeaf
    <3>1. body[k] \in Leaves
      BY <1>1, <1>7, <2>2, ContentType DEF CloseLeaf
    <3>2. Key(body[k]) \in Indices \X Contents
      BY <3>1 DEF Key, Leaves
    <3> QED BY <2>1, <2>2, <3>2 DEF CloseLeaf
  <2> QED
    BY <2>1, <2>2
    DEF Next, Collect, CollectEnd, OpenLeaf, PassLeaf, MaskSpan, MaskEnd
<1>12. /\ out' \in Seq([index : Indices, kind : Kinds, content : Seq(Bytes)])
       /\ Len(out') = Len(body)
  <2> DEFINE R == [index : Indices, kind : Kinds, content : Seq(Bytes)]
  <2>1. out \in Seq(R) /\ Len(out) = Len(body) /\ text \in Seq(Bytes)
    BY <1>1 DEF TypeOK
  <2>4. \A j \in 1..Len(out) : out[j] \in R
    <3> HIDE DEF R
    <3> QED BY <2>1
  <2>2. CASE out' = out
    BY <2>1, <2>2
  <2>3. CASE CloseLeaf /\ out' # out
    <3>1. k \in 1..Len(out)
      BY <1>2, <1>7, <2>1, <2>3 DEF CloseLeaf
    <3>2. out' = [out EXCEPT ![k] = [out[k] EXCEPT !.content = text]]
      BY <2>3 DEF CloseLeaf
    <3>3. out[k] \in R
      BY <2>4, <3>1
    <3>4. [out[k] EXCEPT !.content = text] \in R
      BY <2>1, <3>3
    <3> HIDE DEF R
    <3>5. out' \in Seq(R) /\ Len(out') = Len(out)
      <4> DEFINE r == [out[k] EXCEPT !.content = text]
      <4> HIDE DEF r
      <4>1. out' = [out EXCEPT ![k] = r]
        BY <3>2 DEF r
      <4>2. r \in R
        BY <3>4 DEF r
      <4> QED BY <2>1, <3>1, <4>1, <4>2, ExceptSeq
    <3> QED BY <2>1, <3>5 DEF R
  <2> QED
    BY <2>2, <2>3
    DEF Next, Collect, CollectEnd, OpenLeaf, PassLeaf, MaskSpan, CloseLeaf, MaskEnd
<1>13. TypeOK'
  BY <1>4, <1>5, <1>6, <1>8, <1>9, <1>10, <1>11, <1>12 DEF TypeOK
<1> QED
  BY <1>3, <1>13

(* The steps, action by action: what the phases know is kept, and a step   *)
(* that ends the request ends it rightly.                                  *)
Phases == Collected /\ Walking /\ Masking
Verdict == OnlyTwinsForwarded /\ ExactWhenSeparate /\ RedactsWhenItCan

LEMMA CollectStep ==
  ASSUME IInv, Collect, request' = request
  PROVE  Phases' /\ Verdict'
<1>1. TypeOK /\ pc = "collect" /\ pc' = "collect" /\ k' = k + 1 /\ k <= Len(body)
      /\ out' = out /\ applied' = applied /\ reds' = reds \cup Found(k)
  BY DEF IInv, Collect
<1>2. k \in DOMAIN body /\ DOMAIN body = 1..Len(body) /\ Len(body) \in Nat
  BY <1>1 DEF TypeOK
<1>3. \A x : x \in reds <=> \E j \in DOMAIN body : j < k /\ x \in Found(j)
  BY <1>1 DEF IInv, Collected
<1>4. out = body /\ applied = {}
  BY <1>1 DEF IInv, Collected
<1>5. \A j \in DOMAIN body : j < k' <=> j < k \/ j = k
  BY <1>1, <1>2
<1>6. \A x : x \in reds' <=> \E j \in DOMAIN body : j < k' /\ x \in Found(j)
  BY <1>1, <1>2, <1>3, <1>5
<1>7. body' = body /\ \A j : Found(j)' = Found(j)
  BY Fixed
<1>8. Collected'
  BY <1>1, <1>4, <1>6, <1>7 DEF Collected
<1> QED
  BY <1>1, <1>8
  DEF Phases, Verdict, Walking, Masking, OnlyTwinsForwarded, ExactWhenSeparate, RedactsWhenItCan

LEMMA CollectEndStep ==
  ASSUME IInv, CollectEnd, request' = request
  PROVE  Phases' /\ Verdict'
<1>1. TypeOK /\ pc = "collect" /\ k' = 1 /\ k > Len(body)
      /\ out' = out /\ applied' = applied /\ reds' = reds
      /\ pc' = IF reds = {} THEN "forwarded" ELSE "walk"
  BY DEF IInv, CollectEnd
<1>2. DOMAIN body = 1..Len(body) /\ Len(body) \in Nat /\ k \in Nat
  BY <1>1 DEF TypeOK
<1>3. out = body /\ applied = {}
      /\ \A x : x \in reds <=> \E j \in DOMAIN body : j < k /\ x \in Found(j)
  BY <1>1 DEF IInv, Collected
<1>4. Complete
  BY <1>1, <1>2, <1>3 DEF Complete
<1>5. body' = body /\ scan' = scan /\ \A j : Found(j)' = Found(j)
  BY Fixed
<1>6. Complete'
  BY <1>1, <1>4, <1>5 DEF Complete
<1>7. Collected'
  BY <1>1, <1>6 DEF Collected
<1>8. CASE reds # {}
  <2>1. pc' = "walk"
    BY <1>1, <1>8
  <2>2. \A j \in DOMAIN body' : ~(j < k') /\ out'[j] = body'[j]
    BY <1>1, <1>2, <1>3, <1>5
  <2>3. Walking'
    BY <1>1, <1>3, <1>8, <2>2 DEF Walking
  <2> QED
    BY <1>7, <2>1, <2>3
    DEF Phases, Verdict, Masking, OnlyTwinsForwarded, ExactWhenSeparate, RedactsWhenItCan
<1>9. CASE reds = {}
  <2>1. pc' = "forwarded"
    BY <1>1, <1>9
  <2>2. Keys = {}
    BY <1>9 DEF Keys
  <2>3. \A j \in DOMAIN body : Sources(body[j]) # {} => scan[body[j].content] = {}
    BY <1>1, <1>4, <2>2, SpansOfLeaf
  <2>4. \A j \in DOMAIN body : Parsed(body[j]) => Covered(body[j].content) = {}
    BY <2>3 DEF Sources, Covered
  <2>5. OnlyTwinsForwarded'
    BY <2>4, Fixed DEF OnlyTwinsForwarded, Stripped
  <2>6. ASSUME NEW j \in DOMAIN body, OneSource(body[j])
        PROVE  body[j].content = Masked(body[j].content)
    <3>1. scan[body[j].content] = {}
      BY <2>3, <2>6 DEF OneSource
    <3>2. body[j].content \in Seq(Bytes)
      BY <1>1, ContentType
    <3>3. Exact(body[j].content, body[j].content, scan[body[j].content])
      BY <3>1, <3>2, StartExact
    <3> QED BY <3>2, <3>3, ExactIsMasked
  <2>7. ExactWhenSeparate'
    <3>1. \A j \in DOMAIN body' : out'[j] = body'[j]
      BY <1>1, <1>3, <1>5
    <3>2. ASSUME NEW j \in DOMAIN body
          PROVE  OneSource(body[j])' => out'[j].content = Masked(body[j].content)'
      <4>1. /\ OneSource(body[j])' <=> OneSource(body[j])
            /\ Masked(body[j].content)' = Masked(body[j].content)
        BY FixedLeaf
      <4> QED BY <1>1, <1>3, <2>6, <4>1
    <3> QED BY <1>5, <3>1, <3>2 DEF ExactWhenSeparate
  <2> QED
    BY <1>7, <2>1, <2>5, <2>7
    DEF Phases, Verdict, Walking, Masking, RedactsWhenItCan
<1> QED
  BY <1>8, <1>9

(* Leaves that are as they were, among redactions that are.                *)
LEMMA LeavesStay ==
  ASSUME request' = request, reds' = reds, applied \subseteq applied',
         NEW j \in DOMAIN body, out'[j] = out[j]
  PROVE  LeafMasked(j) => LeafMasked(j)'
<1>1. body' = body /\ Key(body[j])' = Key(body[j]) /\ (Separate(j)' <=> Separate(j))
      /\ SpansFor(Key(body[j]))' = SpansFor(Key(body[j]))
      /\ Masked(body[j].content)' = Masked(body[j].content)
  BY Fixed, FixedLeaf
<1>2. FindingsOf(SpansFor(Key(body[j])))' = FindingsOf(SpansFor(Key(body[j])))
  BY <1>1 DEF FindingsOf
<1>3. ASSUME LeafMasked(j)
      PROVE  /\ Key(body[j])' \in applied'
             /\ Clean(body[j].content, out[j].content, FindingsOf(SpansFor(Key(body[j]))))'
             /\ Separate(j)' => out'[j].content = Masked(body[j].content)'
  BY <1>1, <1>2, <1>3 DEF LeafMasked
<1> QED
  BY <1>1, <1>3 DEF LeafMasked

LEMMA OpenLeafStep ==
  ASSUME IInv, OpenLeaf, request' = request
  PROVE  Phases' /\ Verdict'
<1>1. TypeOK /\ pc = "walk" /\ pc' = "mask" /\ k' = k /\ k <= Len(body) /\ reds' = reds
      /\ out' = out /\ applied' = applied /\ Redactable(k) /\ Key(body[k]) \in Keys
      /\ text' = body[k].content /\ todo' = SpansFor(Key(body[k]))
  BY DEF IInv, OpenLeaf
<1>2. k \in DOMAIN body
  BY <1>1 DEF TypeOK
<1>3. Collected /\ Walking
  BY DEF IInv
<1>4. body' = body /\ respelled' = respelled /\ Keys' = Keys
      /\ (\A j : Flagged(j)' <=> Flagged(j)) /\ (\A j : Found(j)' = Found(j))
      /\ \A key : Reached(key)' <=> Reached(key)
  BY <1>1, Fixed
<1>5. Collected'
  BY <1>1, <1>3, <1>4 DEF Collected, Complete
<1>6. \A j \in DOMAIN body : LeafMasked(j) => LeafMasked(j)'
  BY <1>1, LeavesStay
<1>7. Walking'
  BY <1>1, <1>3, <1>4, <1>6 DEF Walking
<1>8. body[k].content \in Seq(Bytes)
  BY <1>1, <1>2, ContentType
<1>9. Masking'
  <2>1. SpansFor(Key(body[k]))' = SpansFor(Key(body[k]))
    <3>1. Key(body[k])' = Key(body[k])
      BY <1>1, <1>4 DEF Key
    <3> QED BY <1>1, <1>4, <3>1 DEF SpansFor, Key
  <2>2. (SpansFor(Key(body[k])) \ todo)' = {}
    BY <1>1, <2>1
  <2>3. FindingsOf((SpansFor(Key(body[k])) \ todo)') = {}
    BY <2>2 DEF FindingsOf
  <2>4. Clean(body[k].content, text, FindingsOf(SpansFor(Key(body[k])) \ todo))'
        /\ Exact(body[k].content, text, FindingsOf(SpansFor(Key(body[k])) \ todo))'
    BY <1>1, <1>4, <1>8, <2>3, StartExact
  <2>5. k' \in DOMAIN body' /\ Flagged(k)'
    BY <1>1, <1>2, <1>4 DEF Flagged
  <2> QED BY <1>1, <2>1, <2>2, <2>4, <2>5 DEF Masking
<1> QED
  BY <1>1, <1>5, <1>7, <1>9
  DEF Phases, Verdict, OnlyTwinsForwarded, ExactWhenSeparate, RedactsWhenItCan

LEMMA PassLeafStep ==
  ASSUME IInv, PassLeaf, request' = request
  PROVE  Phases' /\ Verdict'
<1>1. TypeOK /\ pc = "walk" /\ pc' = "walk" /\ k' = k + 1 /\ k <= Len(body) /\ reds' = reds
      /\ out' = out /\ applied' = applied /\ ~Flagged(k)
  BY DEF IInv, PassLeaf, Flagged
<1>2. k \in DOMAIN body /\ k \in Nat /\ DOMAIN body = 1..Len(body) /\ Len(body) \in Nat
  BY <1>1 DEF TypeOK
<1>3. Collected /\ Walking
  BY DEF IInv
<1>4. body' = body /\ respelled' = respelled /\ Keys' = Keys
      /\ (\A j : Flagged(j)' <=> Flagged(j)) /\ (\A j : Found(j)' = Found(j))
      /\ \A key : Reached(key)' <=> Reached(key)
  BY <1>1, Fixed
<1>5. Collected'
  BY <1>1, <1>3, <1>4 DEF Collected, Complete
<1>6. \A j \in DOMAIN body : LeafMasked(j) => LeafMasked(j)'
  BY <1>1, LeavesStay
<1>7. \A j \in DOMAIN body : j < k' <=> j < k \/ j = k
  BY <1>1, <1>2
<1>8. Walking'
  BY <1>1, <1>3, <1>4, <1>6, <1>7 DEF Walking
<1> QED
  BY <1>1, <1>5, <1>8
  DEF Phases, Verdict, Masking, OnlyTwinsForwarded, ExactWhenSeparate, RedactsWhenItCan

(* A leaf whose findings are not separate may make the request fail.       *)
LEMMA MayBlock ==
  ASSUME IInv, pc # "collect", request' = request, NEW j \in DOMAIN body,
         Key(body[j]) \in Keys,
         Separate(j) => body[j].kind \in JSONKinds /\ ~Valid(body[j].content, Masked(body[j].content))
  PROVE  RedactsWhenItCan'
<1>1. Sources(body[j]) # {} /\ scan[body[j].content] # {}
  BY SpansOfLeaf DEF IInv, Collected
<1>2. /\ Disjoint(body[j].content)' <=> Disjoint(body[j].content)
      /\ OneSource(body[j])' <=> OneSource(body[j])
      /\ Sources(body[j])' = Sources(body[j])
      /\ Masked(body[j].content)' = Masked(body[j].content)
      /\ body' = body /\ scan' = scan
  BY Fixed, FixedLeaf
<1>3. Separate(j) <=> OneSource(body[j]) /\ Disjoint(body[j].content)
  BY DEF Separate
<1> DEFINE W == /\ Sources(body[j]) # {} /\ scan[body[j].content] # {}
                /\ \/ Sources(body[j]) \subseteq respelled
                   \/ ~Disjoint(body[j].content)
                   \/ ~OneSource(body[j])
                   \/ body[j].kind \in JSONKinds /\ ~Valid(body[j].content, Masked(body[j].content))
<1>4. W'
  BY <1>1, <1>2, <1>3
<1> QED
  BY <1>2, <1>4 DEF RedactsWhenItCan

LEMMA MaskSpanStep ==
  ASSUME IInv, MaskSpan, request' = request
  PROVE  Phases' /\ Verdict'
<1> DEFINE c == body[k].content
           S == SpansFor(Key(body[k]))
           done == S \ todo
<1>1. TypeOK /\ Collected /\ Walking /\ Masking /\ Complete /\ pc = "mask"
      /\ k' = k /\ reds' = reds /\ out' = out /\ applied' = applied
  BY DEF IInv, MaskSpan, Collected
<1>2. k \in DOMAIN body /\ Flagged(k) /\ todo \subseteq S
      /\ (\A x \in todo, y \in done : x.finding.offset <= y.finding.offset)
      /\ Clean(c, text, FindingsOf(done))
      /\ (Separate(k) => Exact(c, text, FindingsOf(done)))
  BY <1>1 DEF Masking
<1>3. body' = body /\ respelled' = respelled /\ Keys' = Keys
      /\ (\A j : Flagged(j)' <=> Flagged(j)) /\ (\A j : Found(j)' = Found(j))
      /\ \A key : Reached(key)' <=> Reached(key)
  BY <1>1, Fixed
<1>4. PICK x \in NextSpans(todo) :
         IF OutOfRange(text, x.finding)
         THEN pc' = "blocked" /\ UNCHANGED <<text, todo>>
         ELSE /\ text' = Splice(text, x.finding)
              /\ todo' = todo \ {x}
              /\ UNCHANGED pc
  BY DEF MaskSpan
<1>5. x \in todo /\ x \in S /\ \A y \in todo : y.finding.offset <= x.finding.offset
  BY <1>2, <1>4 DEF NextSpans
<1>6. FindingsOf(S) \subseteq scan[c] /\ scan[c] \subseteq Findings(c)
  BY <1>1, <1>2, SpansOfLeaf
<1> DEFINE D == FindingsOf(done)
           f == x.finding
<1>7. f \in Findings(c) /\ D \in SUBSET Findings(c) /\ f \in scan[c] /\ D \subseteq scan[c]
  BY <1>5, <1>6 DEF FindingsOf
<1>8. \A g \in D : f.offset <= g.offset
  BY <1>2, <1>5 DEF FindingsOf
<1>9. Separate(k) => \A g \in D : Positions(f) \cap Positions(g) = {}
  <2> SUFFICES ASSUME Separate(k), NEW y \in done
               PROVE  Positions(f) \cap Positions(y.finding) = {}
    BY DEF FindingsOf
  <2>1. y \in S /\ y # x
    BY <1>5
  <2>2. y.finding # f
    BY <1>1, <1>2, <1>5, <2>1, SpansOfLeaf DEF Separate
  <2>3. y.finding \in scan[c]
    BY <1>6, <2>1 DEF FindingsOf
  <2> QED BY <1>7, <2>2, <2>3 DEF Separate, Disjoint
<1>10. c \in Seq(Bytes) /\ text \in Seq(Bytes)
  BY <1>1, <1>2, ContentType DEF TypeOK
<1>11. pc' # "collect"
  BY <1>1, <1>4
<1>12. Collected'
  BY <1>1, <1>3, <1>11 DEF Collected, Complete
<1>13. \A j \in DOMAIN body : LeafMasked(j) => LeafMasked(j)'
  BY <1>1, LeavesStay
<1>14. Walking'
  BY <1>1, <1>3, <1>13 DEF Walking
<1>15. CASE OutOfRange(text, f)
  <2>1. pc' = "blocked"
    BY <1>4, <1>15
  <2>2. ~Separate(k)
    <3> SUFFICES ASSUME Separate(k) PROVE FALSE
      OBVIOUS
    <3>1. Exact(c, text, D) /\ \A g \in D : Positions(f) \cap Positions(g) = {}
      BY <1>2, <1>9
    <3> HIDE DEF c, D, f
    <3> QED BY <1>7, <1>8, <1>10, <1>15, <3>1, SeparateInRange
  <2>3. RedactsWhenItCan'
    BY <1>1, <1>2, <2>2, MayBlock DEF Flagged
  <2> QED
    BY <1>12, <1>14, <2>1, <2>3
    DEF Phases, Verdict, Masking, OnlyTwinsForwarded, ExactWhenSeparate
<1>16. CASE ~OutOfRange(text, f)
  <2>1. pc' = "mask" /\ text' = Splice(text, f) /\ todo' = todo \ {x}
    BY <1>1, <1>4, <1>16
  <2>2. S' = S
    BY <1>1, FixedLeaf, <1>3 DEF SpansFor, Key
  <2>3. done' = done \cup {x}
    BY <1>2, <1>5, <2>1, <2>2
  <2>4. D' = D \cup {f}
    BY <2>3 DEF FindingsOf
  <2>5. Clean(c, text', D \cup {f})
    <3>1. Clean(c, text, D)
      BY <1>2
    <3> HIDE DEF c, D, f
    <3> QED BY <1>7, <1>8, <1>10, <1>16, <2>1, <3>1, SpliceClean
  <2>6. Separate(k) => Exact(c, text', D \cup {f})
    <3> SUFFICES ASSUME Separate(k) PROVE Exact(c, text', D \cup {f})
      OBVIOUS
    <3>1. Exact(c, text, D) /\ \A g \in D : Positions(f) \cap Positions(g) = {}
      BY <1>2, <1>9
    <3> HIDE DEF c, D, f
    <3> QED BY <1>7, <1>8, <1>10, <2>1, <3>1, SpliceExact
  <2>7. \A y \in todo', z \in done' : y.finding.offset <= z.finding.offset
    BY <1>2, <1>5, <2>1, <2>3
  <2>8. Separate(k)' <=> Separate(k)
    BY <1>1, <1>3, FixedLeaf DEF Separate
  <2>9. Masking'
    <3>1. k' \in DOMAIN body' /\ Flagged(k)'
      BY <1>1, <1>2, <1>3 DEF Flagged
    <3>2. todo' \subseteq S'
      BY <1>2, <2>1, <2>2
    <3>3. c' = c
      BY <1>1, <1>3
    <3>4. Clean(c', text', D') /\ (Separate(k)' => Exact(c', text', D'))
      BY <2>4, <2>5, <2>6, <2>8, <3>3
    <3> QED BY <2>7, <3>1, <3>2, <3>4 DEF Masking
  <2> QED
    BY <1>12, <1>14, <2>1, <2>9
    DEF Phases, Verdict, OnlyTwinsForwarded, ExactWhenSeparate, RedactsWhenItCan
<1> QED
  BY <1>15, <1>16

LEMMA CloseLeafStep ==
  ASSUME IInv, CloseLeaf, request' = request
  PROVE  Phases' /\ Verdict'
<1>0. PICK n : n = k \* k moves on
  OBVIOUS
<1> DEFINE c == body[n].content
           S == SpansFor(Key(body[n]))
<1>1. TypeOK /\ Collected /\ Walking /\ Masking /\ Complete /\ pc = "mask" /\ todo = {}
      /\ k' = k + 1 /\ reds' = reds
  BY DEF IInv, CloseLeaf, Collected
<1>2. n \in DOMAIN body /\ n \in Nat /\ DOMAIN body = 1..Len(body) /\ Len(body) \in Nat
  BY <1>0, <1>1 DEF Masking, TypeOK
<1>3. Flagged(n) /\ Clean(c, text, FindingsOf(S)) /\ (Separate(n) => Exact(c, text, FindingsOf(S)))
  <2>1. S \ todo = S
    BY <1>1
  <2> HIDE DEF S
  <2> QED BY <1>0, <1>1, <2>1 DEF Masking, S
<1>4. body' = body /\ respelled' = respelled /\ Keys' = Keys
      /\ (\A j : Flagged(j)' <=> Flagged(j)) /\ (\A j : Found(j)' = Found(j))
      /\ \A key : Reached(key)' <=> Reached(key)
  BY <1>1, Fixed
<1>5. c \in Seq(Bytes) /\ text \in Seq(Bytes)
  BY <1>1, <1>2, ContentType DEF TypeOK
<1>6. Separate(n) => text = Masked(c)
  <2> SUFFICES ASSUME Separate(n) PROVE text = Masked(c)
    OBVIOUS
  <2>1. FindingsOf(S) = scan[c]
    BY <1>1, <1>2, SpansOfLeaf DEF Separate
  <2>2. Exact(c, text, scan[c])
    BY <1>3, <2>1
  <2> HIDE DEF c, S
  <2> QED BY <1>5, <2>2, ExactIsMasked
<1>7. pc' # "collect" /\ pc' # "mask" /\ pc' # "forwarded"
  BY DEF CloseLeaf
<1>8. Collected'
  BY <1>1, <1>4, <1>7 DEF Collected, Complete
<1>9. CASE body[n].kind \in JSONKinds => Valid(c, text)
  <2>1. pc' = "walk" /\ out' = [out EXCEPT ![n].content = text]
        /\ applied' = applied \cup {Key(body[n])}
    BY <1>0, <1>9 DEF CloseLeaf
  <2>2. /\ reds # {} /\ applied \subseteq Keys
        /\ \A key \in applied : Reached(key)
        /\ \A j \in DOMAIN body :
              IF j < n /\ Flagged(j) THEN LeafMasked(j) ELSE out[j] = body[j]
    BY <1>0, <1>1 DEF Walking
  <2>3. DOMAIN out = DOMAIN body
    <3>1. Len(out) = Len(body) /\ out \in Seq([index : Indices, kind : Kinds, content : Seq(Bytes)])
      BY <1>1 DEF TypeOK
    <3> QED BY <1>2, <3>1
  <2>4. out[n] = body[n] /\ body[n] \in Leaves
    BY <1>1, <1>2, <2>2, ContentType
  <2>5. \A j \in DOMAIN body : j # n => out'[j] = out[j]
    BY <2>1, <2>3
  <2>6. out'[n].content = text
    <3>1. out'[n] = [out[n] EXCEPT !.content = text]
      BY <1>2, <2>1, <2>3
    <3>2. DOMAIN body[n] = {"index", "kind", "content"}
      BY <2>4 DEF Leaves
    <3> QED BY <2>4, <3>1, <3>2
  <2>7. \A j \in DOMAIN body : j # n /\ LeafMasked(j) => LeafMasked(j)'
    BY <1>1, <2>1, <2>5, LeavesStay
  <2>8. LeafMasked(n)'
    <3>1. Key(body[n])' = Key(body[n]) /\ S' = S /\ Masked(c)' = Masked(c)
          /\ (Separate(n)' <=> Separate(n))
      BY <1>1, Fixed, FixedLeaf
    <3>2. FindingsOf(S)' = FindingsOf(S)
      BY <3>1 DEF FindingsOf
    <3>3. Clean(body[n].content, out[n].content, FindingsOf(SpansFor(Key(body[n]))))'
      BY <1>3, <1>4, <2>6, <3>2
    <3>4. Key(body[n])' \in applied'
      BY <2>1, <3>1
    <3>5. Separate(n)' => out'[n].content = Masked(body[n].content)'
      BY <1>6, <2>6, <3>1
    <3> QED BY <3>3, <3>4, <3>5 DEF LeafMasked
  <2>9. Reached(Key(body[n])) /\ Key(body[n]) \in Keys
    BY <1>2, <1>3 DEF Flagged, Reached
  <2>10. \A j \in DOMAIN body : j < k' <=> j < n \/ j = n
    BY <1>0, <1>1, <1>2
  <2>11. Walking'
    <3>1. applied' \subseteq Keys /\ \A key \in applied' : Reached(key)'
      BY <2>1, <2>2, <2>9, Fixed
    <3>2. ASSUME NEW j \in DOMAIN body
          PROVE  IF j < k' /\ Flagged(j)' THEN LeafMasked(j)' ELSE out'[j] = body[j]
      <4>1. CASE j = n
        BY <1>1, <1>2, <1>3, <1>4, <2>8, <2>10, <4>1
      <4>2. CASE j # n
        BY <1>4, <2>2, <2>5, <2>7, <2>10, <4>2
      <4> QED BY <4>1, <4>2
    <3> QED BY <1>1, <1>4, <2>2, <3>1, <3>2 DEF Walking
  <2> QED
    BY <1>8, <2>1, <2>11
    DEF Phases, Verdict, Masking, OnlyTwinsForwarded, ExactWhenSeparate, RedactsWhenItCan
<1>10. CASE ~(body[n].kind \in JSONKinds => Valid(c, text))
  <2>1. pc' = "blocked"
    BY <1>0, <1>10 DEF CloseLeaf
  <2>2. Separate(n) => body[n].kind \in JSONKinds /\ ~Valid(c, Masked(c))
    BY <1>6, <1>10
  <2>3. RedactsWhenItCan'
    BY <1>1, <1>2, <1>3, <2>2, MayBlock DEF Flagged
  <2> QED
    BY <1>8, <2>1, <2>3
    DEF Phases, Verdict, Walking, Masking, OnlyTwinsForwarded, ExactWhenSeparate
<1> QED
  BY <1>9, <1>10

LEMMA MaskEndStep ==
  ASSUME IInv, MaskEnd, request' = request
  PROVE  Phases' /\ Verdict'
<1>1. TypeOK /\ Collected /\ Walking /\ Complete /\ pc = "walk" /\ k > Len(body)
      /\ reds' = reds /\ out' = out /\ applied' = applied
      /\ pc' = IF applied = Keys THEN "forwarded" ELSE "blocked"
  BY DEF IInv, MaskEnd, Collected
<1>2. \A j \in DOMAIN body : j < k
  BY <1>1 DEF TypeOK
<1>3. body' = body /\ scan' = scan /\ respelled' = respelled /\ Keys' = Keys
      /\ \A j : Found(j)' = Found(j)
  BY <1>1, Fixed
<1>4. Collected'
  BY <1>1, <1>3 DEF Collected, Complete
<1>5. /\ applied \subseteq Keys
      /\ \A key \in applied : Reached(key)
      /\ \A j \in DOMAIN body : IF Flagged(j) THEN LeafMasked(j) ELSE out[j] = body[j]
  BY <1>1, <1>2 DEF Walking
<1>6. \A j \in DOMAIN body : Parsed(body[j]) /\ j \notin respelled => Redactable(j)
  <2>1. endpoint \in Endpoints
    BY <1>1 DEF TypeOK
  <2>2. ParsedKinds[endpoint] \subseteq RedactableKinds[endpoint]
    BY <2>1
    DEF Endpoints, ParsedKinds, RedactableKinds, parseAnthropicMessages, parseOpenAIChat,
        parseOpenAIResponses, redactContent, redactOpenAIChat, redactOpenAIResponses
  <2> QED BY <2>2 DEF Parsed, Redactable
<1>8. CASE applied = Keys
  <2>1. pc' = "forwarded"
    BY <1>1, <1>8
  <2>2. ASSUME NEW j \in DOMAIN body, Parsed(body[j]), ~Twin(j), NEW i \in Covered(body[j].content)
        PROVE  body[j].content[i] \notin Range(out[j].content)
    <3> DEFINE c == body[j].content
               S == SpansFor(Key(body[j]))
    <3>1. PICK f \in scan[c] : i \in Positions(f)
      BY DEF Covered
    <3>2. FindingsOf(S) = scan[c] /\ scan[c] \subseteq Findings(c)
      BY <1>1, <2>2, SpansOfLeaf
    <3>3. Sources(body[j]) # {} /\ scan[c] # {}
      BY <2>2, <3>1 DEF Sources
    <3>4. Key(body[j]) \in Keys
      BY <1>1, <3>3, SpansOfLeaf
    <3>5. Redactable(j)
      BY <1>5, <1>8, <2>2, <3>4 DEF Reached, Twin
    <3>6. Clean(c, out[j].content, scan[c])
      BY <1>5, <3>2, <3>4, <3>5 DEF Flagged, LeafMasked
    <3>7. c \in Seq(Bytes) /\ IsInjective(c) /\ \A m \in DOMAIN c : c[m] # MaskByte
      BY <1>1, ContentType
    <3>8. i \in DOMAIN c
      <4>1. f.offset \in Nat /\ f.length \in Nat /\ f.offset + f.length <= Len(c)
        BY <3>1, <3>2, RedactAssumption DEF Findings
      <4>2. Len(c) \in Nat /\ DOMAIN c = 1..Len(c)
        BY <3>7
      <4> QED BY <3>1, <4>1, <4>2 DEF Positions
    <3> HIDE DEF c
    <3>9. ASSUME NEW m \in DOMAIN out[j].content, out[j].content[m] = c[i]
          PROVE  FALSE
      <4>1. PICK n \in DOMAIN c : out[j].content[m] = c[n] /\ \A g \in scan[c] : n \notin Positions(g)
        BY <3>6, <3>7, <3>8, <3>9 DEF Clean
      <4>2. n = i
        BY <3>7, <3>8, <3>9, <4>1 DEF IsInjective
      <4> QED BY <3>1, <4>1, <4>2
    <3> QED BY <3>9 DEF Range, c
  <2>3. OnlyTwinsForwarded'
    <3>1. ASSUME NEW j \in DOMAIN body
          PROVE  Parsed(body[j])' /\ ~Twin(j)' => \A i \in Covered(body[j].content)' :
                    body[j].content[i] \notin Range(out[j].content)
      BY <2>2, FixedLeaf
    <3>2. \A j : Range(out[j].content)' = Range(out[j].content)
      BY <1>1
    <3> QED BY <1>3, <3>1, <3>2 DEF OnlyTwinsForwarded, Stripped
  <2>4. ASSUME NEW j \in DOMAIN body
        PROVE  LET c == body[j].content
               IN  /\ Sources(body[j]) = {} \/ scan[c] = {} => out[j] = body[j]
                   /\ OneSource(body[j]) /\ Disjoint(c) /\ Redactable(j)
                         => out[j].content = Masked(c)
    <3> DEFINE c == body[j].content
    <3>1. Key(body[j]) \in Keys <=> Sources(body[j]) # {} /\ scan[c] # {}
      BY <1>1, SpansOfLeaf
    <3>2. Sources(body[j]) = {} \/ scan[c] = {} => out[j] = body[j]
      BY <1>5, <3>1 DEF Flagged
    <3>3. ASSUME OneSource(body[j]), Disjoint(c), Redactable(j)
          PROVE  out[j].content = Masked(c)
      <4>1. CASE scan[c] = {}
        <5>1. c \in Seq(Bytes)
          BY <1>1, ContentType
        <5>2. Exact(c, c, scan[c])
          BY <4>1, <5>1, StartExact
        <5>3. c = Masked(c)
          BY <5>1, <5>2, ExactIsMasked
        <5> QED BY <3>2, <4>1, <5>3
      <4>2. CASE scan[c] # {}
        <5>1. Flagged(j) /\ Separate(j)
          BY <3>1, <3>3, <4>2 DEF Flagged, Separate, OneSource
        <5> QED BY <1>5, <5>1 DEF LeafMasked
      <4> QED BY <4>1, <4>2
    <3> QED BY <3>2, <3>3
  <2>5. ExactWhenSeparate'
    <3>1. ASSUME NEW j \in DOMAIN body
          PROVE  /\ Sources(body[j])' = {} \/ scan[body[j].content] = {} => out[j] = body[j]
                 /\ OneSource(body[j])' /\ Disjoint(body[j].content)' /\ Redactable(j)'
                       => out[j].content = Masked(body[j].content)'
      BY <2>4, FixedLeaf
    <3> QED BY <1>1, <1>3, <3>1 DEF ExactWhenSeparate
  <2> QED
    BY <1>4, <2>1, <2>3, <2>5 DEF Phases, Verdict, Walking, Masking, RedactsWhenItCan
<1>9. CASE applied # Keys
  <2>1. pc' = "blocked"
    BY <1>1, <1>9
  <2>2. PICK x \in reds : Key(body[x.segment]) \notin applied
    BY <1>5, <1>9 DEF Keys
  <2>3. PICK j \in DOMAIN body : x \in Found(j)
    BY <1>1 DEF Complete
  <2>4. Parsed(body[j]) /\ x.segment = j /\ Key(body[j]) \in Keys
    BY <2>2, <2>3 DEF Found, Keys
  <2>5. ~Redactable(j)
    BY <1>5, <2>2, <2>4 DEF Flagged, LeafMasked
  <2>6. Sources(body[j]) \subseteq respelled
    <3> SUFFICES ASSUME NEW i \in Sources(body[j]) PROVE i \in respelled
      OBVIOUS
    <3>1. i \in DOMAIN body /\ Parsed(body[i]) /\ Key(body[i]) = Key(body[j])
      BY DEF Sources
    <3>2. Key(body[i]) \notin applied
      BY <2>2, <2>4, <3>1
    <3>3. ~Redactable(i)
      BY <1>5, <2>4, <3>1, <3>2 DEF Flagged, LeafMasked
    <3> QED BY <1>6, <3>1, <3>3
  <2>7. Sources(body[j]) # {} /\ scan[body[j].content] # {}
    BY <1>1, <2>4, SpansOfLeaf
  <2>8. RedactsWhenItCan'
    <3>1. Sources(body[j])' = Sources(body[j])
      BY FixedLeaf
    <3>2. j \in DOMAIN body' /\ Sources(body[j])' # {} /\ scan'[body'[j].content] # {}
          /\ Sources(body[j])' \subseteq respelled'
      BY <1>3, <2>6, <2>7, <3>1
    <3> QED BY <3>2 DEF RedactsWhenItCan
  <2> QED
    BY <1>4, <2>1, <2>8
    DEF Phases, Verdict, Walking, Masking, OnlyTwinsForwarded, ExactWhenSeparate
<1> QED
  BY <1>8, <1>9

(* A request that is over stays as it is.                                  *)
LEMMA NextInvariant == IInv /\ [Next]_vars => IInv'
<1> SUFFICES ASSUME IInv, [Next]_vars PROVE IInv'
  OBVIOUS
<1>1. CASE Next
  <2>1. TypeOK' /\ request' = request
    BY <1>1, TypeStep
  <2>2. Phases' /\ Verdict'
    BY <1>1, <2>1, CollectStep, CollectEndStep, OpenLeafStep, PassLeafStep, MaskSpanStep,
       CloseLeafStep, MaskEndStep DEF Next
  <2> QED BY <2>1, <2>2 DEF IInv, Phases, Verdict
<1>2. CASE UNCHANGED vars
  <2>1. request' = request /\ reds' = reds /\ out' = out /\ applied' = applied /\ k' = k
        /\ pc' = pc /\ text' = text /\ todo' = todo
    BY <1>2 DEF vars, request
  <2>2. endpoint' = endpoint /\ body' = body /\ scan' = scan /\ respelled' = respelled
    BY <2>1 DEF request
  <2>3. TypeOK'
    BY <2>1, <2>2 DEF IInv, TypeOK
  <2>4. Collected'
    <3>1. \A j : Found(j)' = Found(j)
      BY <2>1, Fixed
    <3> QED BY <2>1, <2>2, <3>1 DEF IInv, Collected, Complete
  <2>5. Walking'
    <3>1. Keys' = Keys /\ \A j : Flagged(j)' <=> Flagged(j)
      BY <2>1, Fixed
    <3>0. \A key : Reached(key)' <=> Reached(key)
      BY <2>1, Fixed
    <3>2. \A j \in DOMAIN body : LeafMasked(j) => LeafMasked(j)'
      BY <2>1, LeavesStay
    <3> QED BY <2>1, <2>2, <3>0, <3>1, <3>2 DEF IInv, Walking
  <2>6. Masking'
    <3>1. SpansFor(Key(body[k]))' = SpansFor(Key(body[k]))
      BY <2>1, <2>2 DEF SpansFor, Key
    <3>2. (Flagged(k)' <=> Flagged(k)) /\ (Separate(k)' <=> Separate(k))
      BY <2>1, <2>2 DEF Flagged, Redactable, Key, Keys, Separate, OneSource, Sources, Parsed, Disjoint
    <3> QED BY <2>1, <2>2, <3>1, <3>2 DEF IInv, Masking, FindingsOf
  <2>7. OnlyTwinsForwarded'
    BY <2>1, <2>2 DEF IInv, OnlyTwinsForwarded, Parsed, Twin, Redactable, Key, Stripped, Covered
  <2>8. ExactWhenSeparate'
    BY <2>1, <2>2 DEF IInv, ExactWhenSeparate, OneSource, Sources, Parsed, Key, Disjoint,
       Redactable, Masked
  <2>9. RedactsWhenItCan'
    <3> SUFFICES ASSUME pc = "blocked" PROVE RedactsWhenItCan'
      BY <2>1 DEF RedactsWhenItCan
    <3>1. PICK j \in DOMAIN body :
             /\ Sources(body[j]) # {} /\ scan[body[j].content] # {}
             /\ \/ Sources(body[j]) \subseteq respelled
                \/ ~Disjoint(body[j].content)
                \/ ~OneSource(body[j])
                \/ /\ body[j].kind \in JSONKinds
                   /\ ~Valid(body[j].content, Masked(body[j].content))
      BY DEF IInv, RedactsWhenItCan
    <3>2. /\ Disjoint(body[j].content)' <=> Disjoint(body[j].content)
          /\ OneSource(body[j])' <=> OneSource(body[j])
          /\ Sources(body[j])' = Sources(body[j])
          /\ Masked(body[j].content)' = Masked(body[j].content)
      BY <2>1, FixedLeaf
    <3> QED BY <2>2, <3>1, <3>2 DEF RedactsWhenItCan
  <2> QED BY <2>3, <2>4, <2>5, <2>6, <2>7, <2>8, <2>9 DEF IInv
<1> QED
  BY <1>1, <1>2

LEMMA Invariant == Spec => []IInv
  BY InitInvariant, NextInvariant, PTL DEF Spec

(* Every variable of Redact has its type, and every finding lies in its    *)
(* content.                                                                *)
THEOREM TypeCorrect == Spec => []TypeOK
<1>1. IInv => TypeOK
  BY DEF IInv
<1> QED
  BY <1>1, Invariant, PTL

(* A byte of a redacted finding is forwarded only in a leaf behind a        *)
(* respelled key whose text the redactor also reaches, in another leaf of  *)
(* the message; for any body, findings and mask, however findings overlap  *)
(* and spans of one offset are sorted.                                     *)
THEOREM OnlyTwinsForwardedAlways == Spec => []OnlyTwinsForwarded
<1>1. IInv => OnlyTwinsForwarded
  BY DEF IInv
<1> QED
  BY <1>1, Invariant, PTL

(* Findings that do not overlap, in a text that the message has once, are  *)
(* replaced by the mask where they are, and nothing else changes.          *)
THEOREM ExactWhenSeparateAlways == Spec => []ExactWhenSeparate
<1>1. IInv => ExactWhenSeparate
  BY DEF IInv
<1> QED
  BY <1>1, Invariant, PTL

(* A request that the redactor blocks has a flagged text that it reaches   *)
(* nowhere, or that is repeated in its message, findings that overlap, or  *)
(* arguments that lose their structure.                                    *)
THEOREM RedactsWhenItCanAlways == Spec => []RedactsWhenItCan
<1>1. IInv => RedactsWhenItCan
  BY DEF IInv
<1> QED
  BY <1>1, Invariant, PTL
=============================================================================
