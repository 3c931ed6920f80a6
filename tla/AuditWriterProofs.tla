------------------------- MODULE AuditWriterProofs --------------------------
(***************************************************************************)
(* Proofs about the audit file writer, for any number of goroutines, any   *)
(* channel capacity and any bound on the calls: it implements LossyLog,    *)
(* and Close loses nothing it was given in time.                           *)
(***************************************************************************)
EXTENDS AuditWriter, TLAPS

-----------------------------------------------------------------------------
(* Ranges of sequences.                                                    *)

\* Appending adds one element to the range.
LEMMA RangeAppend ==
    ASSUME NEW S, NEW s \in Seq(S), NEW e \in S
    PROVE  Range(Append(s, e)) = Range(s) \cup {e}
<1>1. DOMAIN Append(s, e) = 1..(Len(s) + 1) /\ DOMAIN s = 1..Len(s) /\ Len(s) \in Nat
  OBVIOUS
<1>2. Append(s, e)[Len(s) + 1] = e
  OBVIOUS
<1>3. \A i \in 1..Len(s) : Append(s, e)[i] = s[i]
  OBVIOUS
<1>4. 1..(Len(s) + 1) = 1..Len(s) \cup {Len(s) + 1}
  BY <1>1
<1>5. Range(Append(s, e)) = {Append(s, e)[i] : i \in 1..Len(s)} \cup {Append(s, e)[Len(s) + 1]}
  BY <1>1, <1>4, Zenon DEF Range
<1>6. {Append(s, e)[i] : i \in 1..Len(s)} = Range(s)
  BY <1>1, <1>3, Zenon DEF Range
<1> QED
  BY <1>2, <1>5, <1>6

\* Appending to a sequence that is shorter than B.
LEMMA AppendWithin ==
    ASSUME NEW S, NEW s \in Seq(S), NEW e \in S, NEW B \in Nat, Len(s) < B
    PROVE  Append(s, e) \in Seq(S) /\ Len(Append(s, e)) <= B
<1>1. Len(Append(s, e)) = Len(s) + 1 /\ Len(s) \in Nat
  OBVIOUS
<1> QED
  BY <1>1

\* A sequence that is not empty has its head and the range of its tail.
LEMMA RangeHeadTail ==
    ASSUME NEW S, NEW s \in Seq(S), s # <<>>
    PROVE  /\ Head(s) \in S /\ Tail(s) \in Seq(S)
           /\ Len(s) \in Nat /\ Len(Tail(s)) = Len(s) - 1
           /\ Range(s) = {Head(s)} \cup Range(Tail(s))
<1>1. Len(s) \in Nat \ {0} /\ DOMAIN s = 1..Len(s)
  OBVIOUS
<1>2. Head(s) = s[1] /\ Head(s) \in S /\ Tail(s) \in Seq(S)
  OBVIOUS
<1>3. /\ Len(Tail(s)) = Len(s) - 1 /\ DOMAIN Tail(s) = 1..(Len(s) - 1)
      /\ \A i \in 1..(Len(s) - 1) : Tail(s)[i] = s[i + 1]
  OBVIOUS
<1>4. ASSUME NEW x \in Range(s)
      PROVE  x \in {Head(s)} \cup Range(Tail(s))
  <2>1. PICK i \in 1..Len(s) : x = s[i]
    BY <1>1 DEF Range
  <2>2. CASE i = 1
    BY <2>1, <2>2, <1>2
  <2>3. CASE i # 1
    <3>1. i - 1 \in 1..(Len(s) - 1) /\ Tail(s)[i - 1] = s[i]
      BY <1>1, <1>3, <2>3
    <3> QED
      BY <3>1, <2>1, <1>3, Zenon DEF Range
  <2> QED
    BY <2>2, <2>3
<1>5. ASSUME NEW x \in Range(Tail(s))
      PROVE  x \in Range(s)
  <2>1. PICK i \in 1..(Len(s) - 1) : x = s[i + 1]
    BY <1>3 DEF Range
  <2>2. i + 1 \in 1..Len(s)
    BY <1>1
  <2> QED
    BY <2>1, <2>2, <1>1, Zenon DEF Range
<1>6. Head(s) \in Range(s)
  BY <1>1, <1>2 DEF Range
<1> QED
  BY <1>1, <1>2, <1>3, <1>4, <1>5, <1>6

-----------------------------------------------------------------------------
(* The inductive invariant.                                                *)

\* Items are pairs <<goroutine, number of the call>>.
LEMMA ItemsArePairs ==
    /\ \A x \in Items : x[1] \in Producers /\ x[2] \in Nat /\ x = <<x[1], x[2]>>
    /\ \A p \in Producers : Bound(p) \in Nat
    /\ \A p \in Producers, n \in Nat :
           n >= 1 /\ n <= Bound(p) => <<p, n>> \in Items
<1>1. \A p \in Producers : Bound(p) \in Nat
  BY WriterAssumption DEF Bound, Producers
<1>2. ASSUME NEW p \in Producers, NEW n \in Nat, n >= 1, n <= Bound(p)
      PROVE  <<p, n>> \in Items
  <2>1. n \in 1..Bound(p)
    BY <1>1, <1>2
  <2>2. <<p, n>> \in {p} \X (1..Bound(p))
    BY <2>1
  <2> QED
    BY <2>2, Zenon DEF Items
<1>3. ASSUME NEW x \in Items
      PROVE  x[1] \in Producers /\ x[2] \in Nat /\ x = <<x[1], x[2]>>
  <2>1. PICK p \in Producers : x \in {p} \X (1..Bound(p))
    BY DEF Items
  <2> QED
    BY <2>1, <1>1
<1> QED
  BY <1>1, <1>2, <1>3

\* The call that made item x is over as far as its goroutine is concerned.
Behind(x) == x[2] < calls[x[1]] \/ (x[2] = calls[x[1]] /\ ppc[x[1]] = "idle")

Ascending(s) == \A i, j \in DOMAIN s : i < j /\ s[i][1] = s[j][1] => s[i][2] < s[j][2]

Everything == Range(ch) \cup Range(evCh) \cup Range(file) \cup failed
              \cup refused \cup dropped \cup early

\* Where items are and in which order: records on one channel, events on
\* the other, each goroutine's in the order of its calls, and the current
\* item of a goroutine that is about to send it is nowhere yet.
ItemInv ==
    /\ \A x \in Everything : Behind(x)
    /\ \A x \in Range(ch) : x[1] \in Handlers
    /\ \A x \in Range(evCh) : x[1] \in Sources
    /\ Ascending(ch) /\ Ascending(evCh)
    /\ \A p \in Producers : ppc[p] = "send" => calls[p] >= 1
    /\ early \subseteq Range(ch) \cup Range(evCh) \cup Range(file) \cup failed

\* How far a shutdown has come.
CloseInv ==
    /\ \A c \in Closers : /\ cpc[c] \in {"signal", "wait", "flush", "returned"} => closed = TRUE
                          /\ cpc[c] \in {"flush", "returned"} => wpc = "exited"
    /\ once = "done" => Returned
    /\ done = TRUE => closed = TRUE
    /\ wpc # "select" => done = TRUE
    /\ wpc = "exited" => early \cap (Range(ch) \cup Range(evCh)) = {}

IInv == TypeOK /\ ItemInv /\ CloseInv

\* The item that a goroutine is about to send.
LEMMA SentIsItem ==
    ASSUME IInv, NEW p \in Producers, ppc[p] = "send"
    PROVE  Item(p) \in Items /\ Item(p)[1] = p /\ Item(p)[2] = calls[p]
<1>1. calls[p] \in Nat /\ calls[p] >= 1 /\ calls[p] <= Bound(p)
  BY DEF IInv, TypeOK, ItemInv
<1> QED
  BY <1>1, ItemsArePairs DEF Item

\* The initial states satisfy the invariant.
LEMMA InitInv == Init => IInv
<1> SUFFICES ASSUME Init PROVE IInv
  OBVIOUS
<1>0. \A p \in Producers : 0 <= Bound(p)
  BY ItemsArePairs
<1>1. TypeOK
  <2>1. calls \in [Producers -> Nat] /\ \A p \in Producers : calls[p] <= Bound(p)
    BY <1>0 DEF Init
  <2>2. /\ ch \in Seq(Items) /\ Len(ch) <= BufferSize
        /\ evCh \in Seq(Items) /\ Len(evCh) <= BufferSize
    <3>1. ch = <<>> /\ evCh = <<>> /\ BufferSize \in Nat
      BY WriterAssumption DEF Init
    <3> QED
      BY <3>1
  <2>3. file \in Seq(Items)
    BY DEF Init
  <2> QED
    BY <2>1, <2>2, <2>3, Zenon DEF Init, TypeOK
<1>2. Range(ch) = {} /\ Range(evCh) = {} /\ Range(file) = {}
  BY DEF Init, Range
<1>3. ItemInv
  BY <1>2 DEF Init, ItemInv, Everything, Ascending
<1>4. CloseInv
  BY <1>2 DEF Init, CloseInv
<1> QED
  BY <1>1, <1>3, <1>4 DEF IInv

-----------------------------------------------------------------------------
(* Every step preserves it.                                                *)

\* Types.
LEMMA StepType == IInv /\ [Next]_vars => TypeOK'
<1> SUFFICES ASSUME IInv, [Next]_vars PROVE TypeOK'
  OBVIOUS
<1>1. ASSUME NEW p \in Producers, Check(p)
      PROVE  TypeOK'
  <2>0. calls \in [Producers -> Nat] /\ \A q \in Producers : calls[q] <= Bound(q)
    BY DEF IInv, TypeOK
  <2>1. calls[p] \in Nat /\ calls[p] + 1 <= Bound(p)
    BY <1>1, <2>0, ItemsArePairs DEF Check
  <2>2. <<p, calls[p] + 1>> \in Items
    BY <2>1, ItemsArePairs
  <2>3. calls' \in [Producers -> Nat] /\ \A q \in Producers : calls'[q] <= Bound(q)
    BY <1>1, <2>0, <2>1 DEF Check
  <2>4. refused' \subseteq Items
    BY <1>1, <2>2 DEF IInv, TypeOK, Check
  <2> QED
    BY <1>1, <2>3, <2>4, SMT DEF IInv, TypeOK, Check
<1>2. ASSUME NEW p \in Producers, LogSend(p)
      PROVE  TypeOK'
  <2>1. Item(p) \in Items
    BY <1>2, SentIsItem DEF LogSend
  <2>2. ch' \in Seq(Items) /\ Len(ch') <= BufferSize
    <3>1. ch \in Seq(Items) /\ Len(ch) <= BufferSize
      BY DEF IInv, TypeOK
    <3>2. ch' = ch \/ (Len(ch) < BufferSize /\ ch' = Append(ch, Item(p)))
      BY <1>2, Zenon DEF LogSend
    <3> QED
      BY <2>1, <3>1, <3>2, AppendWithin, WriterAssumption
  <2> QED
    BY <1>2, <2>1, <2>2 DEF IInv, TypeOK, LogSend
<1>3. ASSUME NEW p \in Producers, EventSend(p)
      PROVE  TypeOK'
  <2>1. Item(p) \in Items
    BY <1>3, SentIsItem DEF EventSend
  <2>2. evCh' \in Seq(Items) /\ Len(evCh') <= BufferSize
    <3>1. evCh \in Seq(Items) /\ Len(evCh) <= BufferSize
      BY DEF IInv, TypeOK
    <3>2. evCh' = evCh \/ (Len(evCh) < BufferSize /\ evCh' = Append(evCh, Item(p)))
      BY <1>3, Zenon DEF EventSend
    <3> QED
      BY <2>1, <3>1, <3>2, AppendWithin, WriterAssumption
  <2> QED
    BY <1>3, <2>1, <2>2 DEF IInv, TypeOK, EventSend
<1>4. CASE RunRecord
  <2>1. Head(ch) \in Items /\ ch' \in Seq(Items) /\ Len(ch') <= BufferSize
    <3>1. ch \in Seq(Items) /\ Len(ch) <= BufferSize
      BY DEF IInv, TypeOK
    <3>2. ch # <<>> /\ ch' = Tail(ch)
      BY <1>4, Zenon DEF RunRecord
    <3> QED
      BY <3>1, <3>2, RangeHeadTail, WriterAssumption
  <2>2. file' \in Seq(Items) /\ failed' \subseteq Items
    <3>1. file \in Seq(Items) /\ failed \subseteq Items
      BY DEF IInv, TypeOK
    <3>2. \/ file' = Append(file, Head(ch)) /\ failed' = failed
          \/ file' = file /\ failed' = failed \cup {Head(ch)}
      BY <1>4, Zenon DEF RunRecord, Write
    <3> QED
      BY <2>1, <3>1, <3>2
  <2> QED
    BY <1>4, <2>1, <2>2 DEF IInv, TypeOK, RunRecord
<1>5. CASE RunEvent
  <2>1. Head(evCh) \in Items /\ evCh' \in Seq(Items) /\ Len(evCh') <= BufferSize
    <3>1. evCh \in Seq(Items) /\ Len(evCh) <= BufferSize
      BY DEF IInv, TypeOK
    <3>2. evCh # <<>> /\ evCh' = Tail(evCh)
      BY <1>5, Zenon DEF RunEvent
    <3> QED
      BY <3>1, <3>2, RangeHeadTail, WriterAssumption
  <2>2. file' \in Seq(Items) /\ failed' \subseteq Items
    <3>1. file \in Seq(Items) /\ failed \subseteq Items
      BY DEF IInv, TypeOK
    <3>2. \/ file' = Append(file, Head(evCh)) /\ failed' = failed
          \/ file' = file /\ failed' = failed \cup {Head(evCh)}
      BY <1>5, Zenon DEF RunEvent, Write
    <3> QED
      BY <2>1, <3>1, <3>2
  <2> QED
    BY <1>5, <2>1, <2>2 DEF IInv, TypeOK, RunEvent
<1>6. CASE RunDone
  BY <1>6 DEF IInv, TypeOK, RunDone
<1>7. CASE RunExit
  BY <1>7 DEF IInv, TypeOK, RunExit
<1>8. ASSUME NEW c \in Closers, CloseCall(c) \/ CloseOn(c)
      PROVE  TypeOK'
  BY <1>8 DEF IInv, TypeOK, CloseCall, CloseOn, CloserStep, CloseStore, CloseSignal,
              CloseWait, CloseFlush, CloseUnblock
<1>9. CASE UNCHANGED vars
  BY <1>9 DEF IInv, TypeOK, vars
<1> QED
  BY <1>1, <1>2, <1>3, <1>4, <1>5, <1>6, <1>7, <1>8, <1>9
     DEF Next, Produce, Send, Run, Producers

\* Appending an item later than its goroutine's others keeps the order.
LEMMA AscendingAppend ==
    ASSUME NEW s \in Seq(Items), NEW e \in Items, Ascending(s),
           \A y \in Range(s) : y[1] = e[1] => y[2] < e[2]
    PROVE  Ascending(Append(s, e))
<1>1. /\ DOMAIN Append(s, e) = 1..(Len(s) + 1) /\ DOMAIN s = 1..Len(s) /\ Len(s) \in Nat
      /\ Append(s, e)[Len(s) + 1] = e
      /\ \A i \in 1..Len(s) : Append(s, e)[i] = s[i]
  OBVIOUS
<1> SUFFICES ASSUME NEW i \in DOMAIN Append(s, e), NEW j \in DOMAIN Append(s, e), i < j,
                    Append(s, e)[i][1] = Append(s, e)[j][1]
             PROVE  Append(s, e)[i][2] < Append(s, e)[j][2]
  BY DEF Ascending
<1>2. i \in DOMAIN s /\ Append(s, e)[i] = s[i] /\ s[i] \in Range(s)
  BY <1>1 DEF Range
<1>3. CASE j \in DOMAIN s
  BY <1>1, <1>2, <1>3 DEF Ascending
<1>4. CASE j = Len(s) + 1
  BY <1>1, <1>2, <1>4
<1> QED
  BY <1>1, <1>3, <1>4

\* The head of an ordered sequence precedes its goroutine's other items.
LEMMA AscendingTail ==
    ASSUME NEW s \in Seq(Items), s # <<>>, Ascending(s)
    PROVE  /\ Ascending(Tail(s))
           /\ \A y \in Range(Tail(s)) : y[1] = Head(s)[1] => Head(s)[2] < y[2]
<1>1. /\ DOMAIN Tail(s) = 1..(Len(s) - 1) /\ DOMAIN s = 1..Len(s) /\ Len(s) \in Nat \ {0}
      /\ Head(s) = s[1]
      /\ \A i \in 1..(Len(s) - 1) : Tail(s)[i] = s[i + 1]
  OBVIOUS
<1>2. ASSUME NEW i \in DOMAIN Tail(s), NEW j \in DOMAIN Tail(s), i < j,
             Tail(s)[i][1] = Tail(s)[j][1]
      PROVE  Tail(s)[i][2] < Tail(s)[j][2]
  <2>1. i + 1 \in DOMAIN s /\ j + 1 \in DOMAIN s /\ i + 1 < j + 1
    BY <1>1, <1>2
  <2> QED
    BY <1>1, <1>2, <2>1 DEF Ascending
<1>3. ASSUME NEW y \in Range(Tail(s)), y[1] = Head(s)[1]
      PROVE  Head(s)[2] < y[2]
  <2>1. PICK i \in DOMAIN Tail(s) : y = Tail(s)[i]
    BY DEF Range
  <2>2. 1 \in DOMAIN s /\ i + 1 \in DOMAIN s /\ 1 < i + 1 /\ y = s[i + 1]
    BY <1>1, <2>1
  <2> QED
    BY <1>1, <1>3, <2>2 DEF Ascending
<1> QED
  BY <1>2, <1>3 DEF Ascending

\* Where items are and their order.
LEMMA StepItems == IInv /\ [Next]_vars => ItemInv'
<1> SUFFICES ASSUME IInv, [Next]_vars PROVE ItemInv'
  OBVIOUS
<1>0. /\ ItemInv
      /\ ch \in Seq(Items) /\ evCh \in Seq(Items) /\ file \in Seq(Items)
      /\ calls \in [Producers -> Nat] /\ ppc \in [Producers -> {"idle", "send"}]
      /\ \A x \in Everything : Behind(x) /\ x \in Items
  <2>1. /\ ItemInv
        /\ ch \in Seq(Items) /\ evCh \in Seq(Items) /\ file \in Seq(Items)
        /\ calls \in [Producers -> Nat] /\ ppc \in [Producers -> {"idle", "send"}]
        /\ failed \cup refused \cup dropped \cup early \subseteq Items
    BY DEF IInv, TypeOK
  <2>2. \A t \in Seq(Items) : Range(t) \subseteq Items
    BY DEF Range
  <2> QED
    BY <2>1, <2>2 DEF Everything, ItemInv
<1>1. ASSUME NEW p \in Producers, Check(p)
      PROVE  ItemInv'
  <2>1. /\ ppc[p] = "idle" /\ calls' = [calls EXCEPT ![p] = @ + 1]
        /\ ch' = ch /\ evCh' = evCh /\ file' = file /\ failed' = failed
        /\ dropped' = dropped /\ early' = early
    BY <1>1, Zenon DEF Check
  <2>2. \/ refused' = refused \cup {<<p, calls[p] + 1>>} /\ ppc' = ppc
        \/ refused' = refused /\ ppc' = [ppc EXCEPT ![p] = "send"]
    BY <1>1, Zenon DEF Check
  <2>3. ASSUME NEW x \in Items, Behind(x)
        PROVE  Behind(x)'
    BY <2>1, <2>2, <2>3, <1>0, ItemsArePairs DEF Behind
  <2>4. CASE refused' = refused \cup {<<p, calls[p] + 1>>} /\ ppc' = ppc
    <3>1. ASSUME NEW x, x = <<p, calls[p] + 1>>
          PROVE  Behind(x)'
      <4>1. x[1] = p /\ x[2] = calls'[p] /\ ppc'[p] = "idle"
        BY <2>1, <2>4, <3>1, <1>0
      <4> QED
        BY <4>1 DEF Behind
    <3>2. \A x \in Everything' : x \in Everything \/ x = <<p, calls[p] + 1>>
      BY <2>1, <2>4 DEF Everything
    <3>3. \A q \in Producers : ppc'[q] = "send" => calls'[q] >= 1
      BY <2>1, <2>4, <1>0 DEF ItemInv
    <3>4. \A x \in Everything' : Behind(x)'
      BY <2>3, <3>1, <3>2, <1>0
    <3> QED
      BY <2>1, <3>3, <3>4, <1>0 DEF ItemInv, Ascending
  <2>5. CASE refused' = refused /\ ppc' = [ppc EXCEPT ![p] = "send"]
    <3>1. Everything' = Everything
      BY <2>1, <2>5 DEF Everything
    <3>2. \A q \in Producers : ppc'[q] = "send" => calls'[q] >= 1
      BY <2>1, <2>5, <1>0 DEF ItemInv
    <3>3. \A x \in Everything' : Behind(x)'
      BY <2>3, <3>1, <1>0
    <3> QED
      BY <2>1, <3>2, <3>3, <1>0 DEF ItemInv, Ascending
  <2> QED
    BY <2>2, <2>4, <2>5
<1>2. ASSUME NEW p \in Handlers, LogSend(p)
      PROVE  ItemInv'
  <2>1. /\ ppc[p] = "send" /\ ppc' = [ppc EXCEPT ![p] = "idle"] /\ calls' = calls
        /\ file' = file /\ failed' = failed /\ refused' = refused /\ evCh' = evCh
    BY <1>2, Zenon DEF LogSend
  <2>2. \/ ch' = Append(ch, Item(p)) /\ dropped' = dropped /\ early' \in {early, early \cup {Item(p)}}
        \/ ch' = ch /\ early' = early /\ dropped' = dropped \cup {Item(p)}
    BY <1>2, Zenon DEF LogSend
  <2>3. p \in Producers /\ Item(p) \in Items /\ Item(p)[1] = p /\ Item(p)[2] = calls[p]
    BY <2>1, SentIsItem, Zenon DEF Producers
  <2>4. \A x \in Everything : Behind(x) /\ x \in Items
    BY <1>0
  <2>5. ASSUME NEW x \in Items, Behind(x)
        PROVE  Behind(x)'
    BY <2>1, <2>3, <2>5, <1>0, ItemsArePairs DEF Behind
  <2>6. ASSUME NEW x, x = Item(p)
        PROVE  Behind(x)'
    <3>1. x[1] = p /\ x[2] = calls'[p] /\ ppc'[p] = "idle"
      BY <2>1, <2>3, <2>6, <1>0
    <3> QED
      BY <3>1 DEF Behind
  <2>7. Range(ch') \subseteq Range(ch) \cup {Item(p)}
    <3>1. Range(Append(ch, Item(p))) = Range(ch) \cup {Item(p)}
      BY <2>3, <1>0, RangeAppend
    <3> QED
      BY <2>2, <3>1
  <2>8. /\ \A y \in Everything' : y \in Everything \/ y = Item(p)
        /\ early' \subseteq Range(ch') \cup Range(evCh') \cup Range(file') \cup failed'
    <3>1. CASE ch' = Append(ch, Item(p)) /\ dropped' = dropped
               /\ early' \in {early, early \cup {Item(p)}}
      <4>1. Range(ch') = Range(ch) \cup {Item(p)}
        BY <3>1, <2>3, <1>0, RangeAppend
      <4> QED
        BY <3>1, <4>1, <2>1, <1>0 DEF Everything, ItemInv
    <3>2. CASE ch' = ch /\ early' = early /\ dropped' = dropped \cup {Item(p)}
      BY <3>2, <2>1, <1>0 DEF Everything, ItemInv
    <3> QED
      BY <2>2, <3>1, <3>2
  <2>9. Ascending(ch')
    <3>1. \A y \in Range(ch) : y[1] = Item(p)[1] => y[2] < Item(p)[2]
      BY <2>1, <2>3, <2>4 DEF Behind, Everything
    <3> QED
      BY <2>2, <2>3, <3>1, <1>0, AscendingAppend DEF ItemInv
  <2>10. \A q \in Producers : ppc'[q] = "send" => calls'[q] >= 1
    BY <2>1, <1>0 DEF ItemInv
  <2>11. \A x \in Everything' : Behind(x)'
    BY <2>4, <2>5, <2>6, <2>8
  <2>12. \A x \in Range(ch') : x[1] \in Handlers
    BY <2>3, <2>7, <1>0 DEF ItemInv
  <2> QED
    BY <2>1, <2>8, <2>9, <2>10, <2>11, <2>12, <1>0 DEF ItemInv, Ascending
<1>3. ASSUME NEW p \in Sources, EventSend(p)
      PROVE  ItemInv'
  <2>1. /\ ppc[p] = "send" /\ ppc' = [ppc EXCEPT ![p] = "idle"] /\ calls' = calls
        /\ file' = file /\ failed' = failed /\ refused' = refused /\ ch' = ch
    BY <1>3, Zenon DEF EventSend
  <2>2. \/ evCh' = Append(evCh, Item(p)) /\ dropped' = dropped /\ early' \in {early, early \cup {Item(p)}}
        \/ evCh' = evCh /\ early' = early /\ dropped' = dropped \cup {Item(p)}
    BY <1>3, Zenon DEF EventSend
  <2>3. p \in Producers /\ Item(p) \in Items /\ Item(p)[1] = p /\ Item(p)[2] = calls[p]
    BY <2>1, SentIsItem, Zenon DEF Producers
  <2>4. \A x \in Everything : Behind(x) /\ x \in Items
    BY <1>0
  <2>5. ASSUME NEW x \in Items, Behind(x)
        PROVE  Behind(x)'
    BY <2>1, <2>3, <2>5, <1>0, ItemsArePairs DEF Behind
  <2>6. ASSUME NEW x, x = Item(p)
        PROVE  Behind(x)'
    <3>1. x[1] = p /\ x[2] = calls'[p] /\ ppc'[p] = "idle"
      BY <2>1, <2>3, <2>6, <1>0
    <3> QED
      BY <3>1 DEF Behind
  <2>7. Range(evCh') \subseteq Range(evCh) \cup {Item(p)}
    <3>1. Range(Append(evCh, Item(p))) = Range(evCh) \cup {Item(p)}
      BY <2>3, <1>0, RangeAppend
    <3> QED
      BY <2>2, <3>1
  <2>8. /\ \A y \in Everything' : y \in Everything \/ y = Item(p)
        /\ early' \subseteq Range(ch') \cup Range(evCh') \cup Range(file') \cup failed'
    <3>1. CASE evCh' = Append(evCh, Item(p)) /\ dropped' = dropped
               /\ early' \in {early, early \cup {Item(p)}}
      <4>1. Range(evCh') = Range(evCh) \cup {Item(p)}
        BY <3>1, <2>3, <1>0, RangeAppend
      <4> QED
        BY <3>1, <4>1, <2>1, <1>0 DEF Everything, ItemInv
    <3>2. CASE evCh' = evCh /\ early' = early /\ dropped' = dropped \cup {Item(p)}
      BY <3>2, <2>1, <1>0 DEF Everything, ItemInv
    <3> QED
      BY <2>2, <3>1, <3>2
  <2>9. Ascending(evCh')
    <3>1. \A y \in Range(evCh) : y[1] = Item(p)[1] => y[2] < Item(p)[2]
      BY <2>1, <2>3, <2>4 DEF Behind, Everything
    <3> QED
      BY <2>2, <2>3, <3>1, <1>0, AscendingAppend DEF ItemInv
  <2>10. \A q \in Producers : ppc'[q] = "send" => calls'[q] >= 1
    BY <2>1, <1>0 DEF ItemInv
  <2>11. \A x \in Everything' : Behind(x)'
    BY <2>4, <2>5, <2>6, <2>8
  <2>12. \A x \in Range(evCh') : x[1] \in Sources
    BY <2>3, <2>7, <1>0 DEF ItemInv
  <2> QED
    BY <2>1, <2>8, <2>9, <2>10, <2>11, <2>12, <1>0 DEF ItemInv, Ascending
<1>4. CASE RunRecord
  <2>1. /\ ch # <<>> /\ ch' = Tail(ch) /\ evCh' = evCh
        /\ calls' = calls /\ ppc' = ppc
        /\ refused' = refused /\ dropped' = dropped /\ early' = early
    BY <1>4, Zenon DEF RunRecord
  <2>2. \/ file' = Append(file, Head(ch)) /\ failed' = failed
        \/ file' = file /\ failed' = failed \cup {Head(ch)}
    BY <1>4, Zenon DEF RunRecord, Write
  <2>3. /\ Head(ch) \in Items /\ ch' \in Seq(Items)
        /\ Range(ch) = {Head(ch)} \cup Range(ch')
    BY <2>1, <1>0, RangeHeadTail
  <2>4. Range(file') \cup failed' = Range(file) \cup failed \cup {Head(ch)}
    <3>1. CASE file' = Append(file, Head(ch)) /\ failed' = failed
      BY <3>1, <2>3, <1>0, RangeAppend
    <3>2. CASE file' = file /\ failed' = failed \cup {Head(ch)}
      BY <3>2
    <3> QED
      BY <2>2, <3>1, <3>2
  <2>5. Everything' = Everything
    BY <2>1, <2>3, <2>4 DEF Everything
  <2>6. \A x \in Everything' : Behind(x)'
    BY <2>1, <2>5, <1>0 DEF ItemInv, Behind
  <2>7. Ascending(ch')
    BY <2>1, <1>0, AscendingTail DEF ItemInv
  <2>8. early' \subseteq Range(ch') \cup Range(evCh') \cup Range(file') \cup failed'
    BY <2>1, <2>3, <2>4, <1>0 DEF ItemInv
  <2>9. \A x \in Range(ch') : x[1] \in Handlers
    BY <2>3, <1>0 DEF ItemInv
  <2> QED
    BY <2>1, <2>6, <2>7, <2>8, <2>9, <1>0 DEF ItemInv, Ascending
<1>5. CASE RunEvent
  <2>1. /\ evCh # <<>> /\ evCh' = Tail(evCh) /\ ch' = ch
        /\ calls' = calls /\ ppc' = ppc
        /\ refused' = refused /\ dropped' = dropped /\ early' = early
    BY <1>5, Zenon DEF RunEvent
  <2>2. \/ file' = Append(file, Head(evCh)) /\ failed' = failed
        \/ file' = file /\ failed' = failed \cup {Head(evCh)}
    BY <1>5, Zenon DEF RunEvent, Write
  <2>3. /\ Head(evCh) \in Items /\ evCh' \in Seq(Items)
        /\ Range(evCh) = {Head(evCh)} \cup Range(evCh')
    BY <2>1, <1>0, RangeHeadTail
  <2>4. Range(file') \cup failed' = Range(file) \cup failed \cup {Head(evCh)}
    <3>1. CASE file' = Append(file, Head(evCh)) /\ failed' = failed
      BY <3>1, <2>3, <1>0, RangeAppend
    <3>2. CASE file' = file /\ failed' = failed \cup {Head(evCh)}
      BY <3>2
    <3> QED
      BY <2>2, <3>1, <3>2
  <2>5. Everything' = Everything
    BY <2>1, <2>3, <2>4 DEF Everything
  <2>6. \A x \in Everything' : Behind(x)'
    BY <2>1, <2>5, <1>0 DEF ItemInv, Behind
  <2>7. Ascending(evCh')
    BY <2>1, <1>0, AscendingTail DEF ItemInv
  <2>8. early' \subseteq Range(ch') \cup Range(evCh') \cup Range(file') \cup failed'
    BY <2>1, <2>3, <2>4, <1>0 DEF ItemInv
  <2>9. \A x \in Range(evCh') : x[1] \in Sources
    BY <2>3, <1>0 DEF ItemInv
  <2> QED
    BY <2>1, <2>6, <2>7, <2>8, <2>9, <1>0 DEF ItemInv, Ascending
<1>6. ASSUME UNCHANGED <<ch, evCh, calls, ppc, file, refused, dropped, failed, early>>
      PROVE  ItemInv'
  BY <1>6, <1>0 DEF ItemInv, Everything, Behind, Ascending
<1>7. CASE RunDone \/ RunExit \/ UNCHANGED vars
  BY <1>6, <1>7 DEF RunDone, RunExit, vars
<1>8. ASSUME NEW c \in Closers, CloseCall(c) \/ CloseOn(c)
      PROVE  ItemInv'
  BY <1>6, <1>8 DEF CloseCall, CloseOn, CloseStore, CloseSignal, CloseWait, CloseFlush,
                    CloseUnblock
<1> QED
  BY <1>1, <1>2, <1>3, <1>4, <1>5, <1>7, <1>8 DEF Next, Produce, Send, Run

\* How far a shutdown has come.
LEMMA StepClose == IInv /\ [Next]_vars => CloseInv'
<1> SUFFICES ASSUME IInv, [Next]_vars PROVE CloseInv'
  OBVIOUS
<1>0. /\ CloseInv /\ ItemInv
      /\ ch \in Seq(Items) /\ evCh \in Seq(Items)
      /\ cpc \in [Closers -> {"idle", "store", "signal", "wait", "flush", "blocked", "returned"}]
  BY DEF IInv, TypeOK
<1>1. ASSUME NEW p \in Producers, Check(p)
      PROVE  CloseInv'
  BY <1>1, <1>0 DEF Check, CloseInv, Returned
<1>2. ASSUME NEW p \in Producers, LogSend(p) \/ EventSend(p)
      PROVE  CloseInv'
  <2>1. /\ closed' = closed /\ done' = done /\ wpc' = wpc /\ once' = once /\ cpc' = cpc
        /\ ppc[p] = "send"
        /\ closed = TRUE => early' = early
    BY <1>2, Zenon DEF LogSend, EventSend
  <2>2. Range(ch') \cup Range(evCh') \subseteq Range(ch) \cup Range(evCh) \cup {Item(p)}
    <3>1. Item(p) \in Items
      BY <2>1, SentIsItem
    <3>2. /\ Range(Append(ch, Item(p))) = Range(ch) \cup {Item(p)}
          /\ Range(Append(evCh, Item(p))) = Range(evCh) \cup {Item(p)}
      BY <3>1, <1>0, RangeAppend
    <3>3. /\ ch' = ch \/ ch' = Append(ch, Item(p))
          /\ evCh' = evCh \/ evCh' = Append(evCh, Item(p))
      BY <1>2, Zenon DEF LogSend, EventSend
    <3> QED
      BY <3>2, <3>3
  <2>3. Item(p) \notin early
    <3>1. ~Behind(Item(p))
      <4>1. Item(p)[1] = p /\ Item(p)[2] = calls[p] /\ calls[p] \in Nat
        BY <2>1, SentIsItem DEF IInv, TypeOK
      <4> QED
        BY <4>1, <2>1 DEF Behind
    <3> QED
      BY <3>1, <1>0 DEF ItemInv, Everything
  <2> QED
    BY <2>1, <2>2, <2>3, <1>0 DEF CloseInv, Returned
<1>3. CASE RunRecord \/ RunEvent
  <2>1. /\ closed' = closed /\ done' = done /\ wpc' = wpc /\ once' = once /\ cpc' = cpc
        /\ wpc # "exited"
    BY <1>3 DEF RunRecord, RunEvent
  <2> QED
    BY <2>1, <1>0 DEF CloseInv, Returned
<1>4. CASE RunDone
  BY <1>4, <1>0 DEF RunDone, CloseInv, Returned
<1>5. CASE RunExit
  <2>1. Range(ch') = {} /\ Range(evCh') = {}
    BY <1>5 DEF RunExit, Range
  <2> QED
    BY <1>5, <2>1, <1>0 DEF RunExit, CloseInv, Returned
<1>6. ASSUME NEW c \in Closers, CloseCall(c)
      PROVE  CloseInv'
  BY <1>6, <1>0 DEF CloseCall, CloserStep, CloseInv, Returned
<1>7. ASSUME NEW c \in Closers, CloseStore(c)
      PROVE  CloseInv'
  BY <1>7, <1>0 DEF CloseStore, CloserStep, CloseInv, Returned
<1>8. ASSUME NEW c \in Closers, CloseSignal(c)
      PROVE  CloseInv'
  BY <1>8, <1>0 DEF CloseSignal, CloserStep, CloseInv, Returned
<1>9. ASSUME NEW c \in Closers, CloseWait(c)
      PROVE  CloseInv'
  BY <1>9, <1>0 DEF CloseWait, CloserStep, CloseInv, Returned
<1>10. ASSUME NEW c \in Closers, CloseFlush(c)
       PROVE  CloseInv'
  BY <1>10, <1>0 DEF CloseFlush, CloserStep, CloseInv, Returned
<1>11. ASSUME NEW c \in Closers, CloseUnblock(c)
       PROVE  CloseInv'
  BY <1>11, <1>0 DEF CloseUnblock, CloserStep, CloseInv, Returned
<1>12. CASE UNCHANGED vars
  BY <1>12, <1>0 DEF vars, CloseInv, Returned
<1> QED
  BY <1>1, <1>2, <1>3, <1>4, <1>5, <1>6, <1>7, <1>8, <1>9, <1>10, <1>11, <1>12
     DEF Next, Produce, Send, Run, CloseOn

\* The invariant holds in every reachable state.
LEMMA Invariant == Spec => []IInv
<1>1. IInv /\ [Next]_vars => IInv'
  BY StepType, StepItems, StepClose DEF IInv
<1> QED
  BY InitInv, <1>1, PTL DEF Spec

-----------------------------------------------------------------------------
(* The theorems.                                                           *)

\* The type invariant, for any number of goroutines and any capacity.
THEOREM TypeCorrect == Spec => []TypeOK
<1>1. IInv => TypeOK
  BY DEF IInv
<1> QED
  BY Invariant, <1>1, PTL

\* Close loses nothing that Log and Event queued before it set the flag
\* (writer.go, Close and run).
THEOREM CloseFlushesEarlyItemsAlways == Spec => []CloseFlushesEarlyItems
<1>1. IInv => CloseFlushesEarlyItems
  BY DEF IInv, ItemInv, CloseInv, CloseFlushesEarlyItems, Returned
<1> QED
  BY Invariant, <1>1, PTL

-----------------------------------------------------------------------------
(* The refinement.                                                         *)

\* The phase that the refinement mapping gives.
Phase == IF Returned THEN "closed" ELSE IF closed THEN "closing" ELSE "open"

\* A step of the writer is a step of the abstract sink, or none.
LEMMA StepRefines == IInv /\ [Next]_vars => [Sink!Next]_(Sink!vars)
<1> SUFFICES ASSUME IInv, [Next]_vars PROVE [Sink!Next]_(Sink!vars)
  OBVIOUS
<1>0. /\ CloseInv /\ ItemInv
      /\ ch \in Seq(Items) /\ evCh \in Seq(Items) /\ file \in Seq(Items)
      /\ calls \in [Producers -> Nat] /\ ppc \in [Producers -> {"idle", "send"}]
      /\ cpc \in [Closers -> {"idle", "store", "signal", "wait", "flush", "blocked", "returned"}]
      /\ closed \in BOOLEAN
  BY DEF IInv, TypeOK
<1>1. ASSUME NEW p \in Producers, Check(p)
      PROVE  Sink!Next
  <2> DEFINE x == <<p, calls[p] + 1>>
  <2>1. /\ ppc[p] = "idle" /\ calls[p] < Bound(p) /\ calls' = [calls EXCEPT ![p] = @ + 1]
        /\ ch' = ch /\ evCh' = evCh /\ file' = file /\ failed' = failed
        /\ dropped' = dropped /\ early' = early /\ closed' = closed /\ cpc' = cpc
    BY <1>1, Zenon DEF Check
  <2>2. Phase' = Phase /\ (Phase = "open" <=> closed = FALSE)
    BY <2>1, <1>0 DEF Phase, Returned, CloseInv
  <2>3. x \in Items
    <3>1. calls[p] + 1 \in Nat /\ calls[p] + 1 >= 1 /\ calls[p] + 1 <= Bound(p)
      BY <2>1, <1>0, ItemsArePairs
    <3> QED
      BY <3>1, ItemsArePairs
  <2>4. ASSUME NEW y \in Sink!Offered, y[1] = p
        PROVE  y[2] < calls[p] + 1
    <3>1. CASE y \in Calling
      BY <3>1, <2>1, <2>4 DEF Calling, Item
    <3>2. CASE y \in Everything
      <4>1. Behind(y) /\ calls[p] \in Nat
        BY <3>2, <1>0 DEF ItemInv
      <4>2. y \in Items
        <5>1. \A t \in Seq(Items) : Range(t) \subseteq Items
          BY DEF Range
        <5> QED
          BY <3>2, <5>1 DEF Everything, IInv, TypeOK
      <4> QED
        BY <4>1, <4>2, <2>4, ItemsArePairs DEF Behind
    <3> QED
      BY <3>1, <3>2 DEF Sink!Offered, Everything
  <2>5. Sink!IsNext(x)
    BY <2>4 DEF Sink!IsNext
  <2>6. CASE closed = FALSE
    <3>1. ppc' = [ppc EXCEPT ![p] = "send"] /\ refused' = refused
      BY <1>1, <2>6 DEF Check
    <3>2. Calling' = Calling \cup {x}
      <4>1. \A q \in Producers : q # p => Item(q)' = Item(q) /\ ppc'[q] = ppc[q]
        BY <2>1, <3>1, <1>0 DEF Item
      <4>2. Item(p)' = x /\ ppc'[p] = "send"
        BY <2>1, <3>1, <1>0 DEF Item
      <4> QED
        BY <4>1, <4>2, <2>1 DEF Calling
    <3>3. Sink!Call(x)
      BY <2>1, <2>2, <2>5, <2>6, <3>1, <3>2 DEF Sink!Call, Phase
    <3> QED
      BY <2>3, <3>3 DEF Sink!Next
  <2>7. CASE closed = TRUE
    <3>1. ppc' = ppc /\ refused' = refused \cup {x}
      BY <1>1, <2>7 DEF Check
    <3>2. Calling' = Calling
      <4>1. \A q \in Producers : q # p => Item(q)' = Item(q)
        BY <2>1, <1>0 DEF Item
      <4> QED
        BY <4>1, <2>1, <3>1 DEF Calling
    <3>3. Sink!Call(x)
      BY <2>1, <2>2, <2>5, <2>7, <3>1, <3>2 DEF Sink!Call, Phase
    <3> QED
      BY <2>3, <3>3 DEF Sink!Next
  <2> QED
    BY <2>6, <2>7, <1>0
<1>2. ASSUME NEW p \in Handlers, LogSend(p)
      PROVE  Sink!Next
  <2>1. p \in Producers /\ ppc[p] = "send" /\ ppc' = [ppc EXCEPT ![p] = "idle"] /\ calls' = calls
    BY <1>2, Zenon DEF LogSend, Producers
  <2>2. Item(p) \in Items /\ Item(p) \in Calling /\ Calling' = Calling \ {Item(p)}
    BY <2>1, <1>0, SentIsItem DEF Calling, Item
  <2>3. /\ closed' = closed /\ cpc' = cpc /\ file' = file /\ failed' = failed /\ refused' = refused
        /\ evCh' = evCh
    BY <1>2, Zenon DEF LogSend
  <2>4. Phase' = Phase
    BY <2>3 DEF Phase, Returned
  <2>5. CASE Len(ch) < BufferSize
    <3>1. ch' = Append(ch, Item(p)) /\ dropped' = dropped
          /\ early' = IF closed THEN early ELSE early \cup {Item(p)}
      BY <1>2, <2>5, Zenon DEF LogSend
    <3>2. Range(ch') = Range(ch) \cup {Item(p)}
      BY <3>1, <2>2, <1>0, RangeAppend
    <3>3. early' = IF Phase = "open" THEN early \cup {Item(p)} ELSE early
      BY <3>1, <1>0 DEF Phase, CloseInv, Returned
    <3>4. Sink!Accept(Item(p))
      BY <2>2, <2>3, <2>4, <3>1, <3>2, <3>3 DEF Sink!Accept, Phase
    <3> QED
      BY <2>2, <3>4 DEF Sink!Next
  <2>6. CASE ~(Len(ch) < BufferSize)
    <3>1. ch' = ch /\ dropped' = dropped \cup {Item(p)} /\ early' = early
      BY <1>2, <2>6, Zenon DEF LogSend
    <3>2. Range(ch) \cup Range(evCh) # {}
      <4>1. ch \in Seq(Items) /\ ch # <<>>
        BY <2>6, <1>0, WriterAssumption
      <4>2. Head(ch) \in Range(ch)
        BY <4>1, RangeHeadTail
      <4> QED
        BY <4>2
    <3>3. Sink!Drop(Item(p))
      BY <2>2, <2>3, <2>4, <3>1, <3>2 DEF Sink!Drop, Phase
    <3> QED
      BY <2>2, <3>3 DEF Sink!Next
  <2> QED
    BY <2>5, <2>6
<1>3. ASSUME NEW p \in Sources, EventSend(p)
      PROVE  Sink!Next
  <2>1. p \in Producers /\ ppc[p] = "send" /\ ppc' = [ppc EXCEPT ![p] = "idle"] /\ calls' = calls
    BY <1>3, Zenon DEF EventSend, Producers
  <2>2. Item(p) \in Items /\ Item(p) \in Calling /\ Calling' = Calling \ {Item(p)}
    BY <2>1, <1>0, SentIsItem DEF Calling, Item
  <2>3. /\ closed' = closed /\ cpc' = cpc /\ file' = file /\ failed' = failed /\ refused' = refused
        /\ ch' = ch
    BY <1>3, Zenon DEF EventSend
  <2>4. Phase' = Phase
    BY <2>3 DEF Phase, Returned
  <2>5. CASE Len(evCh) < BufferSize
    <3>1. evCh' = Append(evCh, Item(p)) /\ dropped' = dropped
          /\ early' = IF closed THEN early ELSE early \cup {Item(p)}
      BY <1>3, <2>5, Zenon DEF EventSend
    <3>2. Range(evCh') = Range(evCh) \cup {Item(p)}
      BY <3>1, <2>2, <1>0, RangeAppend
    <3>3. early' = IF Phase = "open" THEN early \cup {Item(p)} ELSE early
      BY <3>1, <1>0 DEF Phase, CloseInv, Returned
    <3>4. Sink!Accept(Item(p))
      BY <2>2, <2>3, <2>4, <3>1, <3>2, <3>3 DEF Sink!Accept, Phase
    <3> QED
      BY <2>2, <3>4 DEF Sink!Next
  <2>6. CASE ~(Len(evCh) < BufferSize)
    <3>1. evCh' = evCh /\ dropped' = dropped \cup {Item(p)} /\ early' = early
      BY <1>3, <2>6, Zenon DEF EventSend
    <3>2. Range(ch) \cup Range(evCh) # {}
      <4>1. evCh \in Seq(Items) /\ evCh # <<>>
        BY <2>6, <1>0, WriterAssumption
      <4>2. Head(evCh) \in Range(evCh)
        BY <4>1, RangeHeadTail
      <4> QED
        BY <4>2
    <3>3. Sink!Drop(Item(p))
      BY <2>2, <2>3, <2>4, <3>1, <3>2 DEF Sink!Drop, Phase
    <3> QED
      BY <2>2, <3>3 DEF Sink!Next
  <2> QED
    BY <2>5, <2>6
<1>4. CASE RunRecord
  <2> DEFINE x == Head(ch)
             Pending == Range(ch) \cup Range(evCh)
             K == IF file' = file THEN {} ELSE {x}
  <2>1. /\ ch # <<>> /\ ch' = Tail(ch) /\ evCh' = evCh /\ wpc # "exited"
        /\ calls' = calls /\ ppc' = ppc /\ closed' = closed /\ cpc' = cpc
        /\ refused' = refused /\ dropped' = dropped /\ early' = early
    BY <1>4 DEF RunRecord
  <2>2. \/ file' = Append(file, x) /\ failed' = failed
        \/ file' = file /\ failed' = failed \cup {x}
    BY <1>4, Zenon DEF RunRecord, Write
  <2>3. /\ x \in Items /\ Range(ch) = {x} \cup Range(ch')
    BY <2>1, <1>0, RangeHeadTail
  <2>4. Phase' = Phase /\ Calling' = Calling /\ Phase # "closed"
    BY <2>1, <1>0 DEF Phase, Calling, Item, Returned, CloseInv
  <2>5. \A y \in Range(ch') : y[1] = x[1] => x[2] < y[2]
    BY <2>1, <1>0, AscendingTail DEF ItemInv
  <2>6. \A y \in Range(evCh) : y[1] # x[1]
    BY <2>3, <1>0, WriterAssumption DEF ItemInv
  <2>7. x \notin Range(ch') /\ x \notin Range(evCh)
    BY <2>3, <2>5, <2>6, ItemsArePairs
  <2>8. Pending' = Pending \ {x}
    BY <2>1, <2>3, <2>7
  <2>9. ASSUME NEW y \in Pending \ {x}, y[1] = x[1]
        PROVE  x[2] < y[2]
    BY <2>1, <2>3, <2>5, <2>6, <2>9
  <2>10. Range(file') = Range(file) \cup K /\ failed' = failed \cup ({x} \ K)
    <3>1. CASE file' = file /\ failed' = failed \cup {x}
      BY <3>1
    <3>2. CASE file' = Append(file, x) /\ failed' = failed
      <4>1. file' # file
        BY <3>2, <2>3, <1>0
      <4>2. Range(file') = Range(file) \cup {x}
        BY <3>2, <2>3, <1>0, RangeAppend
      <4> QED
        BY <3>2, <4>1, <4>2
    <3> QED
      BY <2>2, <3>1, <3>2
  <2>11. K \subseteq {x} /\ x \in Pending
    BY <2>3
  <2> HIDE DEF K
  <2>12. Sink!Settle({x}, K)
    <3>1. {x} \subseteq Pending /\ K \subseteq {x}
      BY <2>11
    <3>2. \A z \in {x}, y \in Pending \ {x} : z[1] = y[1] => z[2] < y[2]
      BY <2>9
    <3> QED
      BY <2>1, <2>4, <2>8, <2>10, <3>1, <3>2 DEF Sink!Settle, Phase
  <2>13. {x} \in SUBSET Pending /\ K \in SUBSET {x}
    BY <2>11
  <2> QED
    BY <2>12, <2>13 DEF Sink!Next
<1>5. CASE RunEvent
  <2> DEFINE x == Head(evCh)
             Pending == Range(ch) \cup Range(evCh)
             K == IF file' = file THEN {} ELSE {x}
  <2>1. /\ evCh # <<>> /\ evCh' = Tail(evCh) /\ ch' = ch /\ wpc # "exited"
        /\ calls' = calls /\ ppc' = ppc /\ closed' = closed /\ cpc' = cpc
        /\ refused' = refused /\ dropped' = dropped /\ early' = early
    BY <1>5 DEF RunEvent
  <2>2. \/ file' = Append(file, x) /\ failed' = failed
        \/ file' = file /\ failed' = failed \cup {x}
    BY <1>5, Zenon DEF RunEvent, Write
  <2>3. /\ x \in Items /\ Range(evCh) = {x} \cup Range(evCh')
    BY <2>1, <1>0, RangeHeadTail
  <2>4. Phase' = Phase /\ Calling' = Calling /\ Phase # "closed"
    BY <2>1, <1>0 DEF Phase, Calling, Item, Returned, CloseInv
  <2>5. \A y \in Range(evCh') : y[1] = x[1] => x[2] < y[2]
    BY <2>1, <1>0, AscendingTail DEF ItemInv
  <2>6. \A y \in Range(ch) : y[1] # x[1]
    BY <2>3, <1>0, WriterAssumption DEF ItemInv
  <2>7. x \notin Range(evCh') /\ x \notin Range(ch)
    BY <2>3, <2>5, <2>6, ItemsArePairs
  <2>8. Pending' = Pending \ {x}
    BY <2>1, <2>3, <2>7
  <2>9. ASSUME NEW y \in Pending \ {x}, y[1] = x[1]
        PROVE  x[2] < y[2]
    BY <2>1, <2>3, <2>5, <2>6, <2>9
  <2>10. Range(file') = Range(file) \cup K /\ failed' = failed \cup ({x} \ K)
    <3>1. CASE file' = file /\ failed' = failed \cup {x}
      BY <3>1
    <3>2. CASE file' = Append(file, x) /\ failed' = failed
      <4>1. file' # file
        BY <3>2, <2>3, <1>0
      <4>2. Range(file') = Range(file) \cup {x}
        BY <3>2, <2>3, <1>0, RangeAppend
      <4> QED
        BY <3>2, <4>1, <4>2
    <3> QED
      BY <2>2, <3>1, <3>2
  <2>11. K \subseteq {x} /\ x \in Pending
    BY <2>3
  <2> HIDE DEF K
  <2>12. Sink!Settle({x}, K)
    <3>1. {x} \subseteq Pending /\ K \subseteq {x}
      BY <2>11
    <3>2. \A z \in {x}, y \in Pending \ {x} : z[1] = y[1] => z[2] < y[2]
      BY <2>9
    <3> QED
      BY <2>1, <2>4, <2>8, <2>10, <3>1, <3>2 DEF Sink!Settle, Phase
  <2>13. {x} \in SUBSET Pending /\ K \in SUBSET {x}
    BY <2>11
  <2> QED
    BY <2>12, <2>13 DEF Sink!Next
<1>6. ASSUME UNCHANGED <<ch, evCh, calls, ppc, file, refused, dropped, failed, early>>,
             Phase' = Phase
      PROVE  UNCHANGED Sink!vars
  <2>1. Calling' = Calling
    BY <1>6 DEF Calling, Item
  <2> QED
    BY <1>6, <2>1 DEF Sink!vars, Phase
<1>7. CASE RunDone \/ RunExit \/ UNCHANGED vars
  <2>1. Phase' = Phase
    BY <1>7 DEF RunDone, RunExit, vars, Phase, Returned
  <2> QED
    BY <2>1, <1>6, <1>7 DEF RunDone, RunExit, vars
<1>8. ASSUME NEW c \in Closers, CloseCall(c) \/ CloseSignal(c) \/ CloseWait(c) \/ CloseUnblock(c)
      PROVE  UNCHANGED Sink!vars
  <2>1. Returned' = Returned
    BY <1>8, <1>0 DEF CloseCall, CloseSignal, CloseWait, CloseUnblock, CloserStep, Returned, CloseInv
  <2>2. Phase' = Phase
    BY <1>8, <2>1 DEF CloseCall, CloseSignal, CloseWait, CloseUnblock, Phase
  <2> QED
    BY <1>6, <1>8, <2>2 DEF CloseCall, CloseSignal, CloseWait, CloseUnblock
<1>9. ASSUME NEW c \in Closers, CloseStore(c)
      PROVE  Sink!Next \/ UNCHANGED Sink!vars
  <2>1. Returned' = Returned /\ closed' = TRUE
    BY <1>9, <1>0 DEF CloseStore, CloserStep, Returned
  <2>2. CASE closed = TRUE
    <3>1. Phase' = Phase
      BY <2>1, <2>2 DEF Phase
    <3> QED
      BY <1>6, <1>9, <3>1 DEF CloseStore
  <2>3. CASE closed = FALSE
    <3>1. Phase = "open" /\ Phase' = "closing"
      BY <2>1, <2>3, <1>0 DEF Phase, CloseInv, Returned
    <3>2. Calling' = Calling
      BY <1>9 DEF CloseStore, Calling, Item
    <3>3. Sink!Shut
      BY <1>9, <3>1, <3>2 DEF CloseStore, Sink!Shut, Phase
    <3> QED
      BY <3>3 DEF Sink!Next
  <2> QED
    BY <2>2, <2>3, <1>0
<1>10. ASSUME NEW c \in Closers, CloseFlush(c)
       PROVE  Sink!Next \/ UNCHANGED Sink!vars
  <2>1. Returned' /\ closed = TRUE /\ wpc = "exited"
    BY <1>10, <1>0 DEF CloseFlush, CloserStep, Returned, CloseInv
  <2>2. CASE Returned
    <3>1. Phase' = Phase
      BY <2>1, <2>2 DEF Phase
    <3> QED
      BY <1>6, <1>10, <3>1 DEF CloseFlush
  <2>3. CASE ~Returned
    <3>1. Phase = "closing" /\ Phase' = "closed"
      BY <2>1, <2>3 DEF Phase
    <3>2. Calling' = Calling
      BY <1>10 DEF CloseFlush, Calling, Item
    <3>3. Sink!Finish
      BY <1>10, <2>1, <3>1, <3>2, <1>0 DEF CloseFlush, Sink!Finish, Phase, CloseInv
    <3> QED
      BY <3>3 DEF Sink!Next
  <2> QED
    BY <2>2, <2>3
<1> QED
  BY <1>1, <1>2, <1>3, <1>4, <1>5, <1>7, <1>8, <1>9, <1>10
     DEF Next, Produce, Send, Run, CloseOn

\* Log, Event, run and Close implement the abstract sink, at every overlap
\* of their steps (writer.go).
THEOREM WriterImplementsLossyLog == Spec => ImplementsLossyLog
<1>1. Init => Sink!Init
  <2> SUFFICES ASSUME Init PROVE Sink!Init
    OBVIOUS
  <2>1. Range(ch) = {} /\ Range(evCh) = {} /\ Range(file) = {} /\ Calling = {}
    BY DEF Init, Range, Calling
  <2>2. Phase = "open"
    BY DEF Init, Phase, Returned
  <2> QED
    BY <2>1, <2>2 DEF Init, Sink!Init, Phase
<1> QED
  BY <1>1, Invariant, StepRefines, PTL DEF Spec, ImplementsLossyLog, Sink!Spec

=============================================================================
