--------------------------- MODULE HTTPSinkProofs ---------------------------
(***************************************************************************)
(* Proofs about the SIEM sink, for any number of goroutines, any batch     *)
(* size, any capacities and any behaviour of the collector: backoff state, *)
(* order of delivery, what Close has delivered, and that the sink          *)
(* implements LossyLog.                                                    *)
(***************************************************************************)
EXTENDS HTTPSink, TLAPS

-----------------------------------------------------------------------------
(* Sequences of lines and of batches.                                      *)

\* Appending adds one element, at the end.
LEMMA AppendOne ==
    ASSUME NEW S, NEW s \in Seq(S), NEW e \in S
    PROVE  /\ Append(s, e) \in Seq(S) /\ Append(s, e) # <<>>
           /\ Len(s) \in Nat /\ Len(Append(s, e)) = Len(s) + 1
           /\ \A i \in DOMAIN s : i \in DOMAIN Append(s, e) /\ Append(s, e)[i] = s[i]
           /\ Len(s) + 1 \in DOMAIN Append(s, e) /\ Append(s, e)[Len(s) + 1] = e
           /\ \A i \in DOMAIN Append(s, e) : i \in DOMAIN s \/ i = Len(s) + 1
           /\ DOMAIN s = 1..Len(s) /\ DOMAIN Append(s, e) = 1..(Len(s) + 1)
<1>1. /\ Append(s, e) \in Seq(S) /\ Len(s) \in Nat /\ Len(Append(s, e)) = Len(s) + 1
      /\ DOMAIN s = 1..Len(s) /\ DOMAIN Append(s, e) = 1..(Len(s) + 1)
  OBVIOUS
<1>2. Append(s, e)[Len(s) + 1] = e /\ \A i \in 1..Len(s) : Append(s, e)[i] = s[i]
  OBVIOUS
<1>3. Append(s, e) # <<>>
  BY <1>1
<1> QED
  BY <1>1, <1>2, <1>3

\* The tail is the sequence without its first element.
LEMMA TailShifts ==
    ASSUME NEW S, NEW s \in Seq(S), s # <<>>
    PROVE  /\ Tail(s) \in Seq(S) /\ Head(s) \in S
           /\ Len(s) \in Nat \ {0} /\ Len(Tail(s)) = Len(s) - 1
           /\ 1 \in DOMAIN s /\ Head(s) = s[1]
           /\ \A i \in DOMAIN Tail(s) : i \in Nat /\ i + 1 \in DOMAIN s /\ Tail(s)[i] = s[i + 1]
           /\ \A i \in DOMAIN s : i # 1 => i - 1 \in DOMAIN Tail(s) /\ Tail(s)[i - 1] = s[i]
<1>1. Len(s) \in Nat \ {0} /\ DOMAIN s = 1..Len(s)
  OBVIOUS
<1>2. Head(s) = s[1] /\ Head(s) \in S /\ Tail(s) \in Seq(S)
  OBVIOUS
<1>3. /\ Len(Tail(s)) = Len(s) - 1 /\ DOMAIN Tail(s) = 1..(Len(s) - 1)
      /\ \A i \in 1..(Len(s) - 1) : Tail(s)[i] = s[i + 1]
  OBVIOUS
<1> QED
  BY <1>1, <1>2, <1>3

LEMMA RangeAppend ==
    ASSUME NEW S, NEW s \in Seq(S), NEW e \in S
    PROVE  Range(Append(s, e)) = Range(s) \cup {e}
<1>1. ASSUME NEW x \in Range(Append(s, e)) PROVE x \in Range(s) \cup {e}
  BY <1>1, AppendOne DEF Range
<1>2. ASSUME NEW x \in Range(s) PROVE x \in Range(Append(s, e))
  BY <1>2, AppendOne DEF Range
<1>3. e \in Range(Append(s, e))
  BY AppendOne DEF Range
<1> QED
  BY <1>1, <1>2, <1>3

LEMMA RangeTail ==
    ASSUME NEW S, NEW s \in Seq(S), s # <<>>
    PROVE  Range(s) = {Head(s)} \cup Range(Tail(s))
<1>1. ASSUME NEW x \in Range(s) PROVE x \in {Head(s)} \cup Range(Tail(s))
  <2>1. PICK i \in DOMAIN s : x = s[i]
    BY DEF Range
  <2>2. CASE i = 1
    BY <2>1, <2>2, TailShifts
  <2>3. CASE i # 1
    BY <2>1, <2>3, TailShifts DEF Range
  <2> QED
    BY <2>2, <2>3
<1>2. ASSUME NEW x \in Range(Tail(s)) PROVE x \in Range(s)
  BY <1>2, TailShifts DEF Range
<1>3. Head(s) \in Range(s)
  BY TailShifts DEF Range
<1> QED
  BY <1>1, <1>2, <1>3

\* The lines of some batches are those of the range.
LEMMA LinesOfRange == ASSUME NEW bs PROVE LinesOf(bs) = UNION {Range(b) : b \in Range(bs)}
BY DEF LinesOf, Range

LEMMA LinesAppend ==
    ASSUME NEW bs \in Seq(Seq(Lines)), NEW b \in Seq(Lines)
    PROVE  LinesOf(Append(bs, b)) = LinesOf(bs) \cup Range(b)
<1>1. Range(Append(bs, b)) = Range(bs) \cup {b}
  BY RangeAppend
<1>2. LinesOf(Append(bs, b)) = UNION {Range(c) : c \in Range(bs) \cup {b}}
  BY <1>1, LinesOfRange
<1> QED
  BY <1>2, LinesOfRange

LEMMA LinesTail ==
    ASSUME NEW bs \in Seq(Seq(Lines)), bs # <<>>
    PROVE  LinesOf(bs) = Range(Head(bs)) \cup LinesOf(Tail(bs))
<1>1. Range(bs) = {Head(bs)} \cup Range(Tail(bs))
  BY RangeTail
<1>2. LinesOf(bs) = UNION {Range(c) : c \in {Head(bs)} \cup Range(Tail(bs))}
  BY <1>1, LinesOfRange
<1> QED
  BY <1>2, LinesOfRange

\* What lines of a typed sequence are.
LEMMA RangeTyped ==
    /\ \A s \in Seq(Lines) : Range(s) \subseteq Lines
    /\ \A bs \in Seq(Seq(Lines)) : LinesOf(bs) \subseteq Lines
    /\ Range(<<>>) = {} /\ LinesOf(<<>>) = {}
<1>1. \A s \in Seq(Lines) : Range(s) \subseteq Lines
  BY DEF Range
<1>2. \A bs \in Seq(Seq(Lines)) : LinesOf(bs) \subseteq Lines
  BY <1>1 DEF LinesOf
<1> QED
  BY <1>1, <1>2 DEF Range, LinesOf

-----------------------------------------------------------------------------
(* The inductive invariant.                                                *)

\* Where the goroutine is: it posts, or waits for the retry timer, while
\* there are batches; and it shuts down after Close has set both flags.
RunInv ==
    /\ RetryPending
    /\ cpc # "idle" <=> closed = TRUE
    /\ done = TRUE => closed = TRUE
    /\ rpc \in {"drain", "final", "exited"} => done = TRUE
    /\ rpc = "final" => retryBuffer # <<>>
    /\ rpc = "exited" => retryBuffer = <<>>
    /\ rpc \in {"final", "exited"} => current = <<>>
    /\ cpc = "returned" => rpc = "exited"

\* Where the lines are.
Kept == Range(ch) \cup Range(current) \cup LinesOf(retryBuffer) \cup LinesOf(received)
        \cup evicted \cup abandoned

KeptInv == accepted \subseteq Kept

\* A goroutine about to send has not sent this line, nor a later one.
SenderInv ==
    /\ \A x \in accepted : x[2] <= calls[x[1]]
    /\ \A p \in Producers : ppc[p] = "send" => <<p, calls[p]>> \in Lines \ accepted

\* The draining loop ends with the channel empty; the lines that still come
\* were sent after Close set the flag.
EarlyInv == rpc \in {"final", "exited"} => early \cap Range(ch) = {}

\* As long as the collector was never down, no batch outlives the next POST,
\* and none is evicted.
HealthyInv ==
    /\ everDown # TRUE => up = TRUE /\ retrying # TRUE /\ evicted = {}
    /\ everDown # TRUE /\ rpc = "drain" => retryBuffer = <<>>
    /\ everDown # TRUE /\ expired # TRUE => abandoned = {}

LineInv == KeptInv /\ SenderInv /\ EarlyInv /\ HealthyInv

\* The lines of S come before those of T, goroutine by goroutine.
Before(S, T) == \A x \in S, y \in T : x[1] = y[1] => x[2] < y[2]

\* The batches r that the collector has and those of the buffer b are in
\* order; the collector may already have the first of b.
Batches(r, b) ==
    /\ \A i, j \in DOMAIN r : i < j => r[i] = r[j] \/ Before(Range(r[i]), Range(r[j]))
    /\ \A i, j \in DOMAIN b : i < j => Before(Range(b[i]), Range(b[j]))
    /\ \A i \in DOMAIN r, j \in DOMAIN b :
          (j = 1 /\ r[i] = b[1]) \/ Before(Range(r[i]), Range(b[j]))

Ascending(s) == \A i, j \in DOMAIN s : i < j /\ s[i][1] = s[j][1] => s[i][2] < s[j][2]

\* The order of the lines, from the collector back to the channel.
OrderInv ==
    /\ Kept \subseteq accepted
    /\ Batches(received, retryBuffer)
    /\ Before(evicted \cup abandoned, LinesOf(retryBuffer))
    /\ Before(evicted \cup abandoned \cup LinesOf(received) \cup LinesOf(retryBuffer),
              Range(current) \cup Range(ch))
    /\ Before(Range(current), Range(ch))
    /\ Ascending(ch)

IInv == TypeOK /\ RunInv /\ LineInv /\ OrderInv

-----------------------------------------------------------------------------
(* Types.                                                                  *)

\* What finalize does to the retry buffer.
LEMMA Finalized ==
    ASSUME TypeOK, NEW lines \in Seq(Lines), Finalize(lines)
    PROVE  /\ current' = <<>>
           /\ retryBuffer' \in Seq(Seq(Lines)) /\ Len(retryBuffer') <= MaxBufferBatches
           /\ evicted' \subseteq Lines /\ evicted \subseteq evicted'
           /\ LinesOf(retryBuffer) \cup Range(lines) \cup evicted \subseteq LinesOf(retryBuffer') \cup evicted'
           /\ lines # <<>> \/ retryBuffer # <<>> => retryBuffer' # <<>>
           /\ lines = <<>> => retryBuffer' = retryBuffer
           /\ retryBuffer = <<>> => evicted' = evicted
<1> DEFINE b == Append(retryBuffer, lines)
<1>0. /\ retryBuffer \in Seq(Seq(Lines)) /\ Len(retryBuffer) <= MaxBufferBatches
      /\ Len(retryBuffer) \in Nat /\ MaxBufferBatches \in Nat \ {0} /\ evicted \subseteq Lines
  BY SinkAssumption DEF TypeOK
<1>1. CASE lines = <<>>
  BY <1>0, <1>1, RangeTyped DEF Finalize
<1>2. CASE lines # <<>>
  <2>1. /\ b \in Seq(Seq(Lines)) /\ b # <<>> /\ Len(b) = Len(retryBuffer) + 1
        /\ LinesOf(b) = LinesOf(retryBuffer) \cup Range(lines)
    BY <1>0, AppendOne, LinesAppend
  <2>2. /\ Tail(b) \in Seq(Seq(Lines)) /\ Len(Tail(b)) = Len(retryBuffer)
        /\ LinesOf(b) = Range(Head(b)) \cup LinesOf(Tail(b)) /\ Head(b) \in Seq(Lines)
    <3> HIDE DEF b
    <3>1. Tail(b) \in Seq(Seq(Lines)) /\ Len(Tail(b)) = Len(b) - 1 /\ Head(b) \in Seq(Lines)
      BY <2>1, TailShifts
    <3>2. LinesOf(b) = Range(Head(b)) \cup LinesOf(Tail(b))
      BY <2>1, LinesTail
    <3> QED
      BY <1>0, <2>1, <3>1, <3>2
  <2>3. CASE Len(b) > MaxBufferBatches
    <3>1. current' = <<>> /\ retryBuffer' = Tail(b) /\ evicted' = evicted \cup Range(Head(b))
      BY <1>2, <2>3 DEF Finalize
    <3>2. Tail(b) # <<>> /\ retryBuffer # <<>>
      BY <1>0, <2>1, <2>2, <2>3
    <3>3. Range(Head(b)) \subseteq Lines
      BY <2>2, RangeTyped
    <3> HIDE DEF b
    <3> QED
      BY <1>0, <1>2, <2>1, <2>2, <3>1, <3>2, <3>3
  <2>4. CASE ~(Len(b) > MaxBufferBatches)
    <3>1. current' = <<>> /\ retryBuffer' = b /\ evicted' = evicted
      BY <1>2, <2>4 DEF Finalize
    <3>2. Len(b) <= MaxBufferBatches
      BY <1>0, <2>1, <2>4
    <3> HIDE DEF b
    <3> QED
      BY <1>0, <1>2, <2>1, <3>1, <3>2
  <2> QED
    BY <2>3, <2>4
<1> QED
  BY <1>1, <1>2

\* The next delay stays within its bounds.
LEMMA DoubledTyped == ASSUME TypeOK PROVE Doubled \in BaseBackoff..MaxBackoff
BY SinkAssumption DEF TypeOK, Doubled

\* A batch that may have been received is one.
LEMMA ReceivedTyped ==
    ASSUME TypeOK, NEW batch \in Seq(Lines), MaybeReceived(batch)
    PROVE  received' \in Seq(Seq(Lines)) /\ LinesOf(received) \subseteq LinesOf(received')
<1>1. received \in Seq(Seq(Lines))
  BY DEF TypeOK
<1>2. Append(received, batch) \in Seq(Seq(Lines))
  BY <1>1, AppendOne
<1>3. LinesOf(received) \subseteq LinesOf(Append(received, batch))
  BY <1>1, LinesAppend
<1> QED
  BY <1>1, <1>2, <1>3 DEF MaybeReceived

\* The initial states satisfy the invariant.
LEMMA InitInv == Init => IInv
<1> SUFFICES ASSUME Init PROVE IInv
  OBVIOUS
<1> USE DEF Init
<1>1. TypeOK
  <2>1. /\ 0 \in 0..MaxCalls /\ BaseBackoff \in BaseBackoff..MaxBackoff
        /\ 0 <= BufferSize /\ 0 <= MaxBufferBatches
    BY SinkAssumption
  <2>2. /\ ch = <<>> /\ ch \in Seq(Lines) /\ Len(ch) = 0
        /\ retryBuffer \in Seq(Seq(Lines)) /\ Len(retryBuffer) = 0
        /\ current \in Seq(Lines) /\ received \in Seq(Seq(Lines))
    OBVIOUS
  <2> QED
    BY <2>1, <2>2 DEF TypeOK
<1>2. RunInv
  BY DEF RunInv, RetryPending
<1>3. LineInv
  BY DEF LineInv, KeptInv, SenderInv, EarlyInv, HealthyInv
<1>4. OrderInv
  <2>1. Kept = {}
    BY RangeTyped DEF Kept
  <2>2. Batches(<<>>, <<>>) /\ Ascending(<<>>)
    BY DEF Batches, Ascending
  <2> QED
    BY <2>1, <2>2 DEF OrderInv, Kept, Before
<1> QED
  BY <1>1, <1>2, <1>3, <1>4 DEF IInv

LEMMA StepType == IInv /\ [Next]_vars => TypeOK'
<1> SUFFICES ASSUME IInv, [Next]_vars PROVE TypeOK'
  OBVIOUS
<1>0. TypeOK /\ RunInv
  BY DEF IInv
<1> USE DEF producerVars, bufferVars, closeVars, collectorVars, lossVars
<1>1. ASSUME NEW p \in Producers, Check(p)
      PROVE  TypeOK'
  <2>1. calls[p] + 1 \in 0..MaxCalls
    BY <1>0, <1>1, SinkAssumption DEF Check, TypeOK
  <2>2. calls' \in [Producers -> 0..MaxCalls] /\ ppc' \in [Producers -> {"idle", "send"}]
    BY <1>0, <1>1, <2>1 DEF Check, TypeOK
  <2> QED
    BY <1>0, <1>1, <2>2 DEF Check, TypeOK
<1>2. ASSUME NEW p \in Producers, Enqueue(p)
      PROVE  TypeOK'
  <2> DEFINE line == <<p, calls[p]>>
  <2>1. line \in Lines
    BY <1>0, <1>2 DEF Enqueue, IInv, LineInv, SenderInv
  <2>2. ch' \in Seq(Lines) /\ Len(ch') <= BufferSize
    <3>1. CASE Len(ch) < BufferSize
      <4>1. ch' = Append(ch, line) /\ ch \in Seq(Lines)
        BY <1>0, <1>2, <3>1 DEF Enqueue, TypeOK
      <4> HIDE DEF line
      <4>2. ch' \in Seq(Lines) /\ Len(ch') = Len(ch) + 1 /\ Len(ch) \in Nat
        BY <2>1, <4>1, AppendOne
      <4> QED
        BY <3>1, <4>2, SinkAssumption
    <3>2. CASE ~(Len(ch) < BufferSize)
      BY <1>0, <1>2, <3>2 DEF Enqueue, TypeOK
    <3> QED
      BY <3>1, <3>2
  <2>3. accepted' \subseteq Lines /\ early' \subseteq accepted' /\ ppc' \in [Producers -> {"idle", "send"}]
    BY <1>0, <1>2, <2>1 DEF Enqueue, TypeOK
  <2> QED
    BY <1>0, <1>2, <2>2, <2>3 DEF Enqueue, TypeOK
<1>3. CASE TakeLine
  <2> DEFINE lines == Append(current, Head(ch))
  <2>1. ch' = Tail(ch) /\ ch # <<>> /\ ch \in Seq(Lines) /\ current \in Seq(Lines)
    BY <1>0, <1>3 DEF TakeLine, TypeOK
  <2>2. ch' \in Seq(Lines) /\ Head(ch) \in Lines /\ Len(ch') <= BufferSize
    <3>1. Tail(ch) \in Seq(Lines) /\ Head(ch) \in Lines /\ Len(Tail(ch)) = Len(ch) - 1 /\ Len(ch) \in Nat
      BY <2>1, TailShifts
    <3> QED
      BY <1>0, <2>1, <3>1, SinkAssumption DEF TypeOK
  <2>3. lines \in Seq(Lines)
    BY <2>1, <2>2, AppendOne
  <2>4. /\ current' \in Seq(Lines) /\ retryBuffer' \in Seq(Seq(Lines))
        /\ Len(retryBuffer') <= MaxBufferBatches /\ evicted' \subseteq Lines
    <3>1. CASE Len(lines) >= BatchSize
      <4>1. Finalize(lines)
        BY <1>3, <3>1 DEF TakeLine
      <4> HIDE DEF lines
      <4>2. <<>> \in Seq(Lines)
        OBVIOUS
      <4>3. /\ current' = <<>> /\ retryBuffer' \in Seq(Seq(Lines))
            /\ Len(retryBuffer') <= MaxBufferBatches /\ evicted' \subseteq Lines
        BY <1>0, <2>3, <4>1, Finalized
      <4> QED
        BY <4>2, <4>3
    <3>2. CASE ~(Len(lines) >= BatchSize)
      <4>1. current' = lines /\ UNCHANGED <<retryBuffer, evicted>>
        BY <1>3, <3>2 DEF TakeLine
      <4> QED
        BY <1>0, <2>3, <4>1 DEF TypeOK
    <3> QED
      BY <3>1, <3>2
  <2>5. rpc' \in {"select", "post"} /\ UNCHANGED <<retrying, backoff, timer>>
    BY <1>3 DEF TakeLine, MaybeDrain
  <2>6. UNCHANGED <<calls, ppc, accepted, early, closed, done, cpc, up, received, everDown,
                    abandoned, expired>>
    BY <1>3 DEF TakeLine
  <2> QED
    BY <1>0, <2>2, <2>4, <2>5, <2>6 DEF TypeOK
<1>4. CASE FlushTick \/ DrainEnd
  <2>1. Finalize(current) /\ current \in Seq(Lines)
    BY <1>0, <1>4 DEF FlushTick, DrainEnd, TypeOK
  <2>2. /\ current' = <<>> /\ retryBuffer' \in Seq(Seq(Lines))
        /\ Len(retryBuffer') <= MaxBufferBatches /\ evicted' \subseteq Lines
    BY <1>0, <2>1, Finalized
  <2>3. /\ rpc' \in {"select", "post", "final", "exited"} /\ UNCHANGED <<retrying, backoff, timer>>
        /\ UNCHANGED <<ch, calls, ppc, accepted, early, closed, done, cpc, up, received, everDown,
                       abandoned, expired>>
    BY <1>4 DEF FlushTick, DrainEnd, MaybeDrain
  <2> QED
    BY <1>0, <2>2, <2>3 DEF TypeOK
<1>5. CASE TimerFires \/ RunDone \/ CloseStore \/ CloseSignal
  <2>1. CASE TimerFires
    BY <1>0, <2>1 DEF TimerFires, TypeOK
  <2>2. CASE RunDone
    BY <1>0, <2>2 DEF RunDone, TypeOK
  <2>3. CASE CloseStore
    BY <1>0, <2>3 DEF CloseStore, TypeOK
  <2>4. CASE CloseSignal
    BY <1>0, <2>4 DEF CloseSignal, TypeOK
  <2> QED
    BY <1>5, <2>1, <2>2, <2>3, <2>4
<1>6. CASE CloseReturn \/ UNCHANGED vars
  BY <1>0, <1>6 DEF CloseReturn, vars, TypeOK
<1>7. CASE RetryTick
  BY <1>0, <1>7 DEF RetryTick, TypeOK
<1>8. CASE CollectorFlips
  <2>1. /\ UNCHANGED <<ch, producerVars, bufferVars, rpc, closeVars, received, lossVars>>
        /\ up' \in BOOLEAN /\ everDown' \in BOOLEAN
    BY <1>8 DEF CollectorFlips
  <2> QED
    BY <1>0, <2>1 DEF TypeOK
\* The goroutine takes the oldest batch.
<1>9. ASSUME rpc \in {"post", "final"}
      PROVE  /\ Head(retryBuffer) \in Seq(Lines) /\ Tail(retryBuffer) \in Seq(Seq(Lines))
             /\ Len(Tail(retryBuffer)) <= MaxBufferBatches
             /\ Range(Head(retryBuffer)) \subseteq Lines
             /\ Append(received, Head(retryBuffer)) \in Seq(Seq(Lines))
  <2>1. /\ retryBuffer \in Seq(Seq(Lines)) /\ retryBuffer # <<>> /\ received \in Seq(Seq(Lines))
        /\ Len(retryBuffer) <= MaxBufferBatches
    BY <1>0, <1>9 DEF RunInv, RetryPending, TypeOK
  <2>2. /\ Head(retryBuffer) \in Seq(Lines) /\ Tail(retryBuffer) \in Seq(Seq(Lines))
        /\ Len(Tail(retryBuffer)) = Len(retryBuffer) - 1 /\ Len(retryBuffer) \in Nat
    BY <2>1, TailShifts
  <2> QED
    BY <2>1, <2>2, RangeTyped, AppendOne, SinkAssumption
<1>10. CASE PostOK
  <2>1. backoff' \in BaseBackoff..MaxBackoff /\ rpc' \in {"select", "post"}
    BY <1>10, SinkAssumption DEF PostOK
  <2>2. /\ received' \in Seq(Seq(Lines)) /\ retryBuffer' \in Seq(Seq(Lines))
        /\ Len(retryBuffer') <= MaxBufferBatches
    BY <1>9, <1>10 DEF PostOK
  <2>3. retrying' \in BOOLEAN
    BY <1>0, <1>10 DEF PostOK, TypeOK
  <2>4. UNCHANGED <<ch, calls, ppc, accepted, early, current, timer, closed, done, cpc, up, everDown,
                    evicted, abandoned, expired>>
    BY <1>10 DEF PostOK
  <2> QED
    BY <1>0, <2>1, <2>2, <2>3, <2>4 DEF TypeOK
<1>11. CASE PostFails
  <2>1. backoff' \in BaseBackoff..MaxBackoff /\ received' \in Seq(Seq(Lines))
    BY <1>0, <1>9, <1>11, DoubledTyped, ReceivedTyped DEF PostFails
  <2> QED
    BY <1>0, <1>11, <2>1 DEF PostFails, TypeOK
<1>12. CASE FinalPostOK
  BY <1>0, <1>9, <1>12 DEF FinalPostOK, FinalNext, TypeOK
<1>13. CASE FinalPostFails
  <2>1. received' \in Seq(Seq(Lines))
    BY <1>0, <1>9, <1>13, ReceivedTyped DEF FinalPostFails
  <2> QED
    BY <1>0, <1>9, <1>13, <2>1 DEF FinalPostFails, FinalNext, TypeOK
<1>14. CASE BudgetExpires
  <2>1. received' \in Seq(Seq(Lines)) /\ abandoned' \subseteq Lines
    BY <1>0, <1>9, <1>14, ReceivedTyped, RangeTyped DEF BudgetExpires, TypeOK
  <2>2. retryBuffer' \in Seq(Seq(Lines)) /\ Len(retryBuffer') <= MaxBufferBatches
    BY <1>14, SinkAssumption DEF BudgetExpires
  <2> QED
    BY <1>0, <1>14, <2>1, <2>2 DEF BudgetExpires, TypeOK
<1>15. CASE DrainLine
  <2>1. ch' = Tail(ch) /\ current' = Append(current, Head(ch)) /\ ch # <<>>
        /\ ch \in Seq(Lines) /\ current \in Seq(Lines)
    BY <1>0, <1>15 DEF DrainLine, TypeOK
  <2>2. Tail(ch) \in Seq(Lines) /\ Head(ch) \in Lines /\ Len(Tail(ch)) = Len(ch) - 1 /\ Len(ch) \in Nat
    BY <2>1, TailShifts
  <2>3. Len(ch') <= BufferSize /\ current' \in Seq(Lines)
    BY <1>0, <2>1, <2>2, SinkAssumption, AppendOne DEF TypeOK
  <2> QED
    BY <1>0, <1>15, <2>1, <2>2, <2>3 DEF DrainLine, TypeOK
<1> QED
  BY <1>1, <1>2, <1>3, <1>4, <1>5, <1>6, <1>7, <1>8, <1>10, <1>11, <1>12, <1>13, <1>14, <1>15
     DEF Next, Run, Post, Close

-----------------------------------------------------------------------------
(* Backoff and shutdown.                                                   *)

LEMMA StepRun == IInv /\ [Next]_vars => RunInv'
<1> SUFFICES ASSUME IInv, [Next]_vars PROVE RunInv'
  OBVIOUS
<1>0. TypeOK /\ RunInv
  BY DEF IInv
<1> USE DEF producerVars, bufferVars, closeVars, collectorVars, lossVars
<1>1. ASSUME NEW p \in Producers, Check(p) \/ Enqueue(p)
      PROVE  RunInv'
  BY <1>0, <1>1 DEF Check, Enqueue, RunInv, RetryPending
<1>2. CASE TakeLine
  <2> DEFINE lines == Append(current, Head(ch))
  <2>1. rpc = "select" /\ rpc' \in {"select", "post"} /\ UNCHANGED <<retrying, timer, done, closed, cpc>>
    BY <1>2 DEF TakeLine, MaybeDrain
  <2>2. CASE Len(lines) >= BatchSize
    <3>1. Finalize(lines) /\ rpc' = IF retrying THEN "select" ELSE "post"
      BY <1>2, <2>2 DEF TakeLine, MaybeDrain
    <3>2. lines \in Seq(Lines) /\ lines # <<>>
      <4>1. ch \in Seq(Lines) /\ ch # <<>> /\ current \in Seq(Lines)
        BY <1>0, <1>2 DEF TakeLine, TypeOK
      <4>2. Head(ch) \in Lines
        BY <4>1, TailShifts
      <4> QED
        BY <4>1, <4>2, AppendOne
    <3> HIDE DEF lines
    <3>3. retryBuffer' # <<>>
      BY <1>0, <3>1, <3>2, Finalized
    <3> QED
      BY <1>0, <2>1, <3>1, <3>3 DEF RunInv, RetryPending
  <2>3. CASE ~(Len(lines) >= BatchSize)
    <3>1. UNCHANGED <<rpc, retryBuffer>>
      BY <1>2, <2>3 DEF TakeLine
    <3> QED
      BY <1>0, <2>1, <3>1 DEF RunInv, RetryPending
  <2> QED
    BY <2>2, <2>3
<1>3. CASE FlushTick
  <2>1. /\ rpc = "select" /\ rpc' = (IF retrying THEN "select" ELSE "post")
        /\ UNCHANGED <<retrying, timer, done, closed, cpc>>
    BY <1>3 DEF FlushTick, MaybeDrain
  <2>2. retryBuffer' # <<>>
    BY <1>0, <1>3, Finalized DEF FlushTick, TypeOK
  <2> QED
    BY <1>0, <2>1, <2>2 DEF RunInv, RetryPending
<1>4. CASE TimerFires
  BY <1>0, <1>4 DEF TimerFires, RunInv, RetryPending
<1>5. CASE RetryTick
  BY <1>0, <1>5 DEF RetryTick, RunInv, RetryPending
<1>6. CASE RunDone
  BY <1>0, <1>6 DEF RunDone, RunInv, RetryPending
<1>7. CASE CloseStore \/ CloseSignal
  <2>1. CASE CloseStore
    BY <1>0, <2>1 DEF CloseStore, RunInv, RetryPending
  <2>2. CASE CloseSignal
    BY <1>0, <2>2 DEF CloseSignal, RunInv, RetryPending
  <2> QED
    BY <1>7, <2>1, <2>2
<1>8. CASE CloseReturn \/ CollectorFlips \/ UNCHANGED vars
  BY <1>0, <1>8 DEF CloseReturn, CollectorFlips, vars, RunInv, RetryPending
<1>9. CASE PostOK
  BY <1>0, <1>9 DEF PostOK, RunInv, RetryPending
<1>10. CASE PostFails
  BY <1>0, <1>10 DEF PostFails, RunInv, RetryPending
<1>11. CASE FinalPostOK \/ FinalPostFails
  BY <1>0, <1>11 DEF FinalPostOK, FinalPostFails, FinalNext, RunInv, RetryPending
<1>12. CASE BudgetExpires
  BY <1>0, <1>12 DEF BudgetExpires, RunInv, RetryPending
<1>13. CASE DrainLine
  BY <1>0, <1>13 DEF DrainLine, RunInv, RetryPending
<1>14. CASE DrainEnd
  <2>1. /\ rpc = "drain" /\ current' = <<>>
        /\ rpc' = (IF current = <<>> /\ retryBuffer = <<>> THEN "exited" ELSE "final")
        /\ UNCHANGED <<retrying, timer, done, closed, cpc>>
    BY <1>14 DEF DrainEnd, Finalize
  <2>2. /\ current # <<>> \/ retryBuffer # <<>> => retryBuffer' # <<>>
        /\ current = <<>> => retryBuffer' = retryBuffer
    BY <1>0, <1>14, Finalized DEF DrainEnd, TypeOK
  <2> QED
    BY <1>0, <2>1, <2>2 DEF RunInv, RetryPending
<1> QED
  BY <1>1, <1>2, <1>3, <1>4, <1>5, <1>6, <1>7, <1>8, <1>9, <1>10, <1>11, <1>12, <1>13, <1>14
     DEF Next, Run, Post, Close

-----------------------------------------------------------------------------
(* No line is lost sight of.                                               *)

LEMMA StepKept == IInv /\ [Next]_vars => KeptInv'
<1> SUFFICES ASSUME IInv, [Next]_vars PROVE KeptInv'
  OBVIOUS
<1>0. /\ TypeOK /\ RunInv /\ KeptInv /\ ch \in Seq(Lines) /\ current \in Seq(Lines)
      /\ retryBuffer \in Seq(Seq(Lines)) /\ received \in Seq(Seq(Lines))
  BY DEF IInv, LineInv, TypeOK
<1> USE DEF producerVars, bufferVars, closeVars, collectorVars, lossVars
<1>1. ASSUME UNCHANGED <<ch, current, retryBuffer, received, evicted, abandoned, accepted>>
      PROVE  KeptInv'
  BY <1>0, <1>1 DEF KeptInv, Kept
<1>2. ASSUME NEW p \in Producers, Check(p)
      PROVE  KeptInv'
  BY <1>1, <1>2 DEF Check
<1>3. ASSUME NEW p \in Producers, Enqueue(p)
      PROVE  KeptInv'
  <2> DEFINE line == <<p, calls[p]>>
  <2>1. line \in Lines
    BY <1>3 DEF Enqueue, IInv, LineInv, SenderInv
  <2>2. UNCHANGED <<current, retryBuffer, received, evicted, abandoned>>
    BY <1>3 DEF Enqueue
  <2>3. CASE Len(ch) < BufferSize
    <3>1. ch' = Append(ch, line) /\ accepted' = accepted \cup {line}
      BY <1>3, <2>3 DEF Enqueue
    <3> HIDE DEF line
    <3>2. Range(ch') = Range(ch) \cup {line}
      BY <1>0, <2>1, <3>1, RangeAppend
    <3> QED
      BY <1>0, <2>2, <3>1, <3>2 DEF KeptInv, Kept
  <2>4. CASE ~(Len(ch) < BufferSize)
    BY <1>1, <1>3, <2>4 DEF Enqueue
  <2> QED
    BY <2>3, <2>4
\* The goroutine takes a line from the channel.
<1>4. ASSUME ch # <<>>
      PROVE  /\ Append(current, Head(ch)) \in Seq(Lines)
             /\ Range(Append(current, Head(ch))) \cup Range(Tail(ch)) = Range(current) \cup Range(ch)
  <2>1. Head(ch) \in Lines /\ Range(ch) = {Head(ch)} \cup Range(Tail(ch))
    BY <1>0, <1>4, TailShifts, RangeTail
  <2>2. /\ Append(current, Head(ch)) \in Seq(Lines)
        /\ Range(Append(current, Head(ch))) = Range(current) \cup {Head(ch)}
    BY <1>0, <2>1, AppendOne, RangeAppend
  <2> QED
    BY <2>1, <2>2
<1>5. CASE TakeLine
  <2> DEFINE lines == Append(current, Head(ch))
  <2>1. /\ ch # <<>> /\ ch' = Tail(ch)
        /\ UNCHANGED <<received, abandoned, accepted>>
    BY <1>5 DEF TakeLine
  <2>2. lines \in Seq(Lines) /\ Range(lines) \cup Range(ch') = Range(current) \cup Range(ch)
    BY <1>4, <2>1
  <2>3. CASE Len(lines) >= BatchSize
    <3>1. Finalize(lines)
      BY <1>5, <2>3 DEF TakeLine
    <3> HIDE DEF lines
    <3>2. LinesOf(retryBuffer) \cup Range(lines) \cup evicted \subseteq LinesOf(retryBuffer') \cup evicted'
      BY <1>0, <2>2, <3>1, Finalized
    <3> QED
      BY <1>0, <2>1, <2>2, <3>2 DEF KeptInv, Kept
  <2>4. CASE ~(Len(lines) >= BatchSize)
    <3>1. current' = lines /\ UNCHANGED <<retryBuffer, evicted>>
      BY <1>5, <2>4 DEF TakeLine
    <3> HIDE DEF lines
    <3> QED
      BY <1>0, <2>1, <2>2, <3>1 DEF KeptInv, Kept
  <2> QED
    BY <2>3, <2>4
<1>6. CASE FlushTick \/ DrainEnd
  <2>1. Finalize(current) /\ UNCHANGED <<ch, received, abandoned, accepted>>
    BY <1>6 DEF FlushTick, DrainEnd
  <2>2. LinesOf(retryBuffer) \cup Range(current) \cup evicted \subseteq LinesOf(retryBuffer') \cup evicted'
    BY <1>0, <2>1, Finalized
  <2> QED
    BY <1>0, <2>1, <2>2 DEF KeptInv, Kept
<1>7. CASE TimerFires \/ RetryTick \/ RunDone \/ CloseStore \/ CloseSignal \/ CloseReturn
           \/ CollectorFlips \/ UNCHANGED vars
  BY <1>1, <1>7 DEF TimerFires, RetryTick, RunDone, CloseStore, CloseSignal, CloseReturn,
                    CollectorFlips, vars
<1>8. CASE DrainLine
  BY <1>0, <1>4, <1>8 DEF DrainLine, KeptInv, Kept
\* The oldest batch leaves the retry buffer.
<1>9. ASSUME rpc \in {"post", "final"}
      PROVE  /\ Head(retryBuffer) \in Seq(Lines)
             /\ LinesOf(retryBuffer) = Range(Head(retryBuffer)) \cup LinesOf(Tail(retryBuffer))
             /\ LinesOf(Append(received, Head(retryBuffer)))
                  = LinesOf(received) \cup Range(Head(retryBuffer))
  <2>1. retryBuffer # <<>>
    BY <1>0, <1>9 DEF RunInv, RetryPending
  <2> QED
    BY <1>0, <2>1, TailShifts, LinesTail, LinesAppend
<1>10. CASE PostOK \/ FinalPostOK
  <2>1. /\ rpc \in {"post", "final"} /\ retryBuffer' = Tail(retryBuffer)
        /\ received' = Append(received, Head(retryBuffer))
        /\ UNCHANGED <<ch, current, evicted, abandoned, accepted>>
    BY <1>10 DEF PostOK, FinalPostOK, FinalNext
  <2> QED
    BY <1>0, <1>9, <2>1 DEF KeptInv, Kept
\* A failed POST loses nothing the collector had.
<1>11. ASSUME rpc \in {"post", "final"}, MaybeReceived(Head(retryBuffer))
       PROVE  LinesOf(received) \subseteq LinesOf(received')
  BY <1>0, <1>9, <1>11, ReceivedTyped
<1>12. CASE PostFails
  BY <1>0, <1>11, <1>12 DEF PostFails, KeptInv, Kept
<1>13. CASE FinalPostFails
  BY <1>0, <1>9, <1>11, <1>13 DEF FinalPostFails, FinalNext, KeptInv, Kept
<1>14. CASE BudgetExpires
  BY <1>0, <1>11, <1>14 DEF BudgetExpires, KeptInv, Kept
<1> QED
  BY <1>2, <1>3, <1>5, <1>6, <1>7, <1>8, <1>10, <1>12, <1>13, <1>14 DEF Next, Run, Post, Close

LEMMA StepSender == IInv /\ [Next]_vars => SenderInv'
<1> SUFFICES ASSUME IInv, [Next]_vars PROVE SenderInv'
  OBVIOUS
<1>0. /\ SenderInv /\ calls \in [Producers -> 0..MaxCalls] /\ ppc \in [Producers -> {"idle", "send"}]
      /\ accepted \subseteq Lines
  BY DEF IInv, LineInv, TypeOK
<1> USE DEF producerVars, bufferVars, closeVars, collectorVars, lossVars
<1>1. CASE UNCHANGED producerVars
  BY <1>0, <1>1 DEF SenderInv
<1>2. ASSUME NEW p \in Producers, Check(p)
      PROVE  SenderInv'
  <2>1. /\ calls[p] \in 0..MaxCalls /\ calls[p] < MaxCalls /\ accepted' = accepted
        /\ calls' = [calls EXCEPT ![p] = @ + 1]
    BY <1>0, <1>2 DEF Check
  <2>2. ppc' = ppc \/ ppc' = [ppc EXCEPT ![p] = "send"]
    BY <1>2 DEF Check
  <2>3. \A x \in accepted : x[1] \in Producers /\ x[2] \in Nat /\ x[2] <= calls[x[1]]
    BY <1>0 DEF SenderInv, Lines
  <2>4. \A q \in Producers : calls[q] \in Nat /\ calls'[q] = IF q = p THEN calls[p] + 1 ELSE calls[q]
    BY <1>0, <2>1
  <2>5. ASSUME NEW x \in accepted' PROVE x[2] <= calls'[x[1]]
    BY <2>1, <2>3, <2>4
  <2>6. ASSUME NEW q \in Producers, ppc'[q] = "send"
        PROVE  <<q, calls'[q]>> \in Lines \ accepted'
    <3>1. CASE q = p
      <4>1. calls'[p] \in 1..MaxCalls /\ calls'[p] = calls[p] + 1
        BY <2>1, <2>4, SinkAssumption
      <4>2. <<p, calls'[p]>> \in Lines
        BY <4>1 DEF Lines
      <4>3. <<p, calls'[p]>> \notin accepted
        <5> SUFFICES ASSUME <<p, calls'[p]>> \in accepted PROVE FALSE
          OBVIOUS
        <5>1. calls'[p] <= calls[p]
          BY <2>3
        <5> QED
          BY <2>4, <4>1, <5>1
      <4> QED
        BY <2>1, <3>1, <4>2, <4>3
    <3>2. CASE q # p
      <4>1. calls'[q] = calls[q] /\ ppc[q] = "send"
        BY <1>0, <2>2, <2>4, <2>6, <3>2
      <4> QED
        BY <1>0, <2>1, <4>1 DEF SenderInv
    <3> QED
      BY <3>1, <3>2
  <2> QED
    BY <2>5, <2>6 DEF SenderInv
<1>3. ASSUME NEW p \in Producers, Enqueue(p)
      PROVE  SenderInv'
  <2> DEFINE line == <<p, calls[p]>>
  <2>1. /\ calls' = calls /\ ppc' = [ppc EXCEPT ![p] = "idle"]
        /\ accepted' \in {accepted, accepted \cup {line}}
    BY <1>3 DEF Enqueue
  <2>2. calls[p] \in Nat
    BY <1>0
  <2>3. ASSUME NEW x \in accepted' PROVE x[2] <= calls'[x[1]]
    <3>1. CASE x \in accepted
      BY <1>0, <2>1, <3>1 DEF SenderInv
    <3>2. CASE x = line
      <4>1. x[1] = p /\ x[2] = calls[p]
        BY <3>2
      <4> QED
        BY <2>1, <2>2, <4>1
    <3> QED
      BY <2>1, <3>1, <3>2
  <2>4. ASSUME NEW q \in Producers, ppc'[q] = "send"
        PROVE  <<q, calls'[q]>> \in Lines \ accepted'
    <3>1. q # p /\ ppc[q] = "send"
      BY <1>0, <2>1, <2>4
    <3>2. <<q, calls[q]>> \in Lines \ accepted /\ <<q, calls[q]>> # line
      BY <1>0, <3>1 DEF SenderInv
    <3> QED
      BY <2>1, <3>2
  <2> QED
    BY <2>3, <2>4 DEF SenderInv
<1> QED
  BY <1>1, <1>2, <1>3
     DEF Next, Run, Post, Close, TakeLine, FlushTick, RetryTick, RunDone, DrainLine, DrainEnd, TimerFires,
         PostOK, PostFails, FinalPostOK, FinalPostFails, BudgetExpires, CloseStore, CloseSignal,
         CloseReturn, CollectorFlips, vars

-----------------------------------------------------------------------------
(* The shutdown, and a sink whose collector was never down.                *)

LEMMA StepEarly == IInv /\ [Next]_vars => EarlyInv'
<1> SUFFICES ASSUME IInv, [Next]_vars PROVE EarlyInv'
  OBVIOUS
<1>0. /\ TypeOK /\ RunInv /\ SenderInv /\ EarlyInv /\ ch \in Seq(Lines) /\ early \subseteq accepted
  BY DEF IInv, LineInv, TypeOK
<1> USE DEF producerVars, bufferVars, closeVars, collectorVars, lossVars
<1>1. ASSUME NEW p \in Producers, Check(p)
      PROVE  EarlyInv'
  BY <1>0, <1>1 DEF Check, EarlyInv
<1>2. ASSUME NEW p \in Producers, Enqueue(p)
      PROVE  EarlyInv'
  <2> DEFINE line == <<p, calls[p]>>
  <2>1. CASE rpc \in {"final", "exited"}
    <3>1. done = TRUE
      BY <1>0, <2>1 DEF RunInv
    <3>2. closed = TRUE
      BY <1>0, <3>1 DEF RunInv
    <3>3. early' = early /\ ch' \in {ch, Append(ch, line)}
      BY <1>2, <3>2 DEF Enqueue
    <3>4. line \in Lines /\ line \notin early
      BY <1>0, <1>2 DEF Enqueue, SenderInv
    <3> HIDE DEF line
    <3>5. Range(ch') \subseteq Range(ch) \cup {line}
      BY <1>0, <3>3, <3>4, RangeAppend
    <3> QED
      BY <1>0, <2>1, <3>3, <3>4, <3>5 DEF EarlyInv
  <2>2. CASE rpc \notin {"final", "exited"}
    BY <1>2, <2>2 DEF Enqueue, EarlyInv
  <2> QED
    BY <2>1, <2>2
<1>3. CASE TakeLine \/ FlushTick \/ RetryTick \/ RunDone \/ DrainLine \/ PostOK \/ PostFails
  <2>1. rpc' \in {"select", "post", "drain"}
    BY <1>3 DEF TakeLine, FlushTick, MaybeDrain, RetryTick, RunDone, DrainLine, PostOK, PostFails
  <2> QED
    BY <2>1 DEF EarlyInv
<1>4. CASE DrainEnd
  <2>1. ch' = <<>>
    BY <1>4 DEF DrainEnd
  <2> QED
    BY <2>1, RangeTyped DEF EarlyInv
<1>5. CASE FinalPostOK \/ FinalPostFails \/ BudgetExpires
  <2>1. rpc = "final" /\ UNCHANGED <<ch, early>>
    BY <1>5 DEF FinalPostOK, FinalPostFails, BudgetExpires
  <2> QED
    BY <1>0, <2>1 DEF EarlyInv
<1>6. CASE TimerFires \/ CloseStore \/ CloseSignal \/ CloseReturn \/ CollectorFlips \/ UNCHANGED vars
  <2>1. UNCHANGED <<ch, early, rpc>>
    BY <1>6 DEF TimerFires, CloseStore, CloseSignal, CloseReturn, CollectorFlips, vars
  <2> QED
    BY <1>0, <2>1 DEF EarlyInv
<1> QED
  BY <1>1, <1>2, <1>3, <1>4, <1>5, <1>6 DEF Next, Run, Post, Close

LEMMA StepHealthy == IInv /\ [Next]_vars => HealthyInv'
<1> SUFFICES ASSUME IInv, [Next]_vars PROVE HealthyInv'
  OBVIOUS
<1>0. TypeOK /\ RunInv /\ HealthyInv /\ current \in Seq(Lines)
  BY DEF IInv, LineInv, TypeOK
<1> USE DEF producerVars, bufferVars, closeVars, collectorVars, lossVars
\* A goroutine in its select that is not in a backoff wait has delivered all.
<1>1. ASSUME everDown # TRUE, rpc \in {"select", "drain"}
      PROVE  retryBuffer = <<>>
  <2>1. retrying # TRUE
    BY <1>0, <1>1 DEF HealthyInv
  <2>2. CASE rpc = "select"
    BY <1>0, <2>1, <2>2 DEF RunInv, RetryPending
  <2>3. CASE rpc = "drain"
    BY <1>0, <1>1, <2>3 DEF HealthyInv
  <2> QED
    BY <1>1, <2>2, <2>3
\* A batch finalized then evicts none.
<1>2. ASSUME everDown # TRUE, rpc \in {"select", "drain"}, NEW lines \in Seq(Lines), Finalize(lines)
      PROVE  evicted' = evicted
  BY <1>0, <1>1, <1>2, Finalized
<1>3. ASSUME evicted' = evicted \/ everDown # TRUE => evicted' = evicted,
             UNCHANGED <<up, everDown, retrying, abandoned, expired>>, rpc' # "drain"
      PROVE  HealthyInv'
  BY <1>0, <1>3 DEF HealthyInv
<1>4. CASE TakeLine
  <2> DEFINE lines == Append(current, Head(ch))
  <2>1. /\ rpc = "select" /\ rpc' # "drain" /\ ch \in Seq(Lines) /\ ch # <<>>
        /\ UNCHANGED <<up, everDown, retrying, abandoned, expired>>
    BY <1>0, <1>4 DEF TakeLine, MaybeDrain, TypeOK
  <2>2. lines \in Seq(Lines)
    BY <1>0, <2>1, TailShifts, AppendOne
  <2>3. evicted' = evicted \/ Finalize(lines)
    BY <1>4 DEF TakeLine
  <2> HIDE DEF lines
  <2>4. everDown # TRUE => evicted' = evicted
    BY <1>2, <2>1, <2>2, <2>3
  <2> QED
    BY <1>3, <2>1, <2>4
<1>5. CASE FlushTick \/ DrainEnd
  <2>1. /\ rpc \in {"select", "drain"} /\ rpc' # "drain" /\ Finalize(current)
        /\ UNCHANGED <<up, everDown, retrying, abandoned, expired>>
    BY <1>5 DEF FlushTick, DrainEnd, MaybeDrain
  <2>2. everDown # TRUE => evicted' = evicted
    BY <1>0, <1>2, <2>1
  <2> QED
    BY <1>3, <2>1, <2>2
<1>6. CASE RunDone
  <2>1. /\ rpc = "select"
        /\ UNCHANGED <<retryBuffer, up, everDown, retrying, evicted, abandoned, expired>>
    BY <1>6 DEF RunDone
  <2> QED
    BY <1>0, <1>1, <2>1 DEF HealthyInv
<1>7. CASE RetryTick
  <2>1. /\ retrying' = FALSE \/ retrying' = retrying
        /\ UNCHANGED <<up, everDown, evicted, abandoned, expired>>
    BY <1>7 DEF RetryTick
  <2>2. rpc' # "drain"
    BY <1>7 DEF RetryTick
  <2> QED
    BY <1>0, <2>1, <2>2 DEF HealthyInv
<1>8. CASE PostOK
  <2>1. /\ retrying' = FALSE \/ retrying' = retrying
        /\ rpc' # "drain" /\ UNCHANGED <<up, everDown, evicted, abandoned, expired>>
    BY <1>8 DEF PostOK
  <2> QED
    BY <1>0, <2>1 DEF HealthyInv
\* A POST fails only when the collector is down.
<1>9. CASE PostFails \/ FinalPostFails
  <2>1. ~up /\ everDown' = everDown
    BY <1>9 DEF PostFails, FinalPostFails
  <2>2. everDown' = TRUE
    BY <1>0, <2>1 DEF HealthyInv
  <2> QED
    BY <2>2 DEF HealthyInv
<1>10. CASE FinalPostOK
  <2>1. rpc' # "drain" /\ UNCHANGED <<up, everDown, retrying, evicted, abandoned, expired>>
    BY <1>10 DEF FinalPostOK, FinalNext
  <2> QED
    BY <1>3, <2>1
<1>11. CASE BudgetExpires
  <2>1. /\ expired' = TRUE /\ rpc' = "exited" /\ UNCHANGED <<up, everDown, retrying, evicted>>
    BY <1>11 DEF BudgetExpires
  <2> QED
    BY <1>0, <2>1 DEF HealthyInv
<1>12. CASE CollectorFlips
  <2>1. everDown' = TRUE
    BY <1>12 DEF CollectorFlips
  <2> QED
    BY <2>1 DEF HealthyInv
<1>13. ASSUME UNCHANGED <<rpc, retryBuffer, up, everDown, retrying, evicted, abandoned, expired>>
       PROVE  HealthyInv'
  BY <1>0, <1>13 DEF HealthyInv
<1>14. ASSUME NEW p \in Producers, Check(p) \/ Enqueue(p)
       PROVE  HealthyInv'
  BY <1>13, <1>14 DEF Check, Enqueue
<1>15. CASE TimerFires \/ DrainLine \/ CloseStore \/ CloseSignal \/ CloseReturn \/ UNCHANGED vars
  BY <1>13, <1>15 DEF TimerFires, DrainLine, CloseStore, CloseSignal, CloseReturn, vars
<1> QED
  BY <1>4, <1>5, <1>6, <1>7, <1>8, <1>9, <1>10, <1>11, <1>12, <1>14, <1>15 DEF Next, Run, Post, Close

-----------------------------------------------------------------------------
(* Order.                                                                  *)

\* The lines of a batch are among the lines of its sequence.
LEMMA BatchWithin ==
    ASSUME NEW bs, NEW i \in DOMAIN bs
    PROVE  Range(bs[i]) \subseteq LinesOf(bs)
BY DEF LinesOf

\* The first batch of an ordered buffer comes before the others.
LEMMA OldestFirst ==
    ASSUME NEW r, NEW b \in Seq(Seq(Lines)), b # <<>>, Batches(r, b)
    PROVE  Before(Range(Head(b)), LinesOf(Tail(b)))
<1> SUFFICES ASSUME NEW x \in Range(Head(b)), NEW y \in LinesOf(Tail(b)), x[1] = y[1]
             PROVE  x[2] < y[2]
  BY DEF Before
<1>1. PICK i \in DOMAIN Tail(b) : y \in Range(Tail(b)[i])
  BY DEF LinesOf
<1>2. /\ 1 \in DOMAIN b /\ Head(b) = b[1]
      /\ i \in Nat /\ i + 1 \in DOMAIN b /\ Tail(b)[i] = b[i + 1] /\ i \in DOMAIN Tail(b)
  BY <1>1, TailShifts
<1>3. 1 < i + 1
  <2>1. DOMAIN Tail(b) = 1..Len(Tail(b))
    BY TailShifts
  <2> QED
    BY <1>2, <2>1
<1>4. Before(Range(b[1]), Range(b[i + 1]))
  BY <1>2, <1>3 DEF Batches
<1> QED
  BY <1>1, <1>2, <1>4 DEF Before

\* The collector gets the oldest batch, again or for the first time.
LEMMA BatchReceived ==
    ASSUME NEW r \in Seq(Seq(Lines)), NEW b \in Seq(Seq(Lines)), b # <<>>, Batches(r, b)
    PROVE  Batches(Append(r, Head(b)), b)
<1> DEFINE a == Append(r, Head(b))
<1>1. 1 \in DOMAIN b /\ Head(b) = b[1] /\ Head(b) \in Seq(Lines) /\ DOMAIN b = 1..Len(b)
  BY TailShifts
<1>2. /\ \A i \in DOMAIN r : i \in DOMAIN a /\ a[i] = r[i]
      /\ a[Len(r) + 1] = b[1] /\ DOMAIN r = 1..Len(r) /\ DOMAIN a = 1..(Len(r) + 1)
      /\ Len(r) \in Nat
  BY <1>1, AppendOne
<1> HIDE DEF a
<1>3. ASSUME NEW i \in DOMAIN a, NEW j \in DOMAIN a, i < j
      PROVE  a[i] = a[j] \/ Before(Range(a[i]), Range(a[j]))
  <2>1. i \in DOMAIN r /\ a[i] = r[i] /\ (j \in DOMAIN r \/ j = Len(r) + 1)
    BY <1>2, <1>3
  <2>2. CASE j \in DOMAIN r
    <3>1. a[j] = r[j]
      BY <1>2, <2>2
    <3> QED
      BY <1>3, <2>1, <2>2, <3>1 DEF Batches
  <2>3. CASE j = Len(r) + 1
    BY <1>1, <1>2, <2>1, <2>3 DEF Batches
  <2> QED
    BY <2>1, <2>2, <2>3
<1>4. ASSUME NEW i \in DOMAIN a, NEW j \in DOMAIN b
      PROVE  (j = 1 /\ a[i] = b[1]) \/ Before(Range(a[i]), Range(b[j]))
  <2>1. CASE i \in DOMAIN r
    BY <1>2, <2>1 DEF Batches
  <2>2. CASE i = Len(r) + 1
    <3>1. j = 1 \/ 1 < j
      BY <1>1
    <3> QED
      BY <1>1, <1>2, <2>2, <3>1 DEF Batches
  <2> QED
    BY <1>2, <2>1, <2>2
<1> QED
  BY <1>3, <1>4 DEF Batches, a

\* The oldest batch leaves the buffer, delivered or dropped.
LEMMA BatchGone ==
    ASSUME NEW r, NEW b \in Seq(Seq(Lines)), b # <<>>, Batches(r, b)
    PROVE  Batches(r, Tail(b))
<1> DEFINE t == Tail(b)
<1>1. /\ \A i \in DOMAIN t : i \in Nat \ {0} /\ i + 1 \in DOMAIN b /\ t[i] = b[i + 1]
      /\ 1 \in DOMAIN b
  <2>1. t \in Seq(Seq(Lines)) /\ DOMAIN t = 1..Len(t)
    BY TailShifts
  <2> QED
    BY <2>1, TailShifts
<1> HIDE DEF t
<1>2. ASSUME NEW i \in DOMAIN t, NEW j \in DOMAIN t, i < j
      PROVE  Before(Range(t[i]), Range(t[j]))
  <2>1. i + 1 < j + 1 /\ i + 1 \in DOMAIN b /\ j + 1 \in DOMAIN b
    BY <1>1, <1>2
  <2> QED
    BY <1>1, <2>1 DEF Batches
<1>3. ASSUME NEW i \in DOMAIN r, NEW j \in DOMAIN t
      PROVE  Before(Range(r[i]), Range(t[j]))
  <2>1. j + 1 \in DOMAIN b /\ j + 1 # 1 /\ t[j] = b[j + 1]
    BY <1>1
  <2> QED
    BY <2>1 DEF Batches
<1>4. \A i, j \in DOMAIN r : i < j => r[i] = r[j] \/ Before(Range(r[i]), Range(r[j]))
  BY DEF Batches
<1> QED
  BY <1>2, <1>3, <1>4 DEF Batches, t

\* A batch that comes after all others joins the buffer.
LEMMA BatchJoins ==
    ASSUME NEW r \in Seq(Seq(Lines)), NEW b \in Seq(Seq(Lines)), NEW lines \in Seq(Lines),
           Batches(r, b), Before(LinesOf(r) \cup LinesOf(b), Range(lines))
    PROVE  Batches(r, Append(b, lines))
<1> DEFINE a == Append(b, lines)
<1>1. /\ \A i \in DOMAIN b : i \in DOMAIN a /\ a[i] = b[i]
      /\ a[Len(b) + 1] = lines /\ DOMAIN b = 1..Len(b) /\ DOMAIN a = 1..(Len(b) + 1)
      /\ Len(b) \in Nat
  BY AppendOne
<1> HIDE DEF a
<1>2. /\ \A i \in DOMAIN r : Before(Range(r[i]), Range(lines))
      /\ \A i \in DOMAIN b : Before(Range(b[i]), Range(lines))
  BY BatchWithin DEF Before
<1>3. ASSUME NEW i \in DOMAIN a, NEW j \in DOMAIN a, i < j
      PROVE  Before(Range(a[i]), Range(a[j]))
  <2>1. i \in DOMAIN b /\ a[i] = b[i]
    BY <1>1, <1>3
  <2>2. CASE j \in DOMAIN b
    BY <1>1, <1>3, <2>1, <2>2 DEF Batches
  <2>3. CASE j = Len(b) + 1
    BY <1>1, <1>2, <2>1, <2>3
  <2> QED
    BY <1>1, <2>2, <2>3
<1>4. ASSUME NEW i \in DOMAIN r, NEW j \in DOMAIN a
      PROVE  (j = 1 /\ r[i] = a[1]) \/ Before(Range(r[i]), Range(a[j]))
  <2>1. CASE j \in DOMAIN b
    <3>1. a[j] = b[j] /\ (j = 1 => a[1] = b[1])
      BY <1>1, <2>1
    <3> QED
      BY <2>1, <3>1 DEF Batches
  <2>2. CASE j = Len(b) + 1
    BY <1>1, <1>2, <2>2
  <2> QED
    BY <1>1, <2>1, <2>2
<1>5. \A i, j \in DOMAIN r : i < j => r[i] = r[j] \/ Before(Range(r[i]), Range(r[j]))
  BY DEF Batches
<1> QED
  BY <1>3, <1>4, <1>5 DEF Batches, a

\* An empty buffer is in order with whatever the collector has.
LEMMA BatchesEmpty == ASSUME NEW r, NEW b, Batches(r, b) PROVE Batches(r, <<>>)
BY DEF Batches

\* The channel keeps its order when a later line joins it,
LEMMA AscendingAppend ==
    ASSUME NEW s \in Seq(Lines), NEW e \in Lines, Ascending(s), Before(Range(s), {e})
    PROVE  Ascending(Append(s, e))
<1> DEFINE a == Append(s, e)
<1>1. /\ \A i \in DOMAIN s : i \in DOMAIN a /\ a[i] = s[i]
      /\ a[Len(s) + 1] = e /\ DOMAIN s = 1..Len(s) /\ DOMAIN a = 1..(Len(s) + 1)
      /\ Len(s) \in Nat
  BY AppendOne
<1> HIDE DEF a
<1> SUFFICES ASSUME NEW i \in DOMAIN a, NEW j \in DOMAIN a, i < j, a[i][1] = a[j][1]
             PROVE  a[i][2] < a[j][2]
  BY DEF Ascending, a
<1>2. i \in DOMAIN s /\ a[i] = s[i] /\ s[i] \in Range(s)
  BY <1>1 DEF Range
<1>3. CASE j \in DOMAIN s
  BY <1>1, <1>2, <1>3 DEF Ascending
<1>4. CASE j = Len(s) + 1
  BY <1>1, <1>2, <1>4 DEF Before
<1> QED
  BY <1>1, <1>3, <1>4

\* and its first line comes before the others.
LEMMA AscendingTail ==
    ASSUME NEW s \in Seq(Lines), s # <<>>, Ascending(s)
    PROVE  Ascending(Tail(s)) /\ Before({Head(s)}, Range(Tail(s)))
<1> DEFINE t == Tail(s)
<1>1. /\ \A i \in DOMAIN t : i \in Nat \ {0} /\ i + 1 \in DOMAIN s /\ t[i] = s[i + 1]
      /\ 1 \in DOMAIN s /\ Head(s) = s[1]
  <2>1. t \in Seq(Lines) /\ DOMAIN t = 1..Len(t)
    BY TailShifts
  <2> QED
    BY <2>1, TailShifts
<1> HIDE DEF t
<1>2. ASSUME NEW i \in DOMAIN t, NEW j \in DOMAIN t, i < j, t[i][1] = t[j][1]
      PROVE  t[i][2] < t[j][2]
  <2>1. i + 1 < j + 1 /\ i + 1 \in DOMAIN s /\ j + 1 \in DOMAIN s
    BY <1>1, <1>2
  <2> QED
    BY <1>1, <1>2, <2>1 DEF Ascending
<1>3. ASSUME NEW y \in Range(t), Head(s)[1] = y[1]
      PROVE  Head(s)[2] < y[2]
  <2>1. PICK i \in DOMAIN t : y = t[i]
    BY DEF Range
  <2>2. 1 < i + 1 /\ i + 1 \in DOMAIN s /\ y = s[i + 1]
    BY <1>1, <2>1
  <2> QED
    BY <1>1, <1>3, <2>2 DEF Ascending
<1> QED
  BY <1>2, <1>3 DEF Ascending, Before, t

\* What finalize does to the order of the lines and of those (T) behind them.
LEMMA FinalizedOrder ==
    ASSUME TypeOK, NEW lines \in Seq(Lines), NEW T, Finalize(lines), UNCHANGED <<received, abandoned>>,
           Batches(received, retryBuffer),
           Before(evicted \cup abandoned, LinesOf(retryBuffer)),
           Before(evicted \cup abandoned \cup LinesOf(received) \cup LinesOf(retryBuffer), Range(lines) \cup T),
           Before(Range(lines), T)
    PROVE  /\ Batches(received', retryBuffer')
           /\ Before(evicted' \cup abandoned', LinesOf(retryBuffer'))
           /\ Before(evicted' \cup abandoned' \cup LinesOf(received') \cup LinesOf(retryBuffer'), T)
           /\ LinesOf(retryBuffer') \cup evicted' = LinesOf(retryBuffer) \cup evicted \cup Range(lines)
<1> DEFINE b == Append(retryBuffer, lines)
<1>0. /\ retryBuffer \in Seq(Seq(Lines)) /\ received \in Seq(Seq(Lines))
      /\ received' = received /\ abandoned' = abandoned
  BY DEF TypeOK
<1>1. CASE lines = <<>>
  <2>1. retryBuffer' = retryBuffer /\ evicted' = evicted /\ Range(lines) = {}
    BY <1>1, RangeTyped DEF Finalize
  <2> QED
    BY <1>0, <2>1 DEF Before
<1>2. CASE lines # <<>>
  <2>1. /\ b \in Seq(Seq(Lines)) /\ b # <<>>
        /\ LinesOf(b) = LinesOf(retryBuffer) \cup Range(lines)
    BY <1>0, AppendOne, LinesAppend
  <2>2. Batches(received, b)
    <3>1. Before(LinesOf(received) \cup LinesOf(retryBuffer), Range(lines))
      BY DEF Before
    <3> QED
      BY <1>0, <3>1, BatchJoins
  <2>3. (retryBuffer' = b /\ evicted' = evicted)
        \/ (retryBuffer' = Tail(b) /\ evicted' = evicted \cup Range(Head(b)))
    BY <1>2 DEF Finalize
  <2> HIDE DEF b
  <2>4. /\ LinesOf(b) = Range(Head(b)) \cup LinesOf(Tail(b))
        /\ Batches(received, Tail(b)) /\ Before(Range(Head(b)), LinesOf(Tail(b)))
    BY <2>1, <2>2, LinesTail, BatchGone, OldestFirst
  <2>5. CASE retryBuffer' = b /\ evicted' = evicted
    BY <1>0, <2>1, <2>2, <2>5 DEF Before
  <2>6. CASE retryBuffer' = Tail(b) /\ evicted' = evicted \cup Range(Head(b))
    BY <1>0, <2>1, <2>4, <2>6 DEF Before
  <2> QED
    BY <2>3, <2>5, <2>6
<1> QED
  BY <1>1, <1>2

\* A batch of a POST that fails, received or not.
LEMMA MaybeReceivedOrder ==
    ASSUME received \in Seq(Seq(Lines)), retryBuffer \in Seq(Seq(Lines)), retryBuffer # <<>>,
           Batches(received, retryBuffer), MaybeReceived(Head(retryBuffer))
    PROVE  /\ Batches(received', retryBuffer)
           /\ \/ LinesOf(received') = LinesOf(received)
              \/ LinesOf(received') = LinesOf(received) \cup Range(Head(retryBuffer))
<1>1. Head(retryBuffer) \in Seq(Lines)
  BY TailShifts
<1>2. CASE received' = received
  BY <1>2
<1>3. CASE received' = Append(received, Head(retryBuffer))
  BY <1>1, <1>3, BatchReceived, LinesAppend
<1> QED
  BY <1>2, <1>3 DEF MaybeReceived

LEMMA StepOrder == IInv /\ [Next]_vars => OrderInv'
<1> SUFFICES ASSUME IInv, [Next]_vars PROVE OrderInv'
  OBVIOUS
<1>0. /\ TypeOK /\ RunInv /\ SenderInv /\ OrderInv /\ ch \in Seq(Lines) /\ current \in Seq(Lines)
      /\ retryBuffer \in Seq(Seq(Lines)) /\ received \in Seq(Seq(Lines)) /\ accepted \subseteq Lines
      /\ calls \in [Producers -> 0..MaxCalls]
  BY DEF IInv, LineInv, TypeOK
<1> USE DEF producerVars, bufferVars, closeVars, collectorVars, lossVars
<1>1. ASSUME UNCHANGED <<ch, current, retryBuffer, received, evicted, abandoned, accepted>>
      PROVE  OrderInv'
  BY <1>0, <1>1 DEF OrderInv, Kept
<1>2. ASSUME NEW p \in Producers, Check(p)
      PROVE  OrderInv'
  BY <1>1, <1>2 DEF Check
<1>3. ASSUME NEW p \in Producers, Enqueue(p)
      PROVE  OrderInv'
  <2> DEFINE line == <<p, calls[p]>>
  <2>1. line \in Lines \ accepted
    BY <1>0, <1>3 DEF Enqueue, SenderInv
  <2>2. UNCHANGED <<current, retryBuffer, received, evicted, abandoned>>
    BY <1>3 DEF Enqueue
  <2>3. Before(accepted, {line})
    <3> SUFFICES ASSUME NEW x \in accepted, x[1] = p PROVE x[2] < calls[p]
      BY DEF Before
    <3>1. x \in Lines /\ x = <<x[1], x[2]>> /\ x[2] \in Nat /\ calls[p] \in Nat
      BY <1>0 DEF Lines
    <3>2. x[2] <= calls[p] /\ x[2] # calls[p]
      BY <1>0, <2>1, <3>1 DEF SenderInv
    <3> QED
      BY <3>1, <3>2
  <2>4. CASE Len(ch) < BufferSize
    <3>1. ch' = Append(ch, line) /\ accepted' = accepted \cup {line}
      BY <1>3, <2>4 DEF Enqueue
    <3> HIDE DEF line
    <3>2. Range(ch') = Range(ch) \cup {line}
      BY <1>0, <2>1, <3>1, RangeAppend
    <3>3. Before(Kept, {line}) /\ Range(ch) \subseteq Kept
      BY <1>0, <2>3 DEF OrderInv, Before, Kept
    <3>4. Ascending(ch')
      <4>1. Before(Range(ch), {line})
        BY <3>3 DEF Before
      <4> QED
        BY <1>0, <2>1, <3>1, <4>1, AscendingAppend DEF OrderInv
    <3>5. Before((evicted \cup abandoned \cup LinesOf(received) \cup LinesOf(retryBuffer))',
                 (Range(current) \cup Range(ch))')
      BY <1>0, <2>2, <3>2, <3>3 DEF OrderInv, Before, Kept
    <3>6. Before(Range(current)', Range(ch)')
      BY <1>0, <2>2, <3>2, <3>3 DEF OrderInv, Before, Kept
    <3>7. (Kept \subseteq accepted)'
      BY <1>0, <2>2, <3>1, <3>2 DEF OrderInv, Kept
    <3> QED
      BY <1>0, <2>2, <3>4, <3>5, <3>6, <3>7 DEF OrderInv
  <2>5. CASE ~(Len(ch) < BufferSize)
    BY <1>1, <1>3, <2>5 DEF Enqueue
  <2> QED
    BY <2>4, <2>5
\* The goroutine takes a line from the channel.
<1>4. ASSUME ch # <<>>
      PROVE  /\ Append(current, Head(ch)) \in Seq(Lines)
             /\ Range(Append(current, Head(ch))) \cup Range(Tail(ch)) = Range(current) \cup Range(ch)
             /\ Before(Range(Append(current, Head(ch))), Range(Tail(ch)))
             /\ Ascending(Tail(ch))
  <2>1. Head(ch) \in Lines /\ Range(ch) = {Head(ch)} \cup Range(Tail(ch))
    BY <1>0, <1>4, TailShifts, RangeTail
  <2>2. /\ Append(current, Head(ch)) \in Seq(Lines)
        /\ Range(Append(current, Head(ch))) = Range(current) \cup {Head(ch)}
    BY <1>0, <2>1, AppendOne, RangeAppend
  <2>3. Ascending(Tail(ch)) /\ Before({Head(ch)}, Range(Tail(ch)))
    BY <1>0, <1>4, AscendingTail DEF OrderInv
  <2> QED
    BY <1>0, <2>1, <2>2, <2>3 DEF OrderInv, Before
\* It makes a batch of the lines.
<1>5. ASSUME NEW lines \in Seq(Lines), Finalize(lines), UNCHANGED <<received, abandoned, accepted>>,
             Range(lines) \cup Range(ch') = Range(current) \cup Range(ch),
             Before(Range(lines), Range(ch')), Ascending(ch')
      PROVE  OrderInv'
  <2> DEFINE T == Range(ch')
  <2>1. /\ Batches(received, retryBuffer)
        /\ Before(evicted \cup abandoned, LinesOf(retryBuffer))
        /\ Before(evicted \cup abandoned \cup LinesOf(received) \cup LinesOf(retryBuffer), Range(lines) \cup T)
    BY <1>0, <1>5 DEF OrderInv
  <2>2. Before(Range(lines), T) /\ received' = received /\ abandoned' = abandoned
    BY <1>5
  <2> HIDE DEF T
  <2>3. /\ Batches(received', retryBuffer')
        /\ Before(evicted' \cup abandoned', LinesOf(retryBuffer'))
        /\ Before(evicted' \cup abandoned' \cup LinesOf(received') \cup LinesOf(retryBuffer'), T)
        /\ LinesOf(retryBuffer') \cup evicted' = LinesOf(retryBuffer) \cup evicted \cup Range(lines)
    BY <1>0, <1>5, <2>1, <2>2, FinalizedOrder
  <2>4. current' = <<>> /\ Range(current') = {}
    BY <1>5, RangeTyped DEF Finalize
  <2>5. (Kept \subseteq accepted)'
    BY <1>0, <1>5, <2>3, <2>4 DEF OrderInv, Kept
  <2>6. Before({}, Range(ch')) /\ {} \cup T = T
    BY DEF Before
  <2> QED
    BY <1>5, <2>3, <2>4, <2>5, <2>6 DEF OrderInv, T
\* It adds the line to the current ones.
<1>6. ASSUME UNCHANGED <<retryBuffer, received, evicted, abandoned, accepted>>,
              Range(current') \cup Range(ch') = Range(current) \cup Range(ch),
              Before(Range(current'), Range(ch')), Ascending(ch')
       PROVE  OrderInv'
  <2>1. (Kept \subseteq accepted)'
    BY <1>0, <1>6 DEF OrderInv, Kept
  <2>2. Before((evicted \cup abandoned \cup LinesOf(received) \cup LinesOf(retryBuffer))',
               (Range(current) \cup Range(ch))')
    BY <1>0, <1>6 DEF OrderInv
  <2> QED
    BY <1>0, <1>6, <2>1, <2>2 DEF OrderInv
<1>7. CASE TakeLine
  <2> DEFINE lines == Append(current, Head(ch))
  <2>1. /\ ch # <<>> /\ ch' = Tail(ch)
        /\ UNCHANGED <<received, abandoned, accepted>>
    BY <1>7 DEF TakeLine
  <2>2. /\ lines \in Seq(Lines) /\ Range(lines) \cup Range(ch') = Range(current) \cup Range(ch)
        /\ Before(Range(lines), Range(ch')) /\ Ascending(ch')
    BY <1>4, <2>1
  <2>3. CASE Len(lines) >= BatchSize
    <3>1. Finalize(lines)
      BY <1>7, <2>3 DEF TakeLine
    <3> HIDE DEF lines
    <3> QED
      BY <1>5, <2>1, <2>2, <3>1
  <2>4. CASE ~(Len(lines) >= BatchSize)
    <3>1. current' = lines /\ UNCHANGED <<retryBuffer, evicted>>
      BY <1>7, <2>4 DEF TakeLine
    <3> HIDE DEF lines
    <3> QED
      BY <1>6, <2>1, <2>2, <3>1
  <2> QED
    BY <2>3, <2>4
<1>8. CASE FlushTick \/ DrainEnd
  <2>1. Finalize(current) /\ UNCHANGED <<ch, received, abandoned, accepted>>
    BY <1>8 DEF FlushTick, DrainEnd
  <2>2. Before(Range(current), Range(ch')) /\ Ascending(ch')
    BY <1>0, <2>1 DEF OrderInv
  <2> QED
    BY <1>0, <1>5, <2>1, <2>2
<1>9. CASE DrainLine
  <2>1. /\ ch # <<>> /\ ch' = Tail(ch) /\ current' = Append(current, Head(ch))
        /\ UNCHANGED <<retryBuffer, received, evicted, abandoned, accepted>>
    BY <1>9 DEF DrainLine
  <2> QED
    BY <1>4, <1>6, <2>1
\* The oldest batch leaves the retry buffer.
<1>10. ASSUME rpc \in {"post", "final"}
      PROVE  /\ retryBuffer # <<>> /\ Head(retryBuffer) \in Seq(Lines)
             /\ Tail(retryBuffer) \in Seq(Seq(Lines))
             /\ LinesOf(retryBuffer) = Range(Head(retryBuffer)) \cup LinesOf(Tail(retryBuffer))
             /\ Before(Range(Head(retryBuffer)), LinesOf(Tail(retryBuffer)))
             /\ \A r : Batches(r, retryBuffer) => Batches(r, Tail(retryBuffer))
  <2>1. retryBuffer # <<>>
    BY <1>0, <1>10 DEF RunInv, RetryPending
  <2> QED
    BY <1>0, <2>1, TailShifts, LinesTail, OldestFirst, BatchGone DEF OrderInv
<1>11. ASSUME rpc \in {"post", "final"}, retryBuffer' = Tail(retryBuffer),
              Batches(received', retryBuffer),
              LinesOf(received') \cup abandoned'
                \subseteq LinesOf(received) \cup abandoned \cup Range(Head(retryBuffer)),
              abandoned' \subseteq abandoned \cup Range(Head(retryBuffer)),
              UNCHANGED <<ch, current, evicted, accepted>>
       PROVE  OrderInv'
  <2>1. Batches(received', retryBuffer')
    BY <1>10, <1>11
  <2>2. Before((evicted \cup abandoned)', LinesOf(retryBuffer)')
    BY <1>0, <1>10, <1>11 DEF OrderInv, Before
  <2>3. Before((evicted \cup abandoned \cup LinesOf(received) \cup LinesOf(retryBuffer))',
               (Range(current) \cup Range(ch))')
    BY <1>0, <1>10, <1>11 DEF OrderInv, Before
  <2>4. (Kept \subseteq accepted)'
    BY <1>0, <1>10, <1>11 DEF OrderInv, Kept
  <2> QED
    BY <1>0, <1>11, <2>1, <2>2, <2>3, <2>4 DEF OrderInv
<1>12. CASE PostOK \/ FinalPostOK
  <2>1. /\ rpc \in {"post", "final"} /\ retryBuffer' = Tail(retryBuffer)
        /\ received' = Append(received, Head(retryBuffer))
        /\ UNCHANGED <<ch, current, evicted, abandoned, accepted>>
    BY <1>12 DEF PostOK, FinalPostOK, FinalNext
  <2>2. /\ Batches(received', retryBuffer)
        /\ LinesOf(received') = LinesOf(received) \cup Range(Head(retryBuffer))
    BY <1>0, <1>10, <2>1, BatchReceived, LinesAppend DEF OrderInv
  <2> QED
    BY <1>11, <2>1, <2>2
<1>13. ASSUME rpc \in {"post", "final"}, MaybeReceived(Head(retryBuffer))
       PROVE  /\ Batches(received', retryBuffer)
              /\ \/ LinesOf(received') = LinesOf(received)
                 \/ LinesOf(received') = LinesOf(received) \cup Range(Head(retryBuffer))
  BY <1>0, <1>10, <1>13, MaybeReceivedOrder DEF OrderInv
<1>14. CASE PostFails
  <2>1. /\ rpc = "post" /\ MaybeReceived(Head(retryBuffer))
        /\ UNCHANGED <<ch, current, retryBuffer, evicted, abandoned, accepted>>
    BY <1>14 DEF PostFails
  <2>2. /\ Batches(received', retryBuffer)
        /\ LinesOf(received') \subseteq LinesOf(received) \cup LinesOf(retryBuffer)
    BY <1>10, <1>13, <2>1
  <2>3. Before((evicted \cup abandoned \cup LinesOf(received) \cup LinesOf(retryBuffer))',
               (Range(current) \cup Range(ch))')
    BY <1>0, <2>1, <2>2 DEF OrderInv, Before
  <2>4. (Kept \subseteq accepted)'
    BY <1>0, <2>1, <2>2 DEF OrderInv, Kept
  <2> QED
    BY <1>0, <2>1, <2>2, <2>3, <2>4 DEF OrderInv
<1>15. CASE FinalPostFails
  <2>1. /\ rpc = "final" /\ MaybeReceived(Head(retryBuffer)) /\ retryBuffer' = Tail(retryBuffer)
        /\ abandoned' = abandoned \cup Range(Head(retryBuffer))
        /\ UNCHANGED <<ch, current, evicted, accepted>>
    BY <1>15 DEF FinalPostFails, FinalNext
  <2> QED
    BY <1>11, <1>13, <2>1
<1>16. CASE BudgetExpires
  <2>1. /\ rpc = "final" /\ MaybeReceived(Head(retryBuffer)) /\ retryBuffer' = <<>>
        /\ abandoned' = abandoned \cup LinesOf(retryBuffer)
        /\ UNCHANGED <<ch, current, evicted, accepted>>
    BY <1>16 DEF BudgetExpires
  <2>2. /\ Batches(received', retryBuffer) /\ LinesOf(retryBuffer') = {}
        /\ LinesOf(received') \subseteq LinesOf(received) \cup LinesOf(retryBuffer)
    BY <1>10, <1>13, <2>1, RangeTyped
  <2>3. Batches(received', retryBuffer')
    BY <2>1, <2>2, BatchesEmpty
  <2>4. Before((evicted \cup abandoned \cup LinesOf(received) \cup LinesOf(retryBuffer))',
               (Range(current) \cup Range(ch))')
    BY <1>0, <2>1, <2>2 DEF OrderInv, Before
  <2>5. Before((evicted \cup abandoned)', LinesOf(retryBuffer)')
    BY <2>2 DEF Before
  <2>6. (Kept \subseteq accepted)'
    BY <1>0, <2>1, <2>2 DEF OrderInv, Kept
  <2> QED
    BY <1>0, <2>1, <2>3, <2>4, <2>5, <2>6 DEF OrderInv
<1>17. CASE TimerFires \/ RetryTick \/ RunDone \/ CloseStore \/ CloseSignal \/ CloseReturn
            \/ CollectorFlips \/ UNCHANGED vars
  BY <1>1, <1>17 DEF TimerFires, RetryTick, RunDone, CloseStore, CloseSignal, CloseReturn,
                     CollectorFlips, vars
<1> QED
  BY <1>2, <1>3, <1>7, <1>8, <1>9, <1>12, <1>14, <1>15, <1>16, <1>17 DEF Next, Run, Post, Close

-----------------------------------------------------------------------------
(* The theorems.                                                           *)

THEOREM Invariant == Spec => []IInv
<1>1. IInv /\ [Next]_vars => IInv'
  BY StepType, StepRun, StepKept, StepSender, StepEarly, StepHealthy, StepOrder DEF IInv, LineInv
<1> QED
  BY <1>1, InitInv, PTL DEF Spec

\* Every variable has its type; the channel and the retry buffer stay within
\* their capacities, and the backoff within its bounds.
THEOREM TypeCorrect == Spec => []TypeOK
<1>1. IInv => TypeOK
  BY DEF IInv
<1> QED
  BY <1>1, Invariant, PTL

\* No batch is stuck without a running retry timer: the sink's select waits
\* with undelivered batches only in a backoff wait.
THEOREM RetryPendingAlways == Spec => []RetryPending
<1>1. IInv => RetryPending
  BY DEF IInv, RunInv
<1> QED
  BY <1>1, Invariant, PTL

\* Close has delivered every line sent in time, if the collector was never
\* down and the shutdown budget was enough.
THEOREM CloseDeliversAlways == Spec => []CloseDelivers
<1>1. IInv => CloseDelivers
  <2> SUFFICES ASSUME IInv, cpc = "returned", ~everDown, ~expired
               PROVE  early \subseteq LinesOf(received)
    BY DEF CloseDelivers
  <2>1. TypeOK /\ RunInv /\ KeptInv /\ EarlyInv /\ HealthyInv
    BY DEF IInv, LineInv
  <2>2. rpc = "exited"
    BY <2>1 DEF RunInv
  <2>3. retryBuffer = <<>> /\ current = <<>>
    BY <2>1, <2>2 DEF RunInv
  <2>4. evicted = {} /\ abandoned = {}
    BY <2>1 DEF HealthyInv
  <2>5. early \subseteq accepted /\ early \cap Range(ch) = {}
    BY <2>1, <2>2 DEF EarlyInv, TypeOK
  <2> QED
    BY <2>1, <2>3, <2>4, <2>5, RangeTyped DEF KeptInv, Kept
<1> QED
  BY <1>1, Invariant, PTL

\* The collector gets each goroutine's lines in order, and a batch again only
\* before any later one.
THEOREM DeliveredInOrderAlways == Spec => []DeliveredInOrder
<1>1. IInv => DeliveredInOrder
  BY DEF IInv, OrderInv, Batches, Before, DeliveredInOrder
<1> QED
  BY <1>1, Invariant, PTL

-----------------------------------------------------------------------------
(* The sink as an abstract one: every step is one of LossyLog's, or none.  *)

LEMMA Irreflexive ==
    ASSUME NEW S, NEW T, S \subseteq Lines, Before(S, T)
    PROVE  S \cap T = {}
<1> SUFFICES ASSUME NEW x \in S \cap T PROVE FALSE
  OBVIOUS
<1>1. x[2] \in Nat /\ x[2] < x[2]
  BY DEF Before, Lines
<1> QED
  BY <1>1

\* A line is in one place only, but for a batch whose answer was lost.
LEMMA Places ==
    ASSUME IInv
    PROVE  /\ Kept \subseteq Lines
           /\ (Range(ch) \cup Range(current)) \cap LinesOf(received) = {}
           /\ (Range(ch) \cup Range(current)) \cap LinesOf(retryBuffer) = {}
           /\ (Range(ch) \cup Range(current)) \cap (evicted \cup abandoned) = {}
           /\ LinesOf(retryBuffer) \cap (evicted \cup abandoned) = {}
<1>1. OrderInv /\ Kept \subseteq Lines
  BY DEF IInv, OrderInv, TypeOK
<1>2. (evicted \cup abandoned) \cap LinesOf(retryBuffer) = {}
  BY <1>1, Irreflexive DEF OrderInv, Kept
<1>3. (evicted \cup abandoned \cup LinesOf(received) \cup LinesOf(retryBuffer))
         \cap (Range(current) \cup Range(ch)) = {}
  BY <1>1, Irreflexive DEF OrderInv, Kept
<1> QED
  BY <1>1, <1>2, <1>3

\* Nothing about the calls changes.
LEMMA CallsFrame ==
    ASSUME UNCHANGED <<calls, ppc, accepted>>
    PROVE  Calling' = Calling /\ Refused' = Refused
BY DEF Calling, Refused

\* A step that settles lines.
LEMMA Settles ==
    ASSUME NEW S \in SUBSET Pending, NEW K \in SUBSET S, Before(S, Pending \ S),
           cpc # "returned",
           Pending' = Pending \ S, LinesOf(received)' = LinesOf(received) \cup K,
           Lost' = Lost \cup (S \ K),
           UNCHANGED <<calls, ppc, accepted, early, closed, cpc>>
    PROVE  Sink!Next
<1>1. Calling' = Calling /\ Refused' = Refused
  BY CallsFrame
<1>2. Phase # "closed" /\ Phase' = Phase
  BY DEF Phase
<1>3. Sink!Settle(S, K)
  BY <1>1, <1>2 DEF Sink!Settle, Before
<1> QED
  BY <1>3 DEF Sink!Next

\* A step that no caller and no collector notices.
LEMMA Stutters ==
    ASSUME Pending' = Pending, LinesOf(received)' = LinesOf(received), Lost' = Lost,
           UNCHANGED <<calls, ppc, accepted, early>>, Phase' = Phase
    PROVE  UNCHANGED Sink!vars
BY CallsFrame DEF Sink!vars

\* The abstract phase is open until Close has set the flag.
LEMMA PhaseOpen ==
    ASSUME IInv
    PROVE  /\ Phase = "open" <=> closed # TRUE
           /\ cpc # "returned" /\ closed = TRUE => Phase = "closing"
           /\ rpc # "exited" => cpc # "returned"
           /\ closed \in BOOLEAN
<1>1. RunInv /\ closed \in BOOLEAN
  BY DEF IInv, TypeOK
<1>2. cpc = "returned" => closed = TRUE /\ rpc = "exited"
  BY <1>1 DEF RunInv
<1> QED
  BY <1>1, <1>2 DEF Phase

\* Finalizing lines settles those of an evicted batch.
LEMMA FinalizeRefines ==
    ASSUME IInv, NEW lines \in Seq(Lines), Finalize(lines), cpc # "returned",
           Range(lines) \cup Range(ch') = Range(current) \cup Range(ch),
           Before(Range(lines), Range(ch')),
           UNCHANGED <<received, abandoned, calls, ppc, accepted, early, closed, cpc>>
    PROVE  Sink!Next \/ UNCHANGED Sink!vars
<1> DEFINE b == Append(retryBuffer, lines)
<1>0. /\ retryBuffer \in Seq(Seq(Lines)) /\ received \in Seq(Seq(Lines)) /\ OrderInv
      /\ received' = received /\ abandoned' = abandoned
      /\ current' = <<>> /\ Range(current') = {} /\ Phase' = Phase
  BY RangeTyped DEF IInv, TypeOK, Finalize, Phase
<1>1. CASE UNCHANGED evicted /\ LinesOf(retryBuffer') = LinesOf(retryBuffer) \cup Range(lines)
  <2>1. Pending' = Pending /\ Lost' = Lost
    BY <1>0, <1>1 DEF Pending, Lost
  <2> QED
    BY <1>0, <2>1, Stutters
<1>2. CASE lines = <<>>
  BY <1>0, <1>1, <1>2, RangeTyped DEF Finalize
<1>3. CASE lines # <<>>
  <2>1. /\ b \in Seq(Seq(Lines)) /\ b # <<>>
        /\ LinesOf(b) = LinesOf(retryBuffer) \cup Range(lines)
    BY <1>0, AppendOne, LinesAppend
  <2>2. CASE retryBuffer' = b /\ evicted' = evicted
    BY <1>1, <2>1, <2>2
  <2>3. CASE retryBuffer' = Tail(b) /\ evicted' = evicted \cup Range(Head(b))
    <3> DEFINE S == Range(Head(b)) \ LinesOf(received)
    <3>1. Batches(received, b)
      <4>1. Before(LinesOf(received) \cup LinesOf(retryBuffer), Range(lines))
        BY <1>0 DEF OrderInv, Before
      <4> QED
        BY <1>0, <4>1, BatchJoins DEF OrderInv
    <3> HIDE DEF b
    <3>2. /\ LinesOf(b) = Range(Head(b)) \cup LinesOf(Tail(b))
          /\ Before(Range(Head(b)), LinesOf(Tail(b)))
      BY <2>1, <3>1, LinesTail, OldestFirst
    <3>3. Before(LinesOf(b), Range(ch'))
      BY <1>0, <2>1 DEF OrderInv, Before
    <3>4. LinesOf(b) \subseteq Lines
      BY <2>1, RangeTyped
    <3>5. /\ Range(Head(b)) \cap LinesOf(Tail(b)) = {}
          /\ Range(Head(b)) \cap Range(ch') = {}
      BY <3>2, <3>3, <3>4, Irreflexive
    <3>6. Pending = (Range(ch') \cup LinesOf(b)) \ LinesOf(received)
      BY <2>1 DEF Pending
    <3>7. Pending' = (Range(ch') \cup LinesOf(Tail(b))) \ LinesOf(received)
      BY <1>0, <2>3 DEF Pending
    <3>8. S \in SUBSET Pending /\ Pending' = Pending \ S
      BY <3>2, <3>5, <3>6, <3>7
    <3>9. Before(S, Pending \ S)
      BY <3>2, <3>3, <3>7, <3>8 DEF Before
    <3>10. Lost' = Lost \cup (S \ {}) /\ LinesOf(received)' = LinesOf(received) \cup {}
      BY <1>0, <2>3 DEF Lost
    <3> HIDE DEF S
    <3> QED
      BY <3>8, <3>9, <3>10, Settles
  <2> QED
    BY <1>3, <2>2, <2>3 DEF Finalize
<1> QED
  BY <1>2, <1>3

\* What is pending when a POST is under way: the oldest batch, then the rest.
LEMMA OldestPending ==
    ASSUME IInv, rpc \in {"post", "final"}
    PROVE  /\ cpc # "returned"
           /\ retryBuffer # <<>> /\ Head(retryBuffer) \in Seq(Lines)
           /\ LinesOf(retryBuffer) = Range(Head(retryBuffer)) \cup LinesOf(Tail(retryBuffer))
           /\ LinesOf(Append(received, Head(retryBuffer)))
                 = LinesOf(received) \cup Range(Head(retryBuffer))
           /\ Range(Head(retryBuffer)) \cap LinesOf(Tail(retryBuffer)) = {}
           /\ Before(Range(Head(retryBuffer)),
                     LinesOf(Tail(retryBuffer)) \cup Range(current) \cup Range(ch))
<1>0. /\ TypeOK /\ RunInv /\ OrderInv
      /\ retryBuffer \in Seq(Seq(Lines)) /\ received \in Seq(Seq(Lines))
  BY DEF IInv, TypeOK
<1>1. retryBuffer # <<>> /\ cpc # "returned"
  BY <1>0 DEF RunInv, RetryPending
<1>2. /\ Head(retryBuffer) \in Seq(Lines)
      /\ LinesOf(retryBuffer) = Range(Head(retryBuffer)) \cup LinesOf(Tail(retryBuffer))
      /\ Before(Range(Head(retryBuffer)), LinesOf(Tail(retryBuffer)))
  BY <1>0, <1>1, TailShifts, LinesTail, OldestFirst DEF OrderInv
<1>3. Range(Head(retryBuffer)) \cap LinesOf(Tail(retryBuffer)) = {}
  BY <1>2, RangeTyped, Irreflexive
<1>4. LinesOf(Append(received, Head(retryBuffer))) = LinesOf(received) \cup Range(Head(retryBuffer))
  BY <1>0, <1>2, LinesAppend
<1>5. Before(Range(Head(retryBuffer)),
             LinesOf(Tail(retryBuffer)) \cup Range(current) \cup Range(ch))
  BY <1>0, <1>2 DEF OrderInv, Before
<1> QED
  BY <1>1, <1>2, <1>3, <1>4, <1>5

\* A POST settles the lines of its batch, if it settles anything.
LEMMA PostRefines ==
    ASSUME IInv, PostOK \/ PostFails \/ FinalPostOK \/ FinalPostFails
    PROVE  Sink!Next \/ UNCHANGED Sink!vars
<1> USE DEF producerVars, bufferVars, closeVars, collectorVars, lossVars
<1> DEFINE H == Range(Head(retryBuffer))
           S == H \ LinesOf(received)
           R == LinesOf(Tail(retryBuffer))
<1>1. /\ rpc \in {"post", "final"}
      /\ UNCHANGED <<ch, current, evicted, calls, ppc, accepted, early, closed, cpc>>
  BY DEF PostOK, PostFails, FinalPostOK, FinalPostFails, FinalNext
<1>2. \/ received' = Append(received, Head(retryBuffer)) /\ retryBuffer' = Tail(retryBuffer)
         /\ abandoned' = abandoned
      \/ received' = received /\ retryBuffer' = retryBuffer /\ abandoned' = abandoned
      \/ received' = Append(received, Head(retryBuffer)) /\ retryBuffer' = retryBuffer
         /\ abandoned' = abandoned
      \/ received' = received /\ retryBuffer' = Tail(retryBuffer)
         /\ abandoned' = abandoned \cup H
      \/ received' = Append(received, Head(retryBuffer)) /\ retryBuffer' = Tail(retryBuffer)
         /\ abandoned' = abandoned \cup H
  BY DEF PostOK, PostFails, FinalPostOK, FinalPostFails, FinalNext, MaybeReceived
<1>3. /\ cpc # "returned" /\ LinesOf(retryBuffer) = H \cup R
      /\ LinesOf(Append(received, Head(retryBuffer))) = LinesOf(received) \cup H
      /\ H \cap R = {} /\ Before(H, R \cup Range(current) \cup Range(ch))
  BY <1>1, OldestPending
<1>4. /\ (Range(ch) \cup Range(current)) \cap LinesOf(received) = {}
      /\ (Range(ch) \cup Range(current)) \cap (H \cup R) = {}
      /\ (H \cup R) \cap (evicted \cup abandoned) = {}
  BY <1>3, Places
<1>5. Pending = (Range(ch) \cup Range(current) \cup H \cup R) \ LinesOf(received)
  BY <1>3 DEF Pending
<1>6. S \in SUBSET Pending /\ Before(S, Pending \ S)
  BY <1>3, <1>5 DEF Before
<1>7. Pending' = (Range(ch) \cup Range(current) \cup LinesOf(retryBuffer')) \ LinesOf(received')
  BY <1>1 DEF Pending
<1>8. Lost' = (evicted \cup abandoned') \ LinesOf(received')
  BY <1>1 DEF Lost
<1> HIDE DEF H, R
<1>9. CASE received' = Append(received, Head(retryBuffer)) /\ abandoned' \in {abandoned, abandoned \cup H}
           /\ retryBuffer' \in {retryBuffer, Tail(retryBuffer)}
  <2>1. LinesOf(received') = LinesOf(received) \cup S
    BY <1>3, <1>9
  <2>2. LinesOf(retryBuffer') \in {R, H \cup R}
    BY <1>3, <1>9 DEF R
  <2>3. Pending' = Pending \ S
    BY <1>3, <1>5, <1>7, <1>9, <2>2
  <2>4. Lost' = Lost \cup (S \ S)
    BY <1>3, <1>4, <1>8, <1>9 DEF Lost
  <2>5. S \in SUBSET S
    OBVIOUS
  <2> HIDE DEF S
  <2> QED
    BY <1>1, <1>3, <1>6, <2>1, <2>3, <2>4, <2>5, Settles
<1>10. CASE received' = received /\ retryBuffer' = retryBuffer /\ abandoned' = abandoned
  <2>1. Pending' = Pending /\ Lost' = Lost /\ Phase' = Phase
    BY <1>1, <1>10 DEF Pending, Lost, Phase
  <2> QED
    BY <1>1, <1>10, <2>1, Stutters
<1>11. CASE received' = received /\ retryBuffer' = Tail(retryBuffer) /\ abandoned' = abandoned \cup H
  <2>1. LinesOf(received') = LinesOf(received) \cup {} /\ LinesOf(retryBuffer') = R
    BY <1>11 DEF R
  <2>2. Pending' = Pending \ S
    BY <1>3, <1>4, <1>5, <1>7, <2>1
  <2>3. Lost' = Lost \cup (S \ {})
    BY <1>8, <1>11 DEF Lost
  <2> HIDE DEF S
  <2> QED
    BY <1>1, <1>3, <1>6, <2>1, <2>2, <2>3, Settles
<1> QED
  BY <1>2, <1>9, <1>10, <1>11

\* The end of the budget settles everything in the retry buffer.
LEMMA BudgetRefines == ASSUME IInv, BudgetExpires PROVE Sink!Next
<1> USE DEF producerVars, bufferVars, closeVars, collectorVars, lossVars
<1> DEFINE H == Range(Head(retryBuffer))
           S == LinesOf(retryBuffer) \ LinesOf(received)
           K == LinesOf(received') \ LinesOf(received)
<1>1. /\ rpc = "final" /\ retryBuffer' = <<>> /\ LinesOf(retryBuffer') = {}
      /\ received' \in {received, Append(received, Head(retryBuffer))}
      /\ abandoned' = abandoned \cup LinesOf(retryBuffer)
      /\ UNCHANGED <<ch, current, evicted, calls, ppc, accepted, early, closed, cpc>>
  BY RangeTyped DEF BudgetExpires, MaybeReceived
<1>2. /\ cpc # "returned" /\ H \subseteq LinesOf(retryBuffer)
      /\ LinesOf(Append(received, Head(retryBuffer))) = LinesOf(received) \cup H
  BY <1>1, OldestPending
<1>3. /\ (Range(ch) \cup Range(current)) \cap LinesOf(received) = {}
      /\ (Range(ch) \cup Range(current)) \cap LinesOf(retryBuffer) = {}
      /\ LinesOf(retryBuffer) \cap (evicted \cup abandoned) = {}
  BY Places
<1>4. Before(LinesOf(retryBuffer), Range(current) \cup Range(ch))
  BY DEF IInv, OrderInv, Before
<1>5. LinesOf(received') \in {LinesOf(received), LinesOf(received) \cup H}
  BY <1>1, <1>2
<1> HIDE DEF H
<1>6. K \in SUBSET S /\ LinesOf(received') = LinesOf(received) \cup K
  BY <1>2, <1>5
<1>7. S \in SUBSET Pending /\ Pending' = Pending \ S
  BY <1>1, <1>2, <1>3, <1>5 DEF Pending
<1>8. Before(S, Pending \ S)
  BY <1>4 DEF Before, Pending
<1>9. Lost' = Lost \cup (S \ K)
  BY <1>1, <1>2, <1>3, <1>5 DEF Lost
<1> HIDE DEF S, K
<1> QED
  BY <1>1, <1>2, <1>6, <1>7, <1>8, <1>9, Settles

\* The closed check.
LEMMA CheckRefines == ASSUME IInv, NEW p \in Producers, Check(p) PROVE Sink!Next
<1> USE DEF producerVars, bufferVars, closeVars, collectorVars, lossVars
<1> DEFINE x == <<p, calls[p] + 1>>
<1>1. /\ ppc[p] = "idle" /\ calls[p] < MaxCalls /\ calls' = [calls EXCEPT ![p] = @ + 1]
      /\ ppc' = (IF closed THEN ppc ELSE [ppc EXCEPT ![p] = "send"])
      /\ UNCHANGED <<ch, current, retryBuffer, received, evicted, abandoned, accepted, early, closed, cpc>>
  BY DEF Check
<1>2. /\ calls \in [Producers -> 0..MaxCalls] /\ ppc \in [Producers -> {"idle", "send"}]
      /\ accepted \subseteq Lines /\ SenderInv /\ OrderInv
  BY DEF IInv, LineInv, TypeOK
<1>3. calls[p] \in Nat /\ calls'[p] = calls[p] + 1 /\ \A q \in Producers : q # p => calls'[q] = calls[q]
  BY <1>1, <1>2
<1>4. x \in Lines
  BY <1>1, <1>3, SinkAssumption DEF Lines
<1>5. \A y \in Lines : y = <<y[1], y[2]>> /\ y[1] \in Producers /\ y[2] \in Nat
  BY DEF Lines
<1>6. ASSUME NEW y \in Sink!Offered, y[1] = p
      PROVE  y[2] < calls[p] + 1
  <2>1. CASE y \in Calling
    BY <1>3, <1>6, <2>1 DEF Calling
  <2>2. CASE y \in Refused
    <3>1. y \in Lines /\ y[2] <= calls[p]
      BY <1>6, <2>2 DEF Refused
    <3> QED
      BY <1>3, <1>5, <3>1
  <2>3. CASE y \in Kept
    <3>1. y \in Lines /\ y[2] <= calls[p]
      BY <1>2, <1>6, <2>3 DEF OrderInv, SenderInv
    <3> QED
      BY <1>3, <1>5, <3>1
  <2> QED
    BY <1>6, <2>1, <2>2, <2>3 DEF Sink!Offered, Pending, Lost, Kept
<1>7. Sink!IsNext(x)
  BY <1>6 DEF Sink!IsNext
<1>8. /\ Pending' = Pending /\ LinesOf(received)' = LinesOf(received) /\ Lost' = Lost
      /\ early' = early /\ Phase' = Phase
  BY <1>1 DEF Pending, Lost, Phase
<1>9. x \notin accepted
  <2> SUFFICES ASSUME x \in accepted PROVE FALSE
    OBVIOUS
  <2>1. calls[p] + 1 <= calls[p]
    BY <1>2 DEF SenderInv
  <2> QED
    BY <1>3, <2>1
\* The lines of calls that have begun.
<1>10. ASSUME NEW y \in Lines
       PROVE  y[2] <= calls'[y[1]] <=> y[2] <= calls[y[1]] \/ y = x
  <2>1. CASE y[1] = p
    <3>1. y[2] \in Nat /\ (y = x <=> y[2] = calls[p] + 1)
      BY <1>5, <2>1
    <3> QED
      BY <1>3, <2>1, <3>1
  <2>2. CASE y[1] # p
    BY <1>3, <1>5, <2>2
  <2> QED
    BY <2>1, <2>2
<1> HIDE DEF x
<1>11. CASE closed = TRUE
  <2>1. ppc' = ppc
    BY <1>1, <1>11
  <2>2. Calling' = Calling
    <3>1. \A q \in Producers : ppc[q] = "send" => calls'[q] = calls[q]
      BY <1>1, <1>3
    <3> QED
      BY <2>1, <3>1 DEF Calling
  <2>3. x \notin Calling
    <3>1. \A y \in Calling : y # x
      BY <1>1, <1>3 DEF Calling, x
    <3> QED
      BY <3>1
  <2>4. Refused' = Refused \cup {x}
    BY <1>1, <1>4, <1>9, <1>10, <2>2, <2>3 DEF Refused
  <2>5. Phase # "open"
    BY <1>11, PhaseOpen
  <2>6. Sink!Call(x)
    BY <1>7, <1>8, <2>2, <2>4, <2>5 DEF Sink!Call
  <2> QED
    BY <1>4, <2>6 DEF Sink!Next
<1>12. CASE closed # TRUE
  <2>1. ppc' = [ppc EXCEPT ![p] = "send"]
    BY <1>1, <1>12, PhaseOpen
  <2>2. Calling' = Calling \cup {x}
    <3>1. \A q \in Producers : q # p => calls'[q] = calls[q] /\ ppc'[q] = ppc[q]
      BY <1>2, <1>3, <2>1
    <3>2. <<p, calls'[p]>> = x /\ ppc'[p] = "send"
      BY <1>2, <1>3, <2>1 DEF x
    <3> QED
      BY <1>1, <3>1, <3>2 DEF Calling
  <2>3. Refused' = Refused
    <3>1. \A y \in Lines : (y[2] <= calls'[y[1]] /\ y \notin accepted' \cup Calling')
                            <=> (y[2] <= calls[y[1]] /\ y \notin accepted \cup Calling)
      <4>1. x \notin Refused
        <5> SUFFICES ASSUME calls[p] + 1 <= calls[p] PROVE FALSE
          BY DEF Refused, x
        <5> QED
          BY <1>3
      <4> QED
        BY <1>1, <1>10, <2>2, <4>1 DEF Refused
    <3> QED
      BY <3>1 DEF Refused
  <2>4. Phase = "open"
    BY <1>12, PhaseOpen
  <2>5. Sink!Call(x)
    BY <1>7, <1>8, <2>2, <2>3, <2>4 DEF Sink!Call
  <2> QED
    BY <1>4, <2>5 DEF Sink!Next
<1> QED
  BY <1>11, <1>12

\* The send.
LEMMA EnqueueRefines == ASSUME IInv, NEW p \in Producers, Enqueue(p) PROVE Sink!Next
<1> USE DEF producerVars, bufferVars, closeVars, collectorVars, lossVars
<1> DEFINE x == <<p, calls[p]>>
<1>1. /\ ppc[p] = "send" /\ ppc' = [ppc EXCEPT ![p] = "idle"]
      /\ UNCHANGED <<calls, current, retryBuffer, received, evicted, abandoned, closed, cpc>>
  BY DEF Enqueue
<1>2. /\ ppc \in [Producers -> {"idle", "send"}] /\ ch \in Seq(Lines)
      /\ SenderInv /\ OrderInv /\ x \in Lines \ accepted
  BY <1>1 DEF IInv, LineInv, SenderInv, TypeOK
<1>3. x \in Calling /\ Calling' = Calling \ {x}
  BY <1>1, <1>2 DEF Calling
<1>4. /\ LinesOf(received)' = LinesOf(received) /\ Lost' = Lost /\ Phase' = Phase
      /\ x[2] <= calls[x[1]]
  <2>1. calls[p] \in Nat
    BY DEF IInv, TypeOK
  <2> QED
    BY <1>1, <2>1 DEF Lost, Phase
<1>5. CASE Len(ch) < BufferSize
  <2>1. /\ ch' = Append(ch, x) /\ accepted' = accepted \cup {x}
        /\ early' = IF closed THEN early ELSE early \cup {x}
    BY <1>5 DEF Enqueue
  <2> HIDE DEF x
  <2>2. Range(ch') = Range(ch) \cup {x}
    BY <1>2, <2>1, RangeAppend
  <2>3. x \notin LinesOf(received)
    BY <1>2 DEF OrderInv, Kept
  <2>4. Pending' = Pending \cup {x}
    BY <1>1, <2>2, <2>3 DEF Pending
  <2>5. Refused' = Refused
    <3>1. accepted' \cup Calling' = accepted \cup Calling
      BY <1>3, <2>1
    <3> QED
      BY <1>1, <3>1 DEF Refused
  <2>6. early' = IF Phase = "open" THEN early \cup {x} ELSE early
    BY <2>1, PhaseOpen
  <2>7. Sink!Accept(x)
    BY <1>3, <1>4, <2>4, <2>5, <2>6 DEF Sink!Accept
  <2> QED
    BY <1>2, <2>7 DEF Sink!Next
<1>6. CASE ~(Len(ch) < BufferSize)
  <2>1. ch' = ch /\ accepted' = accepted /\ early' = early
    BY <1>6 DEF Enqueue
  <2> HIDE DEF x
  <2>2. Pending' = Pending
    BY <1>1, <2>1 DEF Pending
  <2>3. Pending # {}
    <3>1. ch # <<>>
      BY <1>2, <1>6, SinkAssumption
    <3>2. Head(ch) \in Range(ch)
      BY <1>2, <3>1, RangeTail
    <3> QED
      BY <3>2, Places DEF Pending
  <2>4. Refused' = Refused \cup {x}
    BY <1>1, <1>2, <1>3, <1>4, <2>1 DEF Refused
  <2>5. Sink!Drop(x)
    BY <1>3, <1>4, <2>1, <2>2, <2>3, <2>4 DEF Sink!Drop
  <2> QED
    BY <1>2, <2>5 DEF Sink!Next
<1> QED
  BY <1>5, <1>6

LEMMA StepRefines == IInv /\ [Next]_vars => [Sink!Next]_(Sink!vars)
<1> SUFFICES ASSUME IInv, [Next]_vars PROVE [Sink!Next]_(Sink!vars)
  OBVIOUS
<1>0. /\ RunInv /\ OrderInv /\ EarlyInv
      /\ ch \in Seq(Lines) /\ current \in Seq(Lines)
  BY DEF IInv, LineInv, TypeOK
<1> USE DEF producerVars, bufferVars, closeVars, collectorVars, lossVars
<1>1. ASSUME NEW p \in Producers, Check(p) \/ Enqueue(p)
      PROVE  Sink!Next
  BY <1>1, CheckRefines, EnqueueRefines
\* A line moves from the channel to the current ones.
<1>2. ASSUME ch # <<>>
      PROVE  /\ Append(current, Head(ch)) \in Seq(Lines)
             /\ Range(Append(current, Head(ch))) \cup Range(Tail(ch)) = Range(current) \cup Range(ch)
             /\ Before(Range(Append(current, Head(ch))), Range(Tail(ch)))
  <2>1. Head(ch) \in Lines /\ Range(ch) = {Head(ch)} \cup Range(Tail(ch))
    BY <1>0, <1>2, TailShifts, RangeTail
  <2>2. /\ Append(current, Head(ch)) \in Seq(Lines)
        /\ Range(Append(current, Head(ch))) = Range(current) \cup {Head(ch)}
    BY <1>0, <2>1, AppendOne, RangeAppend
  <2>3. Before({Head(ch)}, Range(Tail(ch)))
    BY <1>0, <1>2, AscendingTail DEF OrderInv
  <2> QED
    BY <1>0, <2>1, <2>2, <2>3 DEF OrderInv, Before
<1>3. ASSUME Range(current') \cup Range(ch') = Range(current) \cup Range(ch), Phase' = Phase,
             UNCHANGED <<retryBuffer, received, evicted, abandoned, calls, ppc, accepted, early>>
      PROVE  UNCHANGED Sink!vars
  <2>1. Pending' = Pending /\ LinesOf(received)' = LinesOf(received) /\ Lost' = Lost
    BY <1>3 DEF Pending, Lost
  <2> QED
    BY <1>3, <2>1, Stutters
<1>4. CASE TakeLine
  <2> DEFINE lines == Append(current, Head(ch))
  <2>1. /\ rpc = "select" /\ ch # <<>> /\ ch' = Tail(ch)
        /\ UNCHANGED <<received, abandoned, calls, ppc, accepted, early, closed, cpc>>
    BY <1>4 DEF TakeLine
  <2>2. /\ lines \in Seq(Lines) /\ Range(lines) \cup Range(ch') = Range(current) \cup Range(ch)
        /\ Before(Range(lines), Range(ch')) /\ cpc # "returned" /\ Phase' = Phase
    BY <1>2, <2>1, PhaseOpen DEF Phase
  <2>3. CASE Len(lines) >= BatchSize
    <3>1. Finalize(lines)
      BY <1>4, <2>3 DEF TakeLine
    <3> HIDE DEF lines
    <3> QED
      BY <2>1, <2>2, <3>1, FinalizeRefines
  <2>4. CASE ~(Len(lines) >= BatchSize)
    <3>1. current' = lines /\ UNCHANGED <<retryBuffer, evicted>>
      BY <1>4, <2>4 DEF TakeLine
    <3> HIDE DEF lines
    <3> QED
      BY <1>3, <2>1, <2>2, <3>1
  <2> QED
    BY <2>3, <2>4
<1>5. CASE FlushTick \/ DrainEnd
  <2>1. /\ Finalize(current) /\ rpc # "exited"
        /\ UNCHANGED <<ch, received, abandoned, calls, ppc, accepted, early, closed, cpc>>
    BY <1>5 DEF FlushTick, DrainEnd
  <2>2. Before(Range(current), Range(ch')) /\ cpc # "returned"
    BY <1>0, <2>1, PhaseOpen DEF OrderInv
  <2>3. Range(current) \cup Range(ch') = Range(current) \cup Range(ch)
    BY <2>1
  <2> QED
    BY <1>0, <2>1, <2>2, <2>3, FinalizeRefines
<1>6. CASE DrainLine
  <2>1. /\ ch # <<>> /\ ch' = Tail(ch) /\ current' = Append(current, Head(ch))
        /\ UNCHANGED <<retryBuffer, received, evicted, abandoned, calls, ppc, accepted, early, closed, cpc>>
    BY <1>6 DEF DrainLine
  <2>2. Phase' = Phase
    BY <2>1 DEF Phase
  <2> QED
    BY <1>2, <1>3, <2>1, <2>2
<1>7. CASE Post
  BY <1>7, PostRefines, BudgetRefines DEF Post
<1>8. CASE TimerFires \/ RetryTick \/ RunDone \/ CollectorFlips \/ UNCHANGED vars
  <2>1. UNCHANGED <<ch, current, retryBuffer, received, evicted, abandoned, calls, ppc, accepted, early,
                    closed, cpc>>
    BY <1>8 DEF TimerFires, RetryTick, RunDone, CollectorFlips, vars
  <2>2. Phase' = Phase
    BY <2>1 DEF Phase
  <2> QED
    BY <1>3, <2>1, <2>2
<1>9. ASSUME CloseStore \/ CloseSignal \/ CloseReturn
      PROVE  /\ Pending' = Pending /\ LinesOf(received)' = LinesOf(received) /\ Lost' = Lost
             /\ Calling' = Calling /\ Refused' = Refused /\ early' = early
             /\ UNCHANGED <<calls, ppc, accepted>>
  <2>1. UNCHANGED <<ch, current, retryBuffer, received, evicted, abandoned, calls, ppc, accepted, early>>
    BY <1>9 DEF CloseStore, CloseSignal, CloseReturn
  <2> QED
    BY <2>1, CallsFrame DEF Pending, Lost
<1>10. CASE CloseStore
  <2>1. cpc = "idle" /\ closed' = TRUE /\ cpc' = "signal"
    BY <1>10 DEF CloseStore
  <2>2. Phase = "open" /\ Phase' = "closing"
    BY <1>0, <2>1, PhaseOpen DEF RunInv, Phase
  <2>3. Sink!Shut
    BY <1>9, <1>10, <2>2 DEF Sink!Shut
  <2> QED
    BY <2>3 DEF Sink!Next
<1>11. CASE CloseSignal
  <2>1. Phase' = Phase
    BY <1>11 DEF CloseSignal, Phase
  <2> QED
    BY <1>9, <1>11, <2>1, Stutters
<1>12. CASE CloseReturn
  <2>1. cpc = "wait" /\ rpc = "exited" /\ cpc' = "returned"
    BY <1>12 DEF CloseReturn
  <2>2. closed = TRUE /\ current = <<>> /\ retryBuffer = <<>>
    BY <1>0, <2>1 DEF RunInv
  <2>3. Phase = "closing" /\ Phase' = "closed"
    BY <2>1, <2>2, PhaseOpen DEF Phase
  <2>4. early \cap Pending = {}
    BY <1>0, <2>1, <2>2, RangeTyped DEF EarlyInv, Pending
  <2>5. Sink!Finish
    BY <1>9, <1>12, <2>3, <2>4 DEF Sink!Finish
  <2> QED
    BY <2>5 DEF Sink!Next
<1> QED
  BY <1>1, <1>4, <1>5, <1>6, <1>7, <1>8, <1>10, <1>11, <1>12 DEF Next, Run, Close

\* Batching, retries, eviction and the final flush (httpsink.go) implement the
\* abstract sink, whatever the collector does.
THEOREM SinkImplementsLossyLog == Spec => ImplementsLossyLog
<1>1. Init => Sink!Init
  <2> SUFFICES ASSUME Init PROVE Sink!Init
    OBVIOUS
  <2>1. Pending = {} /\ Lost = {} /\ LinesOf(received) = {} /\ Calling = {} /\ Phase = "open"
    BY RangeTyped DEF Init, Pending, Lost, Calling, Phase
  <2>2. Refused = {}
    <3>1. \A y \in Lines : ~(y[2] <= calls[y[1]])
      BY DEF Init, Lines
    <3> QED
      BY <3>1 DEF Refused
  <2> QED
    BY <2>1, <2>2 DEF Init, Sink!Init
<1> QED
  BY <1>1, Invariant, StepRefines, PTL DEF Spec, ImplementsLossyLog, Sink!Spec
=============================================================================
