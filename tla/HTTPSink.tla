------------------------------ MODULE HTTPSink ------------------------------
(***************************************************************************)
(* internal/audit/httpsink.go: the sink that batches audit lines and POSTs *)
(* them to a SIEM collector, with a bounded retry buffer, exponential      *)
(* backoff and a best-effort flush on Close.                               *)
(*                                                                         *)
(* The run goroutine is in its select, in a POST of tryDrain ("post"), in  *)
(* the draining loop of the shutdown ("drain"), in finalDrain ("final") or *)
(* gone.  A POST takes time: other goroutines go on meanwhile.  The        *)
(* collector is external: it accepts a batch, or the POST fails, and then  *)
(* the collector may or may not have the batch (a lost or late answer).    *)
(* Line <<p, n>> is the n-th call of goroutine p to Log or Event.          *)
(***************************************************************************)
EXTENDS Naturals, Sequences, Functions

CONSTANTS
    Producers,         \* goroutines that call Log or Event
    BufferSize,        \* capacity of the ingest channel
    BatchSize,         \* lines per batch
    MaxBufferBatches,  \* capacity of the retry buffer
    BaseBackoff, MaxBackoff,  \* first and largest retry delay
    MaxCalls,          \* bound on the calls of one goroutine
    MaxReceived        \* bound on batches received, for failed POSTs

ASSUME SinkAssumption ==
    /\ BufferSize \in Nat \ {0}
    /\ BatchSize \in Nat \ {0}
    /\ MaxBufferBatches \in Nat \ {0}
    /\ BaseBackoff \in Nat \ {0} /\ MaxBackoff \in Nat /\ BaseBackoff <= MaxBackoff
    /\ MaxCalls \in Nat /\ MaxReceived \in Nat

Lines == Producers \X (1..MaxCalls)

VARIABLES
    ch, closed, done,  \* ingest channel, closed flag, done channel closed
    calls, ppc,        \* producers: calls begun; "idle" or "send"
    current,           \* lines accumulating toward the next batch
    retryBuffer,       \* finalized batches, oldest first
    retrying, backoff, \* in a backoff wait; delay of the next one
    timer,             \* retryTimer: "off", "armed" or "fired"
    rpc,               \* run: "select", "post", "drain", "final", "exited"
    cpc,               \* Close: "idle", "signal", "wait", "returned"
    up,                \* the collector answers 2xx
    received,          \* the batches the collector has got, in order
    accepted,          \* history: lines sent on the channel
    early,             \* history: those sent before closed was set
    evicted,           \* history: lines of batches dropped as the oldest
    abandoned,         \* history: lines of batches dropped on shutdown
    everDown, expired  \* history: the collector was down; budget ran out

producerVars == <<calls, ppc, accepted, early>>
bufferVars   == <<current, retryBuffer, retrying, backoff, timer>>
closeVars    == <<closed, done, cpc>>
collectorVars == <<up, received, everDown>>
lossVars     == <<evicted, abandoned, expired>>

vars == <<ch, producerVars, bufferVars, rpc, closeVars, collectorVars, lossVars>>

LinesOf(bs)  == UNION {Range(bs[i]) : i \in DOMAIN bs}

TypeOK ==
    /\ ch \in Seq(Lines) /\ Len(ch) <= BufferSize
    /\ closed \in BOOLEAN /\ done \in BOOLEAN
    /\ calls \in [Producers -> 0..MaxCalls]
    /\ ppc \in [Producers -> {"idle", "send"}]
    /\ current \in Seq(Lines)
    /\ retryBuffer \in Seq(Seq(Lines)) /\ Len(retryBuffer) <= MaxBufferBatches
    /\ retrying \in BOOLEAN
    /\ backoff \in BaseBackoff..MaxBackoff
    /\ timer \in {"off", "armed", "fired"}
    /\ rpc \in {"select", "post", "drain", "final", "exited"}
    /\ cpc \in {"idle", "signal", "wait", "returned"}
    /\ up \in BOOLEAN /\ everDown \in BOOLEAN /\ expired \in BOOLEAN
    /\ received \in Seq(Seq(Lines))
    /\ accepted \subseteq Lines /\ early \subseteq accepted
    /\ evicted \subseteq Lines /\ abandoned \subseteq Lines

Init ==
    /\ ch = <<>> /\ closed = FALSE /\ done = FALSE
    /\ calls = [p \in Producers |-> 0]
    /\ ppc = [p \in Producers |-> "idle"]
    /\ current = <<>> /\ retryBuffer = <<>>
    /\ retrying = FALSE /\ backoff = BaseBackoff /\ timer = "off"
    /\ rpc = "select" /\ cpc = "idle"
    /\ up = TRUE /\ received = <<>>
    /\ accepted = {} /\ early = {} /\ evicted = {} /\ abandoned = {}
    /\ everDown = FALSE /\ expired = FALSE

-----------------------------------------------------------------------------
(* Log and Event: the closed check, then a non-blocking send.              *)

Check(p) ==
    /\ ppc[p] = "idle"
    /\ calls[p] < MaxCalls
    /\ calls' = [calls EXCEPT ![p] = @ + 1]
    /\ ppc' = IF closed THEN ppc ELSE [ppc EXCEPT ![p] = "send"]
    /\ UNCHANGED <<ch, accepted, early, bufferVars, rpc, closeVars, collectorVars, lossVars>>

Enqueue(p) ==
    /\ ppc[p] = "send"
    /\ ppc' = [ppc EXCEPT ![p] = "idle"]
    /\ LET line == <<p, calls[p]>>
       IN  IF Len(ch) < BufferSize
             THEN /\ ch' = Append(ch, line)
                  /\ accepted' = accepted \cup {line}
                  /\ early' = IF closed THEN early ELSE early \cup {line}
             ELSE UNCHANGED <<ch, accepted, early>>
    /\ UNCHANGED <<calls, bufferVars, rpc, closeVars, collectorVars, lossVars>>

-----------------------------------------------------------------------------
(* run, in its select.                                                     *)

\* Mutation: the retry buffer grows without bound.
FinalizeUnbounded(lines) ==
    /\ current' = <<>>
    /\ retryBuffer' = IF lines = <<>> THEN retryBuffer ELSE Append(retryBuffer, lines)
    /\ UNCHANGED evicted

\* Mutation: a full buffer drops the batch that just came.
FinalizeDropsNewest(lines) ==
    /\ current' = <<>>
    /\ IF lines = <<>> \/ Len(retryBuffer) = MaxBufferBatches
         THEN UNCHANGED <<retryBuffer, evicted>>
         ELSE retryBuffer' = Append(retryBuffer, lines) /\ UNCHANGED evicted

\* finalize on the given lines: they become a batch at the end of the retry
\* buffer, whose oldest batch is dropped when it is over its capacity.
Finalize(lines) ==
    /\ current' = <<>>
    /\ IF lines = <<>>
         THEN UNCHANGED <<retryBuffer, evicted>>
         ELSE LET b == Append(retryBuffer, lines)
              IN  IF Len(b) > MaxBufferBatches
                    THEN retryBuffer' = Tail(b) /\ evicted' = evicted \cup Range(Head(b))
                    ELSE retryBuffer' = b /\ UNCHANGED evicted

\* maybeDrain: deliver now, unless in a backoff wait.
MaybeDrain ==
    /\ rpc' = IF retrying THEN "select" ELSE "post"
    /\ UNCHANGED <<retrying, backoff, timer>>

\* A line arrives; a full batch is finalized.
TakeLine ==
    /\ rpc = "select"
    /\ ch # <<>>
    /\ ch' = Tail(ch)
    /\ LET lines == Append(current, Head(ch))
       IN  IF Len(lines) >= BatchSize
             THEN Finalize(lines) /\ MaybeDrain
             ELSE /\ current' = lines
                  /\ UNCHANGED <<rpc, retryBuffer, retrying, backoff, timer, evicted>>
    /\ UNCHANGED <<producerVars, closeVars, collectorVars, abandoned, expired>>

\* The flush ticker finds a partial batch.
FlushTick ==
    /\ rpc = "select"
    /\ current # <<>>
    /\ Finalize(current)
    /\ MaybeDrain
    /\ UNCHANGED <<ch, producerVars, closeVars, collectorVars, abandoned, expired>>

\* The backoff delay passes.
TimerFires ==
    /\ timer = "armed"
    /\ timer' = "fired"
    /\ UNCHANGED <<ch, producerVars, current, retryBuffer, retrying, backoff, rpc,
                   closeVars, collectorVars, lossVars>>

\* The retry timer's case: tryDrain.
RetryTick ==
    /\ rpc = "select"
    /\ timer = "fired"
    /\ timer' = "off"
    /\ IF retryBuffer = <<>>
         THEN retrying' = FALSE /\ UNCHANGED rpc
         ELSE rpc' = "post" /\ UNCHANGED retrying
    /\ UNCHANGED <<ch, producerVars, current, retryBuffer, backoff,
                   closeVars, collectorVars, lossVars>>

\* Mutation: the shutdown waits until no retry is pending.
RunDoneAfterRetries ==
    /\ rpc = "select"
    /\ done /\ ~retrying
    /\ rpc' = "drain"
    /\ UNCHANGED <<ch, producerVars, bufferVars, closeVars, collectorVars, lossVars>>

\* The done case: the shutdown's draining loop begins.
RunDone ==
    /\ rpc = "select"
    /\ done
    /\ rpc' = "drain"
    /\ UNCHANGED <<ch, producerVars, bufferVars, closeVars, collectorVars, lossVars>>

-----------------------------------------------------------------------------
(* tryDrain: POST the batches in order until one fails.                    *)

\* Mutation: the last success leaves the retrying flag set.
PostOKKeepsRetrying ==
    /\ rpc = "post"
    /\ up
    /\ received' = Append(received, Head(retryBuffer))
    /\ retryBuffer' = Tail(retryBuffer)
    /\ backoff' = BaseBackoff
    /\ rpc' = IF Tail(retryBuffer) = <<>> THEN "select" ELSE "post"
    /\ UNCHANGED <<ch, producerVars, current, timer, retrying, closeVars, up, everDown, lossVars>>

PostOK ==
    /\ rpc = "post"
    /\ up
    /\ received' = Append(received, Head(retryBuffer))
    /\ retryBuffer' = Tail(retryBuffer)
    /\ backoff' = BaseBackoff
    /\ IF Tail(retryBuffer) = <<>>
         THEN rpc' = "select" /\ retrying' = FALSE
         ELSE UNCHANGED <<rpc, retrying>>
    /\ UNCHANGED <<ch, producerVars, current, timer, closeVars, up, everDown, lossVars>>

\* The batch of a failed POST may have reached the collector.
MaybeReceived(batch) ==
    \/ UNCHANGED received
    \/ Len(received) < MaxReceived /\ received' = Append(received, batch)

Doubled == IF 2 * backoff > MaxBackoff THEN MaxBackoff ELSE 2 * backoff

\* Mutation: a failed POST forgets its batch.
PostFailsDrops ==
    /\ rpc = "post"
    /\ ~up
    /\ MaybeReceived(Head(retryBuffer))
    /\ retryBuffer' = Tail(retryBuffer)
    /\ timer' = "armed" /\ backoff' = Doubled /\ retrying' = TRUE
    /\ rpc' = "select"
    /\ UNCHANGED <<ch, producerVars, current, closeVars, up, everDown, lossVars>>

\* Mutation: the failed batch goes to the end of the retry buffer.
PostFailsRotates ==
    /\ rpc = "post"
    /\ ~up
    /\ MaybeReceived(Head(retryBuffer))
    /\ retryBuffer' = Append(Tail(retryBuffer), Head(retryBuffer))
    /\ timer' = "armed" /\ backoff' = Doubled /\ retrying' = TRUE
    /\ rpc' = "select"
    /\ UNCHANGED <<ch, producerVars, current, closeVars, up, everDown, lossVars>>

PostFails ==
    /\ rpc = "post"
    /\ ~up
    /\ MaybeReceived(Head(retryBuffer))
    /\ timer' = "armed" /\ backoff' = Doubled /\ retrying' = TRUE
    /\ rpc' = "select"
    /\ UNCHANGED <<ch, producerVars, current, retryBuffer, closeVars, up, everDown, lossVars>>

-----------------------------------------------------------------------------
(* Shutdown.                                                               *)

DrainLine ==
    /\ rpc = "drain"
    /\ ch # <<>>
    /\ ch' = Tail(ch)
    /\ current' = Append(current, Head(ch))
    /\ UNCHANGED <<producerVars, retryBuffer, retrying, backoff, timer, rpc,
                   closeVars, collectorVars, lossVars>>

\* Mutation: lines taken in the draining loop are not finalized.
DrainEndForgets ==
    /\ rpc = "drain"
    /\ ch = <<>>
    /\ rpc' = IF retryBuffer = <<>> THEN "exited" ELSE "final"
    /\ UNCHANGED <<ch, producerVars, bufferVars, closeVars, collectorVars, lossVars>>

\* The channel is empty: finalize, then finalDrain.
DrainEnd ==
    /\ rpc = "drain"
    /\ ch = <<>>
    /\ Finalize(current)
    /\ rpc' = IF current = <<>> /\ retryBuffer = <<>> THEN "exited" ELSE "final"
    /\ UNCHANGED <<ch, producerVars, retrying, backoff, timer, closeVars,
                   collectorVars, abandoned, expired>>

\* finalDrain goes through the buffer once; a failed batch is dropped.
FinalNext == /\ retryBuffer' = Tail(retryBuffer)
             /\ rpc' = IF Tail(retryBuffer) = <<>> THEN "exited" ELSE "final"

FinalPostOK ==
    /\ rpc = "final"
    /\ up
    /\ received' = Append(received, Head(retryBuffer))
    /\ FinalNext
    /\ UNCHANGED <<ch, producerVars, current, retrying, backoff, timer, closeVars,
                   up, everDown, lossVars>>

FinalPostFails ==
    /\ rpc = "final"
    /\ ~up
    /\ MaybeReceived(Head(retryBuffer))
    /\ abandoned' = abandoned \cup Range(Head(retryBuffer))
    /\ FinalNext
    /\ UNCHANGED <<ch, producerVars, current, retrying, backoff, timer, closeVars,
                   up, everDown, evicted, expired>>

\* The time budget is exhausted (a POST under way is cancelled): every
\* remaining batch is dropped.
BudgetExpires ==
    /\ rpc = "final"
    /\ expired' = TRUE
    /\ abandoned' = abandoned \cup LinesOf(retryBuffer)
    /\ MaybeReceived(Head(retryBuffer))
    /\ retryBuffer' = <<>>
    /\ rpc' = "exited"
    /\ UNCHANGED <<ch, producerVars, current, retrying, backoff, timer, closeVars,
                   up, everDown, evicted>>

CloseStore ==
    /\ cpc = "idle"
    /\ closed' = TRUE
    /\ cpc' = "signal"
    /\ UNCHANGED <<ch, producerVars, bufferVars, rpc, done, collectorVars, lossVars>>

CloseSignal ==
    /\ cpc = "signal"
    /\ done' = TRUE
    /\ cpc' = "wait"
    /\ UNCHANGED <<ch, producerVars, bufferVars, rpc, closed, collectorVars, lossVars>>

CloseReturn ==
    /\ cpc = "wait"
    /\ rpc = "exited"
    /\ cpc' = "returned"
    /\ UNCHANGED <<ch, producerVars, bufferVars, rpc, closed, done, collectorVars, lossVars>>

\* The collector goes down or comes back.
CollectorFlips ==
    /\ up' = ~up
    /\ everDown' = TRUE
    /\ UNCHANGED <<ch, producerVars, bufferVars, rpc, closeVars, received, lossVars>>

-----------------------------------------------------------------------------
Post == PostOK \/ PostFails \/ FinalPostOK \/ FinalPostFails \/ BudgetExpires

Run == TakeLine \/ FlushTick \/ RetryTick \/ RunDone \/ DrainLine \/ DrainEnd \/ Post

Close == CloseSignal \/ CloseReturn

Next == \/ \E p \in Producers : Check(p) \/ Enqueue(p)
        \/ Run \/ TimerFires
        \/ CloseStore \/ Close
        \/ CollectorFlips

Spec == Init /\ [][Next]_vars

\* The goroutines are scheduled; a POST ends (http.Client.Timeout); timers
\* fire; and Go's select chooses at random among ready cases, so that a case
\* that is ready again and again is taken.
Fairness ==
    /\ WF_vars(Run) /\ WF_vars(TimerFires) /\ WF_vars(Close)
    /\ \A p \in Producers : WF_vars(Enqueue(p))
    /\ SF_vars(TakeLine) /\ SF_vars(FlushTick) /\ SF_vars(RetryTick) /\ SF_vars(RunDone)

FairSpec == Spec /\ Fairness

-----------------------------------------------------------------------------
(* Properties.                                                             *)

\* The sink as an abstract one.
Calling == {<<p, calls[p]>> : p \in {q \in Producers : ppc[q] = "send"}}

\* The calls that are over and have left nothing on the channel.
Refused == {x \in Lines : x[2] <= calls[x[1]] /\ x \notin accepted \cup Calling}

Pending == (Range(ch) \cup Range(current) \cup LinesOf(retryBuffer)) \ LinesOf(received)
Lost    == (evicted \cup abandoned) \ LinesOf(received)
Phase   == IF cpc = "returned" THEN "closed" ELSE IF closed THEN "closing" ELSE "open"

Sink == INSTANCE LossyLog WITH
    Items   <- Lines,
    calling <- Calling,
    pending <- Pending,
    kept    <- LinesOf(received),
    lost    <- Lost,
    refused <- Refused,
    phase   <- Phase

\* Batching, retries, eviction and the final flush implement LossyLog: a line
\* that was sent is on its way, with the collector, or dropped for one of the
\* two documented reasons, oldest first; Close returns only when the lines
\* sent in time are settled, and nothing reaches the collector afterwards.
ImplementsLossyLog == Sink!Spec

\* No batch is stuck and no retry is lost: in its select, the goroutine has
\* undelivered batches exactly when it is in a backoff wait, and then the
\* retry timer is running; while it posts the timer is off, so that Reset
\* never meets a timer that has already fired.
RetryPending ==
    /\ rpc = "select" => /\ retryBuffer # <<>> <=> retrying
                         /\ retrying <=> timer # "off"
    /\ rpc = "post" => retryBuffer # <<>> /\ timer = "off"

\* The collector gets each goroutine's lines in order; a line comes twice
\* only by the repetition of its whole batch, before any later one.
DeliveredInOrder ==
    \A i, j \in DOMAIN received :
        i < j => \/ received[i] = received[j]
                 \/ \A x \in Range(received[i]), y \in Range(received[j]) :
                       x[1] = y[1] => x[2] < y[2]

\* If the collector was never down and the shutdown budget was enough, Close
\* has delivered everything that was sent before it set the closed flag.
CloseDelivers ==
    cpc = "returned" /\ ~everDown /\ ~expired => early \subseteq LinesOf(received)

\* If the collector stays up from some time on and there is no shutdown,
\* every line sent is delivered, or was evicted while the collector was down.
EventuallyDelivered ==
    <>[](up /\ ~closed) =>
        \A x \in Lines : x \in accepted ~> x \in LinesOf(received) \cup evicted

\* Close returns, whatever the collector does.
CloseReturns == cpc = "signal" ~> cpc = "returned"
=============================================================================
