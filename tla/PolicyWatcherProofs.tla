------------------------ MODULE PolicyWatcherProofs -------------------------
(***************************************************************************)
(* The safety properties of the policy watcher, for all contents, any      *)
(* number of changes and any length of the event queue.                    *)
(***************************************************************************)
EXTENDS PolicyWatcher, TLAPS

-----------------------------------------------------------------------------
(* The inductive invariant.                                                *)

\* Close and run exist only once runProxy serves.
PhaseOK ==
    /\ rpc # "off" <=> main = "serving"
    /\ cpc # "idle" => main = "serving"
    /\ cpc = "returned" => rpc = "exited"

\* Before the watch begins, a change is one that nobody noticed.
StartOK == main = "start" => (stale => unnoticed) /\ (~stale => active = file)

\* A load that is being dispatched read a file, and the present one unless it
\* has changed.
LoadOK == rpc = "dispatch" => raw # Absent /\ (~stale => raw = file)

IInv == TypeOK /\ PhaseOK /\ StartOK /\ LoadOK /\ ChangeIsPending /\ InForceWhenQuiet

ChangeQueued(q) == \E i \in DOMAIN q : q[i] = "change"

-----------------------------------------------------------------------------
(* The queue.                                                              *)

\* An event that is appended is queued, and queued events stay.
LEMMA AppendQueues ==
    ASSUME NEW q \in Seq({"change", "remove"}), NEW e \in {"change", "remove"},
           ChangeQueued(q) \/ e = "change"
    PROVE  ChangeQueued(Append(q, e))
<1>1. CASE e = "change"
  <2>1. Len(q) + 1 \in DOMAIN Append(q, e) /\ Append(q, e)[Len(q) + 1] = e
    OBVIOUS
  <2> QED BY <1>1, <2>1 DEF ChangeQueued
<1>2. CASE ChangeQueued(q)
  <2>1. PICK i \in DOMAIN q : q[i] = "change"
    BY <1>2 DEF ChangeQueued
  <2>2. i \in DOMAIN Append(q, e) /\ Append(q, e)[i] = q[i]
    OBVIOUS
  <2> QED BY <2>1, <2>2 DEF ChangeQueued
<1> QED BY <1>1, <1>2

\* Receiving an event loses no change but the one received.
LEMMA TailQueues ==
    ASSUME NEW q \in Seq({"change", "remove"}), q # <<>>,
           ChangeQueued(q), Head(q) # "change"
    PROVE  ChangeQueued(Tail(q))
<1>1. PICK i \in DOMAIN q : q[i] = "change"
  BY DEF ChangeQueued
<1>2. i # 1
  BY <1>1
<1>3. i - 1 \in DOMAIN Tail(q) /\ Tail(q)[i - 1] = q[i]
  BY <1>2
<1> QED BY <1>1, <1>3 DEF ChangeQueued

-----------------------------------------------------------------------------
(* The steps.                                                              *)

LEMMA InitIInv == Init => IInv
<1> SUFFICES ASSUME Init PROVE IInv
  OBVIOUS
<1>1. fsq \in Seq({"change", "remove"})
  BY DEF Init
<1>2. saves \in 0..MaxSaves /\ sending \in Nat
  BY WatcherAssumption DEF Init
<1>3. TypeOK
  BY <1>1, <1>2 DEF Init, TypeOK
<1>4. PhaseOK /\ StartOK /\ LoadOK /\ ChangeIsPending /\ InForceWhenQuiet
  BY DEF Init, PhaseOK, StartOK, LoadOK, ChangeIsPending, InForceWhenQuiet
<1> QED BY <1>3, <1>4 DEF IInv

\* A change of the file: it is noticed, and then queued, or it is not.
LEMMA ChangeIInv ==
    ASSUME IInv, NEW d \in Contents \cup {Absent}, NEW e \in {"change", "remove"},
           d # Absent => e = "change",
           Change(d, e), writing' \in Contents \cup {Absent}
    PROVE  IInv'
<1> USE DEF IInv
<1>1. /\ saves' \in 0..MaxSaves /\ file' = d /\ stale' = TRUE /\ unnoticed' \in BOOLEAN
      /\ UNCHANGED <<active, main, timer, sending, fireC, rpc, raw, ctxDone, done, cpc>>
  <2>1. saves' \in 0..MaxSaves
    BY WatcherAssumption DEF Change, TypeOK
  <2>2. unnoticed' \in BOOLEAN
    BY DEF Change, Notify
  <2> QED BY <2>1, <2>2 DEF Change, timerVars, closeVars
<1>2. fsq' \in Seq({"change", "remove"})
  BY DEF Change, Notify, TypeOK
<1>3. TypeOK'
  BY <1>1, <1>2 DEF TypeOK
<1>4. PhaseOK' /\ LoadOK' /\ InForceWhenQuiet'
  BY <1>1 DEF PhaseOK, LoadOK, InForceWhenQuiet
<1>5. StartOK'
  BY <1>1 DEF StartOK, PhaseOK, Change, Notify, Watching
<1>6. ChangeIsPending'
  <2> SUFFICES ASSUME ~unnoticed', file' # Absent
               PROVE  ChangeQueued(fsq')
    BY DEF ChangeIsPending, Pending, ChangeQueued
  <2>1. fsq' = Append(fsq, "change")
    BY <1>1 DEF Change, Notify
  <2> QED BY <2>1, AppendQueues DEF TypeOK
<1> QED BY <1>3, <1>4, <1>5, <1>6

LEMMA SaveIInv == ASSUME IInv, Save PROVE IInv'
<1>1. ASSUME NEW d \in Contents, Replace(d) PROVE IInv'
  BY <1>1, ChangeIInv, WatcherAssumption DEF Replace, IInv, TypeOK
<1>2. ASSUME NEW d \in Contents, BeginWrite(d) PROVE IInv'
  <2>1. PICK part \in Partial : Change(part, "change")
    BY <1>2 DEF BeginWrite
  <2>2. part \in Contents /\ writing' \in Contents
    BY <1>2, WatcherAssumption DEF BeginWrite
  <2> QED BY <2>1, <2>2, ChangeIInv, WatcherAssumption
<1>3. CASE EndWrite
  BY <1>3, ChangeIInv, WatcherAssumption DEF EndWrite, IInv, TypeOK
<1>4. CASE Remove
  BY <1>4, ChangeIInv, WatcherAssumption DEF Remove, IInv, TypeOK
<1> QED BY <1>1, <1>2, <1>3, <1>4 DEF Save

LEMMA StartupIInv == ASSUME IInv, Startup PROVE IInv'
<1> USE WatcherAssumption
    DEF IInv, TypeOK, PhaseOK, StartOK, LoadOK, ChangeIsPending, Pending, InForceWhenQuiet,
        editorVars, timerVars, closeVars, historyVars
<1>1. CASE resolvePolicy
  <2>1. /\ rpc = "off" /\ cpc = "idle" /\ stale' = FALSE /\ unnoticed' = FALSE
        /\ main' \in {"start", "exited", "flag"} /\ active' \in Good \cup {NoPolicy}
        /\ main' = "start" => active' = file
    BY <1>1 DEF resolvePolicy, Contents
  <2>2. UNCHANGED <<file, writing, saves, fsq, timer, sending, fireC, rpc, raw, ctxDone, done, cpc>>
    BY <1>1 DEF resolvePolicy
  <2> QED BY <2>1, <2>2
<1>2. CASE Start
  BY <1>2 DEF Start
<1> QED BY <1>1, <1>2 DEF Startup

LEMMA RecvEventIInv == ASSUME IInv, RecvEvent PROVE IInv'
<1> USE DEF IInv, RecvEvent, scheduleLoad, editorVars, timerVars, closeVars, historyVars
<1>1. fsq' \in Seq({"change", "remove"})
  BY DEF TypeOK
<1>2. TypeOK'
  <2>1. timer' \in BOOLEAN /\ UNCHANGED <<sending, fireC>>
    BY DEF TypeOK
  <2> HIDE DEF scheduleLoad
  <2> QED BY <1>1, <2>1 DEF TypeOK
<1>3. PhaseOK' /\ StartOK' /\ LoadOK' /\ InForceWhenQuiet'
  BY DEF PhaseOK, StartOK, LoadOK, InForceWhenQuiet
<1>4. ChangeIsPending'
  <2>1. CASE Head(fsq) = "change"
    BY <2>1 DEF ChangeIsPending, Pending
  <2>2. CASE Head(fsq) # "change"
    <3>1. ChangeQueued(fsq) => ChangeQueued(fsq')
      BY <2>2, TailQueues DEF TypeOK
    <3> QED BY <2>2, <3>1 DEF ChangeIsPending, Pending, ChangeQueued
  <2> QED BY <2>1, <2>2
<1> QED BY <1>2, <1>3, <1>4

LEMMA RunIInv == ASSUME IInv, Run PROVE IInv'
<1> USE WatcherAssumption
    DEF IInv, TypeOK, PhaseOK, StartOK, LoadOK, ChangeIsPending, Pending, InForceWhenQuiet,
        editorVars, timerVars, closeVars, historyVars
<1>1. CASE RecvEvent
  BY <1>1, RecvEventIInv
<1>2. CASE ReadFile
  <2>1. /\ rpc = "select" /\ fireC' = FALSE /\ raw' = file /\ stale' = FALSE
        /\ rpc' \in {"select", "dispatch"} /\ (rpc' = "select" <=> file = Absent)
    BY <1>2 DEF ReadFile
  <2>2. UNCHANGED <<file, writing, saves, fsq, active, main, timer, sending,
                    ctxDone, done, cpc, unnoticed>>
    BY <1>2 DEF ReadFile
  <2>3. Absent \notin Good
    BY DEF Contents
  <2> QED BY <2>1, <2>2, <2>3
<1>3. CASE Dispatch
  BY <1>3 DEF Dispatch
<1>4. CASE Return
  BY <1>4 DEF Return
<1> QED BY <1>1, <1>2, <1>3, <1>4 DEF Run

LEMMA TimerIInv == ASSUME IInv, TimerExpires \/ SendFire PROVE IInv'
<1> USE DEF IInv, TypeOK, PhaseOK, StartOK, LoadOK, InForceWhenQuiet,
            editorVars, timerVars, closeVars, historyVars
<1>1. CASE TimerExpires
  <2>1. sending' \in Nat /\ sending' > 0
    BY <1>1 DEF TimerExpires
  <2>2. sending' \in Nat
    BY <2>1
  <2>3. timer' \in BOOLEAN
    BY <1>1 DEF TimerExpires
  <2>4. UNCHANGED <<file, writing, saves, fsq, active, main, fireC, rpc, raw,
                    ctxDone, done, cpc, stale, unnoticed>>
    BY <1>1 DEF TimerExpires
  <2>5. TypeOK'
    BY <2>2, <2>3, <2>4
  <2>6. PhaseOK' /\ StartOK' /\ LoadOK' /\ InForceWhenQuiet'
    BY <2>4
  <2>7. ChangeIsPending'
    BY <2>1 DEF ChangeIsPending, Pending
  <2> QED BY <2>5, <2>6, <2>7
<1>2. CASE SendFire
  <2>1. sending' \in Nat
    BY <1>2 DEF SendFire
  <2>2. /\ fireC' = TRUE
        /\ UNCHANGED <<file, writing, saves, fsq, active, main, timer, rpc, raw,
                        ctxDone, done, cpc, stale, unnoticed>>
    BY <1>2 DEF SendFire
  <2> QED BY <2>1, <2>2 DEF ChangeIsPending, Pending
<1> QED BY <1>1, <1>2

LEMMA ShutdownIInv == ASSUME IInv, Cancel \/ CloseSignal \/ CloseWait PROVE IInv'
<1> USE DEF IInv, TypeOK, PhaseOK, StartOK, LoadOK, ChangeIsPending, Pending, InForceWhenQuiet,
            editorVars, timerVars, closeVars, historyVars
<1>1. CASE Cancel
  BY <1>1 DEF Cancel
<1>2. CASE CloseSignal
  BY <1>2 DEF CloseSignal
<1>3. CASE CloseWait
  BY <1>3 DEF CloseWait
<1> QED BY <1>1, <1>2, <1>3

LEMMA StutterIInv == ASSUME IInv, UNCHANGED vars PROVE IInv'
BY DEF IInv, TypeOK, PhaseOK, StartOK, LoadOK, ChangeIsPending, Pending, InForceWhenQuiet,
       vars, editorVars, timerVars, closeVars, historyVars

LEMMA IInvAlways == Spec => []IInv
<1>1. IInv /\ [Next]_vars => IInv'
  BY SaveIInv, StartupIInv, RunIInv, TimerIInv, ShutdownIInv, StutterIInv DEF Next
<1> QED BY InitIInv, <1>1, PTL DEF Spec

-----------------------------------------------------------------------------
(* The theorems.                                                           *)

\* Whatever the editors, the kernel and the timers do, a change that raised an
\* event and was not read yet has a load on its way (scheduleLoad, fireC).
THEOREM ChangeIsPendingAlways == Spec => []ChangeIsPending
BY IInvAlways, PTL DEF IInv

\* Whenever run waits and the file has not changed since it was read last, a
\* file that loads is the policy in force (loadAndDispatch and onAccept).
THEOREM InForceWhenQuietAlways == Spec => []InForceWhenQuiet
BY IInvAlways, PTL DEF IInv

\* Once Close has returned, the policy is never swapped again.
THEOREM NoReloadAfterCloseAlways == Spec => NoReloadAfterClose
<1>1. ASSUME IInv, Next, cpc = "returned" PROVE UNCHANGED active
  <2>1. rpc = "exited" /\ main = "serving"
    BY <1>1 DEF IInv, PhaseOK
  <2> QED BY <1>1, <2>1
      DEF Next, Save, Replace, BeginWrite, EndWrite, Remove, Change, Startup, resolvePolicy,
          Start, Run, RecvEvent, ReadFile, Dispatch, Return, TimerExpires, SendFire, Cancel,
          CloseSignal, CloseWait
<1>2. IInv /\ [Next]_vars => [cpc = "returned" => UNCHANGED active]_vars
  BY <1>1
<1> QED BY IInvAlways, <1>2, PTL DEF Spec, NoReloadAfterClose
=============================================================================
