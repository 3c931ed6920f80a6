---------------------------- MODULE PolicyWatcher ---------------------------
(***************************************************************************)
(* internal/policy/watcher.go with the file mode of runProxy: the policy   *)
(* file is loaded once, then its directory is watched; a change starts a   *)
(* debounce timer, whose function asks the goroutine run to read the file  *)
(* and to hand it to onAccept or onReject.                                 *)
(*                                                                         *)
(* Editors save by renaming a new file into place or by writing the file   *)
(* where it is, so that it holds a partial content meanwhile.  The kernel  *)
(* queues an event for each change of a watched directory, or drops it     *)
(* when its queue overflows (the watcher only logs that).                  *)
(***************************************************************************)
EXTENDS Naturals, Sequences

CONSTANTS
    Good, Bad,    \* contents LoadFromBytes accepts, and rejects
    Partial,      \* contents a file has while it is being written
    Absent,       \* there is no file
    NoPolicy,     \* the nil *Policy
    KernelDrops,  \* whether the event queue can overflow
    MaxSaves      \* bound on the changes of the file

Contents == Good \cup Bad

ASSUME WatcherAssumption ==
    /\ Good \cap Bad = {}
    /\ Partial \subseteq Contents
    /\ Absent \notin Contents /\ NoPolicy \notin Contents
    /\ KernelDrops \in BOOLEAN /\ MaxSaves \in Nat

VARIABLES
    file,      \* what the path holds
    writing,   \* what an editor is writing in place; Absent if none is
    saves,     \* changes so far
    fsq,       \* fsw.Events: "change" (create, write, rename) or "remove"
    active,    \* the provider's policy
    main,      \* runProxy: "load", "start", "serving", "flag" (no file, no
               \* watcher) or "exited"
    timer,     \* the debounce timer is armed
    sending,   \* its functions that have started and not yet sent
    fireC,     \* the one slot of fireC is taken
    rpc, raw,  \* run: "off", "select", "dispatch" (raw has been read), "exited"
    ctxDone, done,  \* the two ways to stop
    cpc,       \* Close: "idle", "wait", "returned"
    stale,     \* history: the file has changed since it was read last
    unnoticed  \* history: its last change has raised no event

editorVars == <<file, writing, saves>>
timerVars  == <<timer, sending, fireC>>
closeVars  == <<ctxDone, done, cpc>>
historyVars == <<stale, unnoticed>>
vars == <<editorVars, fsq, active, main, timerVars, rpc, raw, closeVars, historyVars>>

TypeOK ==
    /\ file \in Contents \cup {Absent}
    /\ writing \in Contents \cup {Absent}
    /\ saves \in 0..MaxSaves
    /\ fsq \in Seq({"change", "remove"})
    /\ active \in Good \cup {NoPolicy}
    /\ main \in {"load", "start", "serving", "flag", "exited"}
    /\ timer \in BOOLEAN /\ sending \in Nat /\ fireC \in BOOLEAN
    /\ rpc \in {"off", "select", "dispatch", "exited"}
    /\ raw \in Contents \cup {Absent}
    /\ ctxDone \in BOOLEAN /\ done \in BOOLEAN
    /\ cpc \in {"idle", "wait", "returned"}
    /\ stale \in BOOLEAN /\ unnoticed \in BOOLEAN

Init ==
    /\ file \in Contents \cup {Absent}
    /\ writing = Absent
    /\ saves = 0
    /\ fsq = <<>>
    /\ active = NoPolicy
    /\ main = "load"
    /\ timer = FALSE /\ sending = 0 /\ fireC = FALSE
    /\ rpc = "off" /\ raw = Absent
    /\ ctxDone = FALSE /\ done = FALSE
    /\ cpc = "idle"
    /\ stale = FALSE /\ unnoticed = FALSE

-----------------------------------------------------------------------------
(* The editors and the kernel.                                             *)

Watching == rpc # "off" /\ cpc = "idle"

\* A change of the file: the kernel queues an event if it watches.
Notify(event) ==
    \/ /\ Watching
       /\ fsq' = Append(fsq, event)
       /\ unnoticed' = FALSE
    \/ /\ ~Watching \/ KernelDrops
       /\ unnoticed' = TRUE
       /\ UNCHANGED fsq

Change(content, event) ==
    /\ saves < MaxSaves
    /\ saves' = saves + 1
    /\ file' = content
    /\ stale' = TRUE
    /\ Notify(event)
    /\ UNCHANGED <<active, main, timerVars, rpc, raw, closeVars>>

\* A new file is renamed into place.
Replace(d) == writing = Absent /\ Change(d, "change") /\ UNCHANGED writing

\* The file is opened for writing, and holds part of the new content.
BeginWrite(d) ==
    /\ writing = Absent
    /\ \E part \in Partial : Change(part, "change")
    /\ writing' = d

\* The rest is written.
EndWrite ==
    /\ writing # Absent
    /\ Change(writing, "change")
    /\ writing' = Absent

\* The file is removed, or renamed away.
Remove ==
    /\ writing = Absent
    /\ file # Absent
    /\ \E event \in {"remove", "change"} : Change(Absent, event)
    /\ UNCHANGED writing

-----------------------------------------------------------------------------
(* runProxy.                                                               *)

\* A file that does not load ends the process, and so does a missing one that
\* --policy names; without a file on the default path the process runs in flag
\* mode and watches nothing.
resolvePolicy ==
    /\ main = "load"
    /\ \/ file \in Good /\ main' = "start"
       \/ file \in Bad /\ main' = "exited"
       \/ file = Absent /\ main' \in {"flag", "exited"}
    /\ active' = IF file \in Good THEN file ELSE NoPolicy
    /\ stale' = FALSE /\ unnoticed' = FALSE
    /\ UNCHANGED <<editorVars, fsq, timerVars, rpc, raw, closeVars>>

\* Watcher.Start: the directory is watched and run begins.
Start ==
    /\ main = "start"
    /\ main' = "serving"
    /\ rpc' = "select"
    /\ UNCHANGED <<editorVars, fsq, active, timerVars, raw, closeVars, historyVars>>

-----------------------------------------------------------------------------
(* run.                                                                    *)

\* Mutation: a second event only stops the timer.
scheduleLoadStops ==
    /\ timer' = ~timer
    /\ UNCHANGED <<sending, fireC>>

\* Stop the timer and start it again: a function that Stop comes too late for
\* is already counted in sending.
scheduleLoad ==
    /\ timer' = TRUE
    /\ UNCHANGED <<sending, fireC>>

RecvEvent ==
    /\ rpc = "select"
    /\ fsq # <<>>
    /\ fsq' = Tail(fsq)
    /\ IF Head(fsq) = "change" THEN scheduleLoad ELSE UNCHANGED timerVars
    /\ UNCHANGED <<editorVars, active, main, rpc, raw, closeVars, historyVars>>

\* The debounce time passes; the function of AfterFunc starts.
TimerExpires ==
    /\ timer
    /\ timer' = FALSE
    /\ sending' = sending + 1
    /\ UNCHANGED <<editorVars, fsq, active, main, fireC, rpc, raw, closeVars, historyVars>>

\* Its non-blocking send.
SendFire ==
    /\ sending > 0
    /\ sending' = sending - 1
    /\ fireC' = TRUE
    /\ UNCHANGED <<editorVars, fsq, active, main, timer, rpc, raw, closeVars, historyVars>>

\* Mutation: a file that cannot be read ends the goroutine.
ReadFileReturns ==
    /\ rpc = "select"
    /\ fireC
    /\ fireC' = FALSE
    /\ rpc' = IF file = Absent THEN "exited" ELSE "dispatch"
    /\ raw' = file
    /\ stale' = FALSE
    /\ UNCHANGED <<editorVars, fsq, active, main, timer, sending, closeVars, unnoticed>>

\* loadAndDispatch reads the file; without one it keeps the policy.
ReadFile ==
    /\ rpc = "select"
    /\ fireC
    /\ fireC' = FALSE
    /\ rpc' = IF file = Absent THEN "select" ELSE "dispatch"
    /\ raw' = file
    /\ stale' = FALSE
    /\ UNCHANGED <<editorVars, fsq, active, main, timer, sending, closeVars, unnoticed>>

\* Mutation: a policy is left to the next load if one is pending already.
DispatchLater ==
    /\ rpc = "dispatch"
    /\ active' = IF raw \in Good /\ ~timer /\ sending = 0 THEN raw ELSE active
    /\ rpc' = "select"
    /\ UNCHANGED <<editorVars, fsq, main, timerVars, raw, closeVars, historyVars>>

\* Its second half: onAccept swaps the policy, onReject keeps it.
Dispatch ==
    /\ rpc = "dispatch"
    /\ active' = IF raw \in Good THEN raw ELSE active
    /\ rpc' = "select"
    /\ UNCHANGED <<editorVars, fsq, main, timerVars, raw, closeVars, historyVars>>

\* Mutation: the loop does not look at its done channel.
ReturnOnContext ==
    /\ rpc = "select"
    /\ ctxDone
    /\ rpc' = "exited"
    /\ UNCHANGED <<editorVars, fsq, active, main, timerVars, raw, closeVars, historyVars>>

\* The context is cancelled, or Close was called: the done channel is closed,
\* and so is Events.
Return ==
    /\ rpc = "select"
    /\ ctxDone \/ done
    /\ rpc' = "exited"
    /\ UNCHANGED <<editorVars, fsq, active, main, timerVars, raw, closeVars, historyVars>>

-----------------------------------------------------------------------------
(* Shutdown.                                                               *)

\* A signal cancels the context.
Cancel ==
    /\ main = "serving"
    /\ ~ctxDone
    /\ ctxDone' = TRUE
    /\ UNCHANGED <<editorVars, fsq, active, main, timerVars, rpc, raw, done, cpc, historyVars>>

\* Close: done is closed, and fsnotify's watcher.
CloseSignal ==
    /\ main = "serving"
    /\ cpc = "idle"
    /\ done' = TRUE
    /\ fsq' = <<>>
    /\ cpc' = "wait"
    /\ UNCHANGED <<editorVars, active, main, timerVars, rpc, raw, ctxDone, historyVars>>

\* Mutation: Close does not wait for the goroutine.
CloseWaitNot ==
    /\ cpc = "wait"
    /\ cpc' = "returned"
    /\ UNCHANGED <<editorVars, fsq, active, main, timerVars, rpc, raw, ctxDone, done, historyVars>>

\* wg.Wait
CloseWait ==
    /\ cpc = "wait"
    /\ rpc = "exited"
    /\ cpc' = "returned"
    /\ UNCHANGED <<editorVars, fsq, active, main, timerVars, rpc, raw, ctxDone, done, historyVars>>

-----------------------------------------------------------------------------
Save == \/ \E d \in Contents : Replace(d) \/ BeginWrite(d)
        \/ EndWrite \/ Remove

Startup == resolvePolicy \/ Start
Run     == RecvEvent \/ ReadFile \/ Dispatch \/ Return

Next == Save \/ Startup \/ Run \/ TimerExpires \/ SendFire
        \/ Cancel \/ CloseSignal \/ CloseWait

Spec == Init /\ [][Next]_vars

\* Goroutines are scheduled and timers fire; nobody has to save or to stop.
Fairness ==
    /\ WF_vars(Startup) /\ WF_vars(Run)
    /\ WF_vars(TimerExpires) /\ WF_vars(SendFire) /\ WF_vars(CloseWait)

FairSpec == Spec /\ Fairness

-----------------------------------------------------------------------------
(* Properties.                                                             *)

\* A load of the file is on its way.
Pending == (\E i \in DOMAIN fsq : fsq[i] = "change") \/ timer \/ sending > 0 \/ fireC

\* No change is forgotten: as long as the watcher is not being stopped, a
\* file that has changed since it was read last, with an event, will be read
\* again, however events, the timer and reads of a half-written file overlap
\* (timer.Stop may come too late, and fireC has one slot).
ChangeIsPending ==
    rpc \in {"select", "dispatch"} /\ cpc = "idle" /\ stale /\ ~unnoticed /\ file # Absent
        => Pending

\* What is enforced is what the file says: whenever run waits and the file has
\* not changed since it was read last, a file that loads is the policy in
\* force, whether runProxy or run read it, and whatever was rejected before.
InForceWhenQuiet ==
    rpc = "select" /\ ~stale /\ file \in Good => active = file

\* After Close has returned, no callback runs any more: the policy stays.
NoReloadAfterClose == [][cpc = "returned" => UNCHANGED active]_vars

Stopping == ctxDone \/ cpc # "idle"

\* A content that loads and stays is in force in the end, whatever was read
\* in the middle of the save, if its last change raised an event.
EventuallyInForce ==
    \A d \in Good :
        <>[](main = "serving" /\ ~Stopping /\ file = d /\ ~unnoticed) => <>[](active = d)

\* Close returns, whether or not the context was cancelled and in the middle
\* of whatever load it finds run: its wg.Wait never waits for ever.
CloseReturns == cpc = "wait" ~> cpc = "returned"

\* "a local --policy file is watched and re-applied on change"
\* (docs/policy-guide.md): as EventuallyInForce, without its last condition.
ReappliedOnChange ==
    \A d \in Good : <>[](main = "serving" /\ ~Stopping /\ file = d) => <>[](active = d)
=============================================================================
