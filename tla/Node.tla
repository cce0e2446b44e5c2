-------------------------------- MODULE Node --------------------------------
(***************************************************************************)
(* dpaste::Node (src/src/node.h, node.cpp): one application thread that    *)
(* calls run, paste, get and stop and at last destroys the node, and the   *)
(* thread of dht::DhtRunner that completes the operations and runs their   *)
(* callbacks, one at a time.                                               *)
(*                                                                         *)
(* A blocking paste and stop keep a mutex, a condition variable and flags  *)
(* in their stack frame and hand the callback references to them.  The     *)
(* steps are cut at every access to such a variable: a lock or an unlock,  *)
(* a read or a write of `done' and `success_', a notification.  A frame    *)
(* that its callback uses after the call returned is recorded in `stale'.  *)
(* Such an access is undefined.  The model lets it do nothing or, when it  *)
(* is to the mutex or the condition variable, never return; what it may    *)
(* write over in a frame made later in the same place is left out.         *)
(*                                                                         *)
(* dht::DhtRunner is external: while it runs, an operation ends with       *)
(* success or with failure, after any number of values for a get; joining  *)
(* it drops what has not ended.                                            *)
(***************************************************************************)
EXTENDS Naturals

CONSTANTS
    Call,       \* the calls of paste, get and stop the application makes
    NoCall,     \* no call
    MaxValues   \* bound: values found for one get

ASSUME NodeAssumption == NoCall \notin Call /\ MaxValues \in Nat

VARIABLES
    running,   \* Node::running_
    dht,       \* the thread of DhtRunner: "down" or "up"
    app,       \* where the application thread is
    cur,       \* the call it is in
    cb,        \* where the callback that the DHT thread executes is
    cbc,       \* the call that callback belongs to
    kind,      \* kind[i]: which operation call i is
    op,        \* op[i]: what the DHT did of it so far
    outcome,   \* outcome[i]: the `success' of its callback
    values,    \* values[i]: number of blobs found for a get
    alive,     \* alive[i]: its stack frame exists
    done,      \* done[i]: the flag in the frame
    done0,     \* done0[i]: what that flag held when the frame was made (history)
    success_,  \* success_[i]: the other flag of the frame of a paste
    mtx,       \* mtx[i]: the holder of the mutex in the frame
    notified,  \* the sleeping application thread was notified
    result,    \* result[i]: what the caller, or its callback, was given
    stale      \* accesses to a frame that is gone, as <<call, access>> (history)

thread == <<app, cur>>
frame == <<alive, done, done0, success_, mtx>>
vars == <<running, dht, thread, cb, cbc, kind, op, outcome, values, frame,
          notified, result, stale>>

Kind == {"none", "paste", "paste_cb", "get", "get_cb", "stop"}
Access == {"success_", "lock", "done", "unlock", "notify"}

\* The blobs of a get, as their number, or the answer of a paste.
None == [what |-> "none", n |-> 0]
Blobs(n) == [what |-> "blobs", n |-> n]
Answer(b) == [what |-> IF b THEN "true" ELSE "false", n |-> 0]

Init ==
    /\ running = FALSE
    /\ dht = "down"
    /\ app = "idle" /\ cur = NoCall
    /\ cb = "none" /\ cbc = NoCall
    /\ kind = [i \in Call |-> "none"]
    /\ op = [i \in Call |-> "none"]
    /\ outcome = [i \in Call |-> "none"]
    /\ values = [i \in Call |-> 0]
    /\ alive = [i \in Call |-> FALSE]
    /\ done = [i \in Call |-> FALSE]
    /\ done0 = [i \in Call |-> FALSE]
    /\ success_ = [i \in Call |-> FALSE]
    /\ mtx = [i \in Call |-> "free"]
    /\ notified = FALSE
    /\ result = [i \in Call |-> None]
    /\ stale = {}

-----------------------------------------------------------------------------
(* The application thread enters a call *)

\* run() returns at once when running_ holds.
run ==
    /\ app = "idle" /\ ~running
    /\ running' = TRUE
    /\ dht' = "up"
    /\ UNCHANGED <<thread, cb, cbc, kind, op, outcome, values, frame, notified, result, stale>>

\* An operation of kind k is queued for the DHT thread.
Post(i, k) ==
    /\ app = "idle" /\ kind[i] = "none"
    /\ kind' = [kind EXCEPT ![i] = k]
    /\ op' = [op EXCEPT ![i] = "pending"]

\* paste with a callback: true at once.
paste_cb(i) ==
    /\ Post(i, "paste_cb")
    /\ UNCHANGED <<running, dht, thread, cb, cbc, outcome, values, frame, notified, result, stale>>

\* success_ {false}, and a slip: it starts as true.
success_true == TRUE
success_initial == FALSE

(***************************************************************************)
(* paste without a callback: `done' is not initialised, the mutex is held  *)
(* from before the put until the wait.                                     *)
(***************************************************************************)
paste(i) ==
    /\ Post(i, "paste")
    /\ \E garbage \in BOOLEAN :
         /\ done' = [done EXCEPT ![i] = garbage]
         /\ done0' = [done0 EXCEPT ![i] = garbage]
    /\ success_' = [success_ EXCEPT ![i] = success_initial]
    /\ alive' = [alive EXCEPT ![i] = TRUE]
    /\ mtx' = [mtx EXCEPT ![i] = "app"]
    /\ app' = "check" /\ cur' = i
    /\ UNCHANGED <<running, dht, cb, cbc, outcome, values, notified, result, stale>>

get_cb(i) ==
    /\ Post(i, "get_cb")
    /\ UNCHANGED <<running, dht, thread, cb, cbc, outcome, values, frame, notified, result, stale>>

\* get without a callback waits for a future.
get(i) ==
    /\ Post(i, "get")
    /\ app' = "future" /\ cur' = i
    /\ UNCHANGED <<running, dht, cb, cbc, outcome, values, frame, notified, result, stale>>

\* stop: the shutdown is queued first, the mutex is taken after.
stop(i) ==
    /\ Post(i, "stop")
    /\ done' = [done EXCEPT ![i] = FALSE]
    /\ alive' = [alive EXCEPT ![i] = TRUE]
    /\ app' = "lock" /\ cur' = i
    /\ UNCHANGED <<running, dht, cb, cbc, outcome, values, done0, success_, mtx, notified, result, stale>>

-----------------------------------------------------------------------------
(* The application thread waits and returns *)

\* Acquire the mutex, on entry to stop or after a wake-up.
Lock(i) ==
    /\ app = "lock" /\ cur = i /\ mtx[i] = "free"
    /\ mtx' = [mtx EXCEPT ![i] = "app"]
    /\ app' = "check"
    /\ UNCHANGED <<running, dht, cur, cb, cbc, kind, op, outcome, values, alive, done, done0,
                   success_, notified, result, stale>>

\* The predicate of cv.wait, and a slip: there is none, any wake-up will do.
predicate_none(i) == TRUE
predicate(i) == done[i]

NotDone(i) ==
    /\ app = "check" /\ cur = i /\ ~predicate(i)
    /\ app' = "park"
    /\ UNCHANGED <<running, dht, cur, cb, cbc, kind, op, outcome, values, frame, notified, result, stale>>

\* cv.wait releases the mutex and sleeps, in one step.
Park(i) ==
    /\ app = "park" /\ cur = i
    /\ app' = "sleep"
    /\ mtx' = [mtx EXCEPT ![i] = "free"]
    /\ notified' = FALSE
    /\ UNCHANGED <<running, dht, cur, cb, cbc, kind, op, outcome, values, alive, done, done0,
                   success_, result, stale>>

Wake(i) ==
    /\ app = "sleep" /\ cur = i /\ notified
    /\ app' = "lock"
    /\ UNCHANGED <<running, dht, cur, cb, cbc, kind, op, outcome, values, frame, notified, result, stale>>

\* A condition variable may wake up its waiter without a notification.
SpuriousWake(i) ==
    /\ app = "sleep" /\ cur = i /\ ~notified
    /\ app' = "lock"
    /\ UNCHANGED <<running, dht, cur, cb, cbc, kind, op, outcome, values, frame, notified, result, stale>>

\* The application thread is out of the call; the frame of call i is gone.
Returns == app' = "idle" /\ cur' = NoCall
Unwinds(i) == alive' = [alive EXCEPT ![i] = FALSE] /\ mtx' = [mtx EXCEPT ![i] = "free"] /\ Returns

\* The predicate holds: paste returns success_ and its frame is gone.
PasteReturn(i) ==
    /\ app = "check" /\ cur = i /\ kind[i] = "paste" /\ predicate(i)
    /\ result' = [result EXCEPT ![i] = Answer(success_[i])]
    /\ Unwinds(i)
    /\ UNCHANGED <<running, dht, cb, cbc, kind, op, outcome, values, done, done0, success_,
                   notified, stale>>

\* What join() leaves of the operations: those that have not ended are dropped.
Dropped == [j \in Call |-> IF op[j] = "pending" THEN "dropped" ELSE op[j]]

\* Slips: the shutdown is neither waited for nor joined; running_ is not cleared.
StopReturn_no_wait(i) ==
    /\ app = "check" /\ cur = i /\ kind[i] = "stop"
    /\ running' = FALSE
    /\ Unwinds(i)
    /\ UNCHANGED <<dht, cb, cbc, kind, op, outcome, values, done, done0, success_, notified,
                   result, stale>>

StopReturn_still_running(i) ==
    /\ app = "check" /\ cur = i /\ kind[i] = "stop" /\ predicate(i) /\ cb = "none"
    /\ dht' = "down"
    /\ Unwinds(i)
    /\ UNCHANGED <<running, cb, cbc, kind, op, outcome, values, done, done0, success_, notified,
                   result, stale>>

(***************************************************************************)
(* stop, with its mutex held, joins the DHT thread, which ends after the   *)
(* callback it is in; then running_ is cleared and the frame is gone.      *)
(***************************************************************************)
StopReturn(i) ==
    /\ app = "check" /\ cur = i /\ kind[i] = "stop" /\ predicate(i) /\ cb = "none"
    /\ dht' = "down"
    /\ op' = Dropped
    /\ running' = FALSE
    /\ Unwinds(i)
    /\ UNCHANGED <<cb, cbc, kind, outcome, values, done, done0, success_, notified, result, stale>>

\* The vector is made with the size of values and then filled; a slip: it is
\* appended to.
blobs_appended(n) == 2 * n
blobs_filled(n) == n

\* The future is ready.
GetReturn(i) ==
    /\ app = "future" /\ cur = i /\ op[i] = "ended"
    /\ result' = [result EXCEPT ![i] = Blobs(blobs_filled(values[i]))]
    /\ Returns
    /\ UNCHANGED <<running, dht, cb, cbc, kind, op, outcome, values, frame, notified, stale>>

\* ~Node: its DhtRunner is joined, which ends the DHT thread after the callback
\* it is in.  No call of this node is under way or follows.
destroy ==
    /\ app = "idle" /\ cb = "none"
    /\ app' = "gone"
    /\ dht' = "down"
    /\ op' = Dropped
    /\ UNCHANGED <<running, cur, cb, cbc, kind, outcome, values, frame, notified, result, stale>>

-----------------------------------------------------------------------------
(* The DHT thread *)

\* It is in no callback and takes up call i.
Ready(i) == dht = "up" /\ cb = "none" /\ op[i] = "pending"

\* A value was found for a get.
Value(i) ==
    /\ Ready(i) /\ kind[i] \in {"get", "get_cb"} /\ values[i] < MaxValues
    /\ values' = [values EXCEPT ![i] = @ + 1]
    /\ UNCHANGED <<running, dht, thread, cb, cbc, kind, op, outcome, frame, notified, result, stale>>

\* What the caller's own callback is given at the end of an operation: pcb is
\* not called for a get that failed.  A slip: nor is that of a paste.
Told_success_only(i, success) ==
    CASE kind[i] = "paste_cb" /\ success -> Answer(success)
      [] kind[i] = "get_cb" /\ success   -> Blobs(values[i])
      [] OTHER                           -> None
Told(i, success) ==
    CASE kind[i] = "paste_cb"            -> Answer(success)
      [] kind[i] = "get_cb" /\ success   -> Blobs(values[i])
      [] OTHER                           -> None

\* An operation ended whose callback uses no frame: the caller's own callback
\* of a paste, the promise of a get, or pcb.
End(i) ==
    /\ Ready(i) /\ kind[i] \in {"paste_cb", "get", "get_cb"}
    /\ op' = [op EXCEPT ![i] = "ended"]
    /\ \E success \in BOOLEAN :
         /\ outcome' = [outcome EXCEPT ![i] = IF success THEN "ok" ELSE "failed"]
         /\ result' = [result EXCEPT ![i] = Told(i, success)]
    /\ UNCHANGED <<running, dht, thread, cb, cbc, kind, values, frame, notified, stale>>

\* The callback of a blocking paste, or of the shutdown, is entered.
Enter(i) ==
    /\ Ready(i) /\ kind[i] \in {"paste", "stop"}
    /\ op' = [op EXCEPT ![i] = "callback"]
    /\ cbc' = i
    /\ IF kind[i] = "stop"
       THEN cb' = "lock" /\ UNCHANGED outcome
       ELSE /\ cb' = "report"
            /\ \E o \in {"ok", "failed"} : outcome' = [outcome EXCEPT ![i] = o]
    /\ UNCHANGED <<running, dht, thread, kind, values, frame, notified, result, stale>>

\* The callback uses the frame of its call.
Touch(i, a) == stale' = IF alive[i] THEN stale ELSE stale \cup {<<i, a>>}

\* A slip: done is set with success_, before the mutex is taken.
CbReport_done_unlocked(i) ==
    /\ cb = "report" /\ cbc = i
    /\ success_' = [success_ EXCEPT ![i] = outcome[i] = "ok"] /\ Touch(i, "success_")
    /\ done' = [done EXCEPT ![i] = TRUE]
    /\ cb' = "lock"
    /\ UNCHANGED <<running, dht, thread, cbc, kind, op, outcome, values, alive, done0, mtx,
                   notified, result>>

CbReport(i) ==
    /\ cb = "report" /\ cbc = i
    /\ IF outcome[i] = "ok"
       THEN success_' = [success_ EXCEPT ![i] = TRUE] /\ Touch(i, "success_")
       ELSE UNCHANGED <<success_, stale>>
    /\ cb' = "lock"
    /\ UNCHANGED <<running, dht, thread, cbc, kind, op, outcome, values, alive, done, done0, mtx,
                   notified, result>>

\* A slip: done is set without the mutex.
CbLock_missing(i) ==
    /\ cb = "lock" /\ cbc = i
    /\ cb' = "set"
    /\ UNCHANGED <<running, dht, thread, cbc, kind, op, outcome, values, frame, notified, result, stale>>

\* The mutex of a frame that is gone was released when the call returned; it
\* may be acquired still, or be left for CbHangs.
CbLock(i) ==
    /\ cb = "lock" /\ cbc = i /\ mtx[i] = "free"
    /\ mtx' = [mtx EXCEPT ![i] = "dht"]
    /\ Touch(i, "lock")
    /\ cb' = "set"
    /\ UNCHANGED <<running, dht, thread, cbc, kind, op, outcome, values, alive, done, done0,
                   success_, notified, result>>

\* Then paste's callback unlocks and notifies, that of stop the other way.
CbSetDone(i) ==
    /\ cb = "set" /\ cbc = i
    /\ done' = [done EXCEPT ![i] = TRUE]
    /\ Touch(i, "done")
    /\ cb' = IF kind[i] = "paste" THEN "unlock" ELSE "notify"
    /\ UNCHANGED <<running, dht, thread, cbc, kind, op, outcome, values, alive, done0, success_,
                   mtx, notified, result>>

\* The callback is over, or goes on with the step `next'.
Leave(i, over, next) ==
    IF over THEN cb' = "none" /\ cbc' = NoCall /\ op' = [op EXCEPT ![i] = "ended"]
            ELSE cb' = next /\ UNCHANGED <<cbc, op>>

CbUnlock(i) ==
    /\ cb = "unlock" /\ cbc = i
    /\ mtx' = [mtx EXCEPT ![i] = "free"]
    /\ Touch(i, "unlock")
    /\ Leave(i, kind[i] = "stop", "notify")
    /\ UNCHANGED <<running, dht, thread, kind, outcome, values, alive, done, done0, success_,
                   notified, result>>

CbNotify(i) ==
    /\ cb = "notify" /\ cbc = i
    /\ notified' = (notified \/ (app = "sleep" /\ cur = i))
    /\ Touch(i, "notify")
    /\ Leave(i, kind[i] = "paste", "unlock")
    /\ UNCHANGED <<running, dht, thread, kind, outcome, values, frame, result>>

(***************************************************************************)
(* Locking a mutex, or notifying through a condition variable, that was    *)
(* destroyed with its frame: the DHT thread may wait in there for ever.    *)
(***************************************************************************)
CbHangs(i) ==
    /\ cb \in {"lock", "notify"} /\ cbc = i /\ ~alive[i]
    /\ cb' = "hung"
    /\ Touch(i, cb)
    /\ UNCHANGED <<running, dht, thread, cbc, kind, op, outcome, values, frame, notified, result>>

-----------------------------------------------------------------------------
Enters(i) == paste_cb(i) \/ paste(i) \/ get_cb(i) \/ get(i) \/ stop(i)

Proceeds(i) == NotDone(i) \/ Park(i) \/ Wake(i) \/ PasteReturn(i) \/ StopReturn(i) \/ GetReturn(i)

Completes(i) == End(i) \/ Enter(i)

Callback(i) == CbReport(i) \/ CbSetDone(i) \/ CbUnlock(i) \/ CbNotify(i)

Next ==
    \/ run \/ destroy
    \/ \E i \in Call :
         \/ Enters(i) \/ Lock(i) \/ Proceeds(i) \/ SpuriousWake(i)
         \/ Value(i) \/ Completes(i) \/ CbLock(i) \/ CbHangs(i) \/ Callback(i)

Spec == Init /\ [][Next]_vars

(***************************************************************************)
(* Both threads are scheduled; OpenDHT ends every operation it took up     *)
(* while it runs; a mutex that is free again and again is eventually       *)
(* acquired.  Calls, spurious wake-ups and hanging are never forced.       *)
(***************************************************************************)
Fairness ==
    /\ \A i \in Call : WF_vars(Proceeds(i)) /\ SF_vars(Lock(i))
    /\ \A i \in Call : WF_vars(Callback(i)) /\ SF_vars(CbLock(i))
    /\ \A i \in Call : WF_vars(Completes(i))

FairSpec == Spec /\ Fairness

-----------------------------------------------------------------------------
(* Properties *)

TypeOK ==
    /\ running \in BOOLEAN
    /\ dht \in {"down", "up"}
    /\ app \in {"idle", "lock", "check", "park", "sleep", "future", "gone"}
    /\ cur \in Call \cup {NoCall}
    /\ cb \in {"none", "report", "lock", "set", "unlock", "notify", "hung"}
    /\ cbc \in Call \cup {NoCall}
    /\ kind \in [Call -> Kind]
    /\ op \in [Call -> {"none", "pending", "callback", "ended", "dropped"}]
    /\ outcome \in [Call -> {"none", "ok", "failed"}]
    /\ values \in [Call -> 0 .. MaxValues]
    /\ alive \in [Call -> BOOLEAN]
    /\ done \in [Call -> BOOLEAN]
    /\ done0 \in [Call -> BOOLEAN]
    /\ success_ \in [Call -> BOOLEAN]
    /\ mtx \in [Call -> {"free", "app", "dht"}]
    /\ notified \in BOOLEAN
    /\ result \in [Call -> [what : {"none", "true", "false", "blobs"}, n : 0 .. MaxValues]]
    /\ stale \subseteq Call \X Access

(***************************************************************************)
(* A blocking paste that answers true did store its value, whatever the    *)
(* uninitialised `done' held: Bin::paste prints a URI on that answer.      *)
(***************************************************************************)
TrueMeansStored ==
    \A i \in Call : kind[i] = "paste" /\ result[i] = Answer(TRUE) => outcome[i] = "ok"

(***************************************************************************)
(* When `done' happened to start as false, a blocking paste returns only   *)
(* after its put ended, and answers what the DHT reported: success_,       *)
(* written outside the mutex, is never read too early.                     *)
(***************************************************************************)
PasteAnswersOutcome ==
    \A i \in Call :
        kind[i] = "paste" /\ result[i] # None /\ ~done0[i] =>
            /\ outcome[i] # "none"
            /\ result[i] = Answer(outcome[i] = "ok")

(***************************************************************************)
(* When `done' started as false, the one thing a callback can do to the    *)
(* frame of a paste that has returned is its last notification (the waiter *)
(* woke up by itself in between); nothing is locked, read or written there.*)
(***************************************************************************)
FrameOutlivesWrites ==
    \A x \in stale : kind[x[1]] = "paste" /\ ~done0[x[1]] => x[2] = "notify"

\* stop never returns while the shutdown callback can still use its frame:
\* not even the notification, which is given with the mutex held, comes late.
StopFrameOutlivesCallback == \A x \in stale : kind[x[1]] # "stop"

(***************************************************************************)
(* Between two calls running_ says whether the DHT thread runs, over any   *)
(* sequence of run and stop; and no operation of a node that was stopped   *)
(* is left half done.                                                      *)
(***************************************************************************)
RunningIsAccurate ==
    app = "idle" =>
        /\ running <=> dht = "up"
        /\ ~running => \A i \in Call : op[i] # "callback"

\* node.h:88 on paste: "If no callback, the function blocks until pasting on
\* the DHT is done."
PasteBlocksUntilDone ==
    \A i \in Call : kind[i] = "paste" /\ result[i] # None => outcome[i] # "none"

(***************************************************************************)
(* The DHT thread is lost in the frame of a paste that had returned: one   *)
(* whose `done' started as true, or one that woke up by itself just before *)
(* it was notified.                                                        *)
(***************************************************************************)
LostIn(i) ==
    /\ cb = "hung" /\ cbc = i
    /\ kind[i] = "paste" /\ result[i] # None
    /\ done0[i] \/ <<i, "notify">> \in stale
DhtThreadLost == \E i \in Call : LostIn(i)

(***************************************************************************)
(* No call blocks for ever on a running node, unless the DHT thread was    *)
(* lost in a frame that is gone: no notification is lost between the test  *)
(* of `done' and the sleep, and stop, which joins the DHT thread with its  *)
(* mutex held, and the shutdown callback, which takes that mutex, do not   *)
(* wait for each other.                                                    *)
(***************************************************************************)
BlockedCallsReturn ==
    \A i \in Call : (cur = i /\ dht = "up") ~> (cur # i \/ DhtThreadLost)

(***************************************************************************)
(* A call with a callback, made to a running node, is answered through it, *)
(* whatever stop, destroy and other calls do in between, but for the cases *)
(* the code has: the node went first and dropped the operation, it was a   *)
(* get that failed, or the DHT thread was lost in a frame that is gone.    *)
(***************************************************************************)
CallbacksCalled ==
    \A i \in Call :
        (kind[i] \in {"paste_cb", "get_cb"} /\ dht = "up") ~>
            \/ result[i] # None
            \/ op[i] = "dropped"
            \/ kind[i] = "get_cb" /\ outcome[i] = "failed"
            \/ DhtThreadLost

(***************************************************************************)
(* Seen from its caller, with threads, callbacks, mutexes and frames left  *)
(* out, the blocking paste of Node is the PutService.                      *)
(***************************************************************************)
Paste(i) == kind[i] = "paste"

Phase(i) == IF ~Paste(i) THEN "idle" ELSE IF result[i] = None THEN "called" ELSE "returned"
Sure(i) == Paste(i) /\ ~done0[i]
Put(i) ==
    CASE ~Paste(i)                                             -> "none"
      [] Paste(i) /\ outcome[i] # "none"                       -> outcome[i]
      [] Paste(i) /\ outcome[i] = "none" /\ op[i] = "dropped"  -> "lost"
      [] OTHER                                                 -> "open"
ToldCaller(i) == IF Paste(i) THEN result[i].what ELSE "none"

Service == INSTANCE PutService WITH
    phase <- [i \in Call |-> Phase(i)],
    sure <- [i \in Call |-> Sure(i)],
    put <- [i \in Call |-> Put(i)],
    answer <- [i \in Call |-> ToldCaller(i)]

\* Node::paste implements the PutService (node.h:86-96, node.cpp:34-61).
ImplementsPutService == Service!Spec
=============================================================================
