----------------------------- MODULE NodeProofs -----------------------------
(***************************************************************************)
(* Proofs about Node, for any set of calls and any number of values.       *)
(***************************************************************************)
EXTENDS Node, TLAPS

(***************************************************************************)
(* The inductive invariant.  Control ties the two threads' positions to    *)
(* the calls, the frames and the mutexes: a frame is alive exactly while   *)
(* the application thread is in its call, and whoever is at a step that    *)
(* needs the mutex holds it.                                               *)
(***************************************************************************)
AppControl ==
    /\ app \in {"idle", "gone"} <=> cur = NoCall
    /\ app = "future" => kind[cur] = "get"
    /\ app \in {"lock", "check", "park", "sleep"} => kind[cur] \in {"paste", "stop"}
    /\ \A i \in Call : alive[i] <=> cur = i /\ app # "future"
    /\ \A i \in Call : mtx[i] = "app" <=> cur = i /\ app \in {"check", "park"}

CbControl ==
    /\ cb = "none" <=> cbc = NoCall
    /\ cb # "none" => dht = "up" /\ kind[cbc] \in {"paste", "stop"}
    /\ cb = "report" => kind[cbc] = "paste"
    /\ \A i \in Call : op[i] = "callback" <=> cbc = i
    /\ \A i \in Call : mtx[i] = "dht" <=>
          /\ cbc = i
          /\ \/ cb \in {"set", "unlock"}
             \/ cb = "notify" /\ kind[i] = "stop"

CallControl ==
    /\ app # "gone" => (running <=> dht = "up")
    /\ \A i \in Call : kind[i] = "none" <=> op[i] = "none"
    /\ \A i \in Call : kind[i] = "none" => result[i] = None /\ outcome[i] = "none"

(***************************************************************************)
(* What a blocking paste's frame holds, by how far its callback is:        *)
(* success_ is true only for a put that succeeded, and surely so once the  *)
(* callback is past its first step; a `done' that did not start as true is *)
(* set by the callback alone; so a paste that has returned has an answer   *)
(* that is the outcome, and of its callback at most the notification is    *)
(* left.                                                                   *)
(***************************************************************************)
Past(i) == op[i] = "ended" \/ (cbc = i /\ cb \in {"unlock", "notify", "hung"})

PasteInv ==
    \A i \in Call : kind[i] = "paste" =>
        /\ outcome[i] = "none" <=> op[i] \in {"pending", "dropped"}
        /\ success_[i] => outcome[i] = "ok"
        /\ outcome[i] = "ok" /\ ~(cbc = i /\ cb = "report") => success_[i]
        /\ done[i] /\ ~done0[i] => Past(i)
        /\ ~alive[i] /\ ~done0[i] => op[i] = "ended" \/ (cbc = i /\ cb \in {"notify", "hung"})
        /\ ~alive[i] <=> result[i] # None
        /\ result[i] = Answer(TRUE) => outcome[i] = "ok"
        /\ result[i] # None /\ ~done0[i] => result[i] = Answer(outcome[i] = "ok")

\* The frame of stop is there until its callback has ended.
StopInv ==
    \A i \in Call : kind[i] = "stop" =>
        /\ done[i] => op[i] \in {"callback", "ended"}
        /\ ~alive[i] => op[i] = "ended"

\* Where the DHT thread can be lost.
HangInv ==
    cb = "hung" =>
        /\ kind[cbc] = "paste" /\ ~alive[cbc]
        /\ done0[cbc] \/ <<cbc, "notify">> \in stale

\* A callback that comes too late is that of a paste, and, unless `done' was
\* true from the start, has only its notification left.
StaleInv ==
    \A x \in stale : kind[x[1]] = "paste" /\ (~done0[x[1]] => x[2] = "notify")

IInv ==
    /\ TypeOK /\ AppControl /\ CbControl /\ CallControl
    /\ PasteInv /\ StopInv /\ HangInv /\ StaleInv

-----------------------------------------------------------------------------
(* Type correctness *)

\* TypeOK is inductive by itself: every action keeps every variable in its type.
LEMMA TypeStep == TypeOK /\ [Next]_vars => TypeOK'
<1> SUFFICES ASSUME TypeOK, [Next]_vars PROVE TypeOK'
  OBVIOUS
<1> USE NodeAssumption DEF TypeOK, None, Blobs, Answer, Kind, Access, thread, frame,
           Returns, Unwinds, Dropped, predicate, success_initial, blobs_filled, Told
<1>1. CASE run
  BY <1>1 DEF run
<1>2. ASSUME NEW i \in Call, paste_cb(i) PROVE TypeOK'
  BY <1>2 DEF paste_cb, Post
<1>3. ASSUME NEW i \in Call, paste(i) PROVE TypeOK'
  BY <1>3 DEF paste, Post
<1>4. ASSUME NEW i \in Call, get_cb(i) PROVE TypeOK'
  BY <1>4 DEF get_cb, Post
<1>5. ASSUME NEW i \in Call, get(i) PROVE TypeOK'
  BY <1>5 DEF get, Post
<1>6. ASSUME NEW i \in Call, stop(i) PROVE TypeOK'
  BY <1>6 DEF stop, Post
<1>7. ASSUME NEW i \in Call, Lock(i) PROVE TypeOK'
  BY <1>7 DEF Lock
<1>8. ASSUME NEW i \in Call, NotDone(i) PROVE TypeOK'
  BY <1>8 DEF NotDone
<1>9. ASSUME NEW i \in Call, Park(i) PROVE TypeOK'
  BY <1>9 DEF Park
<1>10. ASSUME NEW i \in Call, Wake(i) PROVE TypeOK'
  BY <1>10 DEF Wake
<1>11. ASSUME NEW i \in Call, PasteReturn(i) PROVE TypeOK'
  BY <1>11 DEF PasteReturn
<1>12. ASSUME NEW i \in Call, StopReturn(i) PROVE TypeOK'
  BY <1>12 DEF StopReturn
<1>13. ASSUME NEW i \in Call, GetReturn(i) PROVE TypeOK'
  BY <1>13 DEF GetReturn
<1>14. ASSUME NEW i \in Call, SpuriousWake(i) PROVE TypeOK'
  BY <1>14 DEF SpuriousWake
<1>15. ASSUME NEW i \in Call, Value(i) PROVE TypeOK'
  BY <1>15 DEF Value, Ready
<1>16. ASSUME NEW i \in Call, End(i) PROVE TypeOK'
  BY <1>16 DEF End, Ready
<1>17. ASSUME NEW i \in Call, Enter(i) PROVE TypeOK'
  BY <1>17 DEF Enter, Ready
<1>18. ASSUME NEW i \in Call, CbReport(i) PROVE TypeOK'
  <2>1. CASE outcome[i] = "ok"
    <3>1. stale' \subseteq Call \X Access
      BY <1>18, <2>1 DEF CbReport, Touch
    <3>2. success_' \in [Call -> BOOLEAN]
      BY <1>18, <2>1 DEF CbReport
    <3>3. QED
      BY <1>18, <3>1, <3>2 DEF CbReport
  <2>2. CASE outcome[i] # "ok"
    BY <1>18, <2>2 DEF CbReport
  <2>3. QED
    BY <2>1, <2>2
<1>19. ASSUME NEW i \in Call, CbLock(i) PROVE TypeOK'
  BY <1>19 DEF CbLock, Touch
<1>20. ASSUME NEW i \in Call, CbSetDone(i) PROVE TypeOK'
  BY <1>20 DEF CbSetDone, Touch
<1>21. ASSUME NEW i \in Call, CbUnlock(i) PROVE TypeOK'
  BY <1>21 DEF CbUnlock, Touch, Leave
<1>22. ASSUME NEW i \in Call, CbNotify(i) PROVE TypeOK'
  BY <1>22 DEF CbNotify, Touch, Leave
<1>23. CASE destroy
  BY <1>23 DEF destroy
<1>24. CASE UNCHANGED vars
  BY <1>24 DEF vars
<1>25. ASSUME NEW i \in Call, CbHangs(i) PROVE TypeOK'
  BY <1>25 DEF CbHangs, Touch
<1>26. QED
  BY <1>1, <1>2, <1>3, <1>4, <1>5, <1>6, <1>7, <1>8, <1>9, <1>10, <1>11, <1>12, <1>13, <1>14, <1>15, <1>16, <1>17, <1>18, <1>19, <1>20, <1>21, <1>22, <1>23, <1>24, <1>25 DEF Next, Enters, Proceeds, Completes, Callback

-----------------------------------------------------------------------------
(* The inductive invariant *)

\* Every action preserves every part of the invariant.
LEMMA InvStep == IInv /\ [Next]_vars => IInv'
<1> SUFFICES ASSUME IInv, [Next]_vars PROVE IInv'
  OBVIOUS
<1>0. TypeOK /\ TypeOK'
  BY TypeStep DEF IInv
<1> USE NodeAssumption, <1>0 DEF IInv, None, Blobs, Answer, thread, frame, TypeOK, Kind, Access,
           Returns, Unwinds, Dropped, predicate, success_initial, blobs_filled, Told
<1>1. CASE run
  BY <1>1 DEF run, AppControl, CbControl, CallControl, PasteInv, StopInv, HangInv, StaleInv, Past
<1>2. ASSUME NEW i \in Call, paste_cb(i) PROVE IInv'
  <2>1. AppControl'
    BY <1>2 DEF paste_cb, Post, AppControl, CbControl
  <2>2. CbControl'
    BY <1>2 DEF paste_cb, Post, AppControl, CbControl, CallControl, PasteInv
  <2>3. CallControl'
    BY <1>2 DEF paste_cb, Post, CallControl, CbControl
  <2>4. PasteInv'
    BY <1>2 DEF paste_cb, Post, AppControl, CbControl, CallControl, PasteInv, Past
  <2>5. StopInv'
    BY <1>2 DEF paste_cb, Post, AppControl, CbControl, CallControl, StopInv
  <2>6. HangInv'
    BY <1>2 DEF paste_cb, Post, AppControl, CbControl, CallControl, HangInv
  <2>7. StaleInv'
    BY <1>2 DEF paste_cb, Post, AppControl, CbControl, CallControl, PasteInv, StopInv, StaleInv
  <2>8. QED
    BY <2>1, <2>2, <2>3, <2>4, <2>5, <2>6, <2>7
<1>3. ASSUME NEW i \in Call, paste(i) PROVE IInv'
  <2>1. AppControl'
    BY <1>3 DEF paste, Post, AppControl, CbControl
  <2>2. CbControl'
    BY <1>3 DEF paste, Post, AppControl, CbControl, CallControl, PasteInv
  <2>3. CallControl'
    BY <1>3 DEF paste, Post, CallControl, CbControl
  <2>4. PasteInv'
    BY <1>3 DEF paste, Post, AppControl, CbControl, CallControl, PasteInv, Past
  <2>5. StopInv'
    BY <1>3 DEF paste, Post, AppControl, CbControl, CallControl, StopInv
  <2>6. HangInv'
    BY <1>3 DEF paste, Post, AppControl, CbControl, CallControl, HangInv
  <2>7. StaleInv'
    BY <1>3 DEF paste, Post, AppControl, CbControl, CallControl, PasteInv, StopInv, StaleInv
  <2>8. QED
    BY <2>1, <2>2, <2>3, <2>4, <2>5, <2>6, <2>7
<1>4. ASSUME NEW i \in Call, get_cb(i) PROVE IInv'
  <2>1. AppControl'
    BY <1>4 DEF get_cb, Post, AppControl, CbControl
  <2>2. CbControl'
    BY <1>4 DEF get_cb, Post, AppControl, CbControl, CallControl, PasteInv
  <2>3. CallControl'
    BY <1>4 DEF get_cb, Post, CallControl, CbControl
  <2>4. PasteInv'
    BY <1>4 DEF get_cb, Post, AppControl, CbControl, CallControl, PasteInv, Past
  <2>5. StopInv'
    BY <1>4 DEF get_cb, Post, AppControl, CbControl, CallControl, StopInv
  <2>6. HangInv'
    BY <1>4 DEF get_cb, Post, AppControl, CbControl, CallControl, HangInv
  <2>7. StaleInv'
    BY <1>4 DEF get_cb, Post, AppControl, CbControl, CallControl, PasteInv, StopInv, StaleInv
  <2>8. QED
    BY <2>1, <2>2, <2>3, <2>4, <2>5, <2>6, <2>7
<1>5. ASSUME NEW i \in Call, get(i) PROVE IInv'
  <2>1. AppControl'
    BY <1>5 DEF get, Post, AppControl, CbControl
  <2>2. CbControl'
    BY <1>5 DEF get, Post, AppControl, CbControl, CallControl, PasteInv
  <2>3. CallControl'
    BY <1>5 DEF get, Post, CallControl, CbControl
  <2>4. PasteInv'
    BY <1>5 DEF get, Post, AppControl, CbControl, CallControl, PasteInv, Past
  <2>5. StopInv'
    BY <1>5 DEF get, Post, AppControl, CbControl, CallControl, StopInv
  <2>6. HangInv'
    BY <1>5 DEF get, Post, AppControl, CbControl, CallControl, HangInv
  <2>7. StaleInv'
    BY <1>5 DEF get, Post, AppControl, CbControl, CallControl, PasteInv, StopInv, StaleInv
  <2>8. QED
    BY <2>1, <2>2, <2>3, <2>4, <2>5, <2>6, <2>7
<1>6. ASSUME NEW i \in Call, stop(i) PROVE IInv'
  <2>1. AppControl'
    BY <1>6 DEF stop, Post, AppControl, CbControl
  <2>2. CbControl'
    BY <1>6 DEF stop, Post, AppControl, CbControl, CallControl, PasteInv
  <2>3. CallControl'
    BY <1>6 DEF stop, Post, CallControl, CbControl
  <2>4. PasteInv'
    BY <1>6 DEF stop, Post, AppControl, CbControl, CallControl, PasteInv, Past
  <2>5. StopInv'
    BY <1>6 DEF stop, Post, AppControl, CbControl, CallControl, StopInv
  <2>6. HangInv'
    BY <1>6 DEF stop, Post, AppControl, CbControl, CallControl, HangInv
  <2>7. StaleInv'
    BY <1>6 DEF stop, Post, AppControl, CbControl, CallControl, PasteInv, StopInv, StaleInv
  <2>8. QED
    BY <2>1, <2>2, <2>3, <2>4, <2>5, <2>6, <2>7
<1>7. ASSUME NEW i \in Call, Lock(i) PROVE IInv'
  <2>1. AppControl'
    BY <1>7 DEF Lock, AppControl, CbControl
  <2>2. CbControl'
    BY <1>7 DEF Lock, AppControl, CbControl, CallControl, PasteInv
  <2>3. CallControl'
    BY <1>7 DEF Lock, CallControl, CbControl
  <2>4. PasteInv'
    BY <1>7 DEF Lock, AppControl, CbControl, CallControl, PasteInv, Past
  <2>5. StopInv'
    BY <1>7 DEF Lock, AppControl, CbControl, CallControl, StopInv
  <2>6. HangInv'
    BY <1>7 DEF Lock, AppControl, CbControl, CallControl, HangInv
  <2>7. StaleInv'
    BY <1>7 DEF Lock, AppControl, CbControl, CallControl, PasteInv, StopInv, StaleInv
  <2>8. QED
    BY <2>1, <2>2, <2>3, <2>4, <2>5, <2>6, <2>7
<1>8. ASSUME NEW i \in Call, NotDone(i) PROVE IInv'
  <2>1. AppControl'
    BY <1>8 DEF NotDone, AppControl, CbControl
  <2>2. CbControl'
    BY <1>8 DEF NotDone, AppControl, CbControl, CallControl, PasteInv
  <2>3. CallControl'
    BY <1>8 DEF NotDone, CallControl, CbControl
  <2>4. PasteInv'
    BY <1>8 DEF NotDone, AppControl, CbControl, CallControl, PasteInv, Past
  <2>5. StopInv'
    BY <1>8 DEF NotDone, AppControl, CbControl, CallControl, StopInv
  <2>6. HangInv'
    BY <1>8 DEF NotDone, AppControl, CbControl, CallControl, HangInv
  <2>7. StaleInv'
    BY <1>8 DEF NotDone, AppControl, CbControl, CallControl, PasteInv, StopInv, StaleInv
  <2>8. QED
    BY <2>1, <2>2, <2>3, <2>4, <2>5, <2>6, <2>7
<1>9. ASSUME NEW i \in Call, Park(i) PROVE IInv'
  <2>1. AppControl'
    BY <1>9 DEF Park, AppControl, CbControl
  <2>2. CbControl'
    BY <1>9 DEF Park, AppControl, CbControl, CallControl, PasteInv
  <2>3. CallControl'
    BY <1>9 DEF Park, CallControl, CbControl
  <2>4. PasteInv'
    BY <1>9 DEF Park, AppControl, CbControl, CallControl, PasteInv, Past
  <2>5. StopInv'
    BY <1>9 DEF Park, AppControl, CbControl, CallControl, StopInv
  <2>6. HangInv'
    BY <1>9 DEF Park, AppControl, CbControl, CallControl, HangInv
  <2>7. StaleInv'
    BY <1>9 DEF Park, AppControl, CbControl, CallControl, PasteInv, StopInv, StaleInv
  <2>8. QED
    BY <2>1, <2>2, <2>3, <2>4, <2>5, <2>6, <2>7
<1>10. ASSUME NEW i \in Call, Wake(i) PROVE IInv'
  <2>1. AppControl'
    BY <1>10 DEF Wake, AppControl, CbControl
  <2>2. CbControl'
    BY <1>10 DEF Wake, AppControl, CbControl, CallControl, PasteInv
  <2>3. CallControl'
    BY <1>10 DEF Wake, CallControl, CbControl
  <2>4. PasteInv'
    BY <1>10 DEF Wake, AppControl, CbControl, CallControl, PasteInv, Past
  <2>5. StopInv'
    BY <1>10 DEF Wake, AppControl, CbControl, CallControl, StopInv
  <2>6. HangInv'
    BY <1>10 DEF Wake, AppControl, CbControl, CallControl, HangInv
  <2>7. StaleInv'
    BY <1>10 DEF Wake, AppControl, CbControl, CallControl, PasteInv, StopInv, StaleInv
  <2>8. QED
    BY <2>1, <2>2, <2>3, <2>4, <2>5, <2>6, <2>7
<1>11. ASSUME NEW i \in Call, PasteReturn(i) PROVE IInv'
  <2>1. AppControl'
    BY <1>11 DEF PasteReturn, AppControl, CbControl
  <2>2. CbControl'
    BY <1>11 DEF PasteReturn, AppControl, CbControl, CallControl, PasteInv
  <2>3. CallControl'
    BY <1>11 DEF PasteReturn, CallControl, CbControl
  <2>4. PasteInv'
    BY <1>11 DEF PasteReturn, AppControl, CbControl, CallControl, PasteInv, Past
  <2>5. StopInv'
    BY <1>11 DEF PasteReturn, AppControl, CbControl, CallControl, StopInv
  <2>6. HangInv'
    BY <1>11 DEF PasteReturn, AppControl, CbControl, CallControl, HangInv
  <2>7. StaleInv'
    BY <1>11 DEF PasteReturn, AppControl, CbControl, CallControl, PasteInv, StopInv, StaleInv
  <2>8. QED
    BY <2>1, <2>2, <2>3, <2>4, <2>5, <2>6, <2>7
<1>12. ASSUME NEW i \in Call, StopReturn(i) PROVE IInv'
  <2>1. AppControl'
    BY <1>12 DEF StopReturn, AppControl, CbControl
  <2>2. CbControl'
    BY <1>12 DEF StopReturn, AppControl, CbControl, CallControl, PasteInv
  <2>3. CallControl'
    BY <1>12 DEF StopReturn, CallControl, CbControl
  <2>4. PasteInv'
    BY <1>12 DEF StopReturn, AppControl, CbControl, CallControl, PasteInv, Past
  <2>5. StopInv'
    BY <1>12 DEF StopReturn, AppControl, CbControl, CallControl, StopInv
  <2>6. HangInv'
    BY <1>12 DEF StopReturn, AppControl, CbControl, CallControl, HangInv
  <2>7. StaleInv'
    BY <1>12 DEF StopReturn, AppControl, CbControl, CallControl, PasteInv, StopInv, StaleInv
  <2>8. QED
    BY <2>1, <2>2, <2>3, <2>4, <2>5, <2>6, <2>7
<1>13. ASSUME NEW i \in Call, GetReturn(i) PROVE IInv'
  <2>1. AppControl'
    BY <1>13 DEF GetReturn, AppControl, CbControl
  <2>2. CbControl'
    BY <1>13 DEF GetReturn, AppControl, CbControl, CallControl, PasteInv
  <2>3. CallControl'
    BY <1>13 DEF GetReturn, CallControl, CbControl
  <2>4. PasteInv'
    BY <1>13 DEF GetReturn, AppControl, CbControl, CallControl, PasteInv, Past
  <2>5. StopInv'
    BY <1>13 DEF GetReturn, AppControl, CbControl, CallControl, StopInv
  <2>6. HangInv'
    BY <1>13 DEF GetReturn, AppControl, CbControl, CallControl, HangInv
  <2>7. StaleInv'
    BY <1>13 DEF GetReturn, AppControl, CbControl, CallControl, PasteInv, StopInv, StaleInv
  <2>8. QED
    BY <2>1, <2>2, <2>3, <2>4, <2>5, <2>6, <2>7
<1>14. ASSUME NEW i \in Call, SpuriousWake(i) PROVE IInv'
  <2>1. AppControl'
    BY <1>14 DEF SpuriousWake, AppControl, CbControl
  <2>2. CbControl'
    BY <1>14 DEF SpuriousWake, AppControl, CbControl, CallControl, PasteInv
  <2>3. CallControl'
    BY <1>14 DEF SpuriousWake, CallControl, CbControl
  <2>4. PasteInv'
    BY <1>14 DEF SpuriousWake, AppControl, CbControl, CallControl, PasteInv, Past
  <2>5. StopInv'
    BY <1>14 DEF SpuriousWake, AppControl, CbControl, CallControl, StopInv
  <2>6. HangInv'
    BY <1>14 DEF SpuriousWake, AppControl, CbControl, CallControl, HangInv
  <2>7. StaleInv'
    BY <1>14 DEF SpuriousWake, AppControl, CbControl, CallControl, PasteInv, StopInv, StaleInv
  <2>8. QED
    BY <2>1, <2>2, <2>3, <2>4, <2>5, <2>6, <2>7
<1>15. ASSUME NEW i \in Call, Value(i) PROVE IInv'
  <2>1. AppControl'
    BY <1>15 DEF Value, Ready, AppControl, CbControl
  <2>2. CbControl'
    BY <1>15 DEF Value, Ready, AppControl, CbControl, CallControl, PasteInv
  <2>3. CallControl'
    BY <1>15 DEF Value, Ready, CallControl, CbControl
  <2>4. PasteInv'
    BY <1>15 DEF Value, Ready, AppControl, CbControl, CallControl, PasteInv, Past
  <2>5. StopInv'
    BY <1>15 DEF Value, Ready, AppControl, CbControl, CallControl, StopInv
  <2>6. HangInv'
    BY <1>15 DEF Value, Ready, AppControl, CbControl, CallControl, HangInv
  <2>7. StaleInv'
    BY <1>15 DEF Value, Ready, AppControl, CbControl, CallControl, PasteInv, StopInv, StaleInv
  <2>8. QED
    BY <2>1, <2>2, <2>3, <2>4, <2>5, <2>6, <2>7
<1>16. ASSUME NEW i \in Call, End(i) PROVE IInv'
  <2>1. AppControl'
    BY <1>16 DEF End, Ready, AppControl, CbControl
  <2>2. CbControl'
    BY <1>16 DEF End, Ready, AppControl, CbControl, CallControl, PasteInv
  <2>3. CallControl'
    BY <1>16 DEF End, Ready, CallControl, CbControl
  <2>4. PasteInv'
    BY <1>16 DEF End, Ready, AppControl, CbControl, CallControl, PasteInv, Past
  <2>5. StopInv'
    BY <1>16 DEF End, Ready, AppControl, CbControl, CallControl, StopInv
  <2>6. HangInv'
    BY <1>16 DEF End, Ready, AppControl, CbControl, CallControl, HangInv
  <2>7. StaleInv'
    BY <1>16 DEF End, Ready, AppControl, CbControl, CallControl, PasteInv, StopInv, StaleInv
  <2>8. QED
    BY <2>1, <2>2, <2>3, <2>4, <2>5, <2>6, <2>7
<1>17. ASSUME NEW i \in Call, Enter(i) PROVE IInv'
  <2>1. AppControl'
    BY <1>17 DEF Enter, Ready, AppControl, CbControl
  <2>2. CbControl'
    BY <1>17 DEF Enter, Ready, AppControl, CbControl, CallControl, PasteInv
  <2>3. CallControl'
    BY <1>17 DEF Enter, Ready, CallControl, CbControl
  <2>4. PasteInv'
    BY <1>17 DEF Enter, Ready, AppControl, CbControl, CallControl, PasteInv, Past
  <2>5. StopInv'
    BY <1>17 DEF Enter, Ready, AppControl, CbControl, CallControl, StopInv
  <2>6. HangInv'
    BY <1>17 DEF Enter, Ready, AppControl, CbControl, CallControl, HangInv
  <2>7. StaleInv'
    BY <1>17 DEF Enter, Ready, AppControl, CbControl, CallControl, PasteInv, StopInv, StaleInv
  <2>8. QED
    BY <2>1, <2>2, <2>3, <2>4, <2>5, <2>6, <2>7
<1>18. ASSUME NEW i \in Call, CbReport(i) PROVE IInv'
  <2>1. AppControl'
    BY <1>18 DEF CbReport, Touch, AppControl, CbControl
  <2>2. CbControl'
    BY <1>18 DEF CbReport, Touch, AppControl, CbControl, CallControl, PasteInv
  <2>3. CallControl'
    BY <1>18 DEF CbReport, Touch, CallControl, CbControl
  <2>4. PasteInv'
    BY <1>18 DEF CbReport, Touch, AppControl, CbControl, CallControl, PasteInv, Past
  <2>5. StopInv'
    BY <1>18 DEF CbReport, Touch, AppControl, CbControl, CallControl, StopInv
  <2>6. HangInv'
    BY <1>18 DEF CbReport, Touch, AppControl, CbControl, CallControl, HangInv
  <2>7. StaleInv'
    BY <1>18 DEF CbReport, Touch, AppControl, CbControl, CallControl, PasteInv, StopInv, StaleInv
  <2>8. QED
    BY <2>1, <2>2, <2>3, <2>4, <2>5, <2>6, <2>7
<1>19. ASSUME NEW i \in Call, CbLock(i) PROVE IInv'
  <2>1. AppControl'
    BY <1>19 DEF CbLock, Touch, AppControl, CbControl
  <2>2. CbControl'
    BY <1>19 DEF CbLock, Touch, AppControl, CbControl, CallControl, PasteInv
  <2>3. CallControl'
    BY <1>19 DEF CbLock, Touch, CallControl, CbControl
  <2>4. PasteInv'
    BY <1>19 DEF CbLock, Touch, AppControl, CbControl, CallControl, PasteInv, Past
  <2>5. StopInv'
    BY <1>19 DEF CbLock, Touch, AppControl, CbControl, CallControl, StopInv
  <2>6. HangInv'
    BY <1>19 DEF CbLock, Touch, AppControl, CbControl, CallControl, HangInv
  <2>7. StaleInv'
    BY <1>19 DEF CbLock, Touch, AppControl, CbControl, CallControl, PasteInv, StopInv, StaleInv
  <2>8. QED
    BY <2>1, <2>2, <2>3, <2>4, <2>5, <2>6, <2>7
<1>20. ASSUME NEW i \in Call, CbSetDone(i) PROVE IInv'
  <2>1. AppControl'
    BY <1>20 DEF CbSetDone, Touch, AppControl, CbControl
  <2>2. CbControl'
    BY <1>20 DEF CbSetDone, Touch, AppControl, CbControl, CallControl, PasteInv
  <2>3. CallControl'
    BY <1>20 DEF CbSetDone, Touch, CallControl, CbControl
  <2>4. PasteInv'
    BY <1>20 DEF CbSetDone, Touch, AppControl, CbControl, CallControl, PasteInv, Past
  <2>5. StopInv'
    BY <1>20 DEF CbSetDone, Touch, AppControl, CbControl, CallControl, StopInv
  <2>6. HangInv'
    BY <1>20 DEF CbSetDone, Touch, AppControl, CbControl, CallControl, HangInv
  <2>7. StaleInv'
    BY <1>20 DEF CbSetDone, Touch, AppControl, CbControl, CallControl, PasteInv, StopInv, StaleInv
  <2>8. QED
    BY <2>1, <2>2, <2>3, <2>4, <2>5, <2>6, <2>7
<1>21. ASSUME NEW i \in Call, CbUnlock(i) PROVE IInv'
  <2>1. AppControl'
    BY <1>21 DEF CbUnlock, Touch, Leave, AppControl, CbControl
  <2>2. CbControl'
    <3>1. CASE kind[i] = "stop"
      <4>1. cb' = "none" /\ cbc' = NoCall /\ dht' = dht /\ kind' = kind
        BY <1>21, <3>1 DEF CbUnlock, Leave
      <4>2. \A j \in Call : op'[j] # "callback"
        BY <1>21, <3>1 DEF CbUnlock, Leave, CbControl
      <4>3. \A j \in Call : mtx'[j] # "dht"
        BY <1>21, <3>1 DEF CbUnlock, CbControl
      <4>4. QED
        BY <4>1, <4>2, <4>3 DEF CbControl
    <3>2. CASE kind[i] # "stop"
      BY <1>21, <3>2 DEF CbUnlock, Leave, CbControl
    <3>3. QED
      BY <3>1, <3>2
  <2>3. CallControl'
    BY <1>21 DEF CbUnlock, Touch, Leave, CallControl, CbControl
  <2>4. PasteInv'
    BY <1>21 DEF CbUnlock, Touch, Leave, AppControl, CbControl, CallControl, PasteInv, Past
  <2>5. StopInv'
    BY <1>21 DEF CbUnlock, Touch, Leave, AppControl, CbControl, CallControl, StopInv
  <2>6. HangInv'
    BY <1>21 DEF CbUnlock, Touch, Leave, AppControl, CbControl, CallControl, HangInv
  <2>7. StaleInv'
    BY <1>21 DEF CbUnlock, Touch, Leave, AppControl, CbControl, CallControl, PasteInv, StopInv, StaleInv
  <2>8. QED
    BY <2>1, <2>2, <2>3, <2>4, <2>5, <2>6, <2>7
<1>22. ASSUME NEW i \in Call, CbNotify(i) PROVE IInv'
  <2>1. AppControl'
    BY <1>22 DEF CbNotify, Touch, Leave, AppControl, CbControl
  <2>2. CbControl'
    <3>1. CASE kind[i] = "paste"
      BY <1>22, <3>1 DEF CbNotify, Leave, CbControl
    <3>2. CASE kind[i] # "paste"
      BY <1>22, <3>2 DEF CbNotify, Leave, CbControl
    <3>3. QED
      BY <3>1, <3>2
  <2>3. CallControl'
    BY <1>22 DEF CbNotify, Touch, Leave, CallControl, CbControl
  <2>4. PasteInv'
    BY <1>22 DEF CbNotify, Touch, Leave, AppControl, CbControl, CallControl, PasteInv, Past
  <2>5. StopInv'
    BY <1>22 DEF CbNotify, Touch, Leave, AppControl, CbControl, CallControl, StopInv
  <2>6. HangInv'
    BY <1>22 DEF CbNotify, Touch, Leave, AppControl, CbControl, CallControl, HangInv
  <2>7. StaleInv'
    BY <1>22 DEF CbNotify, Touch, Leave, AppControl, CbControl, CallControl, PasteInv, StopInv, StaleInv
  <2>8. QED
    BY <2>1, <2>2, <2>3, <2>4, <2>5, <2>6, <2>7
<1>23. CASE destroy
  <2>1. AppControl'
    BY <1>23 DEF destroy, AppControl, CbControl
  <2>2. CbControl'
    BY <1>23 DEF destroy, AppControl, CbControl, CallControl, PasteInv
  <2>3. CallControl'
    BY <1>23 DEF destroy, CallControl, CbControl
  <2>4. PasteInv'
    BY <1>23 DEF destroy, AppControl, CbControl, CallControl, PasteInv, Past
  <2>5. StopInv'
    BY <1>23 DEF destroy, AppControl, CbControl, CallControl, StopInv
  <2>6. HangInv'
    BY <1>23 DEF destroy, AppControl, CbControl, CallControl, HangInv
  <2>7. StaleInv'
    BY <1>23 DEF destroy, AppControl, CbControl, CallControl, PasteInv, StopInv, StaleInv
  <2>8. QED
    BY <2>1, <2>2, <2>3, <2>4, <2>5, <2>6, <2>7
<1>24. CASE UNCHANGED vars
  BY <1>24 DEF vars, AppControl, CbControl, CallControl, PasteInv, StopInv, HangInv, StaleInv, Past
<1>25. ASSUME NEW i \in Call, CbHangs(i) PROVE IInv'
  <2>0. kind[i] = "paste" /\ (done0[i] \/ cb = "notify")
    BY <1>25 DEF CbHangs, CbControl, PasteInv, StopInv
  <2>1. AppControl'
    BY <1>25 DEF CbHangs, Touch, AppControl, CbControl
  <2>2. CbControl'
    BY <1>25, <2>0 DEF CbHangs, Touch, CbControl
  <2>3. CallControl'
    BY <1>25 DEF CbHangs, Touch, CallControl, CbControl
  <2>4. PasteInv'
    BY <1>25 DEF CbHangs, Touch, AppControl, CbControl, CallControl, PasteInv, Past
  <2>5. StopInv'
    BY <1>25 DEF CbHangs, Touch, AppControl, CbControl, CallControl, StopInv
  <2>6. HangInv'
    BY <1>25, <2>0 DEF CbHangs, Touch, HangInv
  <2>7. StaleInv'
    BY <1>25, <2>0 DEF CbHangs, Touch, StaleInv
  <2>8. QED
    BY <2>1, <2>2, <2>3, <2>4, <2>5, <2>6, <2>7
<1>26. QED
  BY <1>1, <1>2, <1>3, <1>4, <1>5, <1>6, <1>7, <1>8, <1>9, <1>10, <1>11, <1>12, <1>13, <1>14, <1>15, <1>16, <1>17, <1>18, <1>19, <1>20, <1>21, <1>22, <1>23, <1>24, <1>25 DEF Next, Enters, Proceeds, Completes, Callback

\* The invariant holds of every reachable state.
THEOREM InductiveInvariant == Spec => []IInv
<1>1. Init => IInv
  <2> SUFFICES ASSUME Init PROVE IInv
    OBVIOUS
  <2> USE NodeAssumption DEF Init, None
  <2>1. TypeOK
    <3>1. values \in [Call -> 0 .. MaxValues]
      OBVIOUS
    <3>2. None \in [what : {"none", "true", "false", "blobs"}, n : 0 .. MaxValues]
      OBVIOUS
    <3>3. stale \subseteq Call \X Access
      OBVIOUS
    <3>4. QED
      BY <3>1, <3>2, <3>3, Zenon DEF TypeOK, Kind
  <2>2. AppControl /\ CbControl /\ CallControl
    BY DEF AppControl, CbControl, CallControl
  <2>3. PasteInv /\ StopInv /\ HangInv /\ StaleInv
    BY DEF PasteInv, StopInv, HangInv, StaleInv
  <2>4. QED
    BY <2>1, <2>2, <2>3 DEF IInv
<1>2. QED
  BY <1>1, InvStep, PTL DEF Spec

-----------------------------------------------------------------------------
(* The properties *)

\* The variables of Node keep their types.
THEOREM TypeCorrect == Spec => []TypeOK
<1>1. IInv => TypeOK
  BY DEF IInv
<1>2. QED
  BY <1>1, InductiveInvariant, PTL

\* A blocking paste that answers true stored its value (node.cpp:59).
THEOREM TrueMeansStoredThm == Spec => []TrueMeansStored
<1>1. IInv => TrueMeansStored
  BY DEF IInv, PasteInv, TrueMeansStored
<1>2. QED
  BY <1>1, InductiveInvariant, PTL

\* A blocking paste whose `done' did not start as true waits for its put and
\* answers the outcome of it (node.cpp:43-59).
THEOREM PasteAnswersOutcomeThm == Spec => []PasteAnswersOutcome
<1>1. IInv => PasteAnswersOutcome
  BY DEF IInv, AppControl, CbControl, PasteInv, PasteAnswersOutcome
<1>2. QED
  BY <1>1, InductiveInvariant, PTL

\* Of the frame of a paste that has returned, its callback uses at most the
\* condition variable, unless `done' started as true (node.cpp:47-57).
THEOREM FrameOutlivesWritesThm == Spec => []FrameOutlivesWrites
<1>1. IInv => FrameOutlivesWrites
  BY DEF IInv, StaleInv, FrameOutlivesWrites
<1>2. QED
  BY <1>1, InductiveInvariant, PTL

\* The frame of stop outlives the shutdown callback (node.h:67-85).
THEOREM StopFrameOutlivesCallbackThm == Spec => []StopFrameOutlivesCallback
<1>1. IInv => StopFrameOutlivesCallback
  BY DEF IInv, StaleInv, StopFrameOutlivesCallback
<1>2. QED
  BY <1>1, InductiveInvariant, PTL

\* Between calls running_ tells whether the DHT thread runs (node.h:59-85).
THEOREM RunningIsAccurateThm == Spec => []RunningIsAccurate
<1>1. IInv => RunningIsAccurate
  BY NodeAssumption DEF IInv, CallControl, CbControl, RunningIsAccurate
<1>2. QED
  BY <1>1, InductiveInvariant, PTL

\* The DHT thread is lost only in the frame of a paste that has returned, and
\* then because `done' started as true or the waiter woke up by itself before it
\* was notified (node.cpp:46, 52-58).
THEOREM LostOnlyInReturnedFrames == Spec => [](cb = "hung" => DhtThreadLost)
<1>1. IInv => (cb = "hung" => DhtThreadLost)
  BY NodeAssumption DEF IInv, TypeOK, CbControl, PasteInv, HangInv, DhtThreadLost, LostIn
<1>2. QED
  BY <1>1, InductiveInvariant, PTL

-----------------------------------------------------------------------------
(* Node::paste implements the PutService *)

\* The part of the mapping that belongs to call i does not change.
Same(i) ==
    /\ Phase(i)' = Phase(i) /\ Sure(i)' = Sure(i)
    /\ Put(i)' = Put(i) /\ ToldCaller(i)' = ToldCaller(i)

\* Steps of the PutService, told call by call.
LEMMA ServiceStutters ==
    ASSUME \A j \in Call : Same(j)
    PROVE  UNCHANGED Service!vars
  BY DEF Same, Service!vars

LEMMA ServiceRequest ==
    ASSUME NEW i \in Call, \A j \in Call \ {i} : Same(j),
           Phase(i) = "idle", Phase(i)' = "called", Put(i)' = "open", ToldCaller(i)' = ToldCaller(i)
    PROVE  Service!Request(i)
<1>1. PICK s \in BOOLEAN : Sure(i)' = s
  BY DEF Sure
<1>2. [j \in Call |-> Sure(j)]' = [[j \in Call |-> Sure(j)] EXCEPT ![i] = s]
  BY <1>1 DEF Same
<1>3. QED
  BY <1>2 DEF Same, Service!Request

LEMMA ServiceDecide ==
    ASSUME NEW i \in Call, \A j \in Call \ {i} : Same(j),
           Put(i) = "open", Put(i)' \in {"ok", "failed"},
           Phase(i)' = Phase(i), Sure(i)' = Sure(i), ToldCaller(i)' = ToldCaller(i)
    PROVE  Service!Decide(i)
  BY DEF Same, Service!Decide

LEMMA ServiceReturn ==
    ASSUME NEW i \in Call, \A j \in Call \ {i} : Same(j),
           Phase(i) = "called", Phase(i)' = "returned", Sure(i)' = Sure(i), Put(i)' = Put(i),
           Sure(i) => Put(i) \in {"ok", "failed"} /\ ToldCaller(i)' = IF Put(i) = "ok" THEN "true" ELSE "false",
           ~Sure(i) => ToldCaller(i)' = "false" \/ (ToldCaller(i)' = "true" /\ Put(i) = "ok")
    PROVE  Service!Return(i)
<1>1. ToldCaller(i)' \in Service!Allowed(i)
  BY DEF Service!Allowed, Service!Truth
<1>2. QED
  BY <1>1 DEF Same, Service!Return

\* Every step of Node is a step of the PutService or changes nothing in it.
LEMMA PutStep == IInv /\ [Next]_vars => [Service!Next]_(Service!vars)
<1> SUFFICES ASSUME IInv, [Next]_vars PROVE [Service!Next]_(Service!vars)
  OBVIOUS
<1> USE NodeAssumption DEF IInv, TypeOK, thread, frame, Returns, Unwinds
<1>1. ASSUME NEW i \in Call, paste(i) PROVE Service!Request(i)
  <2>1. \A j \in Call \ {i} : Same(j)
    BY <1>1 DEF paste, Post, Same, Phase, Sure, Put, ToldCaller, Paste
  <2>2. Phase(i) = "idle" /\ Phase(i)' = "called" /\ Put(i)' = "open" /\ ToldCaller(i)' = ToldCaller(i)
    BY <1>1 DEF paste, Post, Phase, Put, ToldCaller, Paste, CallControl, None
  <2>3. QED
    BY <2>1, <2>2, ServiceRequest
<1>2. ASSUME NEW i \in Call, Enter(i), kind[i] = "paste" PROVE Service!Decide(i)
  <2>1. \A j \in Call \ {i} : Same(j)
    BY <1>2 DEF Enter, Ready, Same, Phase, Sure, Put, ToldCaller, Paste
  <2>2. /\ Put(i) = "open" /\ Put(i)' \in {"ok", "failed"}
        /\ Phase(i)' = Phase(i) /\ Sure(i)' = Sure(i) /\ ToldCaller(i)' = ToldCaller(i)
    BY <1>2 DEF Enter, Ready, Phase, Sure, Put, ToldCaller, Paste, PasteInv
  <2>3. QED
    BY <2>1, <2>2, ServiceDecide
<1>3. ASSUME NEW i \in Call, PasteReturn(i) PROVE Service!Return(i)
  <2>1. \A j \in Call \ {i} : Same(j)
    BY <1>3 DEF PasteReturn, Same, Phase, Sure, Put, ToldCaller, Paste
  <2>2. /\ Phase(i) = "called" /\ Phase(i)' = "returned" /\ Sure(i)' = Sure(i) /\ Put(i)' = Put(i)
        /\ ToldCaller(i)' = IF success_[i] THEN "true" ELSE "false"
    BY <1>3 DEF PasteReturn, Phase, Sure, Put, ToldCaller, Paste, AppControl, PasteInv, None, Answer
  <2>3. success_[i] => Put(i) = "ok"
    BY <1>3 DEF PasteReturn, Put, Paste, PasteInv
  <2>4. Sure(i) => Put(i) \in {"ok", "failed"} /\ (Put(i) = "ok" => success_[i])
    <3>1. SUFFICES ASSUME Sure(i) PROVE outcome[i] # "none" /\ (outcome[i] = "ok" => success_[i])
      BY <1>3 DEF PasteReturn, Put, Paste
    <3>2. Past(i)
      BY <1>3, <3>1 DEF PasteReturn, Sure, Paste, PasteInv, predicate
    <3>3. QED
      BY <1>3, <3>2 DEF PasteReturn, PasteInv, Past, CbControl
  <2>5. QED
    BY <2>1, <2>2, <2>3, <2>4, ServiceReturn
<1>4. ASSUME op' = Dropped, UNCHANGED <<kind, outcome, result, done0>>,
             \A i \in Call : Paste(i) => ~alive[i]
      PROVE  Service!Lose \/ UNCHANGED Service!vars
  <2>1. \A i \in Call : Put(i) = "open" => Phase(i) = "returned" /\ ~Sure(i)
    BY <1>4 DEF Put, Phase, Sure, Paste, PasteInv, CbControl
  <2>2. \A i \in Call : /\ Phase(i)' = Phase(i) /\ Sure(i)' = Sure(i) /\ ToldCaller(i)' = ToldCaller(i)
    BY <1>4 DEF Phase, Sure, ToldCaller, Paste
  <2>3. \A i \in Call : Put(i)' = IF Put(i) = "open" THEN "lost" ELSE Put(i)
    BY <1>4 DEF Put, Paste, PasteInv, Dropped
  <2>4. QED
    BY <2>1, <2>2, <2>3 DEF Service!Lose
<1>5. ASSUME NEW i \in Call, StopReturn(i) PROVE [Service!Next]_(Service!vars)
  BY <1>5, <1>4 DEF StopReturn, AppControl, Paste, Service!Next
<1>6. CASE destroy
  BY <1>6, <1>4 DEF destroy, AppControl, Paste, Service!Next
<1>7. ASSUME NEW i \in Call,
             \/ paste_cb(i) \/ get_cb(i) \/ get(i) \/ stop(i)
             \/ End(i) \/ (Enter(i) /\ kind[i] = "stop") \/ GetReturn(i)
      PROVE  UNCHANGED Service!vars
  <2>1. \A j \in Call : Same(j)
    BY <1>7 DEF paste_cb, get_cb, get, stop, Post, End, Enter, Ready, GetReturn, Same, Phase, Sure,
                Put, ToldCaller, Paste, AppControl, CallControl
  <2>2. QED
    BY <2>1, ServiceStutters
<1>8. ASSUME UNCHANGED <<kind, outcome, result, done0>>,
             \A j \in Call : op'[j] = "dropped" <=> op[j] = "dropped"
      PROVE  UNCHANGED Service!vars
  <2>1. \A j \in Call : Same(j)
    BY <1>8 DEF Same, Phase, Sure, Put, ToldCaller, Paste
  <2>2. QED
    BY <2>1, ServiceStutters
<1>9. ASSUME NEW i \in Call,
             \/ Lock(i) \/ NotDone(i) \/ Park(i) \/ Wake(i) \/ SpuriousWake(i) \/ Value(i)
             \/ CbReport(i) \/ CbLock(i) \/ CbHangs(i) \/ CbSetDone(i) \/ CbUnlock(i) \/ CbNotify(i)
      PROVE  UNCHANGED Service!vars
  BY <1>9, <1>8 DEF Lock, NotDone, Park, Wake, SpuriousWake, Value, CbReport, CbLock, CbHangs, CbSetDone,
                    CbUnlock, CbNotify, Leave, CbControl
<1>10. CASE run
  BY <1>10, <1>8 DEF run
<1>11. CASE UNCHANGED vars
  BY <1>11, <1>8 DEF vars
<1>12. ASSUME NEW i \in Call, Enter(i) PROVE [Service!Next]_(Service!vars)
  <2>1. kind[i] \in {"paste", "stop"}
    BY <1>12 DEF Enter
  <2>2. CASE kind[i] = "paste"
    <3>1. Service!Decide(i)
      BY <1>2, <1>12, <2>2
    <3>2. QED
      BY <3>1 DEF Service!Next
  <2>3. CASE kind[i] = "stop"
    <3>1. UNCHANGED Service!vars
      BY <1>7, <1>12, <2>3
    <3>2. QED
      BY <3>1
  <2>4. QED
    BY <2>1, <2>2, <2>3
<1>13. ASSUME NEW i \in Call, Enters(i) \/ Proceeds(i) \/ Completes(i) PROVE [Service!Next]_(Service!vars)
  <2>1. CASE paste(i)
    <3>1. Service!Request(i)
      BY <1>1, <2>1
    <3>2. QED
      BY <3>1 DEF Service!Next
  <2>2. CASE PasteReturn(i)
    <3>1. Service!Return(i)
      BY <1>3, <2>2
    <3>2. QED
      BY <3>1 DEF Service!Next
  <2>3. CASE paste_cb(i) \/ get_cb(i) \/ get(i) \/ stop(i) \/ End(i) \/ GetReturn(i)
    <3>1. UNCHANGED Service!vars
      BY <1>7, <2>3
    <3>2. QED
      BY <3>1
  <2>4. CASE Lock(i) \/ NotDone(i) \/ Park(i) \/ Wake(i) \/ SpuriousWake(i) \/ Value(i)
    <3>1. UNCHANGED Service!vars
      BY <1>9, <2>4
    <3>2. QED
      BY <3>1
  <2>5. CASE StopReturn(i)
    BY <1>5, <2>5
  <2>6. CASE Enter(i)
    BY <1>12, <2>6
  <2>7. QED
    BY <1>13, <2>1, <2>2, <2>3, <2>4, <2>5, <2>6 DEF Enters, Proceeds, Completes
<1>14. QED
  BY <1>6, <1>9, <1>10, <1>11, <1>13 DEF Next, Callback

(***************************************************************************)
(* For any set of calls: to its caller Node::paste is the PutService       *)
(* (node.cpp:34-61).                                                       *)
(***************************************************************************)
THEOREM ImplementsPutServiceThm == Spec => ImplementsPutService
<1>1. Init => Service!Init
  BY DEF Init, Service!Init, Phase, Sure, Put, ToldCaller, Paste
<1>2. QED
  BY <1>1, PutStep, InductiveInvariant, PTL DEF Spec, Service!Spec, ImplementsPutService
=============================================================================
