--------------------------- MODULE ProcessProofs ---------------------------
(***************************************************************************)
(* Proofs about a process with the inside of its node, for any number of   *)
(* processes and calls: with it, the process is still the process of Bin,  *)
(* so that all that is proved of Bin holds of it.                          *)
(***************************************************************************)
EXTENDS Process, PastebinProofs

-----------------------------------------------------------------------------
(* The inductive invariant *)

\* What the proof needs of the types of the node's variables.
NodeTypes ==
    /\ kind \in [Call -> {"none", "paste", "get"}]
    /\ op \in [Call -> {"none", "pending", "callback", "ended", "dropped"}]
    /\ outcome \in [Call -> {"none", "ok", "failed"}]
    /\ values \in [Call -> Nat]
    /\ success_ \in [Call -> BOOLEAN]
    /\ DOMAIN result = Call

\* Where main() is when the application thread is inside the node, and which
\* calls there are.
CallInv ==
    /\ app \in {"lock", "check", "park", "sleep"} => pc[self] = "node_paste"
    /\ app = "future" => pc[self] = "node_get" /\ cur \in Call /\ kind[cur] = "get"
    /\ \A i \in Call :
         /\ kind[i] = "none" => op[i] = "none" /\ values[i] = 0
         /\ kind[i] # "none" => pc[self] \in {"node_paste", "node_get", "exit"}
         /\ kind[i] = "get" /\ op[i] = "pending" => app = "future" /\ cur = i

(***************************************************************************)
(* success_, which the callback writes outside the mutex, is true only for *)
(* a put that was reported as stored, and then the packet is in the DHT.   *)
(***************************************************************************)
PutInv ==
    \A i \in Call :
        /\ op[i] \in {"none", "pending"} => outcome[i] = "none"
        /\ success_[i] => outcome[i] = "ok"
        /\ kind[i] = "paste" /\ outcome[i] = "ok" => Request(self) \in published

\* Node::get has values exactly when one is on its way to Bin::get.
FoundInv ==
    /\ pc[self] = "node_get" /\ app # "future" => received[self] = NoBlob
    /\ app = "future" => (values[cur] = 0 <=> received[self] = NoBlob)

NodeInv == NodeTypes /\ CallInv /\ PutInv /\ FoundInv

ProcessInv == TypeInv /\ (\A e \in published : e[2] # NoBlob) /\ NodeInv

-----------------------------------------------------------------------------
(* Every step is a step of Bin, or none *)

\* Node::paste answers what success_ holds.
LEMMA AnswerIs ==
    ASSUME NEW i \in Call, NodeTypes, N!PasteReturn(i)
    PROVE  result'[i] = N!Answer(TRUE) <=> success_[i]
<1>1. result'[i] = N!Answer(success_[i]) /\ success_[i] \in BOOLEAN
  BY DEF NodeTypes, N!PasteReturn
<1>2. QED
  BY <1>1 DEF N!Answer

\* Bin sees a step of Process as one of its own steps, or sees nothing.
LEMMA StepOfBin == ProcessInv /\ [ProcessNext]_allvars => [Next]_vars
<1> SUFFICES ASSUME ProcessInv, [ProcessNext]_allvars PROVE Next \/ UNCHANGED vars
  OBVIOUS
<1>0. self \in Proc
  BY ProcessAssumption
<1>1. CASE Early \/ Construct \/ Http
  <2>1. Step(self)
    BY <1>1 DEF Early, Construct, Http, Step
  <2>2. QED
    BY <1>0, <2>1 DEF Next
<1>2. CASE Destroy
  BY <1>2 DEF Destroy
<1>3. CASE Environment
  BY <1>3 DEF Environment, Next
<1>4. CASE Others
  BY <1>4 DEF Others, Next
<1>5. ASSUME NEW i \in Call, PasteReturns(i) PROVE Next
  <2>1. pc[self] = "node_paste" /\ kind[i] = "paste"
    BY <1>5 DEF PasteReturns, N!PasteReturn, ProcessInv, NodeInv, CallInv
  <2>2. success_[i] => Request(self) \in published
    BY <2>1 DEF ProcessInv, NodeInv, PutInv
  <2>3. result'[i] = N!Answer(TRUE) <=> success_[i]
    BY <1>5, AnswerIs DEF PasteReturns, ProcessInv, NodeInv
  <2>4. NodePasteOk(self) \/ NodePasteFail(self)
    BY <1>5, <2>1, <2>2, <2>3 DEF PasteReturns, NodePasteOk, NodePasteFail
  <2>5. QED
    BY <1>0, <2>4 DEF Next, Step
<1>6. ASSUME NEW i \in Call, GetReturns(i) PROVE Next
  <2>1. pc[self] = "node_get" /\ cur = i /\ app = "future"
    BY <1>6 DEF GetReturns, N!GetReturn, ProcessInv, NodeInv, CallInv
  <2>2. result'[i].n = values[i]
    BY <1>6 DEF GetReturns, N!GetReturn, N!Blobs, N!blobs_filled, ProcessInv, NodeInv, NodeTypes
  <2>3. values[i] = 0 <=> received[self] = NoBlob
    BY <2>1 DEF ProcessInv, NodeInv, FoundInv
  <2>4. NodeGetFound(self) \/ NodeGetEmpty(self)
    BY <1>6, <2>1, <2>2, <2>3 DEF GetReturns, NodeGetFound, NodeGetEmpty
  <2>5. QED
    BY <1>0, <2>4 DEF Next, Step
<1>7. ASSUME NEW i \in Call, Finds(i) PROVE Next \/ UNCHANGED vars
  BY <1>0, <1>7 DEF Finds, Next, Step
<1>8. ASSUME NEW i \in Call,
             \/ CallNode(i) \/ Waits(i) \/ Locks(i) \/ WakesUp(i)
             \/ Reports(i) \/ CbLocks(i) \/ CallsBack(i) \/ GetsLost(i)
      PROVE  UNCHANGED vars
  BY <1>8 DEF CallNode, Waits, Locks, WakesUp, Reports, CbLocks, CallsBack, GetsLost
<1>9. CASE UNCHANGED allvars
  BY <1>9 DEF allvars
<1>10. QED
  BY <1>1, <1>2, <1>3, <1>4, <1>5, <1>6, <1>7, <1>8, <1>9 DEF ProcessNext, Thread

-----------------------------------------------------------------------------
(* Every step keeps the invariant *)

\* A step of one process leaves the others and the DHT alone.
LEMMA StepIsLocal ==
    ASSUME TypeInv, NEW p \in Proc, Step(p), NEW q \in Proc, q # p
    PROVE  /\ pc'[q] = pc[q] /\ code'[q] = code[q] /\ blob'[q] = blob[q] /\ received'[q] = received[q]
           /\ published' = published
<1> USE DEF TypeInv, TypeOK, Go, Exit, local
<1>1. CASE StartPaste(p)
  BY <1>1 DEF StartPaste
<1>2. CASE StartGet(p)
  BY <1>2 DEF StartGet
<1>3. CASE EarlyExit(p) \/ InitFails(p) \/ HttpGetGarbage(p) \/ NodeGetEmpty(p) \/ HttpGetEmpty(p) \/ Fetch(p)
  BY <1>3 DEF EarlyExit, InitFails, HttpGetGarbage, NodeGetEmpty, HttpGetEmpty, Fetch
<1>4. CASE HttpPutOk(p) \/ HttpPutFail(p) \/ NodePasteOk(p) \/ NodePasteFail(p)
  BY <1>4 DEF HttpPutOk, HttpPutFail, NodePasteOk, NodePasteFail, PasteSucceeds, PasteFails
<1>5. CASE HttpGetFound(p) \/ NodeGetFound(p)
  BY <1>5 DEF HttpGetFound, NodeGetFound, Deliver
<1>6. QED
  BY <1>1, <1>2, <1>3, <1>4, <1>5 DEF Step

\* Nothing empty is ever in the DHT, and nothing leaves it.
LEMMA DhtGrows ==
    ASSUME TypeInv, \A e \in published : e[2] # NoBlob, [Next]_vars
    PROVE  published \subseteq published' /\ \A e \in published' : e[2] # NoBlob
<1>1. CASE \E p \in Proc : Step(p)
  <2>1. published' = published
    BY <1>1 DEF Step, EarlyExit, InitFails, StartPaste, HttpPutOk, HttpPutFail, NodePasteOk, NodePasteFail,
                StartGet, Fetch, HttpGetFound, HttpGetEmpty, HttpGetGarbage, NodeGetFound, NodeGetEmpty
  <2>2. QED
    BY <2>1
<1>2. CASE Land
  BY <1>2 DEF Land, Publish, Request
<1>3. CASE LegacyPut
  <2>1. PICK v \in LegacyValues : v[2] # <<>> /\ published' = published \cup {<<v[1], LegacyBlob(v[2])>>}
    BY <1>3 DEF LegacyPut, Publish
  <2>2. LegacyBlob(v[2]) # NoBlob
    BY <2>1 DEF LegacyBlob, NoBlob
  <2>3. QED
    BY <2>1, <2>2
<1>4. CASE ForeignPut
  BY <1>4, ForeignAssumption DEF ForeignPut, Publish
<1>5. CASE UNCHANGED vars
  BY <1>5 DEF vars
<1>6. QED
  BY <1>1, <1>2, <1>3, <1>4, <1>5 DEF Next

\* The part of the node that the invariant is about.
seen == <<app, cur, kind, op, outcome, values, success_, result>>

\* Bin goes on with something else than its node.
LEMMA OutsideNode ==
    ASSUME NodeInv, UNCHANGED seen, published \subseteq published',
           pc'[self] = pc[self], code'[self] = code[self], blob'[self] = blob[self],
           received'[self] = received[self]
    PROVE  NodeInv'
<1>1. NodeTypes' /\ CallInv'
  BY DEF NodeInv, seen, NodeTypes, CallInv
<1>2. PutInv' /\ FoundInv'
  BY DEF NodeInv, seen, PutInv, FoundInv, Request
<1>3. QED
  BY <1>1, <1>2 DEF NodeInv

\* main() is not yet at the node.
LEMMA BeforeNode ==
    ASSUME NodeInv, UNCHANGED seen, pc[self] \in {"start", "http_put", "http_get"},
           pc'[self] = "node_get" => received'[self] = NoBlob
    PROVE  NodeInv'
<1>1. /\ app \notin {"lock", "check", "park", "sleep", "future"}
      /\ \A i \in Call : kind[i] = "none"
  BY DEF NodeInv, CallInv
<1>2. NodeTypes' /\ CallInv'
  BY <1>1 DEF NodeInv, seen, NodeTypes, CallInv
<1>3. PutInv' /\ FoundInv'
  BY <1>1 DEF NodeInv, seen, PutInv, FoundInv
<1>4. QED
  BY <1>2, <1>3 DEF NodeInv

\* The call of the node that main() makes: it is the first and only one.
LEMMA CallKeeps ==
    ASSUME ProcessInv, NEW i \in Call, CallNode(i)
    PROVE  NodeInv'
<1>0. pc' = pc /\ code' = code /\ blob' = blob /\ received' = received /\ published' = published
  BY DEF CallNode, vars, local
<1> USE DEF ProcessInv, NodeInv
<1>1. CASE pc[self] = "node_paste" /\ N!paste(i)
  <2> USE <1>0, <1>1 DEF N!paste, N!Post, N!success_initial
  <2>1. NodeTypes'
    BY DEF NodeTypes
  <2>2. CallInv'
    BY DEF NodeTypes, CallInv
  <2>3. PutInv'
    BY DEF NodeTypes, CallInv, PutInv, Request
  <2>4. FoundInv'
    BY DEF FoundInv
  <2>5. QED
    BY <2>1, <2>2, <2>3, <2>4
<1>2. CASE pc[self] = "node_get" /\ N!get(i)
  <2> USE <1>0, <1>2 DEF N!get, N!Post, N!frame
  <2>1. NodeTypes'
    BY DEF NodeTypes
  <2>2. CallInv'
    BY DEF NodeTypes, CallInv
  <2>3. PutInv'
    BY DEF NodeTypes, CallInv, PutInv, Request
  <2>4. FoundInv'
    BY DEF NodeTypes, CallInv, FoundInv
  <2>5. QED
    BY <2>1, <2>2, <2>3, <2>4
<1>3. QED
  BY <1>1, <1>2 DEF CallNode

\* The application thread waits for its callback.
LEMMA WaitsKeep ==
    ASSUME ProcessInv, NEW i \in Call, Waits(i) \/ Locks(i) \/ WakesUp(i)
    PROVE  NodeInv'
<1>1. UNCHANGED <<pc, code, blob, received, published, cur, kind, op, outcome, values, success_, result>>
  BY DEF Waits, Locks, WakesUp, vars, local, N!NotDone, N!Park, N!Wake, N!Lock, N!SpuriousWake, N!frame
<1>2. /\ app \in {"lock", "check", "park", "sleep"}
      /\ app' \in {"lock", "check", "park", "sleep"}
  BY DEF Waits, Locks, WakesUp, N!NotDone, N!Park, N!Wake, N!Lock, N!SpuriousWake
<1>3. NodeTypes' /\ CallInv'
  BY <1>1, <1>2 DEF ProcessInv, NodeInv, NodeTypes, CallInv
<1>4. PutInv' /\ FoundInv'
  BY <1>1, <1>2 DEF ProcessInv, NodeInv, CallInv, PutInv, FoundInv, Request
<1>5. QED
  BY <1>3, <1>4 DEF NodeInv

\* A call returns, and main() goes to its end.
LEMMA ReturnsKeep ==
    ASSUME ProcessInv, NEW i \in Call, PasteReturns(i) \/ GetReturns(i)
    PROVE  NodeInv'
<1>1. /\ UNCHANGED <<code, blob, published, kind, op, outcome, values, success_>>
      /\ app' = "idle"
      /\ \E a : result' = [result EXCEPT ![i] = a]
  BY DEF PasteReturns, GetReturns, N!PasteReturn, N!GetReturn, N!Returns, N!Unwinds, N!frame
<1>2. pc'[self] = "exit"
  <2>1. \E x : Exit(self, x)
    BY DEF PasteReturns, GetReturns, PasteSucceeds, PasteFails, Deliver
  <2>2. QED
    BY <2>1, ProcessAssumption DEF Exit, Go, ProcessInv, TypeInv, TypeOK
<1>3. \A j \in Call : ~(kind[j] = "get" /\ op[j] = "pending")
  BY DEF PasteReturns, GetReturns, N!PasteReturn, N!GetReturn, ProcessInv, NodeInv, CallInv
<1>4. NodeTypes' /\ CallInv'
  BY <1>1, <1>2, <1>3 DEF ProcessInv, NodeInv, NodeTypes, CallInv
<1>5. PutInv' /\ FoundInv'
  BY <1>1, <1>2 DEF ProcessInv, NodeInv, PutInv, FoundInv, Request
<1>6. QED
  BY <1>4, <1>5 DEF NodeInv

\* A get comes upon a value; the first one is on its way to Bin.
LEMMA FindsKeep ==
    ASSUME ProcessInv, NEW i \in Call, Finds(i)
    PROVE  NodeInv'
<1>1. /\ values' = [values EXCEPT ![i] = values[i] + 1]
      /\ UNCHANGED <<app, cur, kind, op, outcome, success_, result>>
      /\ op[i] = "pending" /\ kind[i] \in {"get", "get_cb"}
  BY DEF Finds, N!Value, N!Ready, N!thread, N!frame
<1>2. kind[i] = "get" /\ app = "future" /\ cur = i /\ values[i] \in Nat
  BY <1>1 DEF ProcessInv, NodeInv, NodeTypes, CallInv
<1>3. UNCHANGED <<pc, code, blob, published>>
  BY DEF Finds, Fetch, vars, local
<1>4. received'[self] # NoBlob
  <2>1. CASE values[i] = 0
    <3>1. PICK e \in Stored(self) : received' = [received EXCEPT ![self] = e[2]]
      BY <2>1 DEF Finds, Fetch
    <3>2. e[2] # NoBlob
      BY DEF Stored, ProcessInv
    <3>3. QED
      BY <3>1, <3>2, ProcessAssumption DEF ProcessInv, TypeInv, TypeOK
  <2>2. CASE values[i] # 0
    BY <1>2, <2>2 DEF Finds, vars, local, ProcessInv, NodeInv, FoundInv
  <2>3. QED
    BY <2>1, <2>2
<1>5. NodeTypes' /\ CallInv'
  BY <1>1, <1>2, <1>3 DEF ProcessInv, NodeInv, NodeTypes, CallInv
<1>6. PutInv'
  BY <1>1, <1>3 DEF ProcessInv, NodeInv, PutInv, Request
<1>7. FoundInv'
  BY <1>1, <1>2, <1>4 DEF ProcessInv, NodeInv, NodeTypes, FoundInv
<1>8. QED
  BY <1>5, <1>6, <1>7 DEF NodeInv

\* An operation ends; a put that is reported as stored is in the DHT.
LEMMA ReportsKeep ==
    ASSUME ProcessInv, NEW i \in Call, Reports(i)
    PROVE  NodeInv'
<1>1. UNCHANGED <<pc, code, blob, received, published, app, cur, kind, values, success_>>
  BY DEF Reports, N!Completes, N!End, N!Enter, N!thread, N!frame, vars, local
<1>2. /\ op[i] = "pending"
      /\ \E n \in {"ended", "callback"} : op' = [op EXCEPT ![i] = n]
      /\ outcome' = outcome \/ \E o \in {"ok", "failed"} : outcome' = [outcome EXCEPT ![i] = o]
      /\ result' = result \/ \E a : result' = [result EXCEPT ![i] = a]
      /\ kind[i] = "paste" /\ outcome'[i] = "ok" => Request(self) \in published
  BY DEF Reports, N!Completes, N!End, N!Enter, N!Ready
<1>3. NodeTypes'
  BY <1>1, <1>2 DEF ProcessInv, NodeInv, NodeTypes
<1>4. CallInv'
  BY <1>1, <1>2 DEF ProcessInv, NodeInv, NodeTypes, CallInv
<1>5. PutInv'
  BY <1>1, <1>2 DEF ProcessInv, NodeInv, NodeTypes, PutInv, Request
<1>6. FoundInv'
  BY <1>1 DEF ProcessInv, NodeInv, FoundInv
<1>7. QED
  BY <1>3, <1>4, <1>5, <1>6 DEF NodeInv

\* The callback of a paste, in its four steps, or lost in one of them.
LEMMA CallbackKeeps ==
    ASSUME ProcessInv, NEW i \in Call, CbLocks(i) \/ CallsBack(i) \/ GetsLost(i)
    PROVE  NodeInv'
<1>1. UNCHANGED <<pc, code, blob, received, published, app, cur, kind, values, outcome, result>>
  BY DEF CbLocks, CallsBack, GetsLost, N!CbLock, N!Callback, N!CbReport, N!CbSetDone, N!CbUnlock,
         N!CbNotify, N!CbHangs, N!thread, N!frame, vars, local
<1>2. op' = op \/ (kind[i] \in {"paste", "stop"} /\ op' = [op EXCEPT ![i] = "ended"])
  BY DEF CbLocks, CallsBack, GetsLost, N!CbLock, N!Callback, N!CbReport, N!CbSetDone, N!CbUnlock,
         N!CbNotify, N!CbHangs, N!Leave, N!thread, N!frame
<1>3. success_' = success_ \/ (outcome[i] = "ok" /\ success_' = [success_ EXCEPT ![i] = TRUE])
  BY DEF CbLocks, CallsBack, GetsLost, N!CbLock, N!Callback, N!CbReport, N!CbSetDone, N!CbUnlock,
         N!CbNotify, N!CbHangs, N!frame
<1>4. NodeTypes'
  BY <1>1, <1>2, <1>3 DEF ProcessInv, NodeInv, NodeTypes
<1>5. CallInv'
  BY <1>1, <1>2 DEF ProcessInv, NodeInv, NodeTypes, CallInv
<1>6. PutInv'
  BY <1>1, <1>2, <1>3 DEF ProcessInv, NodeInv, NodeTypes, PutInv, Request
<1>7. FoundInv'
  BY <1>1 DEF ProcessInv, NodeInv, FoundInv
<1>8. QED
  BY <1>4, <1>5, <1>6, <1>7 DEF NodeInv

\* Every step keeps the part of the invariant that is about the node.
LEMMA NodeStep == ProcessInv /\ [ProcessNext]_allvars => NodeInv'
<1> SUFFICES ASSUME ProcessInv, [ProcessNext]_allvars PROVE NodeInv'
  OBVIOUS
<1>0. NodeInv /\ TypeInv /\ self \in Proc /\ published \subseteq published'
  BY ProcessAssumption, StepOfBin, DhtGrows DEF ProcessInv
<1>1. CASE Early \/ Construct \/ Http
  <2>1. UNCHANGED seen
    BY <1>1 DEF Early, Construct, Http, node, seen, N!run, N!thread, N!frame
  <2>2. pc[self] \in {"start", "http_put", "http_get"}
    BY <1>1 DEF Early, Construct, Http, EarlyExit, InitFails, StartPaste, StartGet,
                HttpPutOk, HttpPutFail, HttpGetFound, HttpGetEmpty, HttpGetGarbage
  <2>3. pc'[self] = "node_get" => received'[self] = NoBlob
    <3>1. CASE Http
      <4>1. CASE HttpGetEmpty(self)
        BY <1>0, <4>1 DEF HttpGetEmpty, TypeInv, TypeOK
      <4>2. CASE ~HttpGetEmpty(self)
        BY <1>0, <3>1, <4>2 DEF Http, HttpPutOk, HttpPutFail, HttpGetFound, HttpGetGarbage, Fetch,
                                PasteSucceeds, Deliver, Exit, Go, TypeInv, TypeOK
      <4>3. QED
        BY <4>1, <4>2
    <3>2. CASE Early \/ Construct
      <4>1. \E to \in {"exit", "http_put", "http_get"} : Go(self, to)
        BY <3>2 DEF Early, Construct, EarlyExit, InitFails, StartPaste, StartGet, Exit
      <4>2. QED
        BY <1>0, <4>1 DEF Go, TypeInv, TypeOK
    <3>3. QED
      BY <1>1, <3>1, <3>2
  <2>4. QED
    BY <1>0, <2>1, <2>2, <2>3, BeforeNode
<1>2. CASE Destroy
  <2>1. /\ UNCHANGED <<pc, code, blob, received, published, cur, kind, outcome, values, success_, result>>
        /\ app = "idle" /\ app' = "gone" /\ op' = N!Dropped /\ pc[self] = "exit"
    BY <1>2 DEF Destroy, N!destroy, N!frame, vars, local
  <2>2. NodeTypes'
    BY <1>0, <2>1 DEF NodeInv, NodeTypes, N!Dropped
  <2>3. CallInv'
    BY <1>0, <2>1 DEF NodeInv, NodeTypes, CallInv, N!Dropped
  <2>4. PutInv'
    BY <1>0, <2>1 DEF NodeInv, NodeTypes, PutInv, Request, N!Dropped
  <2>5. FoundInv'
    BY <2>1 DEF FoundInv
  <2>6. QED
    BY <2>2, <2>3, <2>4, <2>5 DEF NodeInv
<1>3. CASE Environment
  BY <1>0, <1>3, OutsideNode DEF Environment, Land, LegacyPut, ForeignPut, local, node, seen
<1>4. CASE Others
  <2>1. PICK p \in Proc \ {self} : Step(p)
    BY <1>4 DEF Others
  <2>2. /\ pc'[self] = pc[self] /\ code'[self] = code[self] /\ blob'[self] = blob[self]
        /\ received'[self] = received[self]
    BY <1>0, <2>1, StepIsLocal
  <2>3. UNCHANGED seen
    BY <1>4 DEF Others, node, seen
  <2>4. QED
    BY <1>0, <2>2, <2>3, OutsideNode
<1>5. ASSUME NEW i \in Call,
             \/ Thread(i) \/ Locks(i) \/ WakesUp(i)
             \/ Finds(i) \/ Reports(i) \/ CbLocks(i) \/ CallsBack(i) \/ GetsLost(i)
      PROVE  NodeInv'
  BY <1>5, CallKeeps, WaitsKeep, ReturnsKeep, FindsKeep, ReportsKeep, CallbackKeeps DEF Thread
<1>6. CASE UNCHANGED allvars
  BY <1>0, <1>6, OutsideNode DEF allvars, vars, local, node, seen
<1>7. QED
  BY <1>1, <1>2, <1>3, <1>4, <1>5, <1>6 DEF ProcessNext

\* The invariant holds at the start.
LEMMA ProcessInvInit == ProcessInit => ProcessInv
<1> SUFFICES ASSUME ProcessInit PROVE ProcessInv
  OBVIOUS
<1>1. TypeInv
  BY TypeInit DEF ProcessInit
<1>2. published = {} /\ pc[self] = "start"
  BY ProcessAssumption DEF ProcessInit, Init
<1>3. NodeTypes /\ CallInv /\ PutInv /\ FoundInv
  BY <1>2 DEF ProcessInit, N!Init, N!None, NodeTypes, CallInv, PutInv, FoundInv
<1>4. QED
  BY <1>1, <1>2, <1>3 DEF ProcessInv, NodeInv

\* It always holds.
LEMMA ProcessInvariant == ProcessSpec => []ProcessInv
<1>1. ProcessInv /\ [ProcessNext]_allvars => ProcessInv'
  BY StepOfBin, TypeStep, DhtGrows, NodeStep DEF ProcessInv
<1>2. QED
  BY <1>1, ProcessInvInit, PTL DEF ProcessSpec

(***************************************************************************)
(* For any number of processes and calls, and however the two threads of a *)
(* node interleave: a process with its node in full is the process of Bin. *)
(* Node::paste, put together from an uninitialised `done', a success_ that *)
(* is written outside the mutex, a condition variable and a callback,      *)
(* answers true only when the packet is in the DHT, and Node::get hands    *)
(* over a value exactly when one was found at the location of the code     *)
(* (bin.cpp:61-77, 175-189, node.cpp:33-88).                               *)
(***************************************************************************)
THEOREM ProcessImplementsBin == ProcessSpec => ImplementsBin
<1>1. ProcessInit => Init
  BY DEF ProcessInit
<1>2. QED
  BY <1>1, ProcessInvariant, StepOfBin, PTL DEF ProcessSpec, ImplementsBin, Spec

(***************************************************************************)
(* From the threads of its node up to what its user sees, a process beside *)
(* others is a client of a Pastebin, and reads back what was pasted: a get *)
(* of a printed URI shows the file or nothing (main.cpp:171-202).          *)
(***************************************************************************)
THEOREM ProcessIsClient == ProcessSpec => ImplementsPastebin /\ []RoundTrip
  BY ProcessImplementsBin, BinImplementsPastebin, RoundTripThm, PTL DEF ImplementsBin

(***************************************************************************)
(* The node inside a process is a Node: main() and Bin use it only in ways *)
(* that module Node allows, and OpenDHT does in it what it does there, so  *)
(* that the theorems about Node hold of it.  The constructor runs it once, *)
(* one call follows, and nothing touches it after ~Node (bin.cpp:39-53,    *)
(* 61-77, 175-189, main.cpp:183-202).                                      *)
(***************************************************************************)
THEOREM ProcessUsesNode == ProcessSpec => N!Spec
<1>1. ProcessInit => N!Init
  BY DEF ProcessInit
<1>2. [ProcessNext]_allvars => [N!Next]_(N!vars)
  <2> SUFFICES ASSUME [ProcessNext]_allvars PROVE N!Next \/ UNCHANGED N!vars
    OBVIOUS
  <2>1. CASE UNCHANGED node
    BY <2>1 DEF node, N!vars, N!thread, N!frame
  <2>2. CASE Early \/ Http \/ Environment \/ Others
    BY <2>1, <2>2 DEF Early, Http, Environment, Others
  <2>3. CASE Construct \/ Destroy
    BY <2>3 DEF Construct, Destroy, N!Next
  <2>4. ASSUME NEW i \in Call,
               \/ Thread(i) \/ Locks(i) \/ WakesUp(i)
               \/ Finds(i) \/ Reports(i) \/ CbLocks(i) \/ CallsBack(i) \/ GetsLost(i)
        PROVE  N!Next
    <3>1. \/ N!Enters(i) \/ N!Lock(i) \/ N!Proceeds(i) \/ N!SpuriousWake(i)
          \/ N!Value(i) \/ N!Completes(i) \/ N!CbLock(i) \/ N!CbHangs(i) \/ N!Callback(i)
      BY <2>4 DEF Thread, CallNode, Waits, PasteReturns, GetReturns, Locks, WakesUp, Finds, Reports,
                  CbLocks, CallsBack, GetsLost, N!Enters, N!Proceeds
    <3>2. QED
      BY <3>1 DEF N!Next
  <2>5. CASE UNCHANGED allvars
    BY <2>1, <2>5 DEF allvars
  <2>6. QED
    BY <2>2, <2>3, <2>4, <2>5 DEF ProcessNext
<1>3. QED
  BY <1>1, <1>2, PTL DEF ProcessSpec, N!Spec
=============================================================================
