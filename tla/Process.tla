------------------------------ MODULE Process ------------------------------
(***************************************************************************)
(* Bin with the inside of the node of one process, `self': what its        *)
(* constructor, Bin::paste, Bin::get and the end of main() do with the     *)
(* Node of module Node, thread by thread.  The node of any other process   *)
(* stays the single step it is in Bin.                                     *)
(*                                                                         *)
(* dht::DhtRunner is external: it reports success for a put that stored    *)
(* the value, and finds for a get values that are at its location.         *)
(***************************************************************************)
EXTENDS Bin

CONSTANTS
    self,       \* the process whose node is modelled
    Call,       \* the one call it makes to its node
    NoCall,
    MaxValues

ASSUME ProcessAssumption == self \in Proc

VARIABLES running, dht, app, cur, cb, cbc, kind, op, outcome, values, alive, done, done0,
          success_, mtx, notified, result, stale

N == INSTANCE Node

node == <<running, dht, app, cur, cb, cbc, kind, op, outcome, values, alive, done, done0,
          success_, mtx, notified, result, stale>>
allvars == <<vars, node>>

ProcessInit == Init /\ N!Init

-----------------------------------------------------------------------------
(* main() and Bin, and what they do to the node *)

\* The constructor of Bin runs the node; Cipher::init(), paste or get follow.
Construct ==
    /\ InitFails(self) \/ StartPaste(self) \/ StartGet(self)
    /\ N!run

\* Nothing is asked of the node while the HTTP service is tried.
Http ==
    /\ \/ HttpPutOk(self) \/ HttpPutFail(self)
       \/ HttpGetFound(self) \/ HttpGetEmpty(self) \/ HttpGetGarbage(self)
       \/ pc[self] = "http_get" /\ Fetch(self)
    /\ UNCHANGED node

\* node.paste(code, std::move(bin_packet)), and node.get(lcode).
CallNode(i) ==
    /\ \/ pc[self] = "node_paste" /\ N!paste(i)
       \/ pc[self] = "node_get" /\ N!get(i)
    /\ UNCHANGED vars

\* success ? DPASTE_URI_PREFIX+code+pwd : "".
PasteReturns(i) ==
    /\ N!PasteReturn(i)
    /\ IF result'[i] = N!Answer(TRUE) THEN PasteSucceeds(self) ELSE PasteFails(self)
    /\ UNCHANGED <<job, conf, rng, scheme, code, pwd, blob, received, out, reported, published>>

\* if (not values.empty()) data = values.front(), and the rest of get.
GetReturns(i) ==
    /\ N!GetReturn(i)
    /\ IF result'[i].n # 0
       THEN Deliver(self, received[self])
       ELSE Exit(self, "0") /\ UNCHANGED <<out, reported>>
    /\ UNCHANGED <<job, conf, rng, scheme, code, pwd, blob, received, uri, published>>

\* main() returned: ~Bin destroys the node.  An exception that leaves main()
\* destroys nothing, and a command line that ends early made no Bin.
Destroy ==
    /\ pc[self] = "exit" /\ exit[self] # "abort" /\ running
    /\ N!destroy
    /\ UNCHANGED vars

Early == EarlyExit(self) /\ UNCHANGED node

-----------------------------------------------------------------------------
(* The two threads inside a call *)

\* The first value a get finds is its front.
Finds(i) ==
    /\ N!Value(i)
    /\ Stored(self) # {}
    /\ IF values[i] = 0 THEN Fetch(self) ELSE UNCHANGED vars

\* An operation ends.
Reports(i) ==
    /\ N!Completes(i)
    /\ kind[i] = "paste" /\ outcome'[i] = "ok" => Request(self) \in published
    /\ UNCHANGED vars

Waits(i) == (N!NotDone(i) \/ N!Park(i) \/ N!Wake(i)) /\ UNCHANGED vars
Locks(i) == N!Lock(i) /\ UNCHANGED vars
WakesUp(i) == N!SpuriousWake(i) /\ UNCHANGED vars
CbLocks(i) == N!CbLock(i) /\ UNCHANGED vars
GetsLost(i) == N!CbHangs(i) /\ UNCHANGED vars
CallsBack(i) == N!Callback(i) /\ UNCHANGED vars

Thread(i) == CallNode(i) \/ Waits(i) \/ PasteReturns(i) \/ GetReturns(i)

Environment == (Land \/ LegacyPut \/ ForeignPut) /\ UNCHANGED node

Others == (\E p \in Proc \ {self} : Step(p)) /\ UNCHANGED node

ProcessNext ==
    \/ Early \/ Construct \/ Http \/ Destroy \/ Environment \/ Others
    \/ \E i \in Call :
         \/ Thread(i) \/ Locks(i) \/ WakesUp(i)
         \/ Finds(i) \/ Reports(i) \/ CbLocks(i) \/ CallsBack(i) \/ GetsLost(i)

ProcessSpec == ProcessInit /\ [][ProcessNext]_allvars

(***************************************************************************)
(* The fairness of Node, and that main() goes on: both threads are         *)
(* scheduled, OpenDHT ends every operation, a mutex that is free again and *)
(* again is acquired.  Nothing is asked of the HTTP service: no request    *)
(* has a time-out, and one may never be answered.                          *)
(***************************************************************************)
ProcessFairness ==
    /\ WF_allvars(Destroy)
    /\ \A i \in Call :
         /\ WF_allvars(Thread(i)) /\ SF_allvars(Locks(i))
         /\ WF_allvars(Reports(i))
         /\ WF_allvars(CallsBack(i)) /\ SF_allvars(CbLocks(i))

FairProcess == ProcessSpec /\ ProcessFairness

-----------------------------------------------------------------------------
(* Properties *)

(***************************************************************************)
(* With its node in full, a process is the process of Bin: the answer of   *)
(* Node::paste, put together by two threads from flags, a mutex and an     *)
(* uninitialised variable, is true only when the packet is in the DHT, and *)
(* what Node::get hands over is a value found at the location of the code. *)
(***************************************************************************)
ImplementsBin == Spec

(***************************************************************************)
(* A process that has made a Bin and is through with the HTTP service      *)
(* comes to its end, its node joined and gone, or leaves by an exception:  *)
(* of a put that was given up, a callback still to come or under way does  *)
(* not hold up the exit, unless the DHT thread is lost in the frame of the *)
(* paste: of one whose `done' did not start as false, or that woke up by   *)
(* itself before it was notified.                                          *)
(***************************************************************************)
ProcessEnds ==
    (running /\ pc[self] \notin {"http_put", "http_get"}) ~>
        \/ app = "gone"
        \/ exit[self] = "abort"
        \/ N!DhtThreadLost
=============================================================================
