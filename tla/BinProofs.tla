----------------------------- MODULE BinProofs -----------------------------
(***************************************************************************)
(* Proofs about Codes and Bin, for every PIN length, number of processes,  *)
(* command line, user and stream of random numbers.                        *)
(***************************************************************************)
EXTENDS Bin, SequenceTheorems, TLAPS

-----------------------------------------------------------------------------
(* PINs and codes *)

\* A PIN is a text of DPASTE_PIN_LEN digits.
LEMMA PinIsText ==
    ASSUME NEW c \in Pin
    PROVE  c \in Seq(Digit) /\ c \in Text /\ Len(c) = DPASTE_PIN_LEN
<1>1. c \in Seq(Digit) /\ Len(c) = DPASTE_PIN_LEN
  BY CodesAssumption DEF Pin
<1>2. QED
  BY <1>1, SeqMonotonic DEF Text

\* The text of a number has full width, however small the number is.
LEMMA PinTextIsPin ==
    ASSUME NEW n \in Nat
    PROVE  pin_text(n) \in Pin
<1>1. ASSUME NEW i \in 1 .. DPASTE_PIN_LEN
      PROVE  (n \div Base ^ (DPASTE_PIN_LEN - i)) % Base \in Digit
  <2>1. Base ^ (DPASTE_PIN_LEN - i) \in Nat \ {0}
    BY <1>1, CodesAssumption, PowersAssumption
  <2>2. n \div Base ^ (DPASTE_PIN_LEN - i) \in Nat
    BY <2>1
  <2>3. QED
    BY <2>2, CodesAssumption DEF Digit
<1>2. QED
  BY <1>1 DEF pin_text, Pin

\* The password of a paste: a PIN, or nothing.
Password == Pin \cup {<<>>}

(***************************************************************************)
(* Bin::get undoes what Bin::paste printed: after the prefix is dropped,   *)
(* the first 2*CODE_PASS_OFFSET characters are the location and the rest   *)
(* is the password, whether there is one or not.                           *)
(***************************************************************************)
THEOREM UriIsCutBack ==
    ASSUME NEW c \in Pin, NEW w \in Password
    PROVE  LET k == code_from_dpaste_uri(uri_of(c, w))
           IN  k = c \o w /\ ~TooShort(k) /\ lcode(k) = c /\ pwd_part(k) = w
<1> DEFINE u == uri_of(c, w)
           k == c \o w
           found == {p \in 1 .. Len(u) : u[p] = DPASTE_URI_PREFIX}
<1>1. /\ c \in Seq(Digit) /\ c \in Text /\ Len(c) = DPASTE_PIN_LEN
      /\ w \in Seq(Digit) /\ w \in Text
  BY PinIsText, EmptySeq DEF Password, Text
<1>2. /\ k \in Text /\ k \in Seq(Digit) /\ Len(k) = DPASTE_PIN_LEN + Len(w)
      /\ u \in Text /\ Len(u) = 1 + Len(k) /\ u[1] = DPASTE_URI_PREFIX
      /\ \A i \in 1 .. Len(k) : u[i + 1] = k[i]
  BY <1>1 DEF uri_of, Text
<1>3. Min(found) = 1 /\ found # {}
  <2>1. 1 \in found /\ \A p \in found : 1 =< p /\ p \in Nat
    BY <1>2
  <2>2. \A m \in found : (\A p \in found : m =< p) => m = 1
    BY <2>1
  <2> HIDE DEF found
  <2>3. \A p \in found : Min(found) =< p
    BY <2>1, Zenon DEF Min
  <2>4. Min(found) \in found
    BY <2>1, Zenon DEF Min
  <2>5. QED
    BY <2>1, <2>2, <2>3, <2>4
<1>4. code_from_dpaste_uri(u) = k
  <2>1. code_from_dpaste_uri(u) = SubSeq(u, 1 + 1, Len(u))
    BY <1>3, Zenon DEF code_from_dpaste_uri
  <2> HIDE DEF u, k
  <2>2. Len(k) \in Nat /\ Len(u) \in Nat /\ \A i \in 1 .. Len(k) : k[i] \in Digit
    BY <1>2
  <2>3. \A i \in 2 .. Len(u) : u[i] \in Digit
    <3>1. ASSUME NEW i \in 2 .. Len(u) PROVE u[i] = k[i - 1] /\ i - 1 \in 1 .. Len(k)
      <4>1. i - 1 \in 1 .. Len(k) /\ (i - 1) + 1 = i
        BY <1>2, <2>2
      <4>2. QED
        BY <4>1, <1>2
    <3>2. QED
      BY <3>1, <2>2
  <2>4. /\ SubSeq(u, 2, Len(u)) \in Seq(Digit)
        /\ Len(SubSeq(u, 2, Len(u))) = Len(k)
        /\ \A i \in 1 .. Len(k) : SubSeq(u, 2, Len(u))[i] = k[i]
    BY <1>2, <2>2, <2>3, SubSeqProperties
  <2>5. SubSeq(u, 2, Len(u)) = k
    BY <1>2, <2>4, SeqEqual
  <2>6. QED
    BY <2>1, <2>5
<1>5. ~TooShort(k) /\ lcode(k) = c /\ pwd_part(k) = w
  <2>1. PassOffset = Len(c) /\ Len(c) \in Nat
    BY <1>1, CodesAssumption DEF PassOffset
  <2>2. lcode(k) = c
    BY <1>1, <1>2, <2>1 DEF lcode
  <2>3. pwd_part(k) = w
    BY <1>1, <1>2, <2>1 DEF pwd_part
  <2>4. QED
    BY <1>2, <1>1, <2>1, <2>2, <2>3 DEF TooShort
<1>6. QED
  BY <1>4, <1>5

-----------------------------------------------------------------------------
(* The URI a paste prints *)

(***************************************************************************)
(* The inductive invariant: from the first step of a paste on, its         *)
(* location is a PIN of full width and its password a PIN or nothing; only *)
(* a process that ended has printed a URI, made of the two, and its packet *)
(* has been in the DHT.  The generator's flag, which nothing sets, keeps   *)
(* every draw on the first number of the stream.                           *)
(***************************************************************************)
Maps ==
    /\ pc = [p \in Proc |-> pc[p]]
    /\ code = [p \in Proc |-> code[p]]
    /\ pwd = [p \in Proc |-> pwd[p]]
    /\ blob = [p \in Proc |-> blob[p]]
    /\ uri = [p \in Proc |-> uri[p]]
    /\ rng \in [Proc -> Rng(Streams)]

Drawn(p) == code[p] \in Pin /\ pwd[p] \in Password

UriInv ==
    /\ Maps
    /\ \A p \in Proc : ~rng[p].initialized
    /\ \A p \in Proc : pc[p] # "exit" => uri[p] = <<>>
    /\ \A p \in Proc : pc[p] \in {"http_put", "node_paste"} => Drawn(p)
    /\ \A p \in Proc : uri[p] # <<>> =>
          /\ Drawn(p)
          /\ uri[p] = uri_of(code[p], pwd[p])
          /\ <<code[p], blob[p]>> \in published

\* random_pin yields a PIN and leaves its flag as it was.
LEMMA RandomPin ==
    ASSUME NEW r \in Rng(Streams), ~r.initialized
    PROVE  /\ random_pin(r).pin \in Pin
           /\ random_pin(r).rng \in Rng(Streams)
           /\ ~random_pin(r).rng.initialized
<1>1. r.stream \in [1 .. 2 -> Number]
  BY BinAssumption DEF Rng
<1>2. r.stream[0 + 1] \in Nat
  <2>1. Number \subseteq Nat
    <3>1. DPASTE_PIN_LEN \in 0 .. DPASTE_PIN_LEN
      BY CodesAssumption
    <3>2. Base ^ DPASTE_PIN_LEN \in Nat
      BY <3>1, PowersAssumption
    <3>3. QED
      BY <3>2 DEF Number
  <2>2. 0 + 1 \in 1 .. 2
    OBVIOUS
  <2>3. r.stream[0 + 1] \in Number
    BY <1>1, <2>2, Zenon
  <2>4. QED
    BY <2>1, <2>3, Zenon
<1>3. random_pin(r) = [pin |-> pin_text(r.stream[0 + 1]), rng |-> [r EXCEPT !.pos = 0 + 1]]
  BY DEF random_pin
<1>4. [r EXCEPT !.pos = 0 + 1] \in Rng(Streams) /\ ~[r EXCEPT !.pos = 0 + 1].initialized
  <2>1. [r EXCEPT !.pos = 0 + 1] \in Rng(Streams)
    BY DEF Rng
  <2>2. [r EXCEPT !.pos = 0 + 1].initialized = r.initialized
    BY DEF Rng
  <2>3. QED
    BY <2>1, <2>2
<1>5. /\ random_pin(r).pin = pin_text(r.stream[0 + 1])
      /\ random_pin(r).rng = [r EXCEPT !.pos = 0 + 1]
  BY <1>3
<1>6. pin_text(r.stream[0 + 1]) \in Pin
  BY <1>2, PinTextIsPin
<1>7. QED
  BY <1>4, <1>5, <1>6, Zenon

\* What a paste draws before its first request.
LEMMA StartPasteDraws ==
    ASSUME UriInv, NEW p \in Proc, StartPaste(p)
    PROVE  UriInv'
<1> DEFINE params == params_from_args(job[p])
           first == random_pin(rng[p])
           second == random_pin(first.rng)
           drawn == params.kind = "AES"
           password == IF drawn THEN second.pin ELSE <<>>
           last == IF drawn THEN second.rng ELSE first.rng
<1>1. /\ pc[p] = "start" /\ published' = published /\ uri' = uri
      /\ code' = [code EXCEPT ![p] = first.pin]
      /\ pwd' = [pwd EXCEPT ![p] = password]
      /\ rng' = [rng EXCEPT ![p] = last]
      /\ \E b : blob' = [blob EXCEPT ![p] = b] \/ blob' = blob
      /\ \E c \in {"http_put", "exit"} : pc' = [pc EXCEPT ![p] = c]
  BY DEF StartPaste, Go, Exit
<1>2. rng[p] \in Rng(Streams) /\ ~rng[p].initialized
  BY DEF UriInv, Maps
<1>3. first.pin \in Pin /\ first.rng \in Rng(Streams) /\ ~first.rng.initialized
  BY <1>2, RandomPin
<1>4. second.pin \in Pin /\ second.rng \in Rng(Streams) /\ ~second.rng.initialized
  BY <1>3, RandomPin
<1>5. password \in Password /\ last \in Rng(Streams) /\ ~last.initialized
  BY <1>3, <1>4 DEF Password
<1> HIDE DEF params, first, second, drawn, password, last
<1>6. Maps'
  BY <1>1, <1>5 DEF UriInv, Maps
<1>7. Drawn(p)' /\ uri'[p] = <<>> /\ ~rng'[p].initialized
  BY <1>1, <1>3, <1>5 DEF UriInv, Maps, Drawn
<1>8. ASSUME NEW q \in Proc, q # p
      PROVE  /\ pc'[q] = pc[q] /\ code'[q] = code[q] /\ pwd'[q] = pwd[q]
             /\ blob'[q] = blob[q] /\ rng'[q] = rng[q]
  BY <1>1, <1>8 DEF UriInv, Maps
<1>9. QED
  BY <1>1, <1>6, <1>7, <1>8 DEF UriInv, Drawn

\* A paste that succeeds, over HTTP or through the node.
LEMMA PasteSucceedsPrints ==
    ASSUME UriInv, NEW p \in Proc, pc[p] \in {"http_put", "node_paste"},
           Request(p) \in published, PasteSucceeds(p), UNCHANGED <<rng, code, pwd, blob, published>>
    PROVE  UriInv'
<1>1. Maps'
  BY DEF UriInv, Maps, PasteSucceeds, Exit, Go
<1>2. /\ <<code[p], blob[p]>> \in published
      /\ uri'[p] = uri_of(code[p], pwd[p]) /\ pc'[p] = "exit"
      /\ \A q \in Proc \ {p} : uri'[q] = uri[q] /\ pc'[q] = pc[q]
  BY DEF UriInv, Maps, Request, PasteSucceeds, Exit, Go
<1>3. QED
  BY <1>1, <1>2 DEF UriInv, Drawn

\* A step of p that prints no URI and starts no paste.
LEMMA OtherStep ==
    ASSUME UriInv, NEW p \in Proc, NEW c, Go(p, c),
           c \in {"exit", "node_paste", "node_get"},
           c # "exit" => pc[p] # "exit", c = "node_paste" => pc[p] = "http_put",
           published \subseteq published', UNCHANGED <<rng, code, pwd, blob, uri>>
    PROVE  UriInv'
<1>1. Maps'
  BY DEF UriInv, Maps, Go
<1>2. pc'[p] = c /\ \A q \in Proc \ {p} : pc'[q] = pc[q]
  BY DEF UriInv, Maps, Go
<1>3. QED
  BY <1>1, <1>2 DEF UriInv, Drawn

\* A get starts with a code it was given.
LEMMA StartGetReads ==
    ASSUME UriInv, NEW p \in Proc, StartGet(p)
    PROVE  UriInv'
<1>1. PICK c : /\ code' = [code EXCEPT ![p] = c]
               /\ pwd' = pwd \/ pwd' = [pwd EXCEPT ![p] = pwd_part(c)]
               /\ pc' = [pc EXCEPT ![p] = "exit"] \/ pc' = [pc EXCEPT ![p] = "http_get"]
  BY DEF StartGet, Go, Exit
<1>2. pc[p] = "start" /\ UNCHANGED <<rng, blob, uri, published>>
  BY DEF StartGet
<1>3. Maps'
  BY <1>1, <1>2 DEF UriInv, Maps
<1>4. uri[p] = <<>> /\ pc'[p] \in {"exit", "http_get"}
  BY <1>1, <1>2 DEF UriInv, Maps
<1>5. \A q \in Proc \ {p} : pc'[q] = pc[q] /\ code'[q] = code[q] /\ pwd'[q] = pwd[q]
  BY <1>1 DEF UriInv, Maps
<1>6. QED
  BY <1>2, <1>3, <1>4, <1>5 DEF UriInv, Drawn

\* Every step keeps the invariant.
LEMMA UriStep == UriInv /\ [Next]_vars => UriInv'
<1> SUFFICES ASSUME UriInv, [Next]_vars PROVE UriInv'
  OBVIOUS
<1> USE DEF local
<1>0. ASSUME published \subseteq published', UNCHANGED <<pc, rng, code, pwd, blob, uri>>
      PROVE  UriInv'
  BY <1>0 DEF UriInv, Maps, Drawn
<1>1. ASSUME NEW p \in Proc, Step(p) PROVE UriInv'
  <2>1. CASE StartPaste(p)
    BY <2>1, StartPasteDraws
  <2>2. CASE HttpPutOk(p) \/ NodePasteOk(p)
    BY <2>2, PasteSucceedsPrints DEF HttpPutOk, NodePasteOk
  <2>3. CASE HttpPutFail(p)
    BY <2>3, OtherStep DEF HttpPutFail
  <2>4. CASE HttpGetEmpty(p)
    BY <2>4, OtherStep DEF HttpGetEmpty
  <2>5. CASE EarlyExit(p) \/ InitFails(p) \/ NodePasteFail(p) \/ HttpGetGarbage(p) \/ NodeGetEmpty(p)
    <3>1. Go(p, "exit") /\ UNCHANGED <<rng, code, pwd, blob, uri, published>>
      BY <2>5 DEF EarlyExit, InitFails, NodePasteFail, PasteFails, HttpGetGarbage, NodeGetEmpty, Exit
    <3>2. QED
      BY <3>1, OtherStep
  <2>6. CASE HttpGetFound(p) \/ NodeGetFound(p)
    <3>1. Go(p, "exit") /\ UNCHANGED <<rng, code, pwd, blob, uri, published>>
      BY <2>6 DEF HttpGetFound, NodeGetFound, Deliver, Exit
    <3>2. QED
      BY <3>1, OtherStep
  <2>7. CASE StartGet(p)
    BY <2>7, StartGetReads
  <2>8. CASE Fetch(p)
    BY <2>8, <1>0 DEF Fetch
  <2>9. QED
    BY <1>1, <2>1, <2>2, <2>3, <2>4, <2>5, <2>6, <2>7, <2>8 DEF Step
<1>3. CASE Land \/ LegacyPut \/ ForeignPut
  BY <1>0, <1>3 DEF Land, LegacyPut, ForeignPut, Publish
<1>4. CASE UNCHANGED vars
  BY <1>0, <1>4 DEF vars
<1>5. QED
  BY <1>1, <1>3, <1>4 DEF Next

\* The generator of a process that has not begun.
LEMMA RngInit ==
    ASSUME Init
    PROVE  rng \in [Proc -> Rng(Streams)] /\ \A p \in Proc : rng[p].initialized = FALSE
<1>1. rng \in [Proc -> [stream : Streams, pos : {0}, initialized : {FALSE}]]
  BY DEF Init
<1>2. [stream : Streams, pos : {0}, initialized : {FALSE}] \subseteq Rng(Streams)
  <2>1. {FALSE} \subseteq BOOLEAN
    BY Zenon
  <2>2. ASSUME NEW F, F \subseteq BOOLEAN
        PROVE  [stream : Streams, pos : {0}, initialized : F] \subseteq Rng(Streams)
    BY <2>2 DEF Rng
  <2>3. QED
    BY <2>1, <2>2, Zenon
<1>3. ASSUME NEW x \in [stream : Streams, pos : {0}, initialized : {FALSE}]
      PROVE  x.initialized = FALSE
  <2>1. x.initialized \in {FALSE}
    OBVIOUS
  <2>2. QED
    BY <2>1, Zenon
<1>4. rng \in [Proc -> Rng(Streams)]
  BY <1>1, <1>2
<1>5. QED
  BY <1>1, <1>3, <1>4, Zenon

\* The invariant holds of every run.
LEMMA UriInvariant == Spec => []UriInv
<1>1. Init => UriInv
  <2> SUFFICES ASSUME Init PROVE UriInv
    OBVIOUS
  <2>1. rng \in [Proc -> Rng(Streams)] /\ \A p \in Proc : rng[p].initialized = FALSE
    BY RngInit
  <2>2. QED
    BY <2>1 DEF Init, UriInv, Maps
<1>2. QED
  BY <1>1, UriStep, PTL DEF Spec

(***************************************************************************)
(* For every PIN length and any interleaving of processes: the URI that a  *)
(* paste prints leads a get to the location and the password of a packet   *)
(* that was stored (bin.cpp:55-65, 120-135, 175-189).                      *)
(***************************************************************************)
THEOREM UriLeadsToPasteThm == Spec => []UriLeadsToPaste
<1>1. UriInv => UriLeadsToPaste
  BY UriIsCutBack DEF UriInv, Drawn, UriLeadsToPaste
<1>2. QED
  BY <1>1, UriInvariant, PTL
=============================================================================
