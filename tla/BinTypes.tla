------------------------------ MODULE BinTypes ------------------------------
(***************************************************************************)
(* Type correctness of Bin, for any number of processes, any command       *)
(* lines, users, files and PIN length: what its operators give back, and   *)
(* the inductive invariant that keeps the state in TypeOK.                 *)
(***************************************************************************)
EXTENDS BinProofs, NumberFacts

-----------------------------------------------------------------------------
(* The types of what the operators of Bin and Ciphers give back *)

\* Bytes that are not encrypted are the data of a packet.
LEMMA PlainIsData == ASSUME NEW b \in Bytes PROVE Plain(b) \in Data
  <1>1. <<>> \in Text
    BY DEF Text
  <1>2. QED
    BY <1>1 DEF Plain, Data, Signature, Signer

\* So are no bytes, and a packet may have no signature and no bytes.
LEMMA EmptyTypes == Empty \in Data /\ EmptySig \in Sig /\ NoBlob \in Blob
<1>1. <<>> \in Bytes
  BY DEF Bytes
<1>2. Empty \in Data
  BY <1>1, PlainIsData DEF Empty
<1>3. EmptySig \in Sig
  BY <1>1 DEF EmptySig, Sig, Signature, Signer
<1>4. QED
  BY <1>1, <1>2, <1>3 DEF NoBlob, Blob

\* data_from_stream reads bytes, at most MAX_VALUE_SIZE of them.
LEMMA StreamType == ASSUME NEW input \in Bytes PROVE data_from_stream(input) \in Bytes
  BY BinAssumption DEF data_from_stream, Bytes

\* params_from_args gives parameters of one of the three kinds.
LEMMA ParamsType == ASSUME NEW pa \in ParsedArgs PROVE params_from_args(pa) \in Parameters
  BY DEF params_from_args, ParsedArgs, Parameters

\* A packet is bytes for the DHT.
LEMMA SerializeType ==
    ASSUME NEW d \in Data, NEW s \in Sig PROVE serialize(d, s) \in Blob
  BY DEF serialize, Blob, Bytes

\* And so is a file of an older client.
LEMMA LegacyType ==
    ASSUME NEW b \in Bytes, b # <<>> PROVE LegacyBlob(b) \in Blob
  BY BinAssumption, EmptyTypes DEF LegacyBlob, Blob, Bytes

\* AES::processPlainText gives the data of a packet.
LEMMA AesType ==
    ASSUME NEW b \in Bytes, NEW password \in Text
    PROVE  AES_processPlainText(b, password) \in Data
  BY DEF AES_processPlainText, Data, Signature, Signer

\* So does GPG::encrypt, also when it throws: recipients whose keys are missing
\* are never in a message.
LEMMA EncryptType ==
    ASSUME NEW to \in SUBSET KeyName, NEW b \in Bytes, NEW sign \in BOOLEAN,
           NEW k \in KeyName \cup {NoKey}, NEW secret \in SUBSET Key
    PROVE  GPG_encrypt(to, b, sign, k, secret).data \in Data
<1>1. CASE sign /\ k = NoKey
  BY <1>1, EmptyTypes DEF GPG_encrypt, Ok
<1>2. CASE ~(sign /\ k = NoKey) /\ ((\E x \in to : KeyMissing(x)) \/ (sign /\ k \notin secret))
  BY <1>2, EmptyTypes DEF GPG_encrypt, Throw
<1>3. CASE ~(sign /\ k = NoKey) /\ ~((\E x \in to : KeyMissing(x)) \/ (sign /\ k \notin secret))
  <2>1. Append(b, NUL) \in Bytes /\ <<>> \in Text /\ to \in SUBSET Key
    BY <1>3, CiphersAssumption DEF Bytes, Text, KeyMissing
  <2>2. (IF sign THEN k ELSE NoKey) \in Signature
    BY <1>3 DEF Signature, Signer
  <2>3. QED
    BY <1>3, <2>1, <2>2 DEF GPG_encrypt, Ok, Data
<1>4. QED
  BY <1>1, <1>2, <1>3

\* prepare_data gives data and a signature, on each of its branches.
LEMMA PrepareType ==
    ASSUME NEW b \in Bytes, NEW params \in Parameters, NEW s, NEW cf \in Conf, NEW password \in Text
    PROVE  LET pp == prepare_data(b, params, s, cf, password)
           IN  pp.data \in Data /\ pp.sig \in Sig
<1> DEFINE k == cf.pgp_key_id
           ct == GPG_processPlainText(b, params, k, cf.secret)
           signed == GPG_sign(b, k, cf.secret)
<1>1. k \in KeyName \cup {NoKey} /\ cf.secret \in SUBSET Key
  BY DEF Conf
<1>2. ct.data \in Data
  <2> DEFINE to == params.recipients \cup
                  {x \in {k} : /\ params.recipients # {} /\ params.self_recipient /\ x # NoKey}
             to_sign == params.sign /\ k # NoKey
  <2>1. to \in SUBSET KeyName /\ to_sign \in BOOLEAN
    BY <1>1 DEF Parameters
  <2> HIDE DEF k
  <2>2. ct = IF to # {} THEN GPG_encrypt(to, b, to_sign, k, cf.secret) ELSE Ok(Empty, NoKey)
    BY DEF GPG_processPlainText
  <2> HIDE DEF to, to_sign, ct
  <2>3. QED
    BY <1>1, <2>1, <2>2, EncryptType, EmptyTypes DEF Ok
<1>3. signed.sig \in Sig
  BY <1>1, EmptyTypes DEF GPG_sign, Sig, Signature, Signer
<1>4. prepare_gpg(b, params, cf).data \in Data /\ prepare_gpg(b, params, cf).sig \in Sig
  BY <1>2, <1>3, EmptyTypes, PlainIsData DEF prepare_gpg
<1>5. QED
  BY <1>4, PlainIsData, AesType, EmptyTypes DEF prepare_data

\* processCipherText gives data and a signer; GPG is only given what looks like a
\* message, so there is something to cut off.
LEMMA OpenType ==
    ASSUME NEW d \in Data, NEW cipher \in {"GPG", "AES", "NONE"},
           cipher = "GPG" => isGPGencrypted(d), NEW password,
           NEW secret \in SUBSET Key, NEW trusted \in SUBSET Key
    PROVE  LET r == processCipherText(cipher, d, password, secret, trusted)
           IN  r.data \in Data /\ r.signer \in Signer
<1>1. d.body \in Bytes /\ (d.form # "gpg" /\ isGPGencrypted(d) => Tail(d.body) \in Bytes)
  BY DEF Data, isGPGencrypted, Bytes
<1>2. comment_on_signature(d.signer, trusted) \in Signer /\ NoKey \in Signer
  BY DEF comment_on_signature, Signer
<1>3. CASE cipher = "GPG"
  BY <1>1, <1>2, <1>3, PlainIsData, EmptyTypes DEF processCipherText, GPG_processCipherText, Ok, Throw
<1>4. CASE cipher # "GPG"
  BY <1>1, <1>2, <1>4, PlainIsData, EmptyTypes DEF processCipherText, AES_processCipherText, Ok, Throw
<1>5. QED
  BY <1>3, <1>4

\* The end of get: it prints data only when it succeeds.
LEMMA DecodeType ==
    ASSUME NEW b \in Blob, NEW c, NEW password, NEW no_decrypt \in BOOLEAN, NEW cf \in Conf
    PROVE  LET r == decode(b, c, password, no_decrypt, cf)
           IN  /\ r.out \in Data /\ r.reported \in Signer
               /\ r.exit \in {"0", "1", "abort"}
               /\ r.exit # "0" => r.out = Empty /\ r.reported = NoKey
<1> DEFINE d == packet_data(b)
           s == packet_signature(b)
           cipher == cipher_for(d, c)
           r == processCipherText(cipher, d, password, cf.secret, cf.trusted)
<1>1. d \in Data /\ s \in Sig /\ Plain(b.raw) \in Data
  BY EmptyTypes, PlainIsData DEF Blob, packet_data, packet_signature
<1>2. cipher \in {"GPG", "AES", "NONE"} /\ (cipher = "GPG" => isGPGencrypted(d))
  BY DEF cipher_for
<1>3. cf.secret \in SUBSET Key /\ cf.trusted \in SUBSET Key
  BY DEF Conf
<1>4. r.data \in Data /\ r.signer \in Signer
  BY <1>1, <1>2, <1>3, OpenType
<1>5. comment_on_signature(GPG_verify(s).signer, cf.trusted) \in Signer /\ NoKey \in Signer
  BY <1>3 DEF comment_on_signature, Signer
<1> HIDE DEF d, s, cipher, r
<1>6. QED
  BY <1>1, <1>4, <1>5, EmptyTypes DEF decode, Result, d, s, cipher, r

\* A code is cut out of what the user typed within its bounds.
LEMMA CodeTypes ==
    ASSUME NEW u \in Text
    PROVE  /\ code_from_dpaste_uri(u) \in Text /\ pwd_part(u) \in Text
           /\ u # <<>> => Tail(u) \in Text
<1> DEFINE found == {p \in 1 .. Len(u) : u[p] = DPASTE_URI_PREFIX}
           from == IF found # {} THEN Min(found) + 1 ELSE 1
<1>1. from \in Nat \ {0}
  <2>1. CASE found = {}
    BY <2>1
  <2>2. CASE found # {}
    <3>1. found \in SUBSET Nat
      OBVIOUS
    <3>2. Min(found) \in found
      BY <2>2, <3>1, MinIsLeast
    <3>3. QED
      BY <2>2, <3>1, <3>2
  <2>3. QED
    BY <2>1, <2>2
<1>2. ASSUME NEW i \in Nat \ {0} PROVE SubSeq(u, i, Len(u)) \in Text
  BY <1>2 DEF Text
<1>3. code_from_dpaste_uri(u) = SubSeq(u, from, Len(u))
  BY DEF code_from_dpaste_uri
<1>4. PassOffset + 1 \in Nat \ {0}
  BY CodesAssumption DEF PassOffset
<1>5. u # <<>> => Tail(u) \in Text
  BY DEF Text
<1> HIDE DEF from
<1>6. QED
  BY <1>1, <1>2, <1>3, <1>4, <1>5 DEF pwd_part

-----------------------------------------------------------------------------
(* Type correctness *)

(***************************************************************************)
(* TypeOK is not inductive: that the DHT only has locations of full width  *)
(* rests on where a packet comes from.  So: the generator's flag is never  *)
(* set, a process that has not begun has no packet, and one that has a     *)
(* packet has drawn a PIN for it.                                          *)
(***************************************************************************)
TypeInv ==
    /\ TypeOK
    /\ \A p \in Proc : rng[p].initialized = FALSE
    /\ \A p \in Proc : pc[p] = "start" => ~Pasted(p)
    /\ \A p \in Proc : Pasted(p) => code[p] \in Pin

\* A step that changes only pc, the results of p and what is published.
LEMMA TypeOfOutputs ==
    ASSUME TypeInv,
           pc' \in [Proc -> {"start", "http_put", "node_paste", "http_get", "node_get", "exit"}],
           \A q \in Proc : pc'[q] = "start" => pc[q] = "start",
           received' \in [Proc -> Blob], uri' \in [Proc -> Text], out' \in [Proc -> Data],
           reported' \in [Proc -> Signer], exit' \in [Proc -> {"none", "0", "1", "abort"}],
           published' \subseteq Pin \X Blob,
           UNCHANGED <<job, conf, rng, scheme, code, pwd, blob>>
    PROVE  TypeInv'
  BY DEF TypeInv, TypeOK, Pasted

\* paste() up to its first put.
LEMMA StartPasteTypes ==
    ASSUME TypeInv, NEW p \in Proc, StartPaste(p)
    PROVE  TypeInv'
<1> DEFINE params == params_from_args(job[p])
           first == random_pin(rng[p])
           second == random_pin(first.rng)
           drawn == params.kind = "AES"
           password == IF drawn THEN second.pin ELSE <<>>
           last == IF drawn THEN second.rng ELSE first.rng
<1>1. PICK s \in SchemeRead(params) :
        LET pp == prepare_data(data_from_stream(job[p].input), params, s, conf[p], password)
        IN  /\ scheme' = [scheme EXCEPT ![p] = s]
            /\ code' = [code EXCEPT ![p] = first.pin]
            /\ pwd' = [pwd EXCEPT ![p] = password]
            /\ rng' = [rng EXCEPT ![p] = last]
            /\ IF pp.err = "none"
               THEN /\ blob' = [blob EXCEPT ![p] = serialize(pp.data, pp.sig)]
                    /\ Go(p, "http_put")
                    /\ UNCHANGED exit
               ELSE Exit(p, "abort") /\ UNCHANGED blob
  BY DEF StartPaste
<1> DEFINE pp == prepare_data(data_from_stream(job[p].input), params, s, conf[p], password)
<1>2. UNCHANGED <<job, conf, received, uri, out, reported, published>> /\ pc[p] = "start"
  BY DEF StartPaste
<1>3. /\ job[p] \in ParsedArgs /\ job[p].input \in Bytes /\ conf[p] \in Conf
      /\ rng[p] \in Rng(Streams) /\ rng[p].initialized = FALSE
  BY DEF TypeInv, TypeOK, ParsedArgs
<1>4. params \in Parameters /\ data_from_stream(job[p].input) \in Bytes
  BY <1>3, ParamsType, StreamType
<1>5. first.pin \in Pin /\ first.rng \in Rng(Streams) /\ ~first.rng.initialized
  BY <1>3, RandomPin
<1>6. second.pin \in Pin /\ second.rng \in Rng(Streams) /\ ~second.rng.initialized
  BY <1>5, RandomPin
<1>7. first.pin \in Text /\ password \in Text /\ last \in Rng(Streams) /\ last.initialized = FALSE
  <2>1. first.pin \in Text /\ second.pin \in Text /\ <<>> \in Text
    BY <1>5, <1>6, PinIsText DEF Text
  <2>2. \A r \in Rng(Streams) : r.initialized \in BOOLEAN
    BY DEF Rng
  <2>3. QED
    BY <1>5, <1>6, <2>1, <2>2
<1>8. pp.data \in Data /\ pp.sig \in Sig
  BY <1>3, <1>4, <1>7, PrepareType
<1>9. serialize(pp.data, pp.sig) \in Blob
  BY <1>8, SerializeType
<1>10. s \in Scheme
  BY <1>4 DEF SchemeRead, Scheme, Parameters
<1> HIDE DEF params, first, second, drawn, password, last, pp
<1>11. PICK b \in Blob, x \in {"none", "abort"}, to \in {"http_put", "exit"} :
           /\ blob' = [blob EXCEPT ![p] = b]
           /\ exit' = [exit EXCEPT ![p] = x] \/ exit' = exit
           /\ pc' = [pc EXCEPT ![p] = to]
  <2>1. blob = [blob EXCEPT ![p] = blob[p]] /\ blob[p] \in Blob
    BY DEF TypeInv, TypeOK
  <2>2. QED
    BY <1>1, <1>9, <2>1 DEF Go, Exit, pp
<1>12. TypeOK'
  BY <1>1, <1>2, <1>5, <1>7, <1>10, <1>11 DEF TypeInv, TypeOK
<1>13. QED
  BY <1>1, <1>2, <1>5, <1>7, <1>11, <1>12 DEF TypeInv, TypeOK, Pasted

\* A code that some user typed, or copied from what a paste printed.
LEMMA GivenType == ASSUME TypeInv, NEW u \in Given PROVE u \in Text
<1>1. \A q \in Proc : uri[q] \in Text /\ (uri[q] # <<>> => Tail(uri[q]) \in Text)
  BY CodeTypes DEF TypeInv, TypeOK
<1>2. QED
  BY <1>1, BinAssumption DEF Given

\* get() up to its first request.
LEMMA StartGetTypes ==
    ASSUME TypeInv, NEW p \in Proc, StartGet(p)
    PROVE  TypeInv'
<1>1. PICK u \in Given :
        LET c == code_from_dpaste_uri(u)
        IN  /\ code' = [code EXCEPT ![p] = c]
            /\ IF TooShort(c)
               THEN Exit(p, "abort") /\ UNCHANGED pwd
               ELSE /\ pwd' = [pwd EXCEPT ![p] = pwd_part(c)]
                    /\ Go(p, "http_get")
                    /\ UNCHANGED exit
  BY DEF StartGet
<1> DEFINE c == code_from_dpaste_uri(u)
<1>2. UNCHANGED <<job, conf, rng, scheme, blob, received, uri, out, reported, published>> /\ pc[p] = "start"
  BY DEF StartGet
<1>3. c \in Text /\ pwd_part(c) \in Text
  BY GivenType, CodeTypes
<1> HIDE DEF c
<1>4. PICK to \in {"http_get", "exit"} : pc' = [pc EXCEPT ![p] = to]
  BY <1>1 DEF Go, Exit
<1>5. pwd' \in [Proc -> Text] /\ exit' \in [Proc -> {"none", "0", "1", "abort"}]
  BY <1>1, <1>3 DEF Go, Exit, TypeInv, TypeOK, c
<1>6. code' \in [Proc -> Text] /\ \A q \in Proc \ {p} : code'[q] = code[q]
  BY <1>1, <1>3 DEF TypeInv, TypeOK, c
<1>7. TypeOK'
  BY <1>2, <1>4, <1>5, <1>6 DEF TypeInv, TypeOK
<1>8. QED
  BY <1>2, <1>4, <1>6, <1>7 DEF TypeInv, TypeOK, Pasted

\* What a get does once it has a value.
LEMMA DeliverTypes ==
    ASSUME TypeInv, NEW p \in Proc, Deliver(p, received[p]), pc[p] # "start",
           UNCHANGED <<job, conf, rng, scheme, code, pwd, blob, received, uri, published>>
    PROVE  TypeInv'
<1> DEFINE r == decode(received[p], code[p], pwd[p], job[p].no_decrypt, conf[p])
<1>1. /\ out' = [out EXCEPT ![p] = r.out] /\ reported' = [reported EXCEPT ![p] = r.reported]
      /\ pc' = [pc EXCEPT ![p] = "exit"] /\ exit' = [exit EXCEPT ![p] = r.exit]
  BY DEF Deliver, Exit, Go
<1>2. received[p] \in Blob /\ job[p].no_decrypt \in BOOLEAN /\ conf[p] \in Conf
  BY DEF TypeInv, TypeOK, ParsedArgs
<1>3. r.out \in Data /\ r.reported \in Signer /\ r.exit \in {"0", "1", "abort"}
  BY <1>2, DecodeType
<1> HIDE DEF r
<1>4. QED
  BY <1>1, <1>3, TypeOfOutputs DEF TypeInv, TypeOK

\* Every step keeps the type invariant.
LEMMA TypeStep == TypeInv /\ [Next]_vars => TypeInv'
<1> SUFFICES ASSUME TypeInv, [Next]_vars PROVE TypeInv'
  OBVIOUS
<1> USE DEF local
<1>1. ASSUME NEW p \in Proc, Step(p) PROVE TypeInv'
  <2>1. CASE StartPaste(p)
    BY <2>1, StartPasteTypes
  <2>2. CASE StartGet(p)
    BY <2>2, StartGetTypes
  <2>3. CASE HttpPutOk(p) \/ NodePasteOk(p)
    <3>1. uri_of(code[p], pwd[p]) \in Text
      <4>1. code[p] \in Text /\ pwd[p] \in Text
        BY DEF TypeInv, TypeOK
      <4>2. QED
        BY <4>1 DEF uri_of, Text
    <3>2. /\ uri' = [uri EXCEPT ![p] = uri_of(code[p], pwd[p])]
          /\ pc' = [pc EXCEPT ![p] = "exit"] /\ exit' = [exit EXCEPT ![p] = "0"]
          /\ UNCHANGED <<job, conf, rng, scheme, code, pwd, blob, received, out, reported, published>>
      BY <2>3 DEF HttpPutOk, NodePasteOk, PasteSucceeds, Exit, Go
    <3>3. QED
      BY <3>1, <3>2, TypeOfOutputs DEF TypeInv, TypeOK
  <2>4. CASE HttpPutFail(p)
    BY <2>4, TypeOfOutputs DEF HttpPutFail, Go, TypeInv, TypeOK
  <2>5. CASE EarlyExit(p) \/ InitFails(p) \/ NodePasteFail(p) \/ NodeGetEmpty(p)
    <3>1. /\ \E x \in {"0", "1", "abort"} : exit' = [exit EXCEPT ![p] = x]
          /\ pc' = [pc EXCEPT ![p] = "exit"]
          /\ UNCHANGED <<job, conf, rng, scheme, code, pwd, blob, received, uri, out, reported, published>>
      BY <2>5 DEF EarlyExit, InitFails, NodePasteFail, PasteFails, NodeGetEmpty, Exit, Go
    <3>2. QED
      BY <3>1, TypeOfOutputs DEF TypeInv, TypeOK
  <2>6. CASE HttpGetFound(p) \/ NodeGetFound(p)
    BY <2>6, DeliverTypes DEF HttpGetFound, NodeGetFound
  <2>7. CASE HttpGetEmpty(p) \/ HttpGetGarbage(p)
    <3>1. CASE HttpGetEmpty(p)
      BY <3>1, EmptyTypes, TypeOfOutputs DEF HttpGetEmpty, Go, TypeInv, TypeOK
    <3>2. CASE HttpGetGarbage(p)
      BY <3>2, EmptyTypes, TypeOfOutputs DEF HttpGetGarbage, Exit, Go, TypeInv, TypeOK
    <3>3. QED
      BY <2>7, <3>1, <3>2
  <2>8. CASE Fetch(p)
    <3>1. PICK e \in Stored(p) : received' = [received EXCEPT ![p] = e[2]]
      BY <2>8 DEF Fetch
    <3>2. e[2] \in Blob
      BY <3>1 DEF Stored, TypeInv, TypeOK
    <3>3. QED
      BY <2>8, <3>1, <3>2, TypeOfOutputs DEF Fetch, TypeInv, TypeOK
  <2>9. QED
    BY <1>1, <2>1, <2>2, <2>3, <2>4, <2>5, <2>6, <2>7, <2>8 DEF Step
<1>2. CASE Land
  <2>1. PICK p \in Proc : Pasted(p) /\ published' = published \cup {<<code[p], blob[p]>>}
    BY <1>2 DEF Land, Publish, Request, Pasted
  <2>2. <<code[p], blob[p]>> \in Pin \X Blob
    BY <2>1 DEF TypeInv, TypeOK
  <2>3. QED
    BY <1>2, <2>1, <2>2, TypeOfOutputs DEF Land, TypeInv, TypeOK
<1>3. CASE LegacyPut
  <2>1. PICK v \in LegacyValues : v[2] # <<>> /\ published' = published \cup {<<v[1], LegacyBlob(v[2])>>}
    BY <1>3 DEF LegacyPut, Publish
  <2>2. v[1] \in Pin /\ v[2] \in Bytes
    BY BinAssumption
  <2>3. <<v[1], LegacyBlob(v[2])>> \in Pin \X Blob
    BY <2>1, <2>2, LegacyType
  <2>4. QED
    BY <1>3, <2>1, <2>3, TypeOfOutputs DEF LegacyPut, TypeInv, TypeOK
<1>4. CASE ForeignPut
  <2>1. PICK e \in ForeignPackets : published' = published \cup {e}
    BY <1>4 DEF ForeignPut, Publish
  <2>2. e \in Pin \X Blob
    BY <2>1, ForeignAssumption
  <2>3. QED
    BY <1>4, <2>1, <2>2, TypeOfOutputs DEF ForeignPut, TypeInv, TypeOK
<1>5. CASE UNCHANGED vars
  BY <1>5, TypeOfOutputs DEF vars, TypeInv, TypeOK
<1>6. QED
  BY <1>1, <1>2, <1>3, <1>4, <1>5 DEF Next

\* The type invariant holds at the start.
LEMMA TypeInit == Init => TypeInv
<1> SUFFICES ASSUME Init PROVE TypeInv
  OBVIOUS
<1>1. job \in [Proc -> ParsedArgs]
  BY BinAssumption DEF Init
<1>2. conf \in [Proc -> Conf]
  BY BinAssumption DEF Init
<1>3. rng \in [Proc -> Rng(Streams)] /\ \A p \in Proc : rng[p].initialized = FALSE
  BY RngInit
<1>4. \A p \in Proc : params_from_args(job[p]) \in Parameters
  BY <1>1, ParamsType
<1>5. <<>> \in Text
  BY DEF Text
<1>6. QED
  BY <1>1, <1>2, <1>3, <1>4, <1>5, EmptyTypes DEF Init, TypeInv, TypeOK, Pasted, Scheme, Signer

\* It always holds.
LEMMA TypeInvariant == Spec => []TypeInv
  BY TypeInit, TypeStep, PTL DEF Spec

(***************************************************************************)
(* Bin is type correct, for any number of processes, any command lines,    *)
(* users and PIN length: what prepare_data, decode and the cutting of      *)
(* codes give back is of the kind its users take, and every location in    *)
(* the DHT is a PIN of full width (bin.cpp:55-189, main.cpp:156-202).      *)
(***************************************************************************)
THEOREM BinTypeCorrect == Spec => []TypeOK
<1>1. TypeInv => TypeOK
  BY DEF TypeInv
<1>2. QED
  BY <1>1, TypeInvariant, PTL
=============================================================================
