----------------------------- MODULE BinSafety -----------------------------
(***************************************************************************)
(* What a get shows of a paste, proved for any number of processes, any    *)
(* command lines, users, keys, files and PIN length, and for a network     *)
(* that loses, delays and repeats puts.                                    *)
(***************************************************************************)
EXTENDS BinTypes

-----------------------------------------------------------------------------
(* The inductive invariant *)

\* What prepare_data makes of p's command line, with what p drew.
Prepared(p) == prepare_data(data_from_stream(job[p].input), Params(p), scheme[p], conf[p], pwd[p])

\* A process that has not begun has nothing to show.
Untouched(p) == out[p] = Empty /\ reported[p] = NoKey /\ received[p] = NoBlob

StartInv(p) ==
    pc[p] = "start" => ~Pasted(p) /\ Untouched(p) /\ code[p] = <<>>

\* A packet is what prepare_data made of the command line, and stays so.
PacketInv(p) ==
    /\ pc[p] \in {"http_put", "node_paste"} => Pasted(p)
    /\ Pasted(p) =>
          /\ pc[p] \in {"http_put", "node_paste", "exit"}
          /\ Untouched(p)
          /\ code[p] \in Pin
          /\ pwd[p] \in IF Params(p).kind = "AES" THEN Pin ELSE {<<>>}
          /\ scheme[p] \in SchemeRead(Params(p))
          /\ Prepared(p).err = "none"
          /\ blob[p] = serialize(Prepared(p).data, Prepared(p).sig)

\* A get under way: its code has a password part, and the value it was given,
\* if any, is or was at its location.
GetInv(g) ==
    pc[g] \in {"http_get", "node_get"} =>
        /\ ~Pasted(g) /\ ~TooShort(code[g]) /\ pwd[g] = pwd_part(code[g])
        /\ out[g] = Empty /\ reported[g] = NoKey
        /\ received[g] # NoBlob => <<lcode(code[g]), received[g]>> \in published

\* What get makes of the bytes b, for process g.
Decoded(g, b) == decode(b, code[g], pwd_part(code[g]), job[g].no_decrypt, conf[g])

\* How a process ended that made no packet: with nothing received, or with what
\* get made of a value of its location.
EndInv(g) ==
    /\ exit[g] = "none" <=> pc[g] # "exit"
    /\ pc[g] = "exit" /\ ~Pasted(g) =>
          \/ /\ Untouched(g)
             /\ exit[g] = "1" => code[g] = <<>>
          \/ /\ ~TooShort(code[g])
             /\ \E b \in Blob :
                  /\ <<lcode(code[g]), b>> \in published
                  /\ out[g] = Decoded(g, b).out
                  /\ reported[g] = Decoded(g, b).reported
                  /\ exit[g] = Decoded(g, b).exit

ProcInv(p) == StartInv(p) /\ PacketInv(p) /\ GetInv(p) /\ EndInv(p)

OldNotes == {<<v[1], LegacyBlob(v[2])>> : v \in {w \in LegacyValues : w[2] # <<>>}}

\* Whatever the DHT holds is the packet of a paste, an older client's file or a
\* foreign packet.
PublishedInv ==
    \A e \in published :
        \/ e \in OldNotes \cup ForeignPackets
        \/ \E p \in Proc : Pasted(p) /\ e = <<code[p], blob[p]>>

BinInv == TypeInv /\ PublishedInv /\ \A p \in Proc : ProcInv(p)

-----------------------------------------------------------------------------
(* What prepare_data gives, and what decode makes of it *)

\* The three kinds of packet prepare_data makes of the bytes b.
IsAes(params, s, b, password, d, sig) ==
    /\ params.kind = "AES" \/ (params.kind = "null" /\ s = "AES")
    /\ d = AES_processPlainText(b, password)
    /\ sig = EmptySig

IsGpg(params, b, cf, d, sig) ==
    /\ params.kind = "GPG" /\ params.recipients # {}
    /\ d.form = "gpg" /\ d.body = Append(b, NUL) /\ d # Empty
    /\ d.signer = IF params.sign THEN cf.pgp_key_id ELSE NoKey
    /\ d.signer # NoKey => d.signer \in cf.secret
    /\ sig = EmptySig

IsPlain(params, s, b, cf, d, sig) ==
    /\ params.kind # "AES" /\ params.recipients = {} /\ ~(params.kind = "null" /\ s = "AES")
    /\ d = Plain(b)
    /\ sig.signer = IF params.kind = "GPG" /\ params.sign THEN cf.pgp_key_id ELSE NoKey
    /\ sig.signer # NoKey => sig.signer \in cf.secret

\* A message of the bytes and a NUL, signed if asked for, with a secret key.
GivesMessage(ct, b, sign, k, secret) ==
    ct.err = "none" =>
        /\ ct.data.form = "gpg" /\ ct.data.body = Append(b, NUL) /\ ct.data # Empty
        /\ ct.data.signer = IF sign THEN k ELSE NoKey
        /\ ct.data.signer # NoKey => ct.data.signer \in secret

\* GPG::encrypt, asked to sign only by a context that has a key, fails or gives
\* such a message.
LEMMA EncryptGives ==
    ASSUME NEW to, NEW b, NEW sign \in BOOLEAN, NEW k, NEW secret, ~(sign /\ k = NoKey)
    PROVE  GivesMessage(GPG_encrypt(to, b, sign, k, secret), b, sign, k, secret)
  BY DEF GPG_encrypt, Ok, Throw, Empty, Plain, GivesMessage

\* What prepare_data makes is one of the three kinds of packet, whatever it reads
\* in the scheme that nobody set when no option was given.
LEMMA PreparedKinds ==
    ASSUME NEW pa \in ParsedArgs, NEW b \in Bytes, NEW s \in SchemeRead(params_from_args(pa)),
           NEW cf \in Conf, NEW password,
           prepare_data(b, params_from_args(pa), s, cf, password).err = "none"
    PROVE  LET params == params_from_args(pa)
               pp == prepare_data(b, params, s, cf, password)
           IN  \/ IsAes(params, s, b, password, pp.data, pp.sig)
               \/ IsGpg(params, b, cf, pp.data, pp.sig)
               \/ IsPlain(params, s, b, cf, pp.data, pp.sig)
<1> DEFINE params == params_from_args(pa)
           pp == prepare_data(b, params, s, cf, password)
           k == cf.pgp_key_id
           ct == GPG_processPlainText(b, params, k, cf.secret)
           signed == GPG_sign(b, k, cf.secret)
<1> SUFFICES \/ IsAes(params, s, b, password, pp.data, pp.sig)
             \/ IsGpg(params, b, cf, pp.data, pp.sig)
             \/ IsPlain(params, s, b, cf, pp.data, pp.sig)
  OBVIOUS
<1>0. pp.err = "none"
  OBVIOUS
<1>1. /\ params \in Parameters
      /\ params.kind = "null" => params.recipients = {}
      /\ params.kind # "null" => s = params.kind
  BY ParamsType DEF params_from_args, ParsedArgs, SchemeRead
<1> HIDE DEF params
<1>2. CASE params.kind = "AES"
  BY <1>1, <1>2 DEF prepare_data, Cipher_get, IsAes
<1>3. CASE params.kind = "null"
  BY <1>1, <1>3 DEF prepare_data, Cipher_get, IsAes, IsPlain, EmptySig
<1>4. CASE params.kind = "GPG"
  <2>1. pp = prepare_gpg(b, params, cf)
    BY <1>4 DEF prepare_data
  <2>2. CASE params.recipients # {}
    <3> DEFINE to == params.recipients \cup
                       {x \in {k} : /\ params.recipients # {} /\ params.self_recipient /\ x # NoKey}
               to_sign == params.sign /\ k # NoKey
    <3>1. ct = GPG_encrypt(to, b, to_sign, k, cf.secret)
      BY <2>2 DEF GPG_processPlainText
    <3>2. to_sign \in BOOLEAN /\ ~(to_sign /\ k = NoKey)
      BY <1>1 DEF Parameters
    <3> HIDE DEF to
    <3>3. GivesMessage(ct, b, to_sign, k, cf.secret)
      <4> HIDE DEF to_sign, ct
      <4>1. QED
        BY <3>1, <3>2, EncryptGives
    <3> HIDE DEF ct
    <3>4. pp.err = "none" => pp.data = ct.data /\ pp.err = ct.err /\ pp.sig = EmptySig
      BY <2>1, <3>3 DEF prepare_gpg, ct, GivesMessage
    <3> HIDE DEF pp
    <3>5. QED
      BY <1>0, <1>4, <2>2, <3>3, <3>4 DEF IsGpg, GivesMessage
  <2>3. CASE params.recipients = {}
    <3>1. ct = Ok(Empty, NoKey)
      BY <2>3 DEF GPG_processPlainText
    <3>2. /\ pp.data = Plain(b)
          /\ \/ pp.sig = EmptySig /\ ~(params.sign /\ k # NoKey)
             \/ params.sign /\ k # NoKey /\ pp.sig = signed.sig /\ signed.err = "none"
      BY <1>0, <2>1, <3>1 DEF prepare_gpg, Ok
    <3>3. signed.err = "none" /\ k # NoKey => signed.sig.signer = k /\ k \in cf.secret
      BY DEF GPG_sign
    <3> HIDE DEF pp, signed
    <3>4. QED
      BY <1>4, <2>3, <3>2, <3>3 DEF IsPlain, EmptySig
  <2>4. QED
    BY <2>2, <2>3
<1>5. QED
  BY <1>1, <1>2, <1>3, <1>4 DEF Parameters

-----------------------------------------------------------------------------
(* Every step keeps the invariant *)

\* What a step of another process leaves alone.
LEMMA OthersKeep ==
    ASSUME NEW q \in Proc, ProcInv(q), published \subseteq published',
           pc'[q] = pc[q], job'[q] = job[q], conf'[q] = conf[q], scheme'[q] = scheme[q],
           code'[q] = code[q], pwd'[q] = pwd[q], blob'[q] = blob[q], received'[q] = received[q],
           out'[q] = out[q], reported'[q] = reported[q], exit'[q] = exit[q]
    PROVE  ProcInv(q)'
<1>1. StartInv(q)'
  BY DEF ProcInv, StartInv, Untouched, Pasted
<1>2. PacketInv(q)'
  BY DEF ProcInv, PacketInv, Untouched, Pasted, Params, Prepared
<1>3. GetInv(q)'
  BY DEF ProcInv, GetInv, Pasted
<1>4. EndInv(q)'
  BY DEF ProcInv, EndInv, Decoded, Pasted, Untouched
<1>5. QED
  BY <1>1, <1>2, <1>3, <1>4 DEF ProcInv

\* A packet in the DHT stays the packet of its paste.
LEMMA PublishedKeeps ==
    ASSUME PublishedInv, published' = published,
           \A p \in Proc : Pasted(p) => code'[p] = code[p] /\ blob'[p] = blob[p]
    PROVE  PublishedInv'
  BY DEF PublishedInv, Pasted

\* A step of p that changes its pc, its results and nothing else.
LEMMA LocalStep ==
    ASSUME BinInv, TypeInv', NEW p \in Proc, published' = published,
           UNCHANGED <<job, conf, scheme, code, pwd, blob>>,
           \A q \in Proc \ {p} : /\ pc'[q] = pc[q] /\ received'[q] = received[q] /\ out'[q] = out[q]
                                 /\ reported'[q] = reported[q] /\ exit'[q] = exit[q],
           ProcInv(p)'
    PROVE  BinInv'
<1>1. PublishedInv'
  BY PublishedKeeps DEF BinInv
<1>2. ASSUME NEW q \in Proc, q # p PROVE ProcInv(q)'
  BY <1>2, OthersKeep DEF BinInv
<1>3. QED
  BY <1>1, <1>2 DEF BinInv

\* A process leaves with nothing to show.
LEMMA EndsSilently ==
    ASSUME BinInv, TypeInv', NEW p \in Proc, NEW x \in {"0", "1", "abort"}, pc[p] # "exit",
           x = "1" => Pasted(p) \/ code[p] = <<>>, Exit(p, x),
           received' = [received EXCEPT ![p] = NoBlob],
           UNCHANGED <<job, conf, scheme, code, pwd, blob, out, reported, published>>
    PROVE  BinInv'
<1>1. /\ pc' = [pc EXCEPT ![p] = "exit"] /\ exit' = [exit EXCEPT ![p] = x]
      /\ pc'[p] = "exit" /\ exit'[p] = x /\ received'[p] = NoBlob
      /\ \A q \in Proc \ {p} : pc'[q] = pc[q] /\ exit'[q] = exit[q] /\ received'[q] = received[q]
  BY DEF Exit, Go, BinInv, TypeInv, TypeOK
<1>2. ~Pasted(p) => out[p] = Empty /\ reported[p] = NoKey
  BY DEF BinInv, TypeInv, TypeOK, ProcInv, StartInv, PacketInv, GetInv, Untouched
<1>3. StartInv(p)' /\ GetInv(p)'
  BY <1>1 DEF StartInv, GetInv
<1>4. PacketInv(p)'
  BY <1>1 DEF BinInv, ProcInv, PacketInv, Pasted, Untouched, Params, Prepared
<1>5. EndInv(p)'
  BY <1>1, <1>2 DEF EndInv, Pasted, Untouched
<1>6. QED
  BY <1>1, <1>3, <1>4, <1>5, LocalStep DEF ProcInv

\* A paste makes its packet, or leaves with an exception.
LEMMA StartPasteKeeps ==
    ASSUME BinInv, TypeInv', NEW p \in Proc, StartPaste(p)
    PROVE  BinInv'
<1> DEFINE params == params_from_args(job[p])
           first == random_pin(rng[p])
           second == random_pin(first.rng)
           drawn == params.kind = "AES"
           password == IF drawn THEN second.pin ELSE <<>>
<1>1. PICK s \in SchemeRead(params) :
        LET pp == prepare_data(data_from_stream(job[p].input), params, s, conf[p], password)
        IN  /\ scheme' = [scheme EXCEPT ![p] = s]
            /\ code' = [code EXCEPT ![p] = first.pin]
            /\ pwd' = [pwd EXCEPT ![p] = password]
            /\ IF pp.err = "none"
               THEN /\ blob' = [blob EXCEPT ![p] = serialize(pp.data, pp.sig)]
                    /\ Go(p, "http_put")
                    /\ UNCHANGED exit
               ELSE Exit(p, "abort") /\ UNCHANGED blob
  BY DEF StartPaste
<1> DEFINE pp == prepare_data(data_from_stream(job[p].input), params, s, conf[p], password)
<1>2. UNCHANGED <<job, conf, received, uri, out, reported, published>> /\ pc[p] = "start"
  BY DEF StartPaste
<1>3. rng[p] \in Rng(Streams) /\ ~rng[p].initialized
  BY DEF BinInv, TypeInv, TypeOK
<1>4. first.pin \in Pin /\ first.rng \in Rng(Streams) /\ ~first.rng.initialized
  BY <1>3, RandomPin
<1>5. second.pin \in Pin
  BY <1>4, RandomPin
<1>6. password \in IF params.kind = "AES" THEN Pin ELSE {<<>>}
  BY <1>5
<1> HIDE DEF first, second, drawn, password
<1>7. /\ scheme'[p] = s /\ code'[p] = first.pin /\ pwd'[p] = password
      /\ \A q \in Proc \ {p} : /\ scheme'[q] = scheme[q] /\ code'[q] = code[q] /\ pwd'[q] = pwd[q]
                               /\ pc'[q] = pc[q] /\ exit'[q] = exit[q] /\ blob'[q] = blob[q]
  BY <1>1 DEF BinInv, TypeInv, TypeOK, Go, Exit
<1>8. ~Pasted(p) /\ Untouched(p) /\ exit[p] = "none"
  BY <1>2 DEF BinInv, ProcInv, StartInv, EndInv
<1>9. Params(p)' = params /\ Prepared(p)' = pp /\ Untouched(p)'
  BY <1>2, <1>7, <1>8 DEF Params, Prepared, Untouched
<1> HIDE DEF params, pp
<1>10. ProcInv(p)'
  <2>1. CASE pp.err = "none"
    <3>1. /\ blob'[p] = serialize(pp.data, pp.sig) /\ pc'[p] = "http_put" /\ exit'[p] = "none"
      BY <1>1, <1>8, <2>1 DEF BinInv, TypeInv, TypeOK, Go, pp
    <3>2. PacketInv(p)'
      <4>1. Pasted(p)'
        BY <3>1 DEF Pasted, serialize, NoBlob
      <4>2. QED
        BY <1>1, <1>4, <1>6, <1>7, <1>9, <2>1, <3>1, <4>1 DEF PacketInv
    <3>3. QED
      BY <3>1, <3>2 DEF ProcInv, StartInv, GetInv, EndInv
  <2>2. CASE pp.err # "none"
    <3>1. blob' = blob /\ pc'[p] = "exit" /\ exit'[p] = "abort"
      BY <1>1, <2>2 DEF BinInv, TypeInv, TypeOK, Go, Exit, pp
    <3>2. ~Pasted(p)'
      BY <1>8, <3>1 DEF Pasted
    <3>3. QED
      BY <1>9, <3>1, <3>2 DEF ProcInv, StartInv, PacketInv, GetInv, EndInv, Untouched
  <2>3. QED
    BY <2>1, <2>2
<1>11. PublishedInv'
  BY <1>2, <1>7, <1>8, PublishedKeeps DEF BinInv
<1>12. ASSUME NEW q \in Proc, q # p PROVE ProcInv(q)'
  BY <1>2, <1>7, <1>12, OthersKeep DEF BinInv
<1>13. QED
  BY <1>10, <1>11, <1>12 DEF BinInv

\* A get takes its code apart, or leaves with an exception.
LEMMA StartGetKeeps ==
    ASSUME BinInv, TypeInv', NEW p \in Proc, StartGet(p)
    PROVE  BinInv'
<1>1. PICK c : /\ code' = [code EXCEPT ![p] = c]
               /\ IF TooShort(c)
                  THEN Exit(p, "abort") /\ UNCHANGED pwd
                  ELSE /\ pwd' = [pwd EXCEPT ![p] = pwd_part(c)]
                       /\ Go(p, "http_get")
                       /\ UNCHANGED exit
  BY DEF StartGet
<1>2. UNCHANGED <<job, conf, scheme, blob, received, uri, out, reported, published>> /\ pc[p] = "start"
  BY DEF StartGet
<1>3. /\ code'[p] = c
      /\ \A q \in Proc \ {p} : /\ code'[q] = code[q] /\ pwd'[q] = pwd[q]
                               /\ pc'[q] = pc[q] /\ exit'[q] = exit[q]
  BY <1>1 DEF BinInv, TypeInv, TypeOK, Go, Exit
<1>4. ~Pasted(p) /\ Untouched(p) /\ exit[p] = "none"
  BY <1>2 DEF BinInv, ProcInv, StartInv, EndInv
<1>5. ~Pasted(p)' /\ Untouched(p)'
  BY <1>2, <1>4 DEF Pasted, Untouched
<1>6. ProcInv(p)'
  <2>1. CASE TooShort(c)
    <3>1. pc'[p] = "exit" /\ exit'[p] = "abort"
      BY <1>1, <2>1 DEF BinInv, TypeInv, TypeOK, Go, Exit
    <3>2. QED
      BY <1>5, <3>1 DEF ProcInv, StartInv, PacketInv, GetInv, EndInv, Untouched
  <2>2. CASE ~TooShort(c)
    <3>1. pc'[p] = "http_get" /\ exit'[p] = "none" /\ pwd'[p] = pwd_part(c)
      BY <1>1, <1>4, <2>2 DEF BinInv, TypeInv, TypeOK, Go
    <3>2. QED
      BY <1>3, <1>5, <2>2, <3>1 DEF ProcInv, StartInv, PacketInv, GetInv, EndInv, Untouched
  <2>3. QED
    BY <2>1, <2>2
<1>7. PublishedInv'
  BY <1>2, <1>3, <1>4, PublishedKeeps DEF BinInv
<1>8. ASSUME NEW q \in Proc, q # p PROVE ProcInv(q)'
  BY <1>2, <1>3, <1>8, OthersKeep DEF BinInv
<1>9. QED
  BY <1>6, <1>7, <1>8 DEF BinInv

\* A get shows what it makes of the value it was given.
LEMMA DeliverKeeps ==
    ASSUME BinInv, TypeInv', NEW p \in Proc, pc[p] \in {"http_get", "node_get"},
           received[p] # NoBlob, Deliver(p, received[p]),
           UNCHANGED <<job, conf, scheme, code, pwd, blob, received, published>>
    PROVE  BinInv'
<1>0. PICK b \in Blob : b = received[p]
  BY DEF BinInv, TypeInv, TypeOK
<1> DEFINE r == Decoded(p, b)
<1>1. /\ ~Pasted(p) /\ ~TooShort(code[p]) /\ pwd[p] = pwd_part(code[p])
      /\ <<lcode(code[p]), b>> \in published
  BY <1>0 DEF BinInv, ProcInv, GetInv
<1>2. /\ out' = [out EXCEPT ![p] = r.out] /\ reported' = [reported EXCEPT ![p] = r.reported]
      /\ pc' = [pc EXCEPT ![p] = "exit"] /\ exit' = [exit EXCEPT ![p] = r.exit]
  BY <1>0, <1>1 DEF Deliver, Exit, Go, Decoded
<1>3. job[p].no_decrypt \in BOOLEAN /\ conf[p] \in Conf
  BY DEF BinInv, TypeInv, TypeOK, ParsedArgs
<1>4. r.exit \in {"0", "1", "abort"}
  BY <1>3, DecodeType DEF Decoded
<1>5. r = Decoded(p, b)' /\ ~Pasted(p)'
  BY <1>1 DEF Decoded, Pasted
<1> HIDE DEF r
<1>6. /\ pc'[p] = "exit" /\ out'[p] = r.out /\ reported'[p] = r.reported /\ exit'[p] = r.exit
      /\ \A q \in Proc \ {p} : /\ pc'[q] = pc[q] /\ received'[q] = received[q] /\ out'[q] = out[q]
                               /\ reported'[q] = reported[q] /\ exit'[q] = exit[q]
  BY <1>2 DEF BinInv, TypeInv, TypeOK
<1>7. EndInv(p)'
  <2>1. /\ <<lcode(code'[p]), b>> \in published' /\ ~TooShort(code'[p])
        /\ out'[p] = Decoded(p, b)'.out /\ reported'[p] = Decoded(p, b)'.reported
        /\ exit'[p] = Decoded(p, b)'.exit /\ exit'[p] # "none"
    BY <1>1, <1>4, <1>5, <1>6
  <2>2. QED
    BY <1>6, <2>1 DEF EndInv
<1>8. ProcInv(p)'
  BY <1>5, <1>6, <1>7 DEF ProcInv, StartInv, PacketInv, GetInv
<1>9. QED
  BY <1>6, <1>8, LocalStep

\* A value reaches the DHT.
LEMMA PublishKeeps ==
    ASSUME BinInv, TypeInv', NEW e,
           \/ e \in OldNotes \cup ForeignPackets
           \/ \E p \in Proc : Pasted(p) /\ e = <<code[p], blob[p]>>,
           published' = published \cup {e},
           UNCHANGED <<pc, job, conf, scheme, code, pwd, blob, received, out, reported, exit>>
    PROVE  BinInv'
<1>1. PublishedInv'
  BY DEF BinInv, PublishedInv, Pasted, OldNotes
<1>2. ASSUME NEW q \in Proc PROVE ProcInv(q)'
  BY OthersKeep DEF BinInv
<1>3. QED
  BY <1>1, <1>2 DEF BinInv

\* The steps of a process keep the invariant.
LEMMA ProcessStepKeeps ==
    ASSUME BinInv, TypeInv', NEW p \in Proc, Step(p)
    PROVE  BinInv'
<1> USE DEF local
<1>1. CASE StartPaste(p)
  BY <1>1, StartPasteKeeps
<1>2. CASE StartGet(p)
  BY <1>2, StartGetKeeps
<1>3. CASE EarlyExit(p) \/ InitFails(p) \/ HttpGetGarbage(p) \/ NodeGetEmpty(p)
  <2>1. PICK x \in {"0", "1", "abort"} : Exit(p, x) /\ (x = "1" => pc[p] = "start")
    BY <1>3 DEF EarlyExit, InitFails, HttpGetGarbage, NodeGetEmpty
  <2>2. /\ pc[p] # "exit"
        /\ UNCHANGED <<job, conf, scheme, code, pwd, blob, out, reported, published>>
    BY <1>3 DEF EarlyExit, InitFails, HttpGetGarbage, NodeGetEmpty
  <2>3. pc[p] = "start" => code[p] = <<>> /\ received[p] = NoBlob
    BY DEF BinInv, ProcInv, StartInv, Untouched
  <2>4. received' = [received EXCEPT ![p] = NoBlob]
    <3>1. CASE HttpGetGarbage(p)
      BY <3>1 DEF HttpGetGarbage
    <3>2. CASE EarlyExit(p) \/ InitFails(p) \/ NodeGetEmpty(p)
      BY <2>3, <3>2 DEF EarlyExit, InitFails, NodeGetEmpty, BinInv, TypeInv, TypeOK
    <3>3. QED
      BY <1>3, <3>1, <3>2
  <2>5. QED
    BY <2>1, <2>2, <2>3, <2>4, EndsSilently
<1>4. CASE HttpPutOk(p) \/ NodePasteOk(p) \/ NodePasteFail(p)
  <2>1. PICK x \in {"0", "1"} : Exit(p, x)
    BY <1>4 DEF HttpPutOk, NodePasteOk, NodePasteFail, PasteSucceeds, PasteFails
  <2>2. /\ pc[p] \in {"http_put", "node_paste"}
        /\ UNCHANGED <<job, conf, scheme, code, pwd, blob, received, out, reported, published>>
    BY <1>4 DEF HttpPutOk, NodePasteOk, NodePasteFail
  <2>3. Pasted(p) /\ received[p] = NoBlob
    BY <2>2 DEF BinInv, ProcInv, PacketInv, Untouched
  <2>4. received' = [received EXCEPT ![p] = NoBlob]
    BY <2>2, <2>3 DEF BinInv, TypeInv, TypeOK
  <2>5. QED
    BY <2>1, <2>2, <2>3, <2>4, EndsSilently
<1>5. CASE HttpPutFail(p)
  <2>1. /\ pc[p] = "http_put" /\ pc'[p] = "node_paste" /\ \A q \in Proc \ {p} : pc'[q] = pc[q]
        /\ UNCHANGED <<job, conf, scheme, code, pwd, blob, received, out, reported, exit, published>>
    BY <1>5 DEF HttpPutFail, Go, BinInv, TypeInv, TypeOK
  <2>2. Pasted(p) /\ ProcInv(p)
    BY <2>1 DEF BinInv, ProcInv, PacketInv
  <2>3. StartInv(p)' /\ GetInv(p)'
    BY <2>1 DEF StartInv, GetInv
  <2>4. PacketInv(p)'
    BY <2>1, <2>2 DEF ProcInv, PacketInv, Pasted, Untouched, Params, Prepared
  <2>5. EndInv(p)'
    BY <2>1, <2>2 DEF ProcInv, EndInv
  <2>6. QED
    BY <2>1, <2>3, <2>4, <2>5, LocalStep DEF ProcInv
<1>6. CASE HttpGetFound(p) \/ NodeGetFound(p)
  BY <1>6, DeliverKeeps DEF HttpGetFound, NodeGetFound
<1>7. CASE HttpGetEmpty(p) \/ Fetch(p)
  <2>1. /\ pc[p] \in {"http_get", "node_get"} /\ pc'[p] \in {"http_get", "node_get"}
        /\ \A q \in Proc \ {p} : pc'[q] = pc[q] /\ received'[q] = received[q]
        /\ received'[p] # NoBlob => <<lcode(code[p]), received'[p]>> \in published
        /\ UNCHANGED <<job, conf, scheme, code, pwd, blob, out, reported, exit, published>>
    <3>1. CASE HttpGetEmpty(p)
      BY <3>1 DEF HttpGetEmpty, Go, BinInv, TypeInv, TypeOK
    <3>2. CASE Fetch(p)
      <4>1. PICK e \in Stored(p) : received' = [received EXCEPT ![p] = e[2]]
        BY <3>2 DEF Fetch
      <4>2. e \in published /\ e = <<lcode(code[p]), e[2]>>
        BY <4>1 DEF Stored, BinInv, TypeInv, TypeOK
      <4>3. received'[p] = e[2] /\ \A q \in Proc \ {p} : received'[q] = received[q]
        BY <4>1 DEF BinInv, TypeInv, TypeOK
      <4>4. QED
        BY <3>2, <4>2, <4>3 DEF Fetch
    <3>3. QED
      BY <1>7, <3>1, <3>2
  <2>2. ProcInv(p) /\ ~Pasted(p)
    BY <2>1 DEF BinInv, ProcInv, GetInv
  <2>3. StartInv(p)' /\ PacketInv(p)'
    BY <2>1, <2>2 DEF StartInv, PacketInv, Pasted
  <2>4. GetInv(p)'
    BY <2>1, <2>2 DEF ProcInv, GetInv, Pasted
  <2>5. EndInv(p)'
    BY <2>1, <2>2 DEF ProcInv, EndInv
  <2>6. QED
    BY <2>1, <2>3, <2>4, <2>5, LocalStep DEF ProcInv
<1>8. QED
  BY <1>1, <1>2, <1>3, <1>4, <1>5, <1>6, <1>7 DEF Step

\* Every step keeps the invariant.
LEMMA BinStep == BinInv /\ TypeInv' /\ [Next]_vars => BinInv'
<1> SUFFICES ASSUME BinInv, TypeInv', [Next]_vars PROVE BinInv'
  OBVIOUS
<1> USE DEF local
<1>1. CASE Land
  BY <1>1, PublishKeeps DEF Land, Publish, Request, Pasted
<1>2. CASE LegacyPut
  <2>1. PICK v \in LegacyValues : /\ v[2] # <<>> /\ published' = published \cup {<<v[1], LegacyBlob(v[2])>>}
                                  /\ UNCHANGED <<pc, local>>
    BY <1>2 DEF LegacyPut, Publish
  <2>2. <<v[1], LegacyBlob(v[2])>> \in OldNotes
    BY <2>1 DEF OldNotes
  <2>3. QED
    BY <2>1, <2>2, PublishKeeps
<1>3. CASE ForeignPut
  BY <1>3, PublishKeeps DEF ForeignPut, Publish
<1>4. CASE UNCHANGED vars
  <2>1. PublishedInv'
    BY <1>4, PublishedKeeps DEF vars, BinInv
  <2>2. ASSUME NEW q \in Proc PROVE ProcInv(q)'
    BY <1>4, OthersKeep DEF vars, BinInv
  <2>3. QED
    BY <2>1, <2>2 DEF BinInv
<1>5. QED
  BY <1>1, <1>2, <1>3, <1>4, ProcessStepKeeps DEF Next

\* The invariant holds at the start.
LEMMA BinInit == Init => BinInv
<1> SUFFICES ASSUME Init PROVE BinInv
  OBVIOUS
<1>1. TypeInv
  BY TypeInit
<1>2. ASSUME NEW p \in Proc PROVE ProcInv(p)
  BY DEF Init, ProcInv, StartInv, PacketInv, GetInv, EndInv, Untouched, Pasted
<1>3. QED
  BY <1>1, <1>2 DEF Init, BinInv, PublishedInv

\* The invariant holds of every run.
LEMMA BinInvariant == Spec => []BinInv
  BY BinInit, BinStep, TypeInvariant, PTL DEF Spec

-----------------------------------------------------------------------------
(* What the invariant says of pastes and gets *)

\* p's bytes, and what its packet is made of.
Input(p) == data_from_stream(job[p].input)

AesPaste(p) == IsAes(Params(p), scheme[p], Input(p), pwd[p], blob[p].data, blob[p].signature)
GpgPaste(p) == IsGpg(Params(p), Input(p), conf[p], blob[p].data, blob[p].signature)
PlainPaste(p) == IsPlain(Params(p), scheme[p], Input(p), conf[p], blob[p].data, blob[p].signature)

\* Every packet in the system is one of the three kinds.
LEMMA PasteKinds ==
    ASSUME BinInv, NEW p \in Proc, Pasted(p)
    PROVE  /\ AesPaste(p) \/ GpgPaste(p) \/ PlainPaste(p)
           /\ blob[p] = serialize(blob[p].data, blob[p].signature)
<1>1. /\ scheme[p] \in SchemeRead(Params(p)) /\ Prepared(p).err = "none"
      /\ blob[p] = serialize(Prepared(p).data, Prepared(p).sig)
  BY DEF BinInv, ProcInv, PacketInv
<1>2. blob[p].data = Prepared(p).data /\ blob[p].signature = Prepared(p).sig
  BY <1>1 DEF serialize
<1>3. job[p] \in ParsedArgs /\ conf[p] \in Conf /\ Input(p) \in Bytes
  BY StreamType DEF BinInv, TypeInv, TypeOK, ParsedArgs, Input
<1>4. \/ IsAes(Params(p), scheme[p], Input(p), pwd[p], Prepared(p).data, Prepared(p).sig)
      \/ IsGpg(Params(p), Input(p), conf[p], Prepared(p).data, Prepared(p).sig)
      \/ IsPlain(Params(p), scheme[p], Input(p), conf[p], Prepared(p).data, Prepared(p).sig)
  BY <1>1, <1>3, PreparedKinds DEF Params, Prepared, Input
<1>5. QED
  BY <1>1, <1>2, <1>4 DEF AesPaste, GpgPaste, PlainPaste

\* What decode makes of the packet of d and s.
LEMMA DecodePacket ==
    ASSUME NEW d, NEW s, NEW c, NEW password, NEW no_decrypt \in BOOLEAN, NEW cf
    PROVE  LET b == serialize(d, s)
               cipher == cipher_for(d, c)
               r == processCipherText(cipher, d, password, cf.secret, cf.trusted)
           IN  decode(b, c, password, no_decrypt, cf) =
                 IF cipher # "NONE" /\ ~no_decrypt
                 THEN IF r.err = "none" THEN Result("0", r.data, r.signer) ELSE Result("1", Empty, NoKey)
                 ELSE IF cipher = "NONE" /\ s # EmptySig
                      THEN IF s.signer = Damaged
                           THEN Result("1", Empty, NoKey)
                           ELSE Result("0", d, comment_on_signature(s.signer, cf.trusted))
                      ELSE Result("0", d, NoKey)
<1> DEFINE b == serialize(d, s)
<1>1. packet_data(b) = d /\ packet_signature(b) = s /\ b.type = "map"
  BY DEF serialize, packet_data, packet_signature, findMapValue
<1> HIDE DEF b
<1>2. QED
  BY <1>1 DEF decode, GPG_verify, Ok, Throw, b

\* An older client's file names no signer.
LEMMA DecodeOld ==
    ASSUME NEW b, NEW c, NEW password, NEW no_decrypt \in BOOLEAN, NEW cf
    PROVE  LET r == decode(LegacyBlob(b), c, password, no_decrypt, cf)
           IN  /\ r.reported = NoKey
               /\ MsgpackType[b[1]] = "other" => r.exit = "0" /\ r.out = Plain(b)
<1> DEFINE l == LegacyBlob(b)
<1>1. /\ packet_data(l) = Empty /\ packet_signature(l) = EmptySig
      /\ l.type = MsgpackType[b[1]] /\ l.raw = b
  BY DEF LegacyBlob, packet_data, packet_signature, findMapValue
<1>2. cipher_for(Empty, c) \in {"AES", "NONE"}
  BY DEF cipher_for, isGPGencrypted, Empty, Plain
<1>3. processCipherText("AES", Empty, password, cf.secret, cf.trusted) = Throw("DecryptError")
  BY DEF processCipherText, AES_processCipherText, Empty, Plain
<1> HIDE DEF l
<1>4. QED
  BY <1>1, <1>2, <1>3 DEF decode, Result, Throw, l

\* The code of a paste's URI is cut into what the paste drew, and it has the
\* length by which get recognises a password exactly when there is one.
LEMMA GivenCode ==
    ASSUME BinInv, NEW p \in Proc, Pasted(p), NEW c, c = code[p] \o pwd[p]
    PROVE  /\ ~TooShort(c) /\ lcode(c) = code[p] /\ pwd_part(c) = pwd[p] /\ c # <<>>
           /\ Params(p).kind = "AES" <=> Len(c) = PIN_WITH_PASS_LEN
<1>1. /\ code[p] \in Pin /\ pwd[p] \in Password
      /\ Params(p).kind = "AES" => pwd[p] \in Pin
      /\ Params(p).kind # "AES" => pwd[p] = <<>>
  BY DEF BinInv, ProcInv, PacketInv, Password
<1>2. ~TooShort(c) /\ lcode(c) = code[p] /\ pwd_part(c) = pwd[p]
  <2> DEFINE k == code_from_dpaste_uri(uri_of(code[p], pwd[p]))
  <2>1. k = code[p] \o pwd[p] /\ ~TooShort(k) /\ lcode(k) = code[p] /\ pwd_part(k) = pwd[p]
    BY <1>1, UriIsCutBack
  <2> HIDE DEF k
  <2>2. k = c
    BY <2>1, Zenon
  <2>3. QED
    BY <2>1, <2>2, Zenon
<1>3. /\ code[p] \in Seq(Digit) /\ Len(code[p]) = DPASTE_PIN_LEN
      /\ pwd[p] \in Seq(Digit) /\ (Params(p).kind = "AES" => Len(pwd[p]) = DPASTE_PIN_LEN)
      /\ Params(p).kind # "AES" => Len(pwd[p]) = 0
  BY <1>1, PinIsText, EmptySeq DEF Password
<1>4. Len(c) = Len(code[p]) + Len(pwd[p])
  <2>1. Len(code[p] \o pwd[p]) = Len(code[p]) + Len(pwd[p])
    BY <1>3, ConcatProperties
  <2>2. QED
    BY <2>1, Zenon
<1>5. DPASTE_PIN_LEN \in Nat \ {0} /\ PIN_WITH_PASS_LEN = 2 * DPASTE_PIN_LEN
  BY CodesAssumption
<1>6. (Params(p).kind = "AES" <=> Len(c) = PIN_WITH_PASS_LEN) /\ Len(c) # 0
  BY <1>3, <1>4, <1>5
<1>7. QED
  BY <1>2, <1>6

\* A get that was given the URI of p, alone at its location, shows nothing or
\* what decode makes of p's packet.
LEMMA GetOfSole ==
    ASSUME BinInv, NEW g \in Proc, NEW p \in Proc, GivenUriOf(g, p), Sole(p), pc[g] = "exit"
    PROVE  \/ out[g] = Empty /\ reported[g] = NoKey /\ exit[g] # "1"
           \/ LET r == decode(blob[p], code[g], pwd[p], job[g].no_decrypt, conf[g])
              IN  out[g] = r.out /\ reported[g] = r.reported /\ exit[g] = r.exit
<1>1. /\ ~TooShort(code[g]) /\ lcode(code[g]) = code[p] /\ pwd_part(code[g]) = pwd[p]
      /\ code[g] # <<>> /\ ~Pasted(g)
  BY GivenCode DEF GivenUriOf, Sole
<1>2. ASSUME NEW b \in Blob, <<lcode(code[g]), b>> \in published PROVE b = blob[p]
  BY <1>1, <1>2 DEF BinInv, PublishedInv, OldNotes, Sole
<1>3. QED
  BY <1>1, <1>2 DEF BinInv, ProcInv, EndInv, Decoded, Untouched

(***************************************************************************)
(* Whoever asks for encryption gets it, whatever the keys, the files and   *)
(* the signature asked for: no packet of an --aes-encrypt paste or of one  *)
(* with recipients holds the plain file (bin.cpp:137-173).                 *)
(***************************************************************************)
THEOREM EncryptsWhenAskedThm == Spec => []EncryptsWhenAsked
<1>1. BinInv => EncryptsWhenAsked
  <2> SUFFICES ASSUME BinInv, NEW p \in Proc, Pasted(p),
                      Params(p).kind = "AES" \/ Params(p).recipients # {}
               PROVE  blob[p].data.form # "plain"
    BY DEF EncryptsWhenAsked
  <2>1. CASE AesPaste(p)
    BY <2>1 DEF AesPaste, IsAes, AES_processPlainText
  <2>2. CASE GpgPaste(p)
    BY <2>2 DEF GpgPaste, IsGpg
  <2>3. ~PlainPaste(p)
    BY DEF PlainPaste, IsPlain
  <2>4. QED
    BY <2>1, <2>2, <2>3, PasteKinds
<1>2. QED
  BY <1>1, BinInvariant, PTL

(***************************************************************************)
(* However often and in whatever order the two puts of a paste take        *)
(* effect, a location nobody else uses holds one value: its packet         *)
(* (bin.cpp:175-189).                                                      *)
(***************************************************************************)
THEOREM RetryStoresSameBlobThm == Spec => []RetryStoresSameBlob
<1>1. BinInv => RetryStoresSameBlob
  BY DEF BinInv, PublishedInv, OldNotes, RetryStoresSameBlob, Sole
<1>2. QED
  BY <1>1, BinInvariant, PTL

\* Who signed a packet: the key of the user who asked for it, which is no damaged
\* signature.
LEMMA PacketSigner ==
    ASSUME BinInv, NEW p \in Proc, Pasted(p)
    PROVE  /\ blob[p].data.signer # Damaged /\ blob[p].signature.signer # Damaged
           /\ AesPaste(p) \/ PlainPaste(p) => blob[p].data.signer = NoKey
           /\ AesPaste(p) \/ GpgPaste(p) => blob[p].signature = EmptySig
           /\ GpgPaste(p) => blob[p].data.signer = SignedWith(p)
           /\ PlainPaste(p) /\ ~isGPGencrypted(blob[p].data) => blob[p].signature.signer = SignedWith(p)
           /\ AesPaste(p) \/ (PlainPaste(p) /\ isGPGencrypted(blob[p].data)) => SignedWith(p) = NoKey
<1> DEFINE d == blob[p].data
           s == blob[p].signature
<1>1. AesPaste(p) \/ GpgPaste(p) \/ PlainPaste(p)
  BY PasteKinds
<1>2. Damaged # NoKey /\ Damaged \notin conf[p].secret
  BY CiphersAssumption DEF BinInv, TypeInv, TypeOK, Conf
<1>3. CASE AesPaste(p)
  <2>1. d.signer = NoKey /\ s = EmptySig /\ s.signer = NoKey /\ Params(p).kind # "GPG"
    BY <1>3 DEF AesPaste, IsAes, AES_processPlainText, EmptySig
  <2>2. ~GpgPaste(p) /\ ~PlainPaste(p) /\ SignedWith(p) = NoKey
    BY <1>3, <2>1 DEF AesPaste, IsAes, GpgPaste, IsGpg, PlainPaste, IsPlain, SignedWith
  <2>3. QED
    BY <1>2, <2>1, <2>2
<1>4. CASE GpgPaste(p)
  <2>1. /\ d.signer = SignedWith(p) /\ s = EmptySig /\ s.signer = NoKey
        /\ d.signer # NoKey => d.signer \in conf[p].secret
    BY <1>4 DEF GpgPaste, IsGpg, SignedWith, EmptySig
  <2>2. ~AesPaste(p) /\ ~PlainPaste(p)
    BY <1>4 DEF AesPaste, IsAes, GpgPaste, IsGpg, PlainPaste, IsPlain
  <2>3. QED
    BY <1>2, <2>1, <2>2
<1>5. CASE PlainPaste(p)
  <2>1. /\ d = Plain(Input(p)) /\ d.signer = NoKey /\ Params(p).recipients = {}
        /\ s.signer = IF Params(p).kind = "GPG" /\ Params(p).sign THEN conf[p].pgp_key_id ELSE NoKey
        /\ s.signer # NoKey => s.signer \in conf[p].secret
    BY <1>5 DEF PlainPaste, IsPlain, Plain
  <2>2. SignedWith(p) = IF isGPGencrypted(d) THEN NoKey ELSE s.signer
    BY <2>1 DEF SignedWith, Input
  <2>3. ~AesPaste(p) /\ ~GpgPaste(p)
    BY <1>5 DEF AesPaste, IsAes, GpgPaste, IsGpg, PlainPaste, IsPlain
  <2>4. QED
    BY <1>2, <2>1, <2>2, <2>3
<1>6. QED
  BY <1>1, <1>3, <1>4, <1>5

\* What makes a packet unreadable for g, who has the password of its URI.
Unreadable(g, p) ==
    /\ isGPGencrypted(blob[p].data) /\ ~job[g].no_decrypt
    /\ \/ conf[g].secret \cap Readers(blob[p].data) = {}
       \/ Input(p) \in DamagedFiles /\ Params(p).recipients = {}

\* How a packet opens for a reader who has the password of its URI: as the
\* file, and with the key it was signed with, or not at all.
LEMMA PacketOpens ==
    ASSUME BinInv, NEW g \in Proc, NEW p \in Proc, Pasted(p), code[g] = code[p] \o pwd[p]
    PROVE  LET r == decode(blob[p], code[g], pwd[p], job[g].no_decrypt, conf[g])
           IN  /\ r.exit = "0" /\ ~job[g].no_decrypt =>
                     /\ ~SchemeByChance(p) => r.out = Plain(Expected(p))
                     /\ r.reported = comment_on_signature(SignedWith(p), conf[g].trusted)
               /\ r.exit = "1" => Unreadable(g, p)
<1> DEFINE d == blob[p].data
           s == blob[p].signature
           c == code[g]
           cf == conf[g]
           nd == job[g].no_decrypt
           cipher == cipher_for(d, c)
           o == processCipherText(cipher, d, pwd[p], cf.secret, cf.trusted)
           r == decode(blob[p], c, pwd[p], nd, cf)
<1>1. /\ AesPaste(p) \/ GpgPaste(p) \/ PlainPaste(p)
      /\ blob[p] = serialize(d, s) /\ nd \in BOOLEAN
  BY PasteKinds DEF BinInv, TypeInv, TypeOK, ParsedArgs
<1>2. r = IF cipher # "NONE" /\ ~nd
          THEN IF o.err = "none" THEN Result("0", o.data, o.signer) ELSE Result("1", Empty, NoKey)
          ELSE IF cipher = "NONE" /\ s # EmptySig
               THEN IF s.signer = Damaged
                    THEN Result("1", Empty, NoKey)
                    ELSE Result("0", d, comment_on_signature(s.signer, cf.trusted))
               ELSE Result("0", d, NoKey)
  <2> HIDE DEF d, s, nd
  <2>1. QED
    BY <1>1, DecodePacket
<1>3. Params(p).kind = "AES" <=> Len(c) = PIN_WITH_PASS_LEN
  BY GivenCode
<1>4. comment_on_signature(NoKey, cf.trusted) = NoKey /\ s.signer # Damaged
  <2>1. NoKey \notin cf.trusted
    BY CiphersAssumption DEF BinInv, TypeInv, TypeOK, Conf
  <2>2. QED
    BY <2>1, PacketSigner DEF comment_on_signature
<1>5. /\ r.exit = "0" /\ ~nd =>
            \/ /\ cipher = "NONE" /\ r.out = d
               /\ r.reported = comment_on_signature(s.signer, cf.trusted)
            \/ cipher # "NONE" /\ r.out = o.data /\ o.err = "none" /\ r.reported = o.signer
      /\ r.exit = "1" => ~nd /\ cipher # "NONE" /\ o.err # "none"
  <2>1. s = EmptySig => s.signer = NoKey
    BY DEF EmptySig
  <2> HIDE DEF r, o, cipher, s
  <2>2. QED
    BY <1>1, <1>2, <1>4, <2>1 DEF Result
<1>6. CASE AesPaste(p)
  <2>1. d = AES_processPlainText(Input(p), pwd[p]) /\ ~isGPGencrypted(d)
    BY <1>6 DEF AesPaste, IsAes, AES_processPlainText, isGPGencrypted
  <2>2. SignedWith(p) = NoKey /\ s.signer = NoKey
    BY <1>6, PacketSigner DEF EmptySig
  <2>3. CASE Params(p).kind = "AES"
    <3>1. cipher = "AES"
      BY <1>3, <2>1, <2>3 DEF cipher_for
    <3>2. o = Ok(Plain(Input(p)), NoKey)
      BY <2>1, <3>1 DEF processCipherText, AES_processCipherText, AES_processPlainText
    <3>3. Expected(p) = Input(p)
      BY <2>3 DEF Expected, Input
    <3>4. QED
      BY <1>4, <1>5, <2>2, <3>1, <3>2, <3>3 DEF Ok
  <2>4. CASE Params(p).kind # "AES"
    <3>1. cipher = "NONE" /\ SchemeByChance(p)
      BY <1>3, <1>6, <2>1, <2>4 DEF cipher_for, AesPaste, IsAes, SchemeByChance
    <3>2. QED
      BY <1>5, <2>2, <3>1
  <2>5. QED
    BY <2>3, <2>4
<1>7. CASE GpgPaste(p)
  <2>1. isGPGencrypted(d) /\ d.form = "gpg" /\ cipher = "GPG" /\ d.body = Expected(p)
    BY <1>7 DEF GpgPaste, IsGpg, isGPGencrypted, cipher_for, Expected, Input
  <2>2. d.signer = SignedWith(p) /\ d.signer # Damaged
    BY <1>7, PacketSigner
  <2>3. /\ o.err = "none" => /\ o.data = Plain(Expected(p))
                             /\ o.signer = comment_on_signature(SignedWith(p), cf.trusted)
        /\ o.err # "none" => cf.secret \cap Readers(d) = {}
    <3>1. o = GPG_processCipherText(d, cf.secret, cf.trusted)
      BY <2>1 DEF processCipherText
    <3>2. decrypt_error(d, cf.secret) => cf.secret \cap Readers(d) = {}
      BY <2>1 DEF decrypt_error
    <3> HIDE DEF o, d
    <3>3. QED
      BY <2>1, <2>2, <3>1, <3>2 DEF GPG_processCipherText, sign_error, Ok, Throw
  <2>4. QED
    BY <1>5, <2>1, <2>3 DEF Unreadable
<1>8. CASE PlainPaste(p)
  <2>1. d = Plain(Input(p)) /\ Params(p).kind # "AES" /\ Params(p).recipients = {}
    BY <1>8 DEF PlainPaste, IsPlain
  <2>2. d.form = "plain" /\ d.body = Input(p) /\ d.signer = NoKey
    BY <2>1 DEF Plain
  <2>3. CASE isGPGencrypted(d)
    <3>1. cipher = "GPG" /\ Expected(p) = Tail(Input(p)) /\ SignedWith(p) = NoKey
      BY <1>8, <2>1, <2>3, PacketSigner DEF cipher_for, Expected, Input
    <3>2. /\ o.err = "none" => /\ o.data = Plain(Expected(p))
                               /\ o.signer = comment_on_signature(SignedWith(p), cf.trusted)
          /\ o.err # "none" => cf.secret \cap Readers(d) = {} \/ Input(p) \in DamagedFiles
      <4>1. o = GPG_processCipherText(d, cf.secret, cf.trusted)
        BY <3>1 DEF processCipherText
      <4>2. decrypt_error(d, cf.secret) => cf.secret \cap Readers(d) = {} \/ Input(p) \in DamagedFiles
        BY <2>2 DEF decrypt_error
      <4>3. ~sign_error(d)
        BY <2>2, CiphersAssumption DEF sign_error
      <4> HIDE DEF o, d
      <4>4. QED
        BY <2>2, <3>1, <4>1, <4>2, <4>3 DEF GPG_processCipherText, Ok, Throw
    <3>3. QED
      BY <1>5, <2>1, <2>3, <3>1, <3>2 DEF Unreadable
  <2>4. CASE ~isGPGencrypted(d)
    <3>1. cipher = "NONE" /\ Expected(p) = Input(p)
      BY <1>3, <2>1, <2>4 DEF cipher_for, Expected, Input
    <3>2. s.signer = SignedWith(p)
      BY <1>8, <2>4, PacketSigner
    <3>3. QED
      BY <1>5, <2>1, <3>1, <3>2
  <2>5. QED
    BY <2>3, <2>4
<1>9. QED
  BY <1>1, <1>6, <1>7, <1>8

\* What a get that was given the URI of p, alone at its location, ends with:
\* nothing, or what a reader with the password makes of p's packet.
LEMMA GivenEnds ==
    ASSUME BinInv, NEW g \in Proc, NEW p \in Proc, GivenUriOf(g, p), Sole(p), exit[g] # "none"
    PROVE  \/ out[g] = Empty /\ exit[g] # "1"
           \/ /\ exit[g] = "0" /\ ~job[g].no_decrypt =>
                   /\ ~SchemeByChance(p) => out[g] = Plain(Expected(p))
                   /\ reported[g] = comment_on_signature(SignedWith(p), conf[g].trusted)
              /\ exit[g] = "1" => Unreadable(g, p)
<1> DEFINE r == decode(blob[p], code[g], pwd[p], job[g].no_decrypt, conf[g])
<1>1. pc[g] = "exit" /\ Pasted(p) /\ code[g] = code[p] \o pwd[p]
  BY DEF BinInv, ProcInv, EndInv, Sole, GivenUriOf
<1>2. \/ out[g] = Empty /\ exit[g] # "1"
      \/ out[g] = r.out /\ reported[g] = r.reported /\ exit[g] = r.exit
  BY <1>1, GetOfSole
<1>3. /\ r.exit = "0" /\ ~job[g].no_decrypt =>
           /\ ~SchemeByChance(p) => r.out = Plain(Expected(p))
           /\ r.reported = comment_on_signature(SignedWith(p), conf[g].trusted)
      /\ r.exit = "1" => Unreadable(g, p)
  BY <1>1, PacketOpens
<1> HIDE DEF r
<1>4. QED
  BY <1>2, <1>3

(***************************************************************************)
(* A get that was given a URI and ends well prints the file that was       *)
(* pasted, or nothing: never its cipher text, a part of it or something    *)
(* else, for any file, password, keys and PIN length (bin.cpp:61-110).     *)
(***************************************************************************)
THEOREM RoundTripThm == Spec => []RoundTrip
<1>1. BinInv => RoundTrip
  BY GivenEnds DEF RoundTrip
<1>2. QED
  BY <1>1, BinInvariant, PTL

(***************************************************************************)
(* Such a get fails only on an OpenPGP message, which it was asked to      *)
(* decrypt: for want of a secret key, or because the file was a damaged    *)
(* message already when it was pasted.  A password that came with its URI  *)
(* always opens its paste, and a signature dpaste stored is never what the *)
(* get fails on (bin.cpp:61-110, gpgcrypto.cpp:144-194).                   *)
(***************************************************************************)
THEOREM FailsOnlyIfUnreadableThm == Spec => []FailsOnlyIfUnreadable
<1>1. BinInv => FailsOnlyIfUnreadable
  BY GivenEnds DEF FailsOnlyIfUnreadable, Unreadable, Input
<1>2. QED
  BY <1>1, BinInvariant, PTL

(***************************************************************************)
(* The signature of a paste reaches its reader, inside an encrypted        *)
(* message or beside a plain file: a get that shows the file names the key *)
(* it was signed with if the reader trusts it, and else nobody, but for    *)
(* the two cases of SignedWith (bin.cpp:83-99, 144-169).                   *)
(***************************************************************************)
THEOREM SignatureReachesReaderThm == Spec => []SignatureReachesReader
<1>1. BinInv => SignatureReachesReader
  BY GivenEnds DEF SignatureReachesReader, comment_on_signature
<1>2. QED
  BY <1>1, BinInvariant, PTL

(***************************************************************************)
(* Files that older clients stored stay readable: where only such values   *)
(* are, and msgpack takes none of them for a map or for garbage, a get     *)
(* that has one shows one of the files; it fails only on an answer of the  *)
(* HTTP service that is no list of values (bin.cpp:79-109, 213-235).       *)
(***************************************************************************)
THEOREM OldFilesReadableThm == Spec => []OldFilesReadable
<1>1. BinInv => OldFilesReadable
  <2> SUFFICES ASSUME BinInv, NEW g \in Proc, job[g].get, ~Pasted(g), ~TooShort(code[g]),
                      {e \in published : e[1] = lcode(code[g])} \subseteq
                          {<<v[1], LegacyBlob(v[2])>> :
                             v \in {w \in LegacyValues : MsgpackType[w[2][1]] = "other"}}
               PROVE  /\ exit[g] # "1"
                      /\ exit[g] = "abort" => received[g] = NoBlob
                      /\ out[g] \in {Plain(e[2].raw) : e \in {f \in published : f[1] = lcode(code[g])}}
                                    \cup {Empty}
    BY DEF OldFilesReadable
  <2>1. CASE pc[g] # "exit"
    BY <2>1 DEF BinInv, TypeInv, TypeOK, ProcInv, StartInv, PacketInv, GetInv, EndInv, Untouched
  <2>2. CASE pc[g] = "exit" /\ Untouched(g) /\ (exit[g] = "1" => code[g] = <<>>)
    <3>1. code[g] # <<>>
      BY CodesAssumption DEF TooShort, PassOffset
    <3>2. QED
      BY <2>2, <3>1 DEF Untouched
  <2>3. ASSUME NEW b \in Blob, <<lcode(code[g]), b>> \in published,
               out[g] = Decoded(g, b).out, exit[g] = Decoded(g, b).exit
        PROVE  exit[g] = "0" /\ out[g] = Plain(b.raw)
    <3>1. PICK v \in LegacyValues : MsgpackType[v[2][1]] = "other" /\ b = LegacyBlob(v[2])
      BY <2>3
    <3>2. job[g].no_decrypt \in BOOLEAN
      BY DEF BinInv, TypeInv, TypeOK, ParsedArgs
    <3>3. Decoded(g, b).exit = "0" /\ Decoded(g, b).out = Plain(v[2]) /\ b.raw = v[2]
      BY <3>1, <3>2, DecodeOld DEF Decoded, LegacyBlob
    <3>4. QED
      BY <2>3, <3>3
  <2>4. CASE \E b \in Blob : /\ <<lcode(code[g]), b>> \in published
                             /\ out[g] = Decoded(g, b).out /\ exit[g] = Decoded(g, b).exit
    <3>1. PICK b \in Blob : /\ <<lcode(code[g]), b>> \in published
                            /\ out[g] = Decoded(g, b).out /\ exit[g] = Decoded(g, b).exit
      BY <2>4
    <3>2. exit[g] = "0" /\ out[g] = Plain(b.raw)
      BY <2>3, <3>1
    <3>3. QED
      BY <3>1, <3>2
  <2>5. EndInv(g)
    BY DEF BinInv, ProcInv
  <2>6. QED
    BY <2>1, <2>2, <2>4, <2>5 DEF EndInv
<1>2. QED
  BY <1>1, BinInvariant, PTL
=============================================================================
