--------------------------- MODULE PastebinProofs ---------------------------
(***************************************************************************)
(* The processes of Bin implement the Pastebin, step by step, for any      *)
(* number of processes, any command lines, users, keys and files.          *)
(***************************************************************************)
EXTENDS BinSafety

\* The two invariants that the mapping rests on.
BoardInv == BinInv /\ UriInv

Answered(what, place, text) == [what |-> what, place |-> place, text |-> text]
Unanswered == Answered("none", <<>>, Empty)

-----------------------------------------------------------------------------
(* The steps of the Pastebin, by what happens to one client *)

\* The other clients see nothing of a step of p.
Alone(p) ==
    \A q \in Proc \ {p} : NoteOf(q)' = NoteOf(q) /\ AskedBy(q)' = AskedBy(q) /\ AnswerTo(q)' = AnswerTo(q)

\* p is answered with a.
AnswersIt(p, a) ==
    /\ AnswerTo(p) = Unanswered /\ AnswerTo(p)' = a
    /\ AskedBy(p)' = <<>> /\ NoteOf(p)' = NoteOf(p)
    /\ Alone(p) /\ published' = published

\* Then the Pastebin answers it.
LEMMA AnswersOf ==
    ASSUME NEW p \in Proc, NEW a, AnswersIt(p, a)
    PROVE  Board!Answers(p, a)
  BY DEF AnswersIt, Alone, Board!Answers, Board!Unanswered, Board!Answered, Unanswered, Answered

\* A client that is told of a failure.
LEMMA DeclinedOf ==
    ASSUME NEW p \in Proc, AnswersIt(p, Answered("failed", <<>>, Empty))
    PROVE  Board!Next
  BY AnswersOf DEF Board!Next, Board!Declined, Board!Answered, Answered

\* A client that is shown nothing.
LEMMA NothingOf ==
    ASSUME NEW p \in Proc, ~Pasted(p), AnswersIt(p, Answered("shown", <<>>, Empty))
    PROVE  Board!Next
  BY AnswersOf DEF Board!Next, Board!Nothing, Board!Answered, Answered, NoteOf

\* A step that no client sees.
LEMMA StutterOf ==
    ASSUME \A q \in Proc : NoteOf(q)' = NoteOf(q) /\ AskedBy(q)' = AskedBy(q) /\ AnswerTo(q)' = AnswerTo(q),
           published' = published
    PROVE  UNCHANGED Board!vars
  BY DEF Board!vars

\* A process that has not ended has not been answered.
LEMMA NotYet ==
    ASSUME BoardInv, NEW p \in Proc, pc[p] # "exit"
    PROVE  /\ exit[p] = "none" /\ uri[p] = <<>> /\ out[p] = Empty
           /\ AnswerTo(p) = Unanswered
<1>1. exit[p] = "none" /\ uri[p] = <<>> /\ out[p] = Empty
  BY DEF BoardInv, UriInv, BinInv, TypeInv, TypeOK, ProcInv, StartInv, PacketInv, GetInv, EndInv, Untouched
<1>2. QED
  BY <1>1 DEF AnswerTo, Unanswered, Answered

\* What others see of a process that a step leaves alone.
LEMMA SeenSame ==
    ASSUME NEW q, pc'[q] = pc[q], code'[q] = code[q], blob'[q] = blob[q], exit'[q] = exit[q],
           uri'[q] = uri[q], out'[q] = out[q]
    PROVE  NoteOf(q)' = NoteOf(q) /\ AskedBy(q)' = AskedBy(q) /\ AnswerTo(q)' = AnswerTo(q)
  BY DEF NoteOf, AskedBy, AnswerTo, Pasted

\* A process ends with status x, and has shown nothing.
LEMMA EndsUnseen ==
    ASSUME BoardInv, NEW p \in Proc, NEW x \in {"0", "1", "abort"}, pc[p] # "exit", Exit(p, x),
           x = "0" => ~Pasted(p), UNCHANGED <<code, blob, uri, out, published>>
    PROVE  Board!Next
<1>1. /\ pc'[p] = "exit" /\ exit'[p] = x
      /\ \A q \in Proc \ {p} : pc'[q] = pc[q] /\ exit'[q] = exit[q]
  BY DEF Exit, Go, BoardInv, BinInv, TypeInv, TypeOK
<1>2. uri[p] = <<>> /\ out[p] = Empty /\ AnswerTo(p) = Unanswered
  BY NotYet
<1>3. Alone(p)
  BY <1>1, SeenSame DEF Alone
<1>4. AskedBy(p)' = <<>> /\ NoteOf(p)' = NoteOf(p)
  BY <1>1 DEF AskedBy, NoteOf, Pasted
<1>5. CASE x = "0"
  <2>1. AnswerTo(p)' = Answered("shown", <<>>, Empty)
    BY <1>1, <1>2, <1>5 DEF AnswerTo, Answered
  <2>2. QED
    BY <1>2, <1>3, <1>4, <1>5, <2>1, NothingOf DEF AnswersIt
<1>6. CASE x # "0"
  <2>1. AnswerTo(p)' = Answered("failed", <<>>, Empty)
    BY <1>1, <1>2, <1>6 DEF AnswerTo, Answered
  <2>2. QED
    BY <1>2, <1>3, <1>4, <2>1, DeclinedOf DEF AnswersIt
<1>7. QED
  BY <1>5, <1>6

\* The first step of a paste writes its note, or fails.
LEMMA StartPasteWrites ==
    ASSUME BoardInv, NEW p \in Proc, StartPaste(p)
    PROVE  Board!Next
<1>1. PICK c, b :
        /\ code' = [code EXCEPT ![p] = c]
        /\ \/ /\ blob' = [blob EXCEPT ![p] = b] /\ b # NoBlob
              /\ pc' = [pc EXCEPT ![p] = "http_put"] /\ exit' = exit
           \/ /\ blob' = blob
              /\ pc' = [pc EXCEPT ![p] = "exit"] /\ exit' = [exit EXCEPT ![p] = "abort"]
  <2> DEFINE params == params_from_args(job[p])
             first == random_pin(rng[p])
             password == IF params.kind = "AES" THEN random_pin(first.rng).pin ELSE <<>>
  <2>1. PICK s \in SchemeRead(params) :
          LET pp == prepare_data(data_from_stream(job[p].input), params, s, conf[p], password)
          IN  /\ code' = [code EXCEPT ![p] = first.pin]
              /\ IF pp.err = "none"
                 THEN /\ blob' = [blob EXCEPT ![p] = serialize(pp.data, pp.sig)]
                      /\ Go(p, "http_put")
                      /\ UNCHANGED exit
                 ELSE Exit(p, "abort") /\ UNCHANGED blob
    BY DEF StartPaste
  <2> DEFINE pp == prepare_data(data_from_stream(job[p].input), params, s, conf[p], password)
             b == serialize(pp.data, pp.sig)
  <2>2. b # NoBlob
    BY DEF serialize, NoBlob
  <2> HIDE DEF pp, first, params, password
  <2>3. /\ code' = [code EXCEPT ![p] = first.pin]
        /\ \/ blob' = [blob EXCEPT ![p] = b] /\ Go(p, "http_put") /\ UNCHANGED exit
           \/ Exit(p, "abort") /\ UNCHANGED blob
    BY <2>1 DEF pp
  <2> HIDE DEF b
  <2>4. QED
    BY <2>2, <2>3 DEF Go, Exit
<1>2. UNCHANGED <<uri, out, published>> /\ pc[p] = "start"
  BY DEF StartPaste
<1>3. /\ code'[p] = c
      /\ \A q \in Proc \ {p} : code'[q] = code[q] /\ blob'[q] = blob[q] /\ pc'[q] = pc[q] /\ exit'[q] = exit[q]
  BY <1>1 DEF BoardInv, BinInv, TypeInv, TypeOK
<1>4. Alone(p)
  BY <1>2, <1>3, SeenSame DEF Alone
<1>5. /\ uri[p] = <<>> /\ out[p] = Empty /\ exit[p] = "none" /\ AnswerTo(p) = Unanswered
      /\ ~Pasted(p) /\ AskedBy(p) = <<>> /\ NoteOf(p) = <<<<>>, NoBlob>>
  BY <1>2, NotYet DEF BoardInv, BinInv, ProcInv, StartInv, AskedBy, NoteOf
<1>6. CASE blob' = [blob EXCEPT ![p] = b] /\ b # NoBlob /\ pc' = [pc EXCEPT ![p] = "http_put"] /\ exit' = exit
  <2>1. blob'[p] = b /\ pc'[p] = "http_put"
    BY <1>6 DEF BoardInv, BinInv, TypeInv, TypeOK
  <2>2. NoteOf(p)' = <<c, b>> /\ <<c, b>> # <<<<>>, NoBlob>>
    BY <1>3, <1>6, <2>1 DEF NoteOf, Pasted
  <2>3. AskedBy(p)' = <<>> /\ AnswerTo(p)' = AnswerTo(p)
    BY <1>2, <1>6, <2>1 DEF AskedBy, AnswerTo
  <2>4. Board!Write(p)
    BY <1>2, <1>4, <1>5, <2>2, <2>3
       DEF Alone, Board!Write, Board!Fresh, Board!Unanswered, Board!Answered, Unanswered, Answered
  <2>5. QED
    BY <2>4 DEF Board!Next
<1>7. CASE blob' = blob /\ pc' = [pc EXCEPT ![p] = "exit"] /\ exit' = [exit EXCEPT ![p] = "abort"]
  <2>1. pc'[p] = "exit" /\ exit'[p] = "abort"
    BY <1>7 DEF BoardInv, BinInv, TypeInv, TypeOK
  <2>2. AskedBy(p)' = <<>> /\ NoteOf(p)' = NoteOf(p) /\ AnswerTo(p)' = Answered("failed", <<>>, Empty)
    BY <1>2, <1>5, <1>7, <2>1 DEF AskedBy, NoteOf, Pasted, AnswerTo, Answered
  <2>3. QED
    BY <1>2, <1>4, <1>5, <2>2, DeclinedOf DEF AnswersIt
<1>8. QED
  BY <1>1, <1>6, <1>7

\* A paste that succeeds tells its client the place of its note.
LEMMA PasteSucceedsPosts ==
    ASSUME BoardInv, NEW p \in Proc, pc[p] \in {"http_put", "node_paste"},
           Request(p) \in published, PasteSucceeds(p), UNCHANGED <<code, blob, out, published>>
    PROVE  Board!Next
<1>1. /\ pc'[p] = "exit" /\ exit'[p] = "0" /\ uri'[p] = uri_of(code[p], pwd[p])
      /\ \A q \in Proc \ {p} : pc'[q] = pc[q] /\ exit'[q] = exit[q] /\ uri'[q] = uri[q]
  BY DEF PasteSucceeds, Exit, Go, BoardInv, BinInv, TypeInv, TypeOK
<1>2. out[p] = Empty /\ AnswerTo(p) = Unanswered
  BY NotYet
<1>3. Pasted(p) /\ code[p] \in Pin /\ pwd[p] \in Password
  BY DEF BoardInv, BinInv, ProcInv, PacketInv, UriInv, Drawn
<1>4. lcode(code_from_dpaste_uri(uri_of(code[p], pwd[p]))) = code[p]
  BY <1>3, UriIsCutBack
<1>5. uri_of(code[p], pwd[p]) # <<>>
  <2>1. code[p] \in Text /\ pwd[p] \in Text
    BY DEF BoardInv, BinInv, TypeInv, TypeOK
  <2>2. QED
    BY <2>1 DEF uri_of, Text
<1>6. AnswerTo(p)' = Answered("posted", code[p], Empty)
  BY <1>1, <1>2, <1>4, <1>5 DEF AnswerTo, Answered
<1>7. AskedBy(p)' = <<>> /\ NoteOf(p)' = NoteOf(p)
  BY <1>1 DEF AskedBy, NoteOf, Pasted
<1>8. Alone(p)
  BY <1>1, SeenSame DEF Alone
<1>9. Board!Answers(p, Answered("posted", code[p], Empty))
  BY <1>2, <1>6, <1>7, <1>8, AnswersOf DEF AnswersIt
<1>10. NoteOf(p) = <<code[p], blob[p]>> /\ NoteOf(p) \in published
  BY <1>3 DEF NoteOf, Request
<1>11. Board!Posted(p)
  BY <1>9, <1>10 DEF Board!Posted, Board!Answered, Answered
<1>12. QED
  BY <1>11 DEF Board!Next

\* The first step of a get asks for a place, or fails.
LEMMA StartGetAsks ==
    ASSUME BoardInv, BoardInv', NEW p \in Proc, StartGet(p)
    PROVE  Board!Next
<1>1. PICK c : /\ code' = [code EXCEPT ![p] = c]
               /\ \/ TooShort(c) /\ Exit(p, "abort")
                  \/ ~TooShort(c) /\ Go(p, "http_get") /\ UNCHANGED exit
  BY DEF StartGet
<1>2. UNCHANGED <<blob, uri, out, published>> /\ pc[p] = "start"
  BY DEF StartGet
<1>3. /\ code'[p] = c
      /\ \A q \in Proc \ {p} : code'[q] = code[q] /\ pc'[q] = pc[q] /\ exit'[q] = exit[q]
  BY <1>1 DEF BoardInv, BinInv, TypeInv, TypeOK, Go, Exit
<1>4. Alone(p)
  BY <1>2, <1>3, SeenSame DEF Alone
<1>5. /\ uri[p] = <<>> /\ out[p] = Empty /\ AnswerTo(p) = Unanswered
      /\ ~Pasted(p) /\ AskedBy(p) = <<>> /\ NoteOf(p) = <<<<>>, NoBlob>>
  BY <1>2, NotYet DEF BoardInv, BinInv, ProcInv, StartInv, AskedBy, NoteOf
<1>6. NoteOf(p)' = NoteOf(p)
  BY <1>2, <1>5 DEF NoteOf, Pasted
<1>7. CASE TooShort(c) /\ Exit(p, "abort")
  <2>1. pc'[p] = "exit" /\ exit'[p] = "abort"
    BY <1>7 DEF BoardInv, BinInv, TypeInv, TypeOK, Exit, Go
  <2>2. AskedBy(p)' = <<>> /\ AnswerTo(p)' = Answered("failed", <<>>, Empty)
    BY <1>2, <1>5, <2>1 DEF AskedBy, AnswerTo, Answered
  <2>3. QED
    BY <1>2, <1>4, <1>5, <1>6, <2>2, DeclinedOf DEF AnswersIt
<1>8. CASE ~TooShort(c) /\ Go(p, "http_get") /\ UNCHANGED exit
  <2>1. pc'[p] = "http_get" /\ c \in Text
    BY <1>3, <1>8 DEF BoardInv, BinInv, TypeInv, TypeOK, Go
  <2>2. lcode(c) # <<>>
    <3>1. PassOffset \in Nat \ {0} /\ Len(c) >= PassOffset /\ Len(c) \in Nat
      BY <1>8, <2>1, CodesAssumption DEF TooShort, PassOffset, Text
    <3>2. Len(lcode(c)) = PassOffset
      BY <2>1, <3>1 DEF lcode, Text
    <3>3. QED
      BY <3>1, <3>2
  <2>3. AskedBy(p)' = lcode(c) /\ AnswerTo(p)' = AnswerTo(p)
    BY <1>2, <1>3, <1>8, <2>1 DEF AskedBy, AnswerTo
  <2>4. Board!Ask(p)
    BY <1>2, <1>4, <1>5, <1>6, <2>2, <2>3
       DEF Alone, Board!Ask, Board!Fresh, Board!Unanswered, Board!Answered, Unanswered, Answered
  <2>5. QED
    BY <2>4 DEF Board!Next
<1>9. QED
  BY <1>1, <1>7, <1>8

\* What get prints of a value is one of the ways to show it.
LEMMA DecodeShows ==
    ASSUME NEW b \in Blob, NEW c, NEW password, NEW no_decrypt \in BOOLEAN, NEW cf \in Conf,
           decode(b, c, password, no_decrypt, cf).exit = "0"
    PROVE  decode(b, c, password, no_decrypt, cf).out \in Renderings(b)
<1> DEFINE d == packet_data(b)
           s == packet_signature(b)
           cipher == cipher_for(d, c)
           o == processCipherText(cipher, d, password, cf.secret, cf.trusted)
           r == decode(b, c, password, no_decrypt, cf)
<1>1. d \in {b.data, Empty} /\ ~isGPGencrypted(Empty) /\ Empty.form = "plain"
  BY DEF packet_data, isGPGencrypted, Empty, Plain
<1>2. cipher = "GPG" => isGPGencrypted(d)
  BY DEF cipher_for
<1>3. cipher # "NONE" /\ o.err = "none" => o.data \in Opened(b.data)
  <2>1. CASE cipher = "GPG"
    <3>1. d = b.data /\ isGPGencrypted(d)
      BY <1>1, <1>2, <2>1
    <3>2. o.err = "none" => o.data = Plain(IF d.form = "gpg" THEN d.body ELSE Tail(d.body))
      BY <2>1 DEF processCipherText, GPG_processCipherText, Ok, Throw
    <3> HIDE DEF o, d
    <3>3. QED
      BY <3>1, <3>2 DEF Opened, isGPGencrypted
  <2>2. CASE cipher # "GPG"
    <3>1. o.err = "none" => d.form = "aes" /\ o.data = Plain(d.body)
      BY <2>2 DEF processCipherText, AES_processCipherText, Ok, Throw
    <3> HIDE DEF o, d
    <3>2. QED
      BY <1>1, <3>1 DEF Opened
  <2>3. QED
    BY <2>1, <2>2
<1>4. r.out \in {d, Plain(b.raw)} \/ (cipher # "NONE" /\ o.err = "none" /\ r.out = o.data)
  <2> HIDE DEF d, s, cipher, o
  <2>1. r.out \in {d, Plain(b.raw)} \/ (cipher # "NONE" /\ o.err = "none" /\ r.out = o.data) \/ r.exit # "0"
    BY DEF decode, Result, Blob, d, s, cipher, o
  <2>2. QED
    BY <2>1
<1>5. QED
  BY <1>1, <1>3, <1>4 DEF Renderings

\* A get that has a value shows it, or fails.
LEMMA DeliverShows ==
    ASSUME BoardInv, NEW p \in Proc, pc[p] \in {"http_get", "node_get"}, received[p] # NoBlob,
           Deliver(p, received[p]), UNCHANGED <<code, blob, uri, published>>
    PROVE  Board!Next
<1> DEFINE b == received[p]
           r == decode(b, code[p], pwd[p], job[p].no_decrypt, conf[p])
<1>1. b \in Blob /\ job[p].no_decrypt \in BOOLEAN /\ conf[p] \in Conf
  BY DEF BoardInv, BinInv, TypeInv, TypeOK, ParsedArgs
<1>2. /\ out' = [out EXCEPT ![p] = r.out] /\ pc' = [pc EXCEPT ![p] = "exit"]
      /\ exit' = [exit EXCEPT ![p] = r.exit]
  BY DEF Deliver, Exit, Go
<1>3. /\ r.exit \in {"0", "1", "abort"} /\ (r.exit # "0" => r.out = Empty)
      /\ r.exit = "0" => r.out \in Renderings(b)
  BY <1>1, DecodeType, DecodeShows
<1> HIDE DEF r
<1>4. /\ pc'[p] = "exit" /\ out'[p] = r.out /\ exit'[p] = r.exit
      /\ \A q \in Proc \ {p} : pc'[q] = pc[q] /\ out'[q] = out[q] /\ exit'[q] = exit[q]
  BY <1>2 DEF BoardInv, BinInv, TypeInv, TypeOK
<1>5. uri[p] = <<>> /\ AnswerTo(p) = Unanswered
  BY NotYet
<1>6. Alone(p)
  BY <1>4, SeenSame DEF Alone
<1>7. AskedBy(p)' = <<>> /\ NoteOf(p)' = NoteOf(p)
  BY <1>4 DEF AskedBy, NoteOf, Pasted
<1>8. CASE r.exit # "0"
  <2>1. AnswerTo(p)' = Answered("failed", <<>>, Empty)
    BY <1>3, <1>4, <1>5, <1>8 DEF AnswerTo, Answered
  <2>2. QED
    BY <1>5, <1>6, <1>7, <2>1, DeclinedOf DEF AnswersIt
<1>9. CASE r.exit = "0"
  <2>1. AnswerTo(p)' = Answered("shown", <<>>, r.out)
    BY <1>4, <1>5, <1>9 DEF AnswerTo, Answered
  <2>2. Board!Answers(p, Answered("shown", <<>>, r.out))
    BY <1>5, <1>6, <1>7, <2>1, AnswersOf DEF AnswersIt
  <2>3. <<lcode(code[p]), b>> \in published /\ AskedBy(p) = lcode(code[p])
    BY DEF BoardInv, BinInv, ProcInv, GetInv, AskedBy
  <2>4. Board!Shown(p)
    <3>1. \E t \in Renderings(b) : Board!Answers(p, Board!Answered("shown", <<>>, t))
      BY <1>3, <1>9, <2>2 DEF Board!Answered, Answered
    <3> HIDE DEF b
    <3>2. QED
      BY <2>3, <3>1 DEF Board!Shown
  <2>5. QED
    BY <2>4 DEF Board!Next
<1>10. QED
  BY <1>8, <1>9

\* A value reaches the board.
LEMMA PublishPins ==
    ASSUME NEW e, e # <<<<>>, NoBlob>>, published' = published \cup {e}, UNCHANGED <<pc, local>>,
           \/ \E p \in Proc : e = NoteOf(p)
           \/ e \in {<<v[1], LegacyBlob(v[2])>> : v \in LegacyValues} \cup ForeignPackets
    PROVE  Board!Next
<1>1. \A q \in Proc : NoteOf(q)' = NoteOf(q) /\ AskedBy(q)' = AskedBy(q) /\ AnswerTo(q)' = AnswerTo(q)
  BY SeenSame DEF local
<1>2. Board!PinUp
  BY <1>1 DEF Board!PinUp
<1>3. QED
  BY <1>2 DEF Board!Next

\* Every step of Bin is a step of the Pastebin, or none.
LEMMA BoardStep == BoardInv /\ BoardInv' /\ [Next]_vars => [Board!Next]_(Board!vars)
<1> SUFFICES ASSUME BoardInv, BoardInv', [Next]_vars PROVE Board!Next \/ UNCHANGED Board!vars
  OBVIOUS
<1>1. ASSUME NEW p \in Proc, Step(p) PROVE Board!Next \/ UNCHANGED Board!vars
  <2>1. CASE StartPaste(p)
    BY <2>1, StartPasteWrites
  <2>2. CASE StartGet(p)
    BY <2>2, StartGetAsks
  <2>3. CASE EarlyExit(p) \/ InitFails(p) \/ HttpGetGarbage(p) \/ NodeGetEmpty(p)
    <3>1. PICK x \in {"0", "1", "abort"} : Exit(p, x)
      BY <2>3 DEF EarlyExit, InitFails, HttpGetGarbage, NodeGetEmpty
    <3>2. pc[p] \in {"start", "http_get", "node_get"} /\ UNCHANGED <<code, blob, uri, out, published>>
      BY <2>3 DEF EarlyExit, InitFails, HttpGetGarbage, NodeGetEmpty
    <3>3. ~Pasted(p)
      BY <3>2 DEF BoardInv, BinInv, ProcInv, PacketInv
    <3>4. QED
      BY <3>1, <3>2, <3>3, EndsUnseen
  <2>4. CASE NodePasteFail(p)
    <3>1. Exit(p, "1") /\ pc[p] # "exit" /\ UNCHANGED <<code, blob, uri, out, published>>
      BY <2>4 DEF NodePasteFail, PasteFails
    <3>2. QED
      BY <3>1, EndsUnseen
  <2>5. CASE HttpPutOk(p) \/ NodePasteOk(p)
    BY <2>5, PasteSucceedsPosts DEF HttpPutOk, NodePasteOk
  <2>6. CASE HttpGetFound(p) \/ NodeGetFound(p)
    BY <2>6, DeliverShows DEF HttpGetFound, NodeGetFound
  <2>7. CASE HttpPutFail(p) \/ HttpGetEmpty(p) \/ Fetch(p)
    <3>1. /\ UNCHANGED <<code, blob, uri, out, exit, published>>
          /\ \A q \in Proc \ {p} : pc'[q] = pc[q]
          /\ \/ pc[p] \in {"http_get", "node_get"} /\ pc'[p] \in {"http_get", "node_get"}
             \/ pc[p] = "http_put" /\ pc'[p] = "node_paste"
      BY <2>7 DEF HttpPutFail, HttpGetEmpty, Fetch, Go, local, BoardInv, BinInv, TypeInv, TypeOK
    <3>2. NoteOf(p)' = NoteOf(p) /\ AskedBy(p)' = AskedBy(p) /\ AnswerTo(p)' = AnswerTo(p)
      BY <3>1 DEF NoteOf, AskedBy, AnswerTo, Pasted
    <3>3. QED
      BY <3>1, <3>2, SeenSame, StutterOf
  <2>8. QED
    BY <1>1, <2>1, <2>2, <2>3, <2>4, <2>5, <2>6, <2>7 DEF Step
<1>2. CASE Land
  <2>1. PICK p \in Proc : /\ Pasted(p) /\ published' = published \cup {<<code[p], blob[p]>>}
                          /\ UNCHANGED <<pc, local>>
    BY <1>2 DEF Land, Publish, Request, Pasted
  <2>2. NoteOf(p) = <<code[p], blob[p]>> /\ <<code[p], blob[p]>> # <<<<>>, NoBlob>>
    BY <2>1 DEF NoteOf, Pasted
  <2>3. QED
    BY <2>1, <2>2, PublishPins
<1>3. CASE LegacyPut
  <2>1. PICK v \in LegacyValues : /\ v[2] # <<>> /\ published' = published \cup {<<v[1], LegacyBlob(v[2])>>}
                                  /\ UNCHANGED <<pc, local>>
    BY <1>3 DEF LegacyPut, Publish
  <2>2. <<v[1], LegacyBlob(v[2])>> # <<<<>>, NoBlob>>
    BY <2>1 DEF LegacyBlob, NoBlob
  <2>3. QED
    BY <2>1, <2>2, PublishPins
<1>4. CASE ForeignPut
  <2>1. PICK e \in ForeignPackets : published' = published \cup {e} /\ UNCHANGED <<pc, local>>
    BY <1>4 DEF ForeignPut, Publish
  <2>2. e # <<<<>>, NoBlob>>
    BY <2>1, ForeignAssumption
  <2>3. QED
    BY <2>1, <2>2, PublishPins
<1>5. CASE UNCHANGED vars
  BY <1>5, SeenSame, StutterOf DEF vars, local
<1>6. QED
  BY <1>1, <1>2, <1>3, <1>4, <1>5 DEF Next

\* Before the first step nobody wrote, asked or was answered.
LEMMA BoardInit == Init => Board!Init
  BY DEF Init, Board!Init, Board!Unanswered, Board!Answered, NoteOf, AskedBy, AnswerTo, Pasted

(***************************************************************************)
(* Whatever the command lines, users and files, and however the network    *)
(* treats puts: the processes, the HTTP service and the DHT together are a *)
(* Pastebin.  A paste that printed a URI has its one packet at the place   *)
(* the URI leads to; nothing gets onto the board but packets of pastes,    *)
(* files of older clients and foreign packets; a get is answered once,     *)
(* with something that is or was at the place of its code                  *)
(* (main.cpp:156-202, bin.cpp:55-189).                                     *)
(***************************************************************************)
THEOREM BinImplementsPastebin == Spec => ImplementsPastebin
<1>1. Spec => []BoardInv
  BY BinInvariant, UriInvariant, PTL DEF BoardInv
<1>2. QED
  BY <1>1, BoardInit, BoardStep, PTL DEF Spec, ImplementsPastebin, Board!Spec
=============================================================================
