--------------------------- MODULE StartupProofs ---------------------------
(***************************************************************************)
(* Proofs about start-up, for command lines and configuration files of any *)
(* length and content.                                                     *)
(***************************************************************************)
EXTENDS Startup, NumberFacts, FiniteSetTheorems

-----------------------------------------------------------------------------
(* Texts *)

\* Any part of a text, from 1 on, is a text.
LEMMA PartType ==
    ASSUME NEW str \in Texts, NEW i \in Nat \ {0}, NEW j \in 0 .. Len(str)
    PROVE  SubSeq(str, i, j) \in Texts
  BY DEF Texts

\* trim_str gives back a text, and nothing of nothing.
LEMMA TrimType ==
    ASSUME NEW str \in Texts
    PROVE  trim_str(str) \in Texts /\ trim_str(<<>>) = <<>>
<1> DEFINE keep == {i \in 1 .. Len(str) : str[i] # SP}
<1>1. trim_str(<<>>) = <<>>
  BY DEF trim_str
<1>2. CASE keep = {}
  BY <1>1, <1>2 DEF trim_str, Texts
<1>3. CASE keep # {}
  <2>1. keep \in SUBSET Nat /\ Len(str) \in Nat /\ \A n \in keep : n =< Len(str)
    BY DEF Texts
  <2>2. Min(keep) \in keep /\ Max(keep) \in keep
    BY <1>3, <2>1, MinIsLeast, MaxIsGreatest
  <2>3. Min(keep) \in Nat \ {0} /\ Max(keep) \in 0 .. Len(str)
    BY <2>1, <2>2
  <2>4. trim_str(str) = SubSeq(str, Min(keep), Max(keep))
    BY <1>3 DEF trim_str
  <2> HIDE DEF keep
  <2>5. QED
    BY <1>1, <2>3, <2>4, PartType
<1>4. QED
  BY <1>2, <1>3

\* The first delimiter of a text.
LEMMA FirstDelimiter ==
    ASSUME NEW str \in Texts, Delimiters(str) # {}
    PROVE  LET m == Min(Delimiters(str))
           IN  /\ m \in 1 .. Len(str) /\ str[m] = EQ
               /\ \A i \in 1 .. m - 1 : str[i] # EQ
<1> DEFINE D == Delimiters(str)
<1>1. D \in SUBSET Nat
  BY DEF Delimiters
<1>2. Min(D) \in D /\ \A n \in D : Min(D) =< n
  BY <1>1, MinIsLeast
<1>3. Min(D) \in 1 .. Len(str) /\ str[Min(D)] = EQ
  BY <1>2 DEF Delimiters
<1>4. ASSUME NEW i \in 1 .. Min(D) - 1 PROVE str[i] # EQ
  <2>1. i \in 1 .. Len(str) /\ i \in Nat /\ ~(Min(D) =< i)
    BY <1>3 DEF Texts
  <2>2. QED
    BY <1>2, <2>1 DEF Delimiters
<1>5. QED
  BY <1>3, <1>4

\* What a turn of the inner loop leaves of a line is a text.
LEMMA RestType ==
    ASSUME NEW str \in Texts
    PROVE  Rest(str) \in Texts
<1>1. CASE Delimiters(str) = {}
  BY <1>1 DEF Rest, Texts
<1>2. CASE Delimiters(str) # {}
  <2>1. Min(Delimiters(str)) \in 1 .. Len(str) /\ Len(str) \in Nat
    BY <1>2, FirstDelimiter DEF Texts
  <2>2. Min(Delimiters(str)) + 1 \in Nat \ {0} /\ Len(str) \in 0 .. Len(str)
    BY <2>1
  <2>3. Rest(str) = SubSeq(str, Min(Delimiters(str)) + 1, Len(str))
    BY <1>2 DEF Rest
  <2>4. QED
    BY <2>2, <2>3, PartType
<1>3. QED
  BY <1>1, <1>2

\* Reading a number of a text gives one, or leaves the variable alone; it does
\* the latter only for white space.
LEMMA ExtractedType ==
    ASSUME NEW str \in Texts
    PROVE  \/ extracted(str) \in Nat
           \/ extracted(str) = port /\ \A i \in 1 .. Len(str) : str[i] \in {SP, WS}
<1> DEFINE text == {i \in 1 .. Len(str) : str[i] \notin {SP, WS}}
<1>1. CASE text = {}
  BY <1>1 DEF extracted
<1>2. CASE text # {}
  <2>1. text \in SUBSET Nat
    OBVIOUS
  <2>2. Min(text) \in text
    BY <1>2, <2>1, MinIsLeast
  <2>3. Min(text) \in 1 .. Len(str) /\ str[Min(text)] \notin {SP, WS}
    BY <2>2
  <2>4. str[Min(text)] \in Word \cup {EQ}
    BY <2>3 DEF Texts
  <2>5. extracted(str) = IF str[Min(text)] = EQ THEN 0 ELSE Extract[str[Min(text)]]
    BY <1>2 DEF extracted
  <2> HIDE DEF text
  <2>6. QED
    BY <2>4, <2>5, StartupAssumption
<1>3. QED
  BY <1>1, <1>2

-----------------------------------------------------------------------------
(* Type correctness *)

\* An option that takes an argument has one, any other has none.
LEMMA OptType ==
    ASSUME NEW o \in Opt
    PROVE  /\ o.name \in Flags \cup {"unknown", "get", "recipients"}
           /\ o.arg \in Seq(Word)
<1>1. CASE o \in [name : Flags \cup {"unknown"}, arg : {<<>>}]
  <2>1. o.name \in Flags \cup {"unknown"} /\ o.arg = <<>>
    BY <1>1
  <2>2. QED
    BY <2>1
<1>2. CASE o \in [name : {"get", "recipients"}, arg : Seq(Word)]
  BY <1>2
<1>3. QED
  BY <1>1, <1>2 DEF Opt

\* Types hold at the start.
LEMMA StartupTypeInit == Init => TypeOK
<1> SUFFICES ASSUME Init PROVE TypeOK
  OBVIOUS
<1>1. argv \in Seq(Opt) /\ file \in Seq(Texts)
  BY StartupAssumption DEF Init
<1>2. config_ \in [Options -> Texts]
  <2>1. ASSUME NEW o \in Options PROVE Defaults[o] \in Texts
    BY StartupAssumption DEF Texts
  <2>2. QED
    BY <2>1 DEF Init
<1>3. pa \in ParsedArgs
  BY DEF Init, ParsedArgs
<1>4. QED
  BY <1>1, <1>2, <1>3 DEF Init, TypeOK, Texts

\* Every step of the two loops and of the constructor keeps the types.
LEMMA StartupTypeStep == TypeOK /\ [Next]_vars => TypeOK'
<1> SUFFICES ASSUME TypeOK, [Next]_vars PROVE TypeOK'
  OBVIOUS
<1> USE DEF history
<1>1. CASE parseArgs
  <2> DEFINE o == Head(argv)
  <2>1. o \in Opt /\ Tail(argv) \in Seq(Opt)
    BY <1>1 DEF parseArgs, TypeOK
  <2>2. o.name \in Flags \cup {"unknown", "get", "recipients"} /\ o.arg \in Seq(Word)
    BY <2>1, OptType
  <2>3. /\ pa' = CASE o.name = "get"        -> [pa EXCEPT !.code = o.arg]
                   [] o.name = "recipients" -> [pa EXCEPT !.recipients = Append(@, o.arg)]
                   [] o.name = "unknown"    -> [pa EXCEPT !.fail = TRUE]
                   [] OTHER                 -> [pa EXCEPT !.flags = @ \cup {o.name}]
        /\ argv' = IF o.name = "unknown" THEN <<>> ELSE Tail(argv)
        /\ UNCHANGED <<pc, file, ss, config_, port, exit, argv0, file0>>
    BY <1>1 DEF parseArgs
  <2> HIDE DEF o
  <2>4. pa' \in ParsedArgs
    <3> USE DEF TypeOK, ParsedArgs
    <3>1. CASE o.name = "get"
      BY <2>2, <2>3, <3>1
    <3>2. CASE o.name = "recipients"
      <4>1. pa.recipients \in Seq(Seq(Word))
        OBVIOUS
      <4>2. Append(pa.recipients, o.arg) \in Seq(Seq(Word))
        BY <2>2, <4>1
      <4>3. QED
        BY <2>3, <3>2, <4>2
    <3>3. CASE o.name = "unknown"
      BY <2>3, <3>3
    <3>4. CASE o.name \in Flags
      <4>1. o.name \notin {"get", "recipients", "unknown"}
        BY <3>4 DEF Flags
      <4>2. pa.flags \cup {o.name} \in SUBSET Flags
        BY <3>4
      <4>3. QED
        BY <2>3, <4>1, <4>2
    <3>5. QED
      BY <2>2, <3>1, <3>2, <3>3, <3>4
  <2>5. QED
    BY <2>1, <2>3, <2>4 DEF TypeOK
<1>2. CASE main
  BY <1>2 DEF main, TypeOK
<1>3. CASE load_fails \/ load_opens \/ load_line_ends
  BY <1>3 DEF load_fails, load_opens, load_line_ends, TypeOK
<1>4. CASE load_line
  <2>1. CASE file = <<>>
    BY <1>4, <2>1 DEF load_line, TypeOK
  <2>2. CASE file # <<>>
    <3>1. Head(file) \in Texts /\ Tail(file) \in Seq(Texts)
      BY <2>2 DEF TypeOK
    <3>2. QED
      BY <1>4, <2>2, <3>1 DEF load_line, TypeOK
  <2>3. QED
    BY <2>1, <2>2
<1>5. CASE load_field
  <2>1. Rest(ss) \in Texts /\ trim_str(Rest(ss)) \in Texts /\ <<>> \in Texts
    <3>1. Rest(ss) \in Texts
      BY RestType DEF TypeOK
    <3>2. QED
      BY <3>1, TrimType DEF Texts
  <2>2. /\ config_' = [o \in Options |-> IF o \in OptionNamed(Field(ss)) /\ trim_str(Rest(ss)) # <<>>
                                         THEN trim_str(Rest(ss)) ELSE config_[o]]
        /\ ss' \in {<<>>, Rest(ss)}
        /\ UNCHANGED <<pc, argv, pa, file, port, exit, argv0, file0>>
    BY <1>5 DEF load_field
  <2>3. config_' \in [Options -> Texts]
    BY <2>1, <2>2 DEF TypeOK
  <2>4. QED
    BY <2>1, <2>2, <2>3 DEF TypeOK
<1>6. CASE Bin_ctor
  <2>1. "port" \in Options /\ config_["port"] \in Texts
    BY StartupAssumption DEF TypeOK
  <2>2. extracted(config_["port"]) \in Nat \cup {Uninitialised}
    BY <2>1, ExtractedType DEF TypeOK
  <2>3. QED
    BY <1>6, <2>2 DEF Bin_ctor, TypeOK
<1>7. CASE UNCHANGED vars
  BY <1>7 DEF vars, TypeOK
<1>8. QED
  BY <1>1, <1>2, <1>3, <1>4, <1>5, <1>6, <1>7 DEF Next

(***************************************************************************)
(* Start-up is type correct for every command line and file: every         *)
(* argument is a word, every value a text, and the port is a number or was *)
(* never read (main.cpp:64-102, 171-181, conf.cpp:26-53,                   *)
(* bin.cpp:39-53).                                                         *)
(***************************************************************************)
THEOREM StartupTypeCorrect == Spec => []TypeOK
  BY StartupTypeInit, StartupTypeStep, PTL DEF Spec

-----------------------------------------------------------------------------
(* Command lines *)

(***************************************************************************)
(* The inductive invariant of the loop of parseArgs: argv is what is left  *)
(* of the command line, and the parsed arguments are those of the options  *)
(* before it, until one of them is unknown.                                *)
(***************************************************************************)
ReadOpts == Len(argv0) - Len(argv)

GivenIn(k, name) == {i \in 1 .. k : argv0[i].name = name}

ArgsOf(k) ==
    /\ GivenIn(k, "unknown") = {}
    /\ pa.flags = {f \in Flags : GivenIn(k, f) # {}}
    /\ pa.code = IF GivenIn(k, "get") = {} THEN <<>> ELSE argv0[Max(GivenIn(k, "get"))].arg
    /\ ToSet(pa.recipients) = {argv0[i].arg : i \in GivenIn(k, "recipients")}
    /\ Len(pa.recipients) = Cardinality(GivenIn(k, "recipients"))

ArgsInv ==
    /\ Len(argv) =< Len(argv0)
    /\ pa.fail \/ (ArgsOf(ReadOpts) /\ \A i \in 1 .. Len(argv) : argv[i] = argv0[ReadOpts + i])
    /\ pc = "args" \/ argv = <<>>
    /\ pc \in {"args", "exit"} \/ (~pa.fail /\ pa.flags \cap {"help", "version"} = {})

\* One option more.
LEMMA OneMore ==
    ASSUME NEW k \in Nat, NEW name
    PROVE  GivenIn(k + 1, name) = IF argv0[k + 1].name = name THEN GivenIn(k, name) \cup {k + 1}
                                                              ELSE GivenIn(k, name)
<1>1. 1 .. k + 1 = (1 .. k) \cup {k + 1}
  OBVIOUS
<1>2. QED
  BY <1>1 DEF GivenIn

\* The options of one name are finitely many, and none is past the ones read.
LEMMA GivenFinite ==
    ASSUME NEW k \in Nat, NEW name
    PROVE  /\ IsFiniteSet(GivenIn(k, name)) /\ k + 1 \notin GivenIn(k, name)
           /\ GivenIn(k, name) \in SUBSET Nat /\ \A i \in GivenIn(k, name) : i =< k
<1>1. IsFiniteSet(1 .. k)
  BY FS_Interval
<1>2. GivenIn(k, name) \subseteq 1 .. k
  BY DEF GivenIn
<1>3. IsFiniteSet(GivenIn(k, name))
  BY <1>1, <1>2, FS_Subset
<1>4. QED
  BY <1>2, <1>3

\* A turn of the loop takes one option more into account.
LEMMA ArgsStep ==
    ASSUME TypeOK, ArgsInv, parseArgs, ~pa.fail, Head(argv).name # "unknown",
           NEW k \in Nat, k = ReadOpts
    PROVE  ArgsOf(k + 1)'
<1> DEFINE o == Head(argv)
<1>1. o = argv0[k + 1] /\ o \in Opt /\ ArgsOf(k)
  <2>1. argv \in Seq(Opt) /\ argv # <<>>
    BY DEF parseArgs, TypeOK
  <2>2. o = argv[1] /\ o \in Opt /\ 1 \in 1 .. Len(argv)
    BY <2>1
  <2>3. ArgsOf(k) /\ \A i \in 1 .. Len(argv) : argv[i] = argv0[k + i]
    BY Zenon DEF ArgsInv
  <2>4. QED
    BY <2>2, <2>3
<1>2. o.name \in Flags \cup {"get", "recipients"} /\ o.arg \in Seq(Word)
  BY <1>1, OptType
<1>3. /\ pa' = CASE o.name = "get"        -> [pa EXCEPT !.code = o.arg]
                 [] o.name = "recipients" -> [pa EXCEPT !.recipients = Append(@, o.arg)]
                 [] o.name = "unknown"    -> [pa EXCEPT !.fail = TRUE]
                 [] OTHER                 -> [pa EXCEPT !.flags = @ \cup {o.name}]
      /\ argv0' = argv0
  BY DEF parseArgs, history
<1>4. ASSUME NEW name
      PROVE  GivenIn(k + 1, name)' = IF o.name = name THEN GivenIn(k, name) \cup {k + 1}
                                                      ELSE GivenIn(k, name)
  <2>1. GivenIn(k + 1, name)' = GivenIn(k + 1, name)
    BY <1>3 DEF GivenIn
  <2>2. QED
    BY <1>1, <2>1, OneMore
<1>5. pa.flags \in SUBSET Flags /\ pa.recipients \in Seq(Seq(Word))
  BY DEF TypeOK, ParsedArgs
<1>6. /\ pa'.flags = IF o.name \in Flags THEN pa.flags \cup {o.name} ELSE pa.flags
      /\ pa'.code = IF o.name = "get" THEN o.arg ELSE pa.code
      /\ pa'.recipients = IF o.name = "recipients" THEN Append(pa.recipients, o.arg) ELSE pa.recipients
  <2>1. "get" \notin Flags /\ "recipients" \notin Flags /\ "unknown" \notin Flags
    BY DEF Flags
  <2> HIDE DEF o
  <2>2. QED
    BY <1>2, <1>3, <2>1 DEF TypeOK, ParsedArgs
<1>7. "get" \notin Flags /\ "recipients" \notin Flags /\ "unknown" \notin Flags
  BY DEF Flags
<1> HIDE DEF o
<1>8. GivenIn(k + 1, "unknown")' = {}
  BY <1>1, <1>2, <1>4, <1>7 DEF ArgsOf
<1>9. pa'.flags = {f \in Flags : GivenIn(k + 1, f)' # {}}
  <2>1. pa.flags = {f \in Flags : GivenIn(k, f) # {}}
    BY <1>1 DEF ArgsOf
  <2>2. ASSUME NEW f PROVE GivenIn(k + 1, f)' # {} <=> GivenIn(k, f) # {} \/ o.name = f
    BY <1>4
  <2>3. QED
    BY <1>6, <2>1, <2>2
<1>10. pa'.code = IF GivenIn(k + 1, "get")' = {} THEN <<>> ELSE argv0'[Max(GivenIn(k + 1, "get")')].arg
  <2>1. CASE o.name = "get"
    <3> DEFINE S == GivenIn(k, "get") \cup {k + 1}
    <3>1. GivenIn(k + 1, "get")' = S
      BY <1>4, <2>1
    <3>2. S \in SUBSET Nat /\ S # {} /\ k + 1 \in Nat /\ \A i \in S : i =< k + 1
      BY GivenFinite
    <3>3. Max(S) \in S /\ \A n \in S : n =< Max(S)
      <4> HIDE DEF S
      <4>1. QED
        BY <3>2, MaxIsGreatest
    <3>4. Max(S) = k + 1
      BY <3>2, <3>3
    <3> HIDE DEF S
    <3>5. QED
      BY <1>1, <1>3, <1>6, <2>1, <3>1, <3>3, <3>4
  <2>2. CASE o.name # "get"
    BY <1>1, <1>3, <1>4, <1>6, <2>2 DEF ArgsOf
  <2>3. QED
    BY <2>1, <2>2
<1>11. /\ ToSet(pa'.recipients) = {argv0'[i].arg : i \in GivenIn(k + 1, "recipients")'}
       /\ Len(pa'.recipients) = Cardinality(GivenIn(k + 1, "recipients")')
  <2>1. CASE o.name = "recipients"
    <3>1. ToSet(Append(pa.recipients, o.arg)) = ToSet(pa.recipients) \cup {o.arg}
      <4> DEFINE q == pa.recipients
                 a == Append(q, o.arg)
      <4>1. /\ DOMAIN a = (1 .. Len(q)) \cup {Len(q) + 1} /\ DOMAIN q = 1 .. Len(q)
            /\ a[Len(q) + 1] = o.arg /\ \A i \in 1 .. Len(q) : a[i] = q[i]
        BY <1>2, <1>5
      <4> HIDE DEF a, q
      <4>2. QED
        BY <4>1 DEF ToSet, a, q
    <3>2. Len(Append(pa.recipients, o.arg)) = Len(pa.recipients) + 1
      BY <1>5
    <3>3. GivenIn(k + 1, "recipients")' = GivenIn(k, "recipients") \cup {k + 1}
      BY <1>4, <2>1
    <3>4. Cardinality(GivenIn(k, "recipients") \cup {k + 1}) = Cardinality(GivenIn(k, "recipients")) + 1
      BY GivenFinite, FS_AddElement
    <3>5. {argv0[i].arg : i \in GivenIn(k, "recipients") \cup {k + 1}}
              = {argv0[i].arg : i \in GivenIn(k, "recipients")} \cup {argv0[k + 1].arg}
      OBVIOUS
    <3>6. {argv0'[i].arg : i \in GivenIn(k + 1, "recipients")'}
              = {argv0[i].arg : i \in GivenIn(k, "recipients") \cup {k + 1}}
      BY <1>3, <3>3, Zenon
    <3>7. /\ ToSet(pa.recipients) = {argv0[i].arg : i \in GivenIn(k, "recipients")}
          /\ Len(pa.recipients) = Cardinality(GivenIn(k, "recipients"))
      BY <1>1, Zenon DEF ArgsOf
    <3>8. pa'.recipients = Append(pa.recipients, o.arg)
      BY <1>6, <2>1
    <3>9. Len(pa'.recipients) = Cardinality(GivenIn(k + 1, "recipients")')
      BY <3>2, <3>3, <3>4, <3>7, <3>8, Zenon
    <3>10. ToSet(pa'.recipients) = {argv0'[i].arg : i \in GivenIn(k + 1, "recipients")'}
      BY <1>1, <3>1, <3>5, <3>6, <3>7, <3>8, Zenon
    <3>11. QED
      BY <3>9, <3>10
  <2>2. CASE o.name # "recipients"
    <3>1. GivenIn(k + 1, "recipients")' = GivenIn(k, "recipients") /\ pa'.recipients = pa.recipients
      BY <1>4, <1>6, <2>2
    <3>2. {argv0'[i].arg : i \in GivenIn(k + 1, "recipients")'} = {argv0[i].arg : i \in GivenIn(k, "recipients")}
      BY <1>3, <3>1, Zenon
    <3>3. /\ ToSet(pa.recipients) = {argv0[i].arg : i \in GivenIn(k, "recipients")}
          /\ Len(pa.recipients) = Cardinality(GivenIn(k, "recipients"))
      BY <1>1, Zenon DEF ArgsOf
    <3>4. QED
      BY <3>1, <3>2, <3>3, Zenon
  <2>3. QED
    BY <2>1, <2>2
<1>12. QED
  BY <1>8, <1>9, <1>10, <1>11 DEF ArgsOf

\* Every step keeps the invariant of parseArgs: an option read is one more option
\* of the part of the command line that is behind.
LEMMA ArgsInvStep == TypeOK /\ ArgsInv /\ [Next]_vars => ArgsInv'
<1> SUFFICES ASSUME TypeOK, ArgsInv, [Next]_vars PROVE ArgsInv'
  OBVIOUS
<1>1. CASE parseArgs
  <2>1. /\ pc = "args" /\ pc' = "args" /\ argv # <<>> /\ argv0' = argv0
        /\ argv \in Seq(Opt) /\ argv0 \in Seq(Opt) /\ Len(argv) =< Len(argv0)
        /\ Len(argv) \in Nat \ {0} /\ Len(argv0) \in Nat
    BY <1>1 DEF parseArgs, history, TypeOK, ArgsInv
  <2>2. CASE pa.fail \/ Head(argv).name = "unknown"
    <3>1. argv' \in {<<>>, Tail(argv)} /\ pa'.fail
      <4>1. CASE Head(argv).name = "unknown"
        BY <1>1, <4>1 DEF parseArgs, TypeOK, ParsedArgs
      <4>2. CASE pa.fail
        BY <1>1, <4>2 DEF parseArgs, TypeOK, ParsedArgs
      <4>3. QED
        BY <2>2, <4>1, <4>2
    <3>2. Len(argv') =< Len(argv0)
      BY <2>1, <3>1
    <3>3. QED
      BY <2>1, <3>1, <3>2 DEF ArgsInv
  <2>3. CASE ~pa.fail /\ Head(argv).name # "unknown"
    <3>1. PICK k \in Nat : k = ReadOpts
      BY <2>1 DEF ReadOpts
    <3>2. ArgsOf(k + 1)'
      BY <1>1, <2>3, <3>1, ArgsStep
    <3>3. argv' = Tail(argv)
      BY <1>1, <2>3 DEF parseArgs
    <3>4. Len(argv') = Len(argv) - 1 /\ ReadOpts' = k + 1
      BY <2>1, <3>1, <3>3 DEF ReadOpts
    <3>5. ASSUME NEW i \in 1 .. Len(argv') PROVE argv'[i] = argv0'[ReadOpts' + i]
      <4>1. i + 1 \in 1 .. Len(argv) /\ argv'[i] = argv[i + 1]
        BY <2>1, <3>3, <3>4
      <4>2. argv[i + 1] = argv0[k + (i + 1)]
        BY <2>3, <3>1, <4>1 DEF ArgsInv
      <4>3. k + (i + 1) = (k + 1) + i
        OBVIOUS
      <4>4. QED
        BY <2>1, <3>4, <4>1, <4>2, <4>3
    <3>6. QED
      BY <2>1, <3>2, <3>4, <3>5 DEF ArgsInv
  <2>4. QED
    BY <2>2, <2>3
<1>2. ASSUME UNCHANGED <<argv, pa, argv0>>, pc' = "args" => pc = "args",
             pc # "args" \/ argv = <<>> \/ pc' = "args",
             pc' \in {"args", "exit"} \/ pc \notin {"args", "exit"}
                 \/ (~pa.fail /\ pa.flags \cap {"help", "version"} = {})
      PROVE  ArgsInv'
  BY <1>2 DEF ArgsInv, ArgsOf, GivenIn, ReadOpts
<1>3. CASE main
  BY <1>2, <1>3 DEF main, history
<1>4. CASE load_fails \/ load_opens \/ load_line \/ load_field \/ load_line_ends \/ Bin_ctor
  BY <1>2, <1>4 DEF load_fails, load_opens, load_line, load_field, load_line_ends, Bin_ctor, history
<1>5. CASE UNCHANGED vars
  BY <1>2, <1>5 DEF vars, history
<1>6. QED
  BY <1>1, <1>3, <1>4, <1>5 DEF Next

\* It holds before the first option.
LEMMA ArgsInvInit == Init => ArgsInv
<1> SUFFICES ASSUME Init PROVE ArgsInv
  OBVIOUS
<1>1. TypeOK
  BY StartupTypeInit
<1>2. ReadOpts = 0 /\ Len(argv) \in Nat
  BY <1>1 DEF Init, TypeOK, ReadOpts
<1>3. \A name : GivenIn(0, name) = {}
  BY DEF GivenIn
<1>4. ArgsOf(0)
  BY <1>3, FS_EmptySet DEF Init, ArgsOf, ToSet
<1>5. QED
  BY <1>2, <1>4 DEF Init, ArgsInv

(***************************************************************************)
(* For every command line, of any length and in any order: when main()     *)
(* goes on, parseArgs has understood all of it (main.cpp:64-102, 171-199). *)
(***************************************************************************)
THEOREM ArgumentsUnderstoodThm == Spec => []ArgumentsUnderstood
<1>1. TypeOK /\ ArgsInv => ArgumentsUnderstood
  <2> SUFFICES ASSUME TypeOK, ArgsInv, pc \notin {"args", "exit"}
               PROVE  /\ Given("unknown") = {}
                      /\ pa.flags = {f \in Flags : Given(f) # {}}
                      /\ pa.flags \cap {"help", "version"} = {}
                      /\ pa.code = IF Given("get") = {} THEN <<>> ELSE argv0[Max(Given("get"))].arg
                      /\ ToSet(pa.recipients) = {argv0[i].arg : i \in Given("recipients")}
                      /\ Len(pa.recipients) = Cardinality(Given("recipients"))
    BY DEF ArgumentsUnderstood
  <2>1. ReadOpts = Len(argv0) /\ ArgsOf(ReadOpts) /\ pa.flags \cap {"help", "version"} = {}
    BY DEF TypeOK, ArgsInv, ReadOpts
  <2>2. \A name : GivenIn(ReadOpts, name) = Given(name)
    BY <2>1 DEF GivenIn, Given
  <2>3. QED
    BY <2>1, <2>2 DEF ArgsOf
<1>2. QED
  BY <1>1, ArgsInvInit, ArgsInvStep, StartupTypeCorrect, PTL DEF Spec

-----------------------------------------------------------------------------
(* The configuration file *)

\* The loop of load() has passed over the first k characters of a line, up to a
\* delimiter, and none of them ends the name of an option.
Passed(line, k, rest) ==
    /\ k \in 0 .. Len(line) /\ (k = 0 \/ k \in Delimiters(line))
    /\ rest = SubSeq(line, k + 1, Len(line))
    /\ \A i \in NameEnds(line) : i > k

\* What is left of the next delimiter, back to the one before it.
LEMMA LeftOfNext ==
    ASSUME NEW line \in Texts, NEW k \in 0 .. Len(line), k = 0 \/ k \in Delimiters(line),
           NEW i \in Delimiters(line), i > k,
           \A j \in Delimiters(line) : j > k => j >= i
    PROVE  Left(line, i) = SubSeq(line, k + 1, i - 1)
<1> DEFINE S == {0} \cup {j \in Delimiters(line) : j < i}
<1>1. Delimiters(line) \in SUBSET Nat /\ i \in Nat /\ k \in Nat
  BY DEF Delimiters
<1>2. S \in SUBSET Nat /\ S # {} /\ k \in S /\ \A n \in S : n =< k
  BY <1>1
<1> HIDE DEF S
<1>3. Max(S) \in S /\ \A n \in S : n =< Max(S)
  BY <1>1, <1>2, MaxIsGreatest
<1>4. Max(S) = k
  <2>1. Max(S) \in Nat /\ Max(S) =< k /\ k =< Max(S)
    BY <1>2, <1>3
  <2>2. QED
    BY <1>1, <2>1
<1>5. QED
  BY <1>4, Zenon DEF Left, S

\* A turn of the inner loop when there is no delimiter any more: no name ended
\* on this line.
LEMMA LastTurn ==
    ASSUME NEW line \in Texts, NEW k, NEW rest, Passed(line, k, rest), Delimiters(rest) = {}
    PROVE  NameEnds(line) = {} /\ Rest(rest) = <<>>
<1>1. Rest(rest) = <<>>
  BY DEF Rest
<1>2. ASSUME NEW i \in NameEnds(line) PROVE FALSE
  <2>1. i \in 1 .. Len(line) /\ line[i] = EQ /\ i > k /\ k \in Nat /\ Len(line) \in Nat
    BY DEF NameEnds, Delimiters, Passed, Texts
  <2>2. i - k \in 1 .. Len(rest) /\ rest[i - k] = line[i]
    <3>1. rest = SubSeq(line, k + 1, Len(line)) /\ line \in Seq(Word \cup {EQ, SP, WS})
      BY DEF Passed, Texts
    <3>2. /\ Len(rest) = Len(line) - k
          /\ \A j \in 1 .. Len(line) - k : rest[j] = line[k + j]
      BY <2>1, <3>1
    <3>3. i - k \in 1 .. Len(line) - k /\ k + (i - k) = i
      BY <2>1
    <3>4. QED
      BY <3>2, <3>3
  <2>3. QED
    BY <2>1, <2>2 DEF Delimiters
<1>3. QED
  BY <1>1, <1>2

\* A turn of the inner loop when the next delimiter is at i.
LEMMA NextTurn ==
    ASSUME NEW line \in Texts, NEW k, NEW rest, Passed(line, k, rest), Delimiters(rest) # {}
    PROVE  LET i == k + Min(Delimiters(rest))
           IN  /\ i \in Delimiters(line) /\ i > k
               /\ \A j \in Delimiters(line) : j > k => j >= i
               /\ Field(rest) = Left(line, i)
               /\ Rest(rest) = SubSeq(line, i + 1, Len(line))
<1> DEFINE m == Min(Delimiters(rest))
           i == k + m
           n == Len(line)
<1>1. /\ k \in Nat /\ n \in Nat /\ k =< n /\ rest = SubSeq(line, k + 1, n)
      /\ line \in Seq(Word \cup {EQ, SP, WS})
  BY DEF Passed, Texts
<1>2. /\ rest \in Texts /\ Len(rest) = n - k
      /\ \A j \in 1 .. n - k : rest[j] = line[k + j]
  BY <1>1 DEF Texts
<1>3. /\ m \in 1 .. n - k /\ rest[m] = EQ
      /\ \A j \in 1 .. m - 1 : rest[j] # EQ
  BY <1>2, FirstDelimiter
<1> HIDE DEF m, n
<1>4. i \in 1 .. n /\ line[i] = EQ /\ i > k
  BY <1>1, <1>2, <1>3
<1>5. ASSUME NEW j \in Delimiters(line), j > k PROVE j >= i
  <2>1. j \in 1 .. n /\ line[j] = EQ
    BY DEF Delimiters, n
  <2>2. j - k \in 1 .. n - k /\ k + (j - k) = j
    BY <1>1, <1>5, <2>1
  <2>3. rest[j - k] = EQ
    BY <1>2, <2>1, <2>2
  <2>4. ~(j - k \in 1 .. m - 1)
    BY <1>3, <2>3
  <2>5. QED
    BY <1>1, <1>3, <2>2, <2>4
<1>6. Left(line, i) = SubSeq(line, k + 1, i - 1)
  <2>1. i \in Delimiters(line) /\ k \in 0 .. Len(line) /\ (k = 0 \/ k \in Delimiters(line))
    BY <1>4 DEF Delimiters, Passed, n
  <2> HIDE DEF i
  <2>2. QED
    BY <1>4, <1>5, <2>1, LeftOfNext
<1>7. Field(rest) = SubSeq(line, k + 1, i - 1)
  <2>1. Field(rest) = SubSeq(rest, 1, m - 1)
    BY DEF Field, m
  <2>2. SubSeq(rest, 1, m - 1) = SubSeq(line, k + 1, i - 1)
    BY <1>1, <1>2, <1>3
  <2>3. QED
    BY <2>1, <2>2
<1>8. Rest(rest) = SubSeq(line, i + 1, n)
  <2>1. Rest(rest) = SubSeq(rest, m + 1, n - k)
    BY <1>2 DEF Rest, m
  <2>2. SubSeq(rest, m + 1, n - k) = SubSeq(line, i + 1, n)
    BY <1>1, <1>2, <1>3
  <2>3. QED
    BY <2>1, <2>2
<1>9. i \in Delimiters(line)
  BY <1>4 DEF Delimiters, n
<1>10. QED
  BY <1>4, <1>5, <1>6, <1>7, <1>8, <1>9 DEF m, n

\* A name that ends at that delimiter is the first of the line, and what is left
\* is its value; otherwise the line is passed up to there.
LEMMA TurnDecides ==
    ASSUME NEW line \in Texts, NEW k, NEW rest, Passed(line, k, rest), Delimiters(rest) # {}
    PROVE  /\ OptionNamed(Field(rest)) # {} =>
                /\ NameEnds(line) # {} /\ Value(line) = trim_str(Rest(rest))
                /\ OptionNamed(Left(line, Min(NameEnds(line)))) = OptionNamed(Field(rest))
           /\ OptionNamed(Field(rest)) = {} => \E i \in 0 .. Len(line) : Passed(line, i, Rest(rest))
<1> DEFINE i == k + Min(Delimiters(rest))
<1>1. /\ i \in Delimiters(line) /\ i > k
      /\ \A j \in Delimiters(line) : j > k => j >= i
      /\ Field(rest) = Left(line, i)
      /\ Rest(rest) = SubSeq(line, i + 1, Len(line))
  BY NextTurn
<1>2. i \in 0 .. Len(line) /\ i \in Nat
  BY <1>1 DEF Delimiters, Texts
<1> HIDE DEF i
<1>3. /\ NameEnds(line) \in SUBSET Nat
      /\ \A j \in NameEnds(line) : j \in Delimiters(line) /\ j > k /\ j >= i
  BY <1>1 DEF NameEnds, Delimiters, Passed
<1>4. CASE OptionNamed(Field(rest)) # {}
  <2>1. i \in NameEnds(line)
    BY <1>1, <1>4 DEF NameEnds
  <2>2. Min(NameEnds(line)) \in NameEnds(line) /\ \A j \in NameEnds(line) : Min(NameEnds(line)) =< j
    BY <1>3, <2>1, MinIsLeast
  <2>3. Min(NameEnds(line)) = i
    <3>1. Min(NameEnds(line)) \in Nat /\ Min(NameEnds(line)) >= i /\ Min(NameEnds(line)) =< i
      BY <1>3, <2>1, <2>2
    <3>2. QED
      BY <1>2, <3>1
  <2>4. QED
    BY <1>1, <1>4, <2>1, <2>3, Zenon DEF Value
<1>5. CASE OptionNamed(Field(rest)) = {}
  <2>1. i \notin NameEnds(line)
    BY <1>1, <1>5 DEF NameEnds
  <2>2. \A j \in NameEnds(line) : j > i
    BY <1>2, <1>3, <2>1
  <2>3. Passed(line, i, Rest(rest))
    BY <1>1, <1>2, <2>2 DEF Passed
  <2>4. QED
    BY <1>2, <1>5, <2>3
<1>6. QED
  BY <1>4, <1>5

(***************************************************************************)
(* The inductive invariant of load(): before each line, every option has   *)
(* the value that the lines read so far give it; inside a line, it has     *)
(* either still that value, and the line was passed over up to where ss    *)
(* begins, or already the one that this line gives it, and ss is used up.  *)
(***************************************************************************)
ReadLines == Len(file0) - Len(file)

SettingIn(n, o) == {i \in 1 .. n : Assigns(file0[i], o)}
ValueIn(n, o) == IF SettingIn(n, o) = {} THEN Defaults[o] ELSE Value(file0[Max(SettingIn(n, o))])
ConfOf(n) == \A o \in Options : config_[o] = ValueIn(n, o)

\* Every value comes from somewhere.
ConfComes == \A o \in Options : config_[o] = Defaults[o] \/ \E i \in Setting(o) : config_[o] = Value(file0[i])

InLine(n, line) ==
    \/ ss = <<>> /\ ConfOf(n)
    \/ ConfOf(n - 1) /\ \E k \in 0 .. Len(line) : Passed(line, k, ss)

FileInv ==
    /\ Len(file) =< Len(file0)
    /\ \A i \in 1 .. Len(file) : file[i] = file0[ReadLines + i]
    /\ pc \in {"args", "open"} => ReadLines = 0
    /\ pc \in {"args", "open", "lines"} => ConfOf(ReadLines)
    /\ pc = "fields" => ReadLines >= 1 /\ InLine(ReadLines, file0[ReadLines])
    /\ pc = "ctor" => ConfComes
    /\ PortIsRead

\* What one line more does to the values.
LEMMA OneLineMore ==
    ASSUME NEW n \in Nat, NEW o
    PROVE  ValueIn(n + 1, o) = IF Assigns(file0[n + 1], o) THEN Value(file0[n + 1]) ELSE ValueIn(n, o)
<1> DEFINE S == SettingIn(n, o)
           T == SettingIn(n + 1, o)
<1>1. 1 .. n + 1 = (1 .. n) \cup {n + 1}
  OBVIOUS
<1>2. T = IF Assigns(file0[n + 1], o) THEN S \cup {n + 1} ELSE S
  BY <1>1 DEF SettingIn
<1>3. CASE Assigns(file0[n + 1], o)
  <2>1. T \in SUBSET Nat /\ n + 1 \in T /\ T # {} /\ n + 1 \in Nat /\ \A i \in T : i =< n + 1
    BY <1>2, <1>3 DEF SettingIn
  <2> HIDE DEF T
  <2>2. Max(T) \in T /\ \A i \in T : i =< Max(T)
    BY <2>1, MaxIsGreatest
  <2>3. Max(T) = n + 1
    <3>1. Max(T) \in Nat /\ Max(T) =< n + 1 /\ n + 1 =< Max(T)
      BY <2>1, <2>2
    <3>2. QED
      BY <2>1, <3>1
  <2>4. QED
    BY <1>3, <2>1, <2>3, Zenon DEF ValueIn, T
<1>4. CASE ~Assigns(file0[n + 1], o)
  BY <1>2, <1>4, Zenon DEF ValueIn
<1>5. QED
  BY <1>3, <1>4

\* A value of the lines read so far is one of the file's.
LEMMA ConfOfComes ==
    ASSUME NEW n \in 0 .. Len(file0), file0 \in Seq(Texts), ConfOf(n)
    PROVE  ConfComes
<1> SUFFICES ASSUME NEW o \in Options
             PROVE  config_[o] = Defaults[o] \/ \E i \in Setting(o) : config_[o] = Value(file0[i])
  BY DEF ConfComes
<1> DEFINE S == SettingIn(n, o)
<1>1. config_[o] = ValueIn(n, o)
  BY DEF ConfOf
<1>2. CASE S = {}
  BY <1>1, <1>2 DEF ValueIn
<1>3. CASE S # {}
  <2>1. S \in SUBSET Nat /\ n \in Nat /\ (\A i \in S : i =< n) /\ S \subseteq Setting(o)
    BY DEF SettingIn, Setting
  <2> HIDE DEF S
  <2>2. Max(S) \in S
    BY <1>3, <2>1, MaxIsGreatest
  <2>3. Max(S) \in Setting(o) /\ config_[o] = Value(file0[Max(S)])
    BY <1>1, <1>3, <2>1, <2>2 DEF ValueIn, S
  <2>4. QED
    BY <2>3
<1>4. QED
  BY <1>2, <1>3

\* One turn of the inner loop, for the line that is read.
LEMMA FieldKeeps ==
    ASSUME TypeOK, load_field, NEW n \in Nat \ {0}, NEW line \in Texts, file0[n] = line, InLine(n, line)
    PROVE  InLine(n, line)'
<1> DEFINE known == OptionNamed(Field(ss))
           arg == trim_str(Rest(ss))
<1>1. /\ config_' = [o \in Options |-> IF o \in known /\ arg # <<>> THEN arg ELSE config_[o]]
      /\ ss' = IF known # {} THEN <<>> ELSE Rest(ss)
      /\ ss # <<>> /\ file0' = file0
  BY DEF load_field, history
<1>2. PICK k \in 0 .. Len(line) : Passed(line, k, ss)
  BY <1>1 DEF InLine
<1>3. ConfOf(n - 1)
  BY <1>1 DEF InLine
<1>4. n - 1 \in Nat /\ (n - 1) + 1 = n
  OBVIOUS
<1>5. ASSUME NEW o \in Options
      PROVE  ValueIn(n, o) = IF Assigns(line, o) THEN Value(line) ELSE config_[o]
  <2>1. ValueIn((n - 1) + 1, o) = IF Assigns(file0[(n - 1) + 1], o) THEN Value(file0[(n - 1) + 1]) ELSE ValueIn(n - 1, o)
    BY <1>4, OneLineMore
  <2>2. config_[o] = ValueIn(n - 1, o)
    BY <1>3 DEF ConfOf
  <2>3. QED
    BY <1>4, <2>1, <2>2
<1>6. \A o, j : ValueIn(j, o)' = ValueIn(j, o)
  BY <1>1 DEF ValueIn, SettingIn
<1> HIDE DEF known, arg
<1>7. CASE Delimiters(ss) = {}
  <2>1. NameEnds(line) = {} /\ Rest(ss) = <<>> /\ arg = <<>>
    BY <1>2, <1>7, LastTurn, TrimType DEF arg
  <2>2. ss' = <<>> /\ \A o \in Options : config_'[o] = config_[o]
    BY <1>1, <2>1
  <2>3. \A o \in Options : ValueIn(n, o) = config_[o]
    BY <1>5, <2>1 DEF Assigns
  <2>4. ConfOf(n)'
    BY <1>6, <2>2, <2>3 DEF ConfOf
  <2>5. QED
    BY <2>2, <2>4 DEF InLine
<1>8. CASE Delimiters(ss) # {} /\ known # {}
  <2>1. /\ NameEnds(line) # {} /\ Value(line) = arg
        /\ OptionNamed(Left(line, Min(NameEnds(line)))) = known
    BY <1>2, <1>8, TurnDecides DEF known, arg
  <2>2. \A o \in Options : Assigns(line, o) <=> o \in known /\ arg # <<>>
    BY <2>1 DEF Assigns
  <2>3. \A o \in Options : config_'[o] = ValueIn(n, o)
    BY <1>1, <1>5, <2>1, <2>2
  <2>4. ConfOf(n)'
    BY <1>6, <2>3 DEF ConfOf
  <2>5. QED
    BY <1>1, <1>8, <2>4 DEF InLine
<1>9. CASE Delimiters(ss) # {} /\ known = {}
  <2>1. \E i \in 0 .. Len(line) : Passed(line, i, Rest(ss))
    BY <1>2, <1>9, TurnDecides DEF known
  <2>2. ss' = Rest(ss) /\ \A o \in Options : config_'[o] = config_[o]
    BY <1>1, <1>9
  <2>3. ConfOf(n - 1)'
    BY <1>3, <1>6, <2>2 DEF ConfOf
  <2>4. QED
    BY <2>1, <2>2, <2>3 DEF InLine
<1>10. QED
  BY <1>7, <1>8, <1>9

\* A line that is used up gave each option the value it gives it.
LEMMA LineEnds ==
    ASSUME TypeOK, ss = <<>>, NEW n \in Nat \ {0}, NEW line \in Texts, file0[n] = line, InLine(n, line)
    PROVE  ConfOf(n)
<1>1. CASE ConfOf(n - 1) /\ \E k \in 0 .. Len(line) : Passed(line, k, ss)
  <2>1. PICK k \in 0 .. Len(line) : Passed(line, k, ss)
    BY <1>1
  <2>2. Delimiters(ss) = {}
    BY DEF Delimiters
  <2>3. NameEnds(line) = {}
    BY <2>1, <2>2, LastTurn
  <2>4. ASSUME NEW o \in Options PROVE config_[o] = ValueIn(n, o)
    <3>1. n - 1 \in Nat /\ (n - 1) + 1 = n
      OBVIOUS
    <3>2. ValueIn((n - 1) + 1, o) = ValueIn(n - 1, o)
      BY <2>3, <3>1, OneLineMore DEF Assigns
    <3>3. QED
      BY <1>1, <3>1, <3>2 DEF ConfOf
  <2>5. QED
    BY <2>4 DEF ConfOf
<1>2. QED
  BY <1>1 DEF InLine

\* A step that leaves the file, the options and the port alone.
LEMMA FileSame ==
    ASSUME FileInv, UNCHANGED <<file, file0, config_, port>>, pc' # "ready",
           pc' \in {"args", "open"} => pc \in {"args", "open"},
           pc' = "lines" => ConfOf(ReadLines),
           pc' = "fields" => pc = "fields" /\ ss' = ss,
           pc' = "ctor" => ConfComes
    PROVE  FileInv'
<1>1. ReadLines' = ReadLines /\ \A i : ConfOf(i)' = ConfOf(i)
  BY DEF ReadLines, ConfOf, ValueIn, SettingIn
<1>2. ConfComes' = ConfComes
  BY DEF ConfComes, Setting
<1>3. pc' = "fields" => \A i, line : InLine(i, line)' = InLine(i, line)
  BY DEF InLine, ConfOf, ValueIn, SettingIn
<1>4. PortIsRead'
  BY DEF PortIsRead
<1>5. QED
  BY <1>1, <1>2, <1>3, <1>4 DEF FileInv

\* Every step keeps the invariant of load().
LEMMA FileInvStep == TypeOK /\ FileInv /\ [Next]_vars => FileInv'
<1> SUFFICES ASSUME TypeOK, FileInv, [Next]_vars PROVE FileInv'
  OBVIOUS
<1> USE DEF history
<1>0. /\ file \in Seq(Texts) /\ file0 \in Seq(Texts) /\ Len(file) \in Nat /\ Len(file0) \in Nat
      /\ Len(file) =< Len(file0) /\ ReadLines \in 0 .. Len(file0)
  BY DEF TypeOK, FileInv, ReadLines
<1>1. CASE parseArgs
  BY <1>1, FileSame DEF parseArgs
<1>2. CASE main
  BY <1>2, FileSame DEF main
<1>3. CASE load_fails
  <2>1. ConfComes
    BY <1>0, <1>3, ConfOfComes DEF load_fails, FileInv
  <2>2. QED
    BY <1>3, <2>1, FileSame DEF load_fails
<1>4. CASE load_opens
  BY <1>4, FileSame DEF load_opens, FileInv
<1>5. CASE load_line
  <2>1. CASE file = <<>>
    <3>1. ConfComes
      BY <1>0, <1>5, ConfOfComes DEF load_line, FileInv
    <3>2. QED
      BY <1>5, <2>1, <3>1, FileSame DEF load_line
  <2>2. CASE file # <<>>
    <3> DEFINE line == Head(file)
    <3>1. /\ pc = "lines" /\ pc' = "fields" /\ ss' = line /\ file' = Tail(file)
          /\ file0' = file0 /\ config_' = config_ /\ port' = port
      BY <1>5, <2>2 DEF load_line
    <3>2. PICK n \in Nat : n = ReadLines
      BY <1>0
    <3>3. Len(file') = Len(file) - 1 /\ ReadLines' = n + 1 /\ Len(file') \in Nat
      BY <1>0, <2>2, <3>1, <3>2 DEF ReadLines
    <3>4. line = file0[n + 1] /\ line \in Texts
      BY <1>0, <2>2, <3>2 DEF FileInv
    <3>5. ASSUME NEW i \in 1 .. Len(file') PROVE file'[i] = file0'[ReadLines' + i]
      <4>1. i + 1 \in 1 .. Len(file) /\ file'[i] = file[i + 1]
        BY <1>0, <2>2, <3>1, <3>3
      <4>2. file[i + 1] = file0[n + (i + 1)]
        BY <3>2, <4>1 DEF FileInv
      <4>3. n + (i + 1) = (n + 1) + i
        OBVIOUS
      <4>4. QED
        BY <3>1, <3>3, <4>1, <4>2, <4>3
    <3>6. ConfOf(n)'
      BY <3>1, <3>2 DEF FileInv, ConfOf, ValueIn, SettingIn
    <3>7. Passed(line, 0, line)
      <4>1. line = SubSeq(line, 0 + 1, Len(line)) /\ 0 \in 0 .. Len(line)
        BY <3>4 DEF Texts
      <4>2. \A i \in NameEnds(line) : i > 0
        BY DEF NameEnds, Delimiters
      <4>3. QED
        BY <4>1, <4>2 DEF Passed
    <3>8. InLine(n + 1, file0[n + 1])'
      <4>1. (n + 1) - 1 = n /\ 0 \in 0 .. Len(line)
        BY <3>4 DEF Texts
      <4> HIDE DEF line
      <4>2. QED
        BY <3>1, <3>4, <3>6, <3>7, <4>1 DEF InLine
    <3>9. Len(file') =< Len(file0') /\ ReadLines' >= 1
      BY <1>0, <3>1, <3>2, <3>3
    <3>10. InLine(ReadLines, file0[ReadLines])'
      BY <3>3, <3>8
    <3>11. PortIsRead'
      BY <3>1 DEF PortIsRead
    <3> HIDE DEF line
    <3>12. QED
      BY <3>1, <3>5, <3>9, <3>10, <3>11 DEF FileInv
  <2>3. QED
    BY <2>1, <2>2
<1>6. CASE load_field \/ load_line_ends
  <2>1. pc = "fields" /\ UNCHANGED <<file, file0, port>>
    BY <1>6 DEF load_field, load_line_ends
  <2>2. PICK n \in Nat \ {0} : n = ReadLines
    BY <1>0, <2>1 DEF FileInv
  <2>3. PICK line \in Texts : line = file0[n]
    BY <1>0, <2>2
  <2>4. InLine(n, line)
    BY <2>1, <2>2, <2>3 DEF FileInv
  <2>5. CASE load_field
    <3>1. InLine(n, line)' /\ pc' = pc
      BY <2>3, <2>4, <2>5, FieldKeeps DEF load_field
    <3>2. ReadLines' = n /\ line = file0'[n]
      BY <2>1, <2>2, <2>3 DEF ReadLines
    <3>3. PortIsRead'
      BY <2>1, <3>1 DEF PortIsRead
    <3>4. QED
      BY <2>1, <2>2, <3>1, <3>2, <3>3 DEF FileInv
  <2>6. CASE load_line_ends
    <3>1. ConfOf(n)
      BY <2>3, <2>4, <2>6, LineEnds DEF load_line_ends
    <3>2. QED
      BY <2>2, <2>6, <3>1, FileSame DEF load_line_ends
  <2>7. QED
    BY <1>6, <2>5, <2>6
<1>7. CASE Bin_ctor
  <2>1. /\ pc = "ctor" /\ pc' = "ready" /\ port' = extracted(config_["port"])
        /\ UNCHANGED <<file, file0, config_>>
    BY <1>7 DEF Bin_ctor
  <2>2. "port" \in Options /\ config_["port"] \in Texts
    BY StartupAssumption DEF TypeOK
  <2>3. ASSUME port' = Uninitialised PROVE \E i \in Setting("port") : ToSet(Value(file0[i])) \subseteq {SP, WS}
    <3>1. \A i \in 1 .. Len(config_["port"]) : config_["port"][i] \in {SP, WS}
      BY <2>1, <2>2, <2>3, ExtractedType, StartupAssumption
    <3>2. config_["port"] # Defaults["port"]
      <4>1. Defaults["port"] \in Seq(Word) /\ Defaults["port"] # <<>>
        BY <2>2, StartupAssumption
      <4>2. 1 \in 1 .. Len(Defaults["port"]) /\ Defaults["port"][1] \in Word
        BY <4>1
      <4>3. Defaults["port"][1] \notin {SP, WS}
        BY <4>2, StartupAssumption
      <4>4. QED
        BY <3>1, <4>2, <4>3
    <3>3. PICK i \in Setting("port") : config_["port"] = Value(file0[i])
      BY <2>1, <2>2, <3>2 DEF FileInv, ConfComes
    <3>4. ToSet(config_["port"]) \subseteq {SP, WS}
      <4>1. DOMAIN config_["port"] = 1 .. Len(config_["port"])
        BY <2>2 DEF Texts
      <4>2. QED
        BY <3>1, <4>1 DEF ToSet
    <3>5. QED
      BY <3>3, <3>4
  <2>4. PortIsRead'
    BY <2>1, <2>3 DEF PortIsRead, Setting
  <2>5. ReadLines' = ReadLines
    BY <2>1 DEF ReadLines
  <2>6. QED
    BY <2>1, <2>4, <2>5 DEF FileInv
<1>8. CASE UNCHANGED vars
  <2>1. UNCHANGED <<pc, file, file0, config_, port, ss>>
    BY <1>8 DEF vars
  <2>2. CASE pc # "ready"
    BY <2>1, <2>2, FileSame DEF FileInv
  <2>3. CASE pc = "ready"
    <3>1. ReadLines' = ReadLines
      BY <2>1 DEF ReadLines
    <3>2. Setting("port")' = Setting("port") /\ PortIsRead
      BY <2>1, Zenon DEF Setting, FileInv
    <3>3. PortIsRead'
      BY <2>1, <3>2, Zenon DEF PortIsRead
    <3>4. QED
      BY <2>1, <2>3, <3>1, <3>3 DEF FileInv
  <2>4. QED
    BY <2>2, <2>3
<1>9. QED
  BY <1>1, <1>2, <1>3, <1>4, <1>5, <1>6, <1>7, <1>8 DEF Next

\* It holds before the first line.
LEMMA FileInvInit == Init => FileInv
<1> SUFFICES ASSUME Init PROVE FileInv
  OBVIOUS
<1>1. ReadLines = 0 /\ Len(file) \in Nat
  BY StartupTypeInit DEF Init, TypeOK, ReadLines
<1>2. ConfOf(0)
  BY DEF Init, ConfOf, ValueIn, SettingIn
<1>3. QED
  BY <1>1, <1>2 DEF Init, FileInv, PortIsRead

\* The invariant holds of every run.
LEMMA FileInvariant == Spec => []FileInv
  BY FileInvInit, FileInvStep, StartupTypeCorrect, PTL DEF Spec

(***************************************************************************)
(* The two loops of load() read every file, however many lines it has and  *)
(* whatever '=' and blanks are in them, the way its lines are meant: the   *)
(* last line that gives an option a value decides (conf.cpp:26-53).        *)
(***************************************************************************)
THEOREM LastValueWinsThm == Spec => []LastValueWins
<1>1. TypeOK /\ FileInv => LastValueWins
  <2> SUFFICES ASSUME TypeOK, FileInv, pc = "lines", file = <<>>, NEW o \in Options
               PROVE  IF Setting(o) = {} THEN config_[o] = Defaults[o]
                                         ELSE config_[o] = Value(file0[Max(Setting(o))])
    BY DEF LastValueWins
  <2>1. ReadLines = Len(file0) /\ ConfOf(ReadLines)
    BY DEF TypeOK, FileInv, ReadLines
  <2>2. SettingIn(ReadLines, o) = Setting(o)
    BY <2>1 DEF SettingIn, Setting
  <2>3. QED
    BY <2>1, <2>2 DEF ConfOf, ValueIn
<1>2. QED
  BY <1>1, FileInvariant, StartupTypeCorrect, PTL

(***************************************************************************)
(* The port that the constructor of Bin leaves unread, in whatever file:   *)
(* only one that a line sets to white space (bin.cpp:39-53).               *)
(***************************************************************************)
THEOREM PortIsReadThm == Spec => []PortIsRead
<1>1. FileInv => PortIsRead
  BY DEF FileInv
<1>2. QED
  BY <1>1, FileInvariant, PTL
=============================================================================
