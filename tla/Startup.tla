------------------------------ MODULE Startup ------------------------------
(***************************************************************************)
(* What a dpaste process does before it pastes or gets: main() parses its  *)
(* arguments and, if it goes on, the constructor of Bin loads the          *)
(* configuration file and reads the port from it (src/src/main.cpp,        *)
(* conf.cpp, conf.h, bin.cpp).  Module Bin begins where this one ends.     *)
(*                                                                         *)
(* A text is a sequence of characters that matter to the parser: EQ ('='), *)
(* SP (a space), WS (white space that trim_str keeps, a tab or a carriage  *)
(* return) and words, a word being a whole run of other characters.        *)
(***************************************************************************)
EXTENDS Naturals, Sequences, SequencesExt

CONSTANTS
    EQ, SP, WS,      \* the separators
    Word,            \* words of a file; the names of the options are among them
    Defaults,        \* the options known to ConfigurationFile and their defaults
    Extract,         \* Extract[w]: the long that operator>> reads of a text w...
    Uninitialised,   \* whatever a variable without an initialiser holds
    Argvs,           \* command lines, as getopt_long cuts them
    Files            \* texts of the configuration file, line by line

Options == DOMAIN Defaults
Texts == Seq(Word \cup {EQ, SP, WS})

Flags == {"help", "version", "aes_encrypt", "gpg_encrypt", "sign", "no_decrypt", "self_recipient"}
Opt == [name : Flags \cup {"unknown"}, arg : {<<>>}]
           \cup [name : {"get", "recipients"}, arg : Seq(Word)]

ASSUME StartupAssumption ==
    /\ {EQ, SP, WS} \cap Word = {}
    /\ "port" \in Options
    /\ \A o \in Options : Defaults[o] \in Seq(Word)
    /\ Defaults["port"] # <<>>
    /\ Extract \in [Word -> Nat]
    /\ Uninitialised \notin Nat
    /\ \A a \in Argvs : a \in Seq(Opt)
    /\ \A f \in Files : f \in Seq(Texts)

VARIABLES
    pc,        \* "args", "open", "lines", "fields", "ctor", "ready", "exit"
    argv,      \* the options that getopt_long has still to return
    pa,        \* ParsedArgs
    file,      \* the lines that load() has still to read
    ss,        \* the rest of the line it reads
    config_,   \* the options
    port,      \* the local variable `port' of the constructor of Bin
    exit,      \* exit status
    argv0,     \* the whole command line (history)
    file0      \* the whole file (history)

history == <<argv0, file0>>
vars == <<pc, argv, pa, file, ss, config_, port, exit, history>>

ParsedArgs == [fail : BOOLEAN, flags : SUBSET Flags, code : Seq(Word), recipients : Seq(Seq(Word))]

\* The text between its first and its last character that is not a space.
trim_str(str) ==
    LET keep == {i \in 1 .. Len(str) : str[i] # SP}
    IN  IF keep = {} THEN <<>> ELSE SubSeq(str, Min(keep), Max(keep))

Init ==
    /\ pc = "args"
    /\ argv \in Argvs
    /\ pa = [fail |-> FALSE, flags |-> {}, code |-> <<>>, recipients |-> <<>>]
    /\ file \in Files
    /\ ss = <<>>
    /\ config_ = [o \in Options |-> Defaults[o]]
    /\ port = Uninitialised
    /\ exit = "none"
    /\ argv0 = argv
    /\ file0 = file

\* A slip: an option that nobody knows is passed over.
parseArgs_lenient ==
    /\ pc = "args" /\ argv # <<>>
    /\ argv' = Tail(argv)
    /\ LET o == Head(argv)
       IN  pa' = CASE o.name = "get"        -> [pa EXCEPT !.code = o.arg]
                   [] o.name = "recipients" -> [pa EXCEPT !.recipients = Append(@, o.arg)]
                   [] OTHER                 -> [pa EXCEPT !.flags = @ \cup ({o.name} \cap Flags)]
    /\ UNCHANGED <<pc, file, ss, config_, port, exit, history>>

\* One turn of the loop of parseArgs.  An unknown option, or one without its
\* argument, ends it.
parseArgs ==
    /\ pc = "args" /\ argv # <<>>
    /\ LET o == Head(argv)
       IN  /\ pa' = CASE o.name = "get"        -> [pa EXCEPT !.code = o.arg]
                      [] o.name = "recipients" -> [pa EXCEPT !.recipients = Append(@, o.arg)]
                      [] o.name = "unknown"    -> [pa EXCEPT !.fail = TRUE]
                      [] OTHER                 -> [pa EXCEPT !.flags = @ \cup {o.name}]
           /\ argv' = IF o.name = "unknown" THEN <<>> ELSE Tail(argv)
    /\ UNCHANGED <<pc, file, ss, config_, port, exit, history>>

\* main() after parseArgs: it stops, or builds a Bin.
main ==
    /\ pc = "args" /\ argv = <<>>
    /\ LET stops == pa.fail \/ pa.flags \cap {"help", "version"} # {}
       IN  /\ pc' = IF stops THEN "exit" ELSE "open"
           /\ exit' = CASE pa.fail          -> "1"
                        [] ~pa.fail /\ stops -> "0"
                        [] OTHER            -> exit
    /\ UNCHANGED <<argv, pa, file, ss, config_, port, history>>

\* load() cannot open the file and returns 1, which the constructor ignores.
load_fails ==
    /\ pc = "open"
    /\ pc' = "ctor"
    /\ UNCHANGED <<argv, pa, file, ss, config_, port, exit, history>>

load_opens ==
    /\ pc = "open"
    /\ pc' = "lines"
    /\ UNCHANGED <<argv, pa, file, ss, config_, port, exit, history>>

\* std::getline(config_file, line), the outer loop.
load_line ==
    /\ pc = "lines"
    /\ IF file = <<>>
       THEN pc' = "ctor" /\ UNCHANGED <<file, ss>>
       ELSE pc' = "fields" /\ ss' = Head(file) /\ file' = Tail(file)
    /\ UNCHANGED <<argv, pa, config_, port, exit, history>>

\* What getline(ss, _, '=') takes of a text (Field), and what it leaves (Rest).
Delimiters(str) == {i \in 1 .. Len(str) : str[i] = EQ}
Field(str) == IF Delimiters(str) = {} THEN str ELSE SubSeq(str, 1, Min(Delimiters(str)) - 1)
Rest(str) == IF Delimiters(str) = {} THEN <<>> ELSE SubSeq(str, Min(Delimiters(str)) + 1, Len(str))

OptionNamed(str) == {o \in Options : trim_str(str) = <<o>>}

\* A slip: an empty value is stored too.
load_field_empty ==
    /\ pc = "fields" /\ ss # <<>>
    /\ LET known == OptionNamed(Field(ss))
       IN  /\ config_' = [o \in Options |-> IF o \in known THEN trim_str(Rest(ss)) ELSE config_[o]]
           /\ ss' = IF known # {} THEN <<>> ELSE Rest(ss)
    /\ UNCHANGED <<pc, argv, pa, file, port, exit, history>>

\* A slip: the value is stored with the blanks around it.
load_field_untrimmed ==
    /\ pc = "fields" /\ ss # <<>>
    /\ LET known == OptionNamed(Field(ss))
           arg   == Rest(ss)
       IN  /\ config_' = [o \in Options |-> IF o \in known /\ arg # <<>> THEN arg ELSE config_[o]]
           /\ ss' = IF known # {} THEN <<>> ELSE Rest(ss)
    /\ UNCHANGED <<pc, argv, pa, file, port, exit, history>>

\* A slip: config_[arg_name] instead of find adds any name to the options.
load_field_creates ==
    /\ pc = "fields" /\ ss # <<>>
    /\ config_' = [o \in DOMAIN config_ \cup ToSet(trim_str(Field(ss))) |->
                      IF o \in ToSet(trim_str(Field(ss))) THEN trim_str(Rest(ss)) ELSE config_[o]]
    /\ ss' = <<>>
    /\ UNCHANGED <<pc, argv, pa, file, port, exit, history>>

(***************************************************************************)
(* One turn of the inner loop: a field that names an option takes the rest *)
(* of the line as its value, which is kept unless it is empty; any other   *)
(* field is passed over and the next one is tried as a name.               *)
(***************************************************************************)
load_field ==
    /\ pc = "fields" /\ ss # <<>>
    /\ LET known == OptionNamed(Field(ss))
           arg   == trim_str(Rest(ss))
       IN  /\ config_' = [o \in Options |-> IF o \in known /\ arg # <<>> THEN arg ELSE config_[o]]
           /\ ss' = IF known # {} THEN <<>> ELSE Rest(ss)
    /\ UNCHANGED <<pc, argv, pa, file, port, exit, history>>

\* The inner getline has nothing left to read.
load_line_ends ==
    /\ pc = "fields" /\ ss = <<>>
    /\ pc' = "lines"
    /\ UNCHANGED <<argv, pa, file, ss, config_, port, exit, history>>

(***************************************************************************)
(* conv >> port: white space is skipped; if nothing follows, the variable  *)
(* keeps its value; a text that starts with no number reads as 0.          *)
(***************************************************************************)
extracted(str) ==
    LET text == {i \in 1 .. Len(str) : str[i] \notin {SP, WS}}
    IN  CASE text = {}                              -> port
          [] text # {} /\ str[Min(text)] = EQ       -> 0
          [] OTHER                                  -> Extract[str[Min(text)]]

\* The rest of the constructor of Bin.
Bin_ctor ==
    /\ pc = "ctor"
    /\ port' = extracted(config_["port"])
    /\ pc' = "ready"
    /\ UNCHANGED <<argv, pa, file, ss, config_, exit, history>>

Next ==
    \/ parseArgs \/ main
    \/ load_fails \/ load_opens \/ load_line \/ load_field \/ load_line_ends
    \/ Bin_ctor

Spec == Init /\ [][Next]_vars

-----------------------------------------------------------------------------
(* Properties *)

TypeOK ==
    /\ pc \in {"args", "open", "lines", "fields", "ctor", "ready", "exit"}
    /\ argv \in Seq(Opt)
    /\ pa \in ParsedArgs
    /\ file \in Seq(Texts)
    /\ ss \in Texts
    /\ config_ \in [Options -> Texts]
    /\ port \in Nat \cup {Uninitialised}
    /\ exit \in {"none", "0", "1"}
    /\ argv0 \in Seq(Opt) /\ file0 \in Seq(Texts)

Given(name) == {i \in 1 .. Len(argv0) : argv0[i].name = name}

(***************************************************************************)
(* What parseArgs hands over when main() goes on: no option was unknown,   *)
(* neither help nor the version was asked for, the flags are those given,  *)
(* in whatever order, the code is the one of the last -g, and every -r     *)
(* counts.                                                                 *)
(***************************************************************************)
ArgumentsUnderstood ==
    pc \notin {"args", "exit"} =>
        /\ Given("unknown") = {}
        /\ pa.flags = {f \in Flags : Given(f) # {}}
        /\ pa.flags \cap {"help", "version"} = {}
        /\ pa.code = IF Given("get") = {} THEN <<>> ELSE argv0[Max(Given("get"))].arg
        /\ ToSet(pa.recipients) = {argv0[i].arg : i \in Given("recipients")}
        /\ Len(pa.recipients) = Cardinality(Given("recipients"))

(***************************************************************************)
(* The assignment the loop finds in a line, said without the loop: the     *)
(* first '=' whose left neighbour (back to the previous '=' or the start)  *)
(* names an option makes all that follows its value.  A line that does not *)
(* begin with that name hides an assignment.                               *)
(***************************************************************************)
Left(line, i) == SubSeq(line, Max({0} \cup {j \in Delimiters(line) : j < i}) + 1, i - 1)
NameEnds(line) == {i \in Delimiters(line) : OptionNamed(Left(line, i)) # {}}
Value(line) == trim_str(SubSeq(line, Min(NameEnds(line)) + 1, Len(line)))
Assigns(line, o) ==
    /\ NameEnds(line) # {}
    /\ o \in OptionNamed(Left(line, Min(NameEnds(line))))
    /\ Value(line) # <<>>

Hides(line, o) == Assigns(line, o) /\ OptionNamed(Field(line)) = {}

Setting(o) == {i \in 1 .. Len(file0) : Assigns(file0[i], o)}

(***************************************************************************)
(* After load() went through the whole file, each option has the value of  *)
(* the last line "OPTION = VALUE" that gives it one, without the blanks    *)
(* around it, or its default; lines that give it nothing, or something to  *)
(* another option, leave it alone.  Files with a malformed line that hides *)
(* an assignment to the option are MalformedLinesOmitted's matter.         *)
(***************************************************************************)
LastValueWins ==
    pc = "lines" /\ file = <<>> =>
        \A o \in Options :
            (\A i \in 1 .. Len(file0) : ~Hides(file0[i], o)) =>
                IF Setting(o) = {} THEN config_[o] = Defaults[o]
                                   ELSE config_[o] = Value(file0[Max(Setting(o))])

\* conf.h:59 on load(), whose lines are "OPTION = VALUE": "Malformed lines are
\* omitted."  So an option is only ever set by a line that begins with its name.
MalformedLinesOmitted ==
    pc = "lines" /\ file = <<>> =>
        \A o \in Options :
            config_[o] # Defaults[o] => \E i \in 1 .. Len(file0) : o \in OptionNamed(Field(file0[i]))

(***************************************************************************)
(* The constructor of Bin hands HttpClient a port it did read, although it *)
(* declares the variable without a value: only a line that sets the port   *)
(* to white space other than spaces, which trim_str keeps, leaves it       *)
(* uninitialised.                                                          *)
(***************************************************************************)
PortIsRead ==
    pc = "ready" /\ port = Uninitialised =>
        \E i \in Setting("port") : ToSet(Value(file0[i])) \subseteq {SP, WS}
=============================================================================
