----------------------------- MODULE MCStartup -----------------------------
(***************************************************************************)
(* Start-up with short command lines, and files of at most two lines, each *)
(* of them well formed or wrong in one of the ways load() can meet.        *)
(***************************************************************************)
EXTENDS Startup, TLC

CONSTANTS lo, n1, n2, w      \* an address, two numbers, some other word

MCWord == {lo, n1, n2, w, "host", "port", "pgp_key_id"}
MCDefaults == ("host" :> <<lo>>) @@ ("port" :> <<n1>>) @@ ("pgp_key_id" :> <<>>)
MCExtract == [v \in MCWord |-> CASE v = n1 -> 6509 [] v = n2 -> 6500 [] OTHER -> 0]

Flag(f) == [name |-> f, arg |-> <<>>]
With(f, a) == [name |-> f, arg |-> a]
SomeOpts ==
    {Flag(f) : f \in Flags \cup {"unknown"}}
        \cup {With("get", <<w>>), With("get", <<>>), With("recipients", <<w>>), With("recipients", <<lo>>)}

MCArgvs ==
    UNION {[1 .. n -> SomeOpts] : n \in 0 .. 2}
        \cup {<<With("recipients", <<w>>), o, With("get", <<w>>)>> : o \in SomeOpts}

Lines ==
    { <<>>, <<SP>>, <<w>>,                          \* nothing to read
      <<"port">>, <<"port", SP, EQ, SP>>,           \* a name without a value
      <<"port", EQ, n2>>,
      <<SP, "port", SP, EQ, SP, n2, SP>>,
      <<"port", EQ, WS>>,                           \* a tab or a CR for a value
      <<"port", EQ, WS, n1, SP, w>>,
      <<"port", EQ, EQ, n2>>,                       \* a value that starts with '='
      <<"host", EQ, w, EQ, "port", EQ, n2>>,        \* a value that has a name in it
      <<w, EQ, "port", EQ, n2>>,                    \* an unknown name, then a known one
      <<w, SP, "host", EQ, "pgp_key_id", SP, EQ, w>>,
      <<EQ, "host", EQ, w>>,
      <<"host", SP, EQ, lo, SP, w>> }

MCFiles == UNION {[1 .. n -> Lines] : n \in 0 .. 2}
=============================================================================
