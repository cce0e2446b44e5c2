-------------------------------- MODULE Bin --------------------------------
(***************************************************************************)
(* dpaste processes pasting to and getting from one DHT, over the HTTP     *)
(* service first and the process's own node when that fails                *)
(* (src/src/main.cpp, bin.cpp, http_client.cpp).                           *)
(*                                                                         *)
(* A process runs main() once.  Its steps are cut where it waits for the   *)
(* outside: the HTTP request and the blocking call of the node; all the    *)
(* local work before a wait belongs to the same action.                    *)
(*                                                                         *)
(* The DHT, the HTTP gateway to it and the user are the environment: a put *)
(* takes effect before, after or without its answer, even more than once;  *)
(* a get may find a value, miss it or be answered too late.  So a value    *)
(* that expires is not a step of its own: it is a value that is missed,    *)
(* until its put takes effect once more.  An older dpaste (<= 0.3.3)       *)
(* stores the bare bytes of the file, and anybody may store a packet of    *)
(* their own, also one that no dpaste makes.  A location is named by its   *)
(* PIN: the hash of the PIN is taken as injective.                         *)
(***************************************************************************)
EXTENDS Ciphers

CONSTANTS
    Proc,            \* dpaste processes
    Args,            \* Args[p]: the command lines process p may be started with
    Confs,           \* users: configuration, secret and trusted keys, GnuPG present
    Streams,         \* number streams the PIN generator may be seeded to
    UserCodes,       \* codes users type that no dpaste printed
    MAX_VALUE_SIZE,  \* bytes Bin::paste reads of its input
    MsgpackType,     \* MsgpackType[b]: what msgpack makes of bytes that start with b
    LegacyValues,    \* <<location, bytes>> pairs older clients may store
    ForeignPackets   \* <<location, blob>> pairs other programs may store

ParsedArgs ==
    [early : {"none", "fail", "help", "version"}, get : BOOLEAN, input : Bytes,
     aes_encrypt : BOOLEAN, gpg_encrypt : BOOLEAN, sign : BOOLEAN,
     no_decrypt : BOOLEAN, self_recipient : BOOLEAN, recipients : SUBSET KeyName]

Conf == [pgp_key_id : KeyName \cup {NoKey}, secret : SUBSET Key,
         trusted : SUBSET Key, engine : BOOLEAN]

ASSUME BinAssumption ==
    /\ Args \in [Proc -> SUBSET ParsedArgs]
    /\ Confs \subseteq Conf
    /\ Streams \subseteq [1 .. 2 -> Number]
    /\ UserCodes \subseteq Text
    /\ MAX_VALUE_SIZE \in Nat
    /\ MsgpackType \in [Byte -> {"map", "other", "invalid"}]
    /\ LegacyValues \subseteq Pin \X Bytes

VARIABLES
    pc,         \* where a process waits
    job,        \* its command line
    conf,       \* its user
    rng,        \* the statics of random_pin
    scheme,     \* the local `scheme' of prepare_data
    code,       \* paste: the location drawn; get: the code after the prefix
    pwd,        \* paste: the password drawn; get: the rest of the code
    blob,       \* paste: the serialised packet
    received,   \* get: the first value that came back
    uri,        \* what a paste printed
    out,        \* what a get printed
    reported,   \* the signer a get reported
    exit,       \* exit status
    published   \* the values the DHT holds or held, as <<location, blob>>

local == <<job, conf, rng, scheme, code, pwd, blob, received, uri, out, reported, exit>>
vars == <<pc, local, published>>

-----------------------------------------------------------------------------
(* Values on the wire *)

(***************************************************************************)
(* A stored byte string as msgpack sees it: its type and, if it is a map,  *)
(* which of its keys it has; `raw' are the bytes of a value that is no     *)
(* packet.  A map with a field of the wrong type counts as "other": it ends *)
(* with the same type_error.                                               *)
(***************************************************************************)
Blob == [type : {"map", "other", "invalid"}, keys : SUBSET {"v", "data", "signature"},
         data : Data, signature : Sig, raw : Bytes]

serialize(d, s) ==
    [type |-> "map", keys |-> {"v", "data", "signature"}, data |-> d,
     signature |-> s, raw |-> <<>>]

\* What an older client stores: the file itself.
LegacyBlob(b) ==
    [type |-> MsgpackType[b[1]], keys |-> {}, data |-> Empty,
     signature |-> EmptySig, raw |-> b]

NoBlob == [type |-> "invalid", keys |-> {}, data |-> Empty,
           signature |-> EmptySig, raw |-> <<>>]

ASSUME ForeignAssumption == ForeignPackets \subseteq Pin \X (Blob \ {NoBlob})

findMapValue(b, key) == key \in b.keys

\* deserialize of a map: fields that are absent stay cleared.
packet_data(b) == IF findMapValue(b, "data") THEN b.data ELSE Empty
packet_signature(b) == IF findMapValue(b, "signature") THEN b.signature ELSE EmptySig

-----------------------------------------------------------------------------
(* Bin::paste, up to the packet *)

data_from_stream(input) ==
    SubSeq(input, 1, IF Len(input) < MAX_VALUE_SIZE THEN Len(input) ELSE MAX_VALUE_SIZE)

\* With --sign alone self_recipient is left uninitialised, and is not read.
params_from_args(pa) ==
    [kind |-> CASE pa.aes_encrypt                         -> "AES"
                [] ~pa.aes_encrypt /\ (pa.gpg_encrypt \/ pa.sign) -> "GPG"
                [] OTHER                                  -> "null",
     recipients |-> IF pa.gpg_encrypt THEN pa.recipients ELSE {},
     self_recipient |-> pa.gpg_encrypt /\ pa.self_recipient,
     sign |-> pa.sign]

(***************************************************************************)
(* The packet made of the bytes b.  The GPG case: processPlainText gave    *)
(* back an empty vector, so the packet holds the bytes as they are and, if *)
(* asked for, their signature.                                             *)
(***************************************************************************)
prepare_gpg(b, params, cf) ==
    LET keyid == cf.pgp_key_id
        ct    == GPG_processPlainText(b, params, keyid, cf.secret)
        to_sign == params.sign /\ keyid # NoKey
        signed  == GPG_sign(b, keyid, cf.secret)
    IN  CASE GPG_fails(keyid)       -> [err |-> "GpgME", data |-> Empty, sig |-> EmptySig]
          [] ~GPG_fails(keyid) /\ (ct.err # "none" \/ ct.data # Empty)
                                    -> [err |-> ct.err, data |-> ct.data, sig |-> EmptySig]
          [] ~GPG_fails(keyid) /\ ct.err = "none" /\ ct.data = Empty /\ to_sign
                                    -> [err |-> signed.err, data |-> Plain(b), sig |-> signed.sig]
          [] OTHER                  -> [err |-> "none", data |-> Plain(b), sig |-> EmptySig]

(***************************************************************************)
(* prepare_data with the value s of its local `scheme': the scheme of the  *)
(* parameters, or whatever the uninitialised variable holds when there are *)
(* none.  Without parameters the AES password is the empty string, and GPG *)
(* gives back an empty vector.                                             *)
(***************************************************************************)
prepare_data(b, params, s, cf, password) ==
    CASE params.kind = "GPG" -> prepare_gpg(b, params, cf)
      [] params.kind # "GPG" /\ Cipher_get(s) = "AES" ->
           [err |-> "none", data |-> AES_processPlainText(b, password), sig |-> EmptySig]
      [] OTHER -> [err |-> "none", data |-> Plain(b), sig |-> EmptySig]

SchemeRead(params) == IF params.kind = "null" THEN Scheme ELSE {params.kind}

-----------------------------------------------------------------------------
(* Bin::get, from the bytes received on *)

\* The result of get: the status main() exits with, what it prints and the
\* signer it names.  "abort" is an exception nobody catches.
Result(x, d, s) == [exit |-> x, out |-> d, reported |-> s]

\* A slip: the type_error of a value that is no packet is a failed get.
decode_strict(b, c, password, no_decrypt, cf) ==
    IF b.type = "map" THEN Result("0", packet_data(b), NoKey) ELSE Result("1", Empty, NoKey)

decode(b, c, password, no_decrypt, cf) ==
    LET d      == packet_data(b)
        s      == packet_signature(b)
        cipher == cipher_for(d, c)
        r      == processCipherText(cipher, d, password, cf.secret, cf.trusted)
        v      == GPG_verify(s)
    IN  CASE b.type = "invalid" -> Result("abort", Empty, NoKey)     \* msgpack::unpack_error
          [] b.type = "other"   -> Result("0", Plain(b.raw), NoKey)  \* msgpack::type_error
          [] b.type = "map" /\ cipher # "NONE" /\ ~no_decrypt ->
               IF r.err = "none" THEN Result("0", r.data, r.signer)
                                 ELSE Result("1", Empty, NoKey)
          [] b.type = "map" /\ cipher = "NONE" /\ s # EmptySig ->
               IF v.err = "none" THEN Result("0", d, comment_on_signature(v.signer, cf.trusted))
                                 ELSE Result("1", Empty, NoKey)
          [] OTHER -> Result("0", d, NoKey)

-----------------------------------------------------------------------------
Init ==
    /\ pc = [p \in Proc |-> "start"]
    /\ job \in {f \in [Proc -> UNION {Args[p] : p \in Proc}] : \A p \in Proc : f[p] \in Args[p]}
    /\ conf \in [Proc -> Confs]
    /\ rng \in [Proc -> [stream : Streams, pos : {0}, initialized : {FALSE}]]
    /\ scheme = [p \in Proc |-> "NONE"]
    /\ code = [p \in Proc |-> <<>>]
    /\ pwd = [p \in Proc |-> <<>>]
    /\ blob = [p \in Proc |-> NoBlob]
    /\ received = [p \in Proc |-> NoBlob]
    /\ uri = [p \in Proc |-> <<>>]
    /\ out = [p \in Proc |-> Empty]
    /\ reported = [p \in Proc |-> NoKey]
    /\ exit = [p \in Proc |-> "none"]
    /\ published = {}

Go(p, to) == pc' = [pc EXCEPT ![p] = to]

Exit(p, x) == Go(p, "exit") /\ exit' = [exit EXCEPT ![p] = x]

\* The codes a user can pass to -g: what some dpaste printed, with or without
\* "dpaste:", or UserCodes.
Given == LET printed == {uri[q] : q \in Proc} \ {<<>>}
         IN  printed \cup {Tail(u) : u \in printed} \cup UserCodes

\* main() ends before any Bin exists.
EarlyExit(p) ==
    /\ pc[p] = "start" /\ job[p].early # "none"
    /\ Exit(p, IF job[p].early = "fail" THEN "1" ELSE "0")
    /\ UNCHANGED <<job, conf, rng, scheme, code, pwd, blob, received, uri, out, reported, published>>

\* Cipher::init() throws when GnuPG has no OpenPGP engine.
InitFails(p) ==
    /\ pc[p] = "start" /\ job[p].early = "none" /\ ~conf[p].engine
    /\ Exit(p, "abort")
    /\ UNCHANGED <<job, conf, rng, scheme, code, pwd, blob, received, uri, out, reported, published>>

\* Bin::paste up to the HTTP request.  A GpgME exception leaves main().
StartPaste(p) ==
    /\ pc[p] = "start" /\ job[p].early = "none" /\ conf[p].engine
    /\ ~job[p].get \/ <<>> \in UserCodes     \* -g "" is no code: main() pastes
    /\ LET params == params_from_args(job[p])
           first  == random_pin(rng[p])
           second == random_pin(first.rng)
           drawn  == params.kind = "AES"
           password == IF drawn THEN second.pin ELSE <<>>
       IN  \E s \in SchemeRead(params) :
             LET pp == prepare_data(data_from_stream(job[p].input), params, s, conf[p], password)
             IN  /\ scheme' = [scheme EXCEPT ![p] = s]
                 /\ code' = [code EXCEPT ![p] = first.pin]
                 /\ pwd' = [pwd EXCEPT ![p] = password]
                 /\ rng' = [rng EXCEPT ![p] = IF drawn THEN second.rng ELSE first.rng]
                 /\ IF pp.err = "none"
                    THEN /\ blob' = [blob EXCEPT ![p] = serialize(pp.data, pp.sig)]
                         /\ Go(p, "http_put")
                         /\ UNCHANGED exit
                    ELSE Exit(p, "abort") /\ UNCHANGED blob
    /\ UNCHANGED <<job, conf, received, uri, out, reported, published>>

\* A value reaches the DHT.
Publish(e) == published' = published \cup {e}

\* success ? DPASTE_URI_PREFIX+code+pwd : "", and what main() does with it.
PasteSucceeds(p) ==
    /\ uri' = [uri EXCEPT ![p] = uri_of(code[p], pwd[p])]
    /\ Exit(p, "0")

PasteFails(p) == Exit(p, "1") /\ UNCHANGED uri

\* What p's put requests ask to be stored, over HTTP and through the node.
\* A slip: the first attempt moved the packet away.
Request_moved(p) == <<code[p], IF pc[p] = "node_paste" THEN NoBlob ELSE blob[p]>>

Request(p) == <<code[p], blob[p]>>

\* A slip: every answer of the HTTP service counts as success.
HttpPutOk_any(p) ==
    /\ pc[p] = "http_put"
    /\ PasteSucceeds(p)
    /\ UNCHANGED <<job, conf, rng, scheme, code, pwd, blob, received, out, reported, published>>

\* HttpClient::put was answered with status 200: the value is in the DHT.
HttpPutOk(p) ==
    /\ pc[p] = "http_put" /\ Request(p) \in published
    /\ PasteSucceeds(p)
    /\ UNCHANGED <<job, conf, rng, scheme, code, pwd, blob, received, out, reported, published>>

\* No connection, no answer or another status: the node is tried next.
HttpPutFail(p) ==
    /\ pc[p] = "http_put"
    /\ Go(p, "node_paste")
    /\ UNCHANGED <<local, published>>

\* Node::paste returned true.
NodePasteOk(p) ==
    /\ pc[p] = "node_paste" /\ Request(p) \in published
    /\ PasteSucceeds(p)
    /\ UNCHANGED <<job, conf, rng, scheme, code, pwd, blob, received, out, reported, published>>

\* Node::paste returned false: the put failed, or was not waited for.
NodePasteFail(p) ==
    /\ pc[p] = "node_paste"
    /\ PasteFails(p)
    /\ UNCHANGED <<job, conf, rng, scheme, code, pwd, blob, received, out, reported, published>>

\* Bin::get up to the HTTP request; a short code makes substr throw.
StartGet(p) ==
    /\ pc[p] = "start" /\ job[p].early = "none" /\ conf[p].engine /\ job[p].get
    /\ \E given \in Given \ {<<>>} :
         LET c == code_from_dpaste_uri(given)
         IN  /\ code' = [code EXCEPT ![p] = c]
             /\ IF TooShort(c)
                THEN Exit(p, "abort") /\ UNCHANGED pwd
                ELSE /\ pwd' = [pwd EXCEPT ![p] = pwd_part(c)]
                     /\ Go(p, "http_get")
                     /\ UNCHANGED exit
    /\ UNCHANGED <<job, conf, rng, scheme, blob, received, uri, out, reported, published>>

\* The rest of get and of main() once the bytes b were received.
Deliver(p, b) ==
    LET r == decode(b, code[p], pwd[p], job[p].no_decrypt, conf[p])
    IN  /\ out' = [out EXCEPT ![p] = r.out]
        /\ reported' = [reported EXCEPT ![p] = r.reported]
        /\ Exit(p, r.exit)

\* A slip: values are not looked up by their location.
Stored_anywhere(p) == published

Stored(p) == {e \in published : e[1] = lcode(code[p])}

\* The service, or the node, comes upon a first value: it is on its way back.
Fetch(p) ==
    /\ pc[p] \in {"http_get", "node_get"} /\ received[p] = NoBlob
    /\ \E e \in Stored(p) : received' = [received EXCEPT ![p] = e[2]]
    /\ UNCHANGED <<pc, job, conf, rng, scheme, code, pwd, blob, uri, out, reported, exit, published>>

\* HttpClient::get answered 200 with a list of values: the first one is used.
HttpGetFound(p) ==
    /\ pc[p] = "http_get" /\ received[p] # NoBlob
    /\ Deliver(p, received[p])
    /\ UNCHANGED <<job, conf, rng, scheme, code, pwd, blob, received, uri, published>>

\* No connection, another status or an empty list: the node is asked next.
HttpGetEmpty(p) ==
    /\ pc[p] = "http_get"
    /\ Go(p, "node_get")
    /\ received' = [received EXCEPT ![p] = NoBlob]
    /\ UNCHANGED <<job, conf, rng, scheme, code, pwd, blob, uri, out, reported, exit, published>>

\* 200 with a body that is no such list, or whose value has no "base64" (its
\* bytes are then no msgpack): an exception leaves main().
HttpGetGarbage(p) ==
    /\ pc[p] = "http_get"
    /\ Exit(p, "abort")
    /\ received' = [received EXCEPT ![p] = NoBlob]
    /\ UNCHANGED <<job, conf, rng, scheme, code, pwd, blob, uri, out, reported, published>>

\* Node::get returned values: the first one is used.
NodeGetFound(p) ==
    /\ pc[p] = "node_get" /\ received[p] # NoBlob
    /\ Deliver(p, received[p])
    /\ UNCHANGED <<job, conf, rng, scheme, code, pwd, blob, received, uri, published>>

\* Nothing found: get returns {true, ""}.
NodeGetEmpty(p) ==
    /\ pc[p] = "node_get" /\ received[p] = NoBlob
    /\ Exit(p, "0")
    /\ UNCHANGED <<job, conf, rng, scheme, code, pwd, blob, received, uri, out, reported, published>>

-----------------------------------------------------------------------------
(* The DHT *)

(***************************************************************************)
(* A put that was requested takes effect: before its answer, after the     *)
(* caller gave it up or was refused, or once more.                         *)
(***************************************************************************)
Land == \E p \in Proc :
    /\ blob[p] # NoBlob
    /\ Publish(Request(p))
    /\ UNCHANGED <<pc, local>>

\* An older client stores a file.
LegacyPut == \E v \in LegacyValues :
    /\ v[2] # <<>>
    /\ Publish(<<v[1], LegacyBlob(v[2])>>)
    /\ UNCHANGED <<pc, local>>

\* Some other program stores a packet.
ForeignPut == \E e \in ForeignPackets :
    /\ Publish(e)
    /\ UNCHANGED <<pc, local>>

Step(p) ==
    \/ EarlyExit(p) \/ InitFails(p)
    \/ StartPaste(p) \/ HttpPutOk(p) \/ HttpPutFail(p) \/ NodePasteOk(p) \/ NodePasteFail(p)
    \/ StartGet(p) \/ Fetch(p) \/ HttpGetFound(p) \/ HttpGetEmpty(p) \/ HttpGetGarbage(p)
    \/ NodeGetFound(p) \/ NodeGetEmpty(p)

Next == (\E p \in Proc : Step(p)) \/ Land \/ LegacyPut \/ ForeignPut

Spec == Init /\ [][Next]_vars

-----------------------------------------------------------------------------
(* Properties *)

TypeOK ==
    /\ pc \in [Proc -> {"start", "http_put", "node_paste", "http_get", "node_get", "exit"}]
    /\ job \in [Proc -> ParsedArgs]
    /\ conf \in [Proc -> Conf]
    /\ rng \in [Proc -> Rng(Streams)]
    /\ scheme \in [Proc -> Scheme]
    /\ code \in [Proc -> Text]
    /\ pwd \in [Proc -> Text]
    /\ blob \in [Proc -> Blob]
    /\ received \in [Proc -> Blob]
    /\ uri \in [Proc -> Text]
    /\ out \in [Proc -> Data]
    /\ reported \in [Proc -> Signer]
    /\ exit \in [Proc -> {"none", "0", "1", "abort"}]
    /\ published \subseteq Pin \X Blob
    /\ \A p \in Proc : params_from_args(job[p]) \in Parameters

\* p made a packet; it is the only one that used its location.
Pasted(p) == blob[p] # NoBlob
Sole(p) ==
    /\ Pasted(p)
    /\ \A q \in Proc \ {p} : Pasted(q) => code[q] # code[p]
    /\ \A v \in LegacyValues : v[1] # code[p]
    /\ \A e \in ForeignPackets : e[1] # code[p]

\* g was given the URI that p printed.
GivenUriOf(g, p) == uri[p] # <<>> /\ code[g] = code[p] \o pwd[p] /\ ~Pasted(g)

Params(p) == params_from_args(job[p])

(***************************************************************************)
(* What a reader of p's paste should see: the file up to MAX_VALUE_SIZE;   *)
(* with the NUL that GPG::encrypt appends; and, for a file that was itself *)
(* an OpenPGP message and was not encrypted again, what that message       *)
(* contains, for Bin::get decrypts whatever looks like one.                *)
(***************************************************************************)
Expected(p) ==
    LET b == data_from_stream(job[p].input)
    IN  CASE Params(p).kind = "GPG" /\ Params(p).recipients # {} -> Append(b, NUL)
          [] Params(p).kind # "AES" /\ Params(p).recipients = {} /\ isGPGencrypted(Plain(b)) -> Tail(b)
          [] OTHER -> b

\* The one case in which a file is encrypted though nobody asked for it: the
\* variable `scheme' was not initialised and held Scheme::AES.
SchemeByChance(p) == Params(p).kind = "null" /\ scheme[p] = "AES"

(***************************************************************************)
(* The URI a paste prints is cut by Bin::get into the very location and    *)
(* password the paste used, whatever number the PIN is, and the packet was *)
(* stored at that location before the URI was printed.                     *)
(***************************************************************************)
UriLeadsToPaste ==
    \A p \in Proc : uri[p] # <<>> =>
        LET c == code_from_dpaste_uri(uri[p])
        IN  /\ ~TooShort(c)
            /\ lcode(c) = code[p]
            /\ pwd_part(c) = pwd[p]
            /\ <<code[p], blob[p]>> \in published

(***************************************************************************)
(* The second attempt of a paste, through the node after an HTTP put that  *)
(* seemed to fail, stores the same bytes: a location nobody else uses only *)
(* ever holds one value, even when both puts took effect, in any order.    *)
(***************************************************************************)
RetryStoresSameBlob ==
    \A p \in Proc : Sole(p) =>
        \A e \in published : e[1] = code[p] => e[2] = blob[p]

(***************************************************************************)
(* A get that was given the URI of a paste alone at its location, and that *)
(* ends well, prints the pasted file or, when the value was not found,     *)
(* nothing; never something else, like its cipher text.                    *)
(***************************************************************************)
RoundTrip ==
    \A g, p \in Proc :
        GivenUriOf(g, p) /\ Sole(p) /\ exit[g] = "0" /\ ~job[g].no_decrypt /\ ~SchemeByChance(p)
            => out[g] \in {Plain(Expected(p)), Empty}

(***************************************************************************)
(* Such a get reports a failure only when it wanted to open an OpenPGP     *)
(* message that is for no key of the reader, or was pasted as a damaged    *)
(* file (cut off at MAX_VALUE_SIZE, say): a password taken from a URI      *)
(* always opens its paste, a signature that dpaste stored can be           *)
(* processed, and no plain file is taken for an encrypted one.             *)
(***************************************************************************)
FailsOnlyIfUnreadable ==
    \A g, p \in Proc :
        GivenUriOf(g, p) /\ Sole(p) /\ exit[g] = "1" =>
            /\ isGPGencrypted(blob[p].data)
            /\ \/ conf[g].secret \cap Readers(blob[p].data) = {}
               \/ data_from_stream(job[p].input) \in DamagedFiles /\ Params(p).recipients = {}
            /\ ~job[g].no_decrypt

(***************************************************************************)
(* A process that was asked to encrypt, with --aes-encrypt or for some     *)
(* recipient, never stores the plain file: the fall-back of prepare_data   *)
(* for an empty cipher text is not taken then, with or without a signature.*)
(***************************************************************************)
EncryptsWhenAsked ==
    \A p \in Proc :
        Pasted(p) /\ (Params(p).kind = "AES" \/ Params(p).recipients # {})
            => blob[p].data.form # "plain"

(***************************************************************************)
(* A signature reaches the reader: a get that was given the URI of a paste *)
(* alone at its location, and shows its file, names the key the file was   *)
(* signed with, alone or inside the encryption, if the reader trusts it,   *)
(* and nobody otherwise.  Two ways to lose the signature on the way are    *)
(* the code's own: with --aes-encrypt none is made, and that of a file     *)
(* that is an OpenPGP message itself is not looked at.                     *)
(***************************************************************************)
SignedWith(p) ==
    IF /\ Params(p).kind = "GPG" /\ Params(p).sign
       /\ Params(p).recipients # {} \/ ~isGPGencrypted(Plain(data_from_stream(job[p].input)))
    THEN conf[p].pgp_key_id ELSE NoKey

SignatureReachesReader ==
    \A g, p \in Proc :
        GivenUriOf(g, p) /\ Sole(p) /\ exit[g] = "0" /\ ~job[g].no_decrypt /\ out[g] # Empty
            => reported[g] = IF SignedWith(p) \in conf[g].trusted THEN SignedWith(p) ELSE NoKey

(***************************************************************************)
(* Where only older clients stored values, as the bare bytes of files that *)
(* msgpack does not take for a map, a get prints one of those files or,    *)
(* when none was found, nothing: the type_error that deserialize throws    *)
(* leaves `data' as it was received.  Once it has such a file it does not  *)
(* fail; what can still end it is an answer of the HTTP service that is no *)
(* list of values.                                                         *)
(***************************************************************************)
OldFilesReadable ==
    \A g \in Proc :
        LET here == {e \in published : e[1] = lcode(code[g])}
            old  == {v \in LegacyValues : MsgpackType[v[2][1]] = "other"}
        IN  /\ job[g].get /\ ~Pasted(g) /\ ~TooShort(code[g])
            /\ here \subseteq {<<v[1], LegacyBlob(v[2])>> : v \in old}
            => /\ exit[g] # "1"
               /\ exit[g] = "abort" => received[g] = NoBlob
               /\ out[g] \in {Plain(e[2].raw) : e \in here} \cup {Empty}

-----------------------------------------------------------------------------
(* What the processes amount to together *)

\* What some reader is shown for a value: its data as it is or opened, its bytes
\* when it is no packet, or nothing.
Opened(d) ==
    CASE d.form \in {"aes", "gpg"}                    -> {Plain(d.body)}
      [] d.form = "plain" /\ isGPGencrypted(d)        -> {Plain(Tail(d.body))}
      [] OTHER                                        -> {}
Renderings(b) == {b.data, Plain(b.raw), Empty} \cup Opened(b.data)

\* What a process is to the Pastebin: the note it wrote, the place it asks for
\* and how it was answered.
NoteOf(p) == IF Pasted(p) THEN <<code[p], blob[p]>> ELSE <<<<>>, NoBlob>>
AskedBy(p) == IF pc[p] \in {"http_get", "node_get"} THEN lcode(code[p]) ELSE <<>>
AnswerTo(p) ==
    [what |-> CASE exit[p] = "none"                    -> "none"
                [] exit[p] \in {"1", "abort"}          -> "failed"
                [] exit[p] = "0" /\ uri[p] # <<>>      -> "posted"
                [] OTHER                               -> "shown",
     place |-> IF uri[p] = <<>> THEN <<>> ELSE lcode(code_from_dpaste_uri(uri[p])),
     text |-> out[p]]

Board == INSTANCE Pastebin WITH
    Client <- Proc,
    NoNote <- <<<<>>, NoBlob>>,
    NoPlace <- <<>>,
    NoText <- Empty,
    Foreign <- {<<v[1], LegacyBlob(v[2])>> : v \in LegacyValues} \cup ForeignPackets,
    Shows <- Renderings,
    note <- [p \in Proc |-> NoteOf(p)],
    asked <- [p \in Proc |-> AskedBy(p)],
    answer <- [p \in Proc |-> AnswerTo(p)],
    board <- published

(***************************************************************************)
(* The processes, the service and the DHT implement the Pastebin: a paste  *)
(* has one packet, which nothing changes once it was sent; its URI leads   *)
(* to the place where that packet is or was; whatever the DHT holds is the *)
(* packet of some paste, an older file or a foreign packet, however often  *)
(* and late requests take effect; a get shows what is up at the place of   *)
(* its code.                                                               *)
(***************************************************************************)
ImplementsPastebin == Board!Spec
=============================================================================
